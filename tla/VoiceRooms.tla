----------------------------- MODULE VoiceRooms -----------------------------
(***************************************************************************)
(* Who is in which voice room, and what each connection was told about it: *)
(* VoiceSessionHandler.ts, SignalingService.ts and the channel lists that   *)
(* ChannelVisibility.ts keeps (src/apps/server/src).                        *)
(*                                                                         *)
(* A handler runs to its end in one step, because every read of the        *)
(* database it awaits is answered by microtasks, except where it waits for *)
(* the SFU worker to pause or resume a microphone (applyPermissionMuted).  *)
(* What is left to run after that wait is an entry of `waiting`, and the   *)
(* worker answers in order.  Where calls are peer to peer nothing waits.   *)
(***************************************************************************)
EXTENDS Integers, SequencesExt

CONSTANTS
  Users, Sessions, Rooms,
  UserOf,        \* whose connection a session is
  Governed,      \* the users whose roles change (the others see every room)
  Speakers,      \* the sessions that have a microphone
  None,          \* no room
  MaxWaiting     \* bound: handlers waiting for the worker

ASSUME VoiceRoomsAssumption ==
  /\ UserOf \in [Sessions -> Users]
  /\ Governed \subseteq Users /\ Speakers \subseteq Sessions
  /\ None \notin Rooms
  /\ MaxWaiting \in Nat

VARIABLES
  sfu,       \* the voice mode: microphones go through the worker
  may,       \* by user, the rooms its roles show it (VIEW_CHANNEL)
  order,     \* the signed-in sessions, in the order of the server's Map
  room,      \* voiceStates: the room each session is in
  returns,   \* voiceReturnGrants: the room a dropped socket may return to
  moving,    \* movingOut: the room a session is being moved out of
  mic,       \* the room where a session has a microphone at the worker
  views,     \* by session, what its connection was sent
  waiting    \* what is left of the handlers waiting for the worker

vars == <<sfu, may, order, room, returns, moving, mic, views, waiting>>

Place == Rooms \union {None}

\* What the steps of a handler change.  They follow one another in one action,
\* so each is a function from one of these records to the next.
Now == [may |-> may, order |-> order, room |-> room, returns |-> returns,
        moving |-> moving, mic |-> mic, views |-> views]

Becomes(w) ==
  /\ may' = w.may /\ order' = w.order /\ room' = w.room /\ returns' = w.returns
  /\ moving' = w.moving /\ mic' = w.mic /\ views' = w.views

Online(w) == ToSet(w.order)

\* The server's Map after a session's entry is deleted: the others keep their order.
Without(seq, s) ==
  IF s \in ToSet(seq) THEN RemoveAt(seq, CHOOSE i \in DOMAIN seq : seq[i] = s) ELSE seq

\* The rooms a user is inside, is being moved out of, or may return to.
Presence(w, u) ==
  (UNION {{w.room[s], w.returns[s], w.moving[s]} : s \in {x \in Sessions : UserOf[x] = u}}) \ {None}

Visible(w, u) == w.may[u] \union Presence(w, u)

-----------------------------------------------------------------------------
(* What is sent.  A view holds the rooms a connection has in its list, the *)
(* presence the list was made for, and the room it shows each session in.  *)

NobodyShown == [p \in Sessions |-> None]
Blank == [listed |-> {}, key |-> {}, shows |-> NobodyShown]

\* VOICE_USER_LEFT: to whoever has the room in the list and to the person.
AnnounceDeparture(w, p, r) ==
  [w EXCEPT !.views = [v \in Sessions |->
     IF v \in Online(w) /\ (UserOf[v] = UserOf[p] \/ r \in @[v].listed)
     THEN [@[v] EXCEPT !.shows[p] = None]
     ELSE @[v]]]

\* VOICE_USER_JOINED: to whoever may see the room at that moment.
AnnounceArrival(w, p, r) ==
  [w EXCEPT !.views = [v \in Sessions |->
     IF v \in Online(w) /\ r \in Visible(w, UserOf[v])
     THEN [@[v] EXCEPT !.shows[p] = r]
     ELSE @[v]]]

\* The answer to a join carries everyone in the room, and the client drops
\* whom it still showed there.
AnswerJoin(w, s, r) ==
  [w EXCEPT !.views[s].shows = [p \in Sessions |->
     IF w.room[p] = r THEN r ELSE IF @[p] = r THEN None ELSE @[p]]]

\* (mutant) whoever is inside is not withdrawn with the room.
SendChannelsOnly(w, view, u, now) ==
  [listed |-> now, key |-> Presence(w, u), shows |-> [p \in Sessions |->
     IF UserOf[p] # u /\ w.room[p] \in now \ view.listed THEN w.room[p]
     ELSE view.shows[p]]]

\* The difference between two lists: a room comes with those inside, and they
\* go before it does.  The person's own sessions are left out of both.
SendChannels(w, view, u, now) ==
  [listed |-> now, key |-> Presence(w, u), shows |-> [p \in Sessions |->
     IF UserOf[p] = u THEN view.shows[p]
     ELSE IF w.room[p] \in now \ view.listed THEN w.room[p]
     ELSE IF w.room[p] \in view.listed \ now THEN None
     ELSE view.shows[p]]]

\* A presence pass: the lists made for another presence than today's.
SyncPresence(w) ==
  [w EXCEPT !.views = [v \in Sessions |->
     IF v \in Online(w) /\ @[v].key # Presence(w, UserOf[v])
     THEN SendChannels(w, @[v], UserOf[v], Visible(w, UserOf[v]))
     ELSE @[v]]]

-----------------------------------------------------------------------------
(* The steps of the handlers. *)

\* The one way out of a room, whatever ended the stay.
EndVoice(w, s) ==
  LET r == w.room[s] IN
  IF r = None THEN w
  ELSE AnnounceDeparture([w EXCEPT !.room[s] = None, !.mic[s] = None], s, r)

ClearReturn(w, s) == SyncPresence([w EXCEPT !.returns[s] = None])

\* A join up to the wait: the session is inside at once.
Enter(w, s, r) ==
  LET old == w.room[s]
      inside == [w EXCEPT !.room[s] = r]
  IN SyncPresence(IF old \in {None, r} THEN inside ELSE AnnounceDeparture(inside, s, old))

\* The rest of it.  The answer goes to the connection that asked.
Admit(w, s, r, connected) ==
  LET announced == AnnounceArrival([w EXCEPT !.mic[s] = IF @ = r THEN r ELSE None], s, r)
      answered == IF connected /\ w.room[s] = r THEN AnswerJoin(announced, s, r) ELSE announced
  IN ClearReturn(answered, s)

\* A move on the server's authority, up to the wait.
Carry(w, s, to) == SyncPresence([w EXCEPT !.moving[s] = w.room[s], !.room[s] = to])

\* (mutant) the mark stays when the move is over.
SettleMarked(w, s, from, to, last) ==
  AnnounceArrival(SyncPresence(AnnounceDeparture(
    SyncPresence([w EXCEPT !.mic[s] = None]), s, from)), s, to)

\* The rest of it.  `last`: no later move has replaced the mark in movingOut.
Settle(w, s, from, to, last) ==
  LET left == AnnounceDeparture(SyncPresence([w EXCEPT !.mic[s] = None]), s, from)
      marked == IF last THEN [left EXCEPT !.moving[s] = None] ELSE left
  IN AnnounceArrival(SyncPresence(marked), s, to)

\* A permission pass goes over the sessions in order, with the roles it read at
\* its start, and waits for each microphone it mutes or not.
StopsAt(w, s) == w.room[s] # None /\ w.mic[s] # None

\* The sessions visited until the next wait, or all that are left.
Stretch(w, done) ==
  LET left == {i \in DOMAIN w.order : w.order[i] \notin done}
      reached == {i \in left : \A j \in left : j < i => ~StopsAt(w, w.order[j])}
  IN {w.order[i] : i \in reached}

\* (mutant) the pass goes by roles alone.
ReconcileByRoles(w, roles, done) ==
  [w EXCEPT !.views = [v \in Sessions |->
     IF v \in Stretch(w, done)
     THEN SendChannels(w, @[v], UserOf[v], roles[UserOf[v]])
     ELSE @[v]]]

Reconcile(w, roles, done) ==
  [w EXCEPT !.views = [v \in Sessions |->
     IF v \in Stretch(w, done)
     THEN SendChannels(w, @[v], UserOf[v], roles[UserOf[v]] \union Presence(w, UserOf[v]))
     ELSE @[v]]]

Paused(w, done) == \E s \in Stretch(w, done) : StopsAt(w, s)

-----------------------------------------------------------------------------
(* Signing in, dropping, and the grants a drop leaves. *)

\* The connection an unfinished handler would answer is gone, and the session's
\* next one is another entry of the server's Map.
Forgotten(s) ==
  [i \in DOMAIN waiting |->
     CASE waiting[i].kind = "join" /\ waiting[i].s = s -> [waiting[i] EXCEPT !.connected = FALSE]
       [] waiting[i].kind = "reconcile" -> [waiting[i] EXCEPT !.done = @ \ {s}]
       [] OTHER -> waiting[i]]

\* A new connection, or one that replaces the session's last, which keeps its
\* room.  It is sent the rooms of its person and everyone in them.
SignIn(s) ==
  LET w == [Now EXCEPT !.order = Append(Without(@, s), s)]
      seen == Visible(w, UserOf[s])
      view == [listed |-> seen, key |-> Presence(w, UserOf[s]),
               shows |-> [p \in Sessions |-> IF room[p] \in seen THEN room[p] ELSE None]]
  IN /\ Becomes([w EXCEPT !.views[s] = view])
     /\ waiting' = Forgotten(s)
     /\ UNCHANGED sfu

\* The socket drops: the room is left at once, with a way back for a while.
Drop(s) ==
  LET gone == [Now EXCEPT !.order = Without(@, s), !.views[s] = Blank,
                          !.returns[s] = IF room[s] = None THEN @ ELSE room[s]]
  IN /\ s \in Online(Now)
     /\ Becomes(SyncPresence(EndVoice(gone, s)))
     /\ waiting' = Forgotten(s)
     /\ UNCHANGED sfu

\* Signing out leaves no way back.
Logout(s) ==
  LET gone == [Now EXCEPT !.order = Without(@, s), !.views[s] = Blank]
  IN /\ s \in Online(Now)
     /\ Becomes(ClearReturn(EndVoice(gone, s), s))
     /\ waiting' = Forgotten(s)
     /\ UNCHANGED sfu

\* The reconnection grace ends.
ReturnLapses(s) ==
  /\ returns[s] # None
  /\ Becomes(ClearReturn(Now, s))
  /\ UNCHANGED <<sfu, waiting>>

-----------------------------------------------------------------------------
(* The requests of members. *)

Waits(s) == mic[s] # None

\* A handler goes on to its end, or stops at the worker.
Hold(entry) ==
  /\ Len(waiting) < MaxWaiting
  /\ waiting' = Append(waiting, entry)

Join(s, r) ==
  LET inside == Enter(Now, s, r) IN
  /\ s \in Online(Now)
  /\ r \in Visible(Now, UserOf[s])
  /\ IF Waits(s)
     THEN Becomes(inside) /\ Hold([kind |-> "join", s |-> s, r |-> r, connected |-> TRUE])
     ELSE Becomes(Admit(inside, s, r, TRUE)) /\ UNCHANGED waiting
  /\ UNCHANGED sfu

\* A join the access check refuses still gives up the way back.
JoinRefused(s, r) ==
  /\ s \in Online(Now)
  /\ r \notin Visible(Now, UserOf[s])
  /\ Becomes(ClearReturn(Now, s))
  /\ UNCHANGED <<sfu, waiting>>

\* A leave of the session's own, or a kick by a moderator: both give up the
\* way back and end the stay.
Leave(s) ==
  /\ s \in Online(Now)
  /\ Becomes(SyncPresence(EndVoice(ClearReturn(Now, s), s)))
  /\ UNCHANGED <<sfu, waiting>>

\* A moderator moves s to a room the person need not see (ADMIN_MOVE_USER).
Move(s, to) ==
  LET carried == Carry(Now, s, to) IN
  /\ s \in Online(Now)
  /\ room[s] \notin {None, to}
  /\ IF Waits(s)
     THEN /\ Becomes(carried)
          /\ Hold([kind |-> "move", s |-> s, from |-> room[s], to |-> to])
     ELSE Becomes(Settle(carried, s, room[s], to, TRUE)) /\ UNCHANGED waiting
  /\ UNCHANGED sfu

\* The roles of u change, and a permission pass follows.
ChangeRoles(u, rooms) ==
  LET w == [Now EXCEPT !.may[u] = rooms] IN
  /\ may[u] # rooms
  /\ Becomes(Reconcile(w, w.may, {}))
  /\ IF Paused(w, {})
     THEN Hold([kind |-> "reconcile", roles |-> w.may, done |-> Stretch(w, {})])
     ELSE UNCHANGED waiting
  /\ UNCHANGED sfu

\* In SFU mode a session publishes its microphone in the room it is in; its
\* media in any other room was closed with the transport this one needs.
Publish(s) ==
  /\ sfu /\ s \in Speakers \intersect Online(Now) /\ room[s] # None
  /\ mic' = [mic EXCEPT ![s] = room[s]]
  /\ UNCHANGED <<sfu, may, order, room, returns, moving, views, waiting>>

-----------------------------------------------------------------------------
(* The worker answers, and the oldest waiting handler goes on. *)

JoinGoesOn ==
  LET h == Head(waiting) IN
  /\ waiting # <<>> /\ h.kind = "join"
  /\ Becomes(Admit(Now, h.s, h.r, h.connected))
  /\ waiting' = Tail(waiting)
  /\ UNCHANGED sfu

MoveGoesOn ==
  LET h == Head(waiting)
      later == {i \in 2..Len(waiting) : waiting[i].kind = "move" /\ waiting[i].s = h.s}
  IN
  /\ waiting # <<>> /\ h.kind = "move"
  /\ Becomes(Settle(Now, h.s, h.from, h.to, later = {}))
  /\ waiting' = Tail(waiting)
  /\ UNCHANGED sfu

ReconcileGoesOn ==
  LET h == Head(waiting) IN
  /\ waiting # <<>> /\ h.kind = "reconcile"
  /\ Becomes(Reconcile(Now, h.roles, h.done))
  /\ waiting' = IF Paused(Now, h.done)
                THEN Append(Tail(waiting), [h EXCEPT !.done = @ \union Stretch(Now, h.done)])
                ELSE Tail(waiting)
  /\ UNCHANGED sfu

-----------------------------------------------------------------------------

Init ==
  /\ sfu \in BOOLEAN
  /\ may = [u \in Users |-> Rooms]
  /\ order = <<>>
  /\ room = [s \in Sessions |-> None]
  /\ returns = [s \in Sessions |-> None]
  /\ moving = [s \in Sessions |-> None]
  /\ mic = [s \in Sessions |-> None]
  /\ views = [s \in Sessions |-> Blank]
  /\ waiting = <<>>

Next ==
  \/ \E s \in Sessions :
       \/ SignIn(s)
       \/ Drop(s)
       \/ Logout(s)
       \/ ReturnLapses(s)
       \/ \E r \in Rooms : Join(s, r) \/ JoinRefused(s, r) \/ Move(s, r)
       \/ Leave(s)
       \/ Publish(s)
  \/ \E u \in Governed, rooms \in SUBSET Rooms : ChangeRoles(u, rooms)
  \/ JoinGoesOn
  \/ MoveGoesOn
  \/ ReconcileGoesOn

Spec == Init /\ [][Next]_vars

-----------------------------------------------------------------------------

TypeOK ==
  /\ sfu \in BOOLEAN
  /\ may \in [Users -> SUBSET Rooms]
  /\ order \in Seq(Sessions) /\ IsInjective(order)
  /\ room \in [Sessions -> Place]
  /\ returns \in [Sessions -> Place]
  /\ moving \in [Sessions -> Place]
  /\ mic \in [Sessions -> Place]
  /\ views \in [Sessions -> [listed : SUBSET Rooms, key : SUBSET Rooms, shows : [Sessions -> Place]]]
  /\ Len(waiting) <= MaxWaiting

\* Where calls are peer to peer, every client shows exactly those inside the
\* rooms it lists, and nobody anywhere else, after any sequence of joins,
\* leaves, moves, drops, returns and role changes.
RostersAgree ==
  ~sfu => \A v \in Online(Now), p \in Sessions :
            views[v].shows[p] = IF room[p] \in views[v].listed THEN room[p] ELSE None

\* A person always has the rooms they are inside, are being moved out of or may
\* return to in the list of every connection, whatever a permission pass that
\* started earlier or a move still waiting is doing.
PresenceIsListed ==
  \A v \in Online(Now) : Presence(Now, UserOf[v]) \subseteq views[v].listed

\* The room a session is being moved out of is kept for it only while that move
\* waits: no interleaving of moves leaves someone with a room for good.
MovingIsWaiting ==
  \A s \in Sessions : moving[s] # None =>
    \E i \in DOMAIN waiting : waiting[i].kind = "move" /\ waiting[i].s = s /\ waiting[i].from = moving[s]

\* Nobody who left stays listed for good: once no handler waits, a client shows
\* in a room only sessions that are in voice.
NoGhosts ==
  waiting = <<>> => \A v \in Online(Now), p \in Sessions :
    views[v].shows[p] # None => room[p] # None

\* Once no permission pass is under way, the lists are what the roles and the
\* presence of each person give.  It does not hold: a pass that waited for a
\* microphone sends what it read before a newer pass.
ListsSettle ==
  (\A i \in DOMAIN waiting : waiting[i].kind # "reconcile") =>
    \A v \in Online(Now) : views[v].listed = Visible(Now, UserOf[v])

=============================================================================
