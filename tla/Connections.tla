---------------------------- MODULE Connections ----------------------------
(***************************************************************************)
(* The connection registry of a Monky server: WebSocketServer.ts with the  *)
(* sign-in sequence of AuthHandler.ts, the visibility part of              *)
(* PresenceHandler.ts and the kick of RoleHandler.ts.                      *)
(*                                                                         *)
(* A handler runs without interruption up to its next await, so one action *)
(* is the code between two awaits, and "stage" is the await at which the   *)
(* sign-in of a connection is suspended.  The TURN probe really waits, and *)
(* one probe is shared by all the sign-ins that arrive while it runs.  The *)
(* database is in memory, so an await on it only yields to handlers that   *)
(* are ready too: another sign-in, a kick, a message that was queued.  The *)
(* event loop delivers socket events and timers once none of them is left. *)
(***************************************************************************)
EXTENDS Integers, FiniteSets

CONSTANTS
  MaxConns,         \* bound: how many sockets ever connect
  Users,            \* user records: a person, or a bot
  Devices,          \* session ids, `userId:deviceId` or `bot:botId`
  UserOf,           \* the user record of each session id
  Bots,             \* the session ids that are bots
  Kickable,         \* the users an administrator may remove: never the owner
  Addresses,        \* client addresses
  Counted,          \* the public ones, which clientAddress() counts
  MaxPerAddress,    \* PREAUTH_MAX_SOCKETS_PER_ADDRESS
  MaxAnonymous,     \* PREAUTH_MAX_SOCKETS
  Hiders,           \* bound: the people who change "appear offline" while connected
  OfflineToggle,    \* bound: do they also change it while disconnected?
  MayClose,         \* bound: is the server shut down?
  None              \* undefined

Conns == 1..MaxConns    \* sockets, numbered in the order they connect

ASSUME ConnectionsAssumption ==
  /\ MaxConns \in Nat /\ MaxPerAddress \in Nat \ {0} /\ MaxAnonymous \in Nat \ {0}
  /\ UserOf \in [Devices -> Users]
  /\ Bots \subseteq Devices /\ Kickable \subseteq Users /\ Counted \subseteq Addresses
  /\ \A b \in Bots, d \in Devices \ Bots : UserOf[b] # UserOf[d]
  /\ Hiders \subseteq Users /\ OfflineToggle \in BOOLEAN /\ MayClose \in BOOLEAN
  /\ None \notin Conns /\ None \notin Devices /\ None \notin Addresses
  /\ Users \cap Devices = {}

VARIABLES
  opened,           \* how many sockets have connected so far
  sock,             \* ws.readyState, "closed" once the close event was handled
  addr,             \* session.ip
  sessions,         \* the sockets in `sessions`
  sid,              \* session.sessionId (with session.user), None until admitted
  replaced,         \* the sessions marked `replaced`
  loggedOut,        \* the sessions marked `intentionalLogout`
  invisible,        \* pending.appearOffline, then session.invisible
  sessionSockets,   \* the socket each session id is bound to
  reconnectTimers,  \* the pending grace of each session id, with its wasInvisible
  anonymous,        \* anonymousSessions: the sessions with countedAnonymous
  perAddress,       \* anonymousPerAddress
  stage,            \* where the sign-in of a connection is suspended
  claim,            \* the session id a sign-in in progress is for
  removed,          \* user records deleted by a kick
  kicking,          \* kicks whose record is deleted and whose devices are not yet out
  choice,           \* the devices whose own setting is "appear offline"
  told,             \* the participants of each client: how its entry of a key is shown
  listed,           \* the member rows of each client: the people it shows as online
  unannounced,      \* history: the devices that left, or came back hidden, with nobody
                    \* told, since they were last announced
  phase             \* "up", then the steps of close()

netVars   == <<opened, sock, addr>>
anonVars  == <<anonymous, perAddress>>
flagVars  == <<replaced, loggedOut, invisible>>
loginVars == <<stage, claim>>
kickVars  == <<removed, kicking>>
clientVars == <<told, listed>>
vars == <<netVars, sessions, sid, flagVars, sessionSockets, reconnectTimers,
          anonVars, loginVars, kickVars, choice, clientVars, unannounced, phase>>

SockStates == {"new", "open", "closing", "closed"}
Stages == {"idle", "probing", "verifying", "admitted", "welcomed", "joined", "ended"}
Shown  == {"absent", "online", "reconnecting", "hidden", "hiddenReconnecting"}
Graces == {"none", "shown", "hidden"}
Phases == {"up", "closing", "quiet", "down"}

\* The keys of participantManager: a session id, or the user id if an update
\* came without one.
Keys == Devices \cup Users
OwnerOf(k) == IF k \in Users THEN k ELSE UserOf[k]
KeysOf(u) == {k \in Keys : OwnerOf(k) = u}

NoView == [k \in Keys |-> "absent"]

Init ==
  /\ opened = 0
  /\ sock = [c \in Conns |-> "new"]
  /\ addr = [c \in Conns |-> None]
  /\ sessions = {}
  /\ sid = [c \in Conns |-> None]
  /\ replaced = {} /\ loggedOut = {} /\ invisible = {}
  /\ sessionSockets = [d \in Devices |-> None]
  /\ reconnectTimers = [d \in Devices |-> "none"]
  /\ anonymous = {}
  /\ perAddress = [a \in Addresses |-> 0]
  /\ stage = [c \in Conns |-> "idle"]
  /\ claim = [c \in Conns |-> None]
  /\ removed = {} /\ kicking = {}
  /\ choice = {}
  /\ told = [c \in Conns |-> NoView]
  /\ listed = [c \in Conns |-> {}]
  /\ unannounced = {}
  /\ phase = "up"

-----------------------------------------------------------------------------
(* What the handlers ask of the registry.                                  *)

\* No handler is ready to go on: the event loop turns to sockets and timers.
LoopFree == /\ kicking = {}
            /\ \A c \in Conns : stage[c] \notin {"verifying", "admitted", "welcomed"}

\* A sign-in that goes on after an await without looking, or during shutdown.
NoRecheck(c) == phase = "up"
LiveWhileClosing(c) == c \in sessions /\ sock[c] = "open"

isLive(c) == phase = "up" /\ c \in sessions /\ sock[c] = "open"

\* MessageRouter.dispatch ignores a connection let go.  Messages of one
\* connection are handled in order, so none is while its sign-in is suspended.
mayHandle(c) == /\ phase = "up" /\ c \in sessions /\ c \notin replaced
                /\ stage[c] \in {"idle", "joined", "ended"}

userOf(c) == UserOf[sid[c]]

\* getSessionsOfUser: the registered connections a person is signed in from.
sessionsOfUser(u) == {c \in sessions : sid[c] # None /\ userOf(c) = u}

\* An app opens a socket for each attempt to connect and talks on the newest.
Newest(c, d) == \A b \in Conns : claim[b] = d => b <= c

DevicesOf(u) == {d \in Devices : UserOf[d] = u}

-----------------------------------------------------------------------------
(* Outbox.publish, and what the clients make of each event.  An event that *)
(* reaches a client ahead of its AUTH_SUCCESS is overwritten by it, and a  *)
(* bot keeps no member list.                                               *)

Audience == {c \in sessions :
               /\ sock[c] = "open" /\ sid[c] # None /\ c \notin replaced
               /\ stage[c] \in {"welcomed", "joined"} /\ sid[c] \notin Bots}

\* Event e, a map from how an entry was shown to how it is shown now, about
\* the keys D reaches the connections R.
Deliver(view, R, D, e) ==
  [c \in Conns |-> IF c \in R
     THEN [k \in Keys |-> IF k \in D THEN e[view[c][k]] ELSE view[c][k]]
     ELSE view[c]]

USER_JOINED  == [v \in Shown |-> "online"]
USER_LEFT    == [v \in Shown |-> "absent"]
Reconnecting == [v \in Shown |-> CASE v = "online" -> "reconnecting"
                                    [] v = "hidden" -> "hiddenReconnecting" [] OTHER -> v]
BackOnline   == [v \in Shown |-> CASE v = "reconnecting" -> "online"
                                    [] v = "hiddenReconnecting" -> "hidden" [] OTHER -> v]

\* USER_UPDATED replaces the status of every entry of the person, and leaves
\* alone whether it is reconnecting.
Hidden  == [v \in Shown |-> CASE v = "online" -> "hidden"
                               [] v = "reconnecting" -> "hiddenReconnecting" [] OTHER -> v]
Visible == [v \in Shown |-> CASE v = "hidden" -> "online"
                               [] v = "hiddenReconnecting" -> "reconnecting" [] OTHER -> v]
NewHidden == [v \in Shown |-> "hidden"]

\* The clients of R without an entry of this person.
Unaware(view, R, u) == {c \in R : \A k \in KeysOf(u) : view[c][k] = "absent"}

\* updateUser: a client without an entry of the person adds one, under the user
\* id if the update is of somebody hidden and so has no session.
UpdateHidden(view, R, u) ==
  Deliver(Deliver(view, R, KeysOf(u), Hidden), Unaware(view, R, u), {u}, NewHidden)
UpdateVisible(view, R, u, d) ==
  Deliver(Deliver(view, R, KeysOf(u), Visible), Unaware(view, R, u), {d}, USER_JOINED)

addMember(rows, R, u)    == [c \in Conns |-> IF c \in R THEN rows[c] \cup {u} ELSE rows[c]]
removeMember(rows, R, u) == [c \in Conns |-> IF c \in R THEN rows[c] \ {u} ELSE rows[c]]

\* A client that is gone shows nothing.
Forget(view, R) == [c \in Conns |-> IF c \in R THEN NoView ELSE view[c]]
ForgetRows(R)   == [c \in Conns |-> IF c \in R THEN {} ELSE listed[c]]

\* USER_LEFT of device d reaches R: its entry goes, and the member row with the
\* last entry of the person.
Leave(view, rows, R, d) ==
  /\ told' = Deliver(view, R, {d}, USER_LEFT)
  /\ listed' = removeMember(rows, Unaware(told', R, UserOf[d]), UserOf[d])

-----------------------------------------------------------------------------
(* Anonymous sockets and the release of a connection.                      *)

\* settleAnonymous for each of R: the connection authenticated or is gone.
AnonymousFrom(R, a) == {c \in R \cap anonymous : addr[c] = a /\ a \in Counted}

\* A settleAnonymous that forgets countedAnonymous counts a connection out twice.
AnyFrom(R, a) == {c \in R : addr[c] = a /\ a \in Counted}
CountedTwice(R, a) ==
  LET remaining == perAddress[a] - Cardinality(AnyFrom(R, a))
  IN  IF remaining > 0 THEN remaining ELSE 0

SettledCount(R, a) ==
  LET remaining == perAddress[a] - Cardinality(AnonymousFrom(R, a))
  IN  IF remaining > 0 THEN remaining ELSE 0
settleAnonymous(R) ==
  /\ anonymous' = anonymous \ R
  /\ perAddress' = [a \in Addresses |-> SettledCount(R, a)]

\* Dropping the mapping of the device whoever owns it now.
UnbindDevice(R) ==
  [d \in Devices |-> IF \E c \in R : sid[c] = d THEN None ELSE sessionSockets[d]]

\* The mapping goes only if it is this connection's: a newer connection of the
\* same device may already own it.
Unbind(R) == [d \in Devices |-> IF sessionSockets[d] \in R THEN None ELSE sessionSockets[d]]

Release(R) ==
  /\ sessions' = sessions \ R
  /\ sessionSockets' = Unbind(R)
  /\ settleAnonymous(R)

\* ws.close() or ws.terminate(): the close event is still to come.
Closing(R) == [c \in Conns |-> IF c \in R /\ sock[c] = "open" THEN "closing" ELSE sock[c]]

\* A disconnection handled for whoever was let go before, or during shutdown.
LostEvenReplaced(c) == sid[c] # None /\ phase = "up"
LostWhileClosing(c) == c \in sessions /\ c \notin replaced /\ sid[c] # None

\* A connection already let go was handled by whoever let it go, and one lost
\* during shutdown is not announced.
Lost(c) == c \in sessions /\ c \notin replaced /\ sid[c] # None /\ phase = "up"

LeavesAtOnce(c) == c \in loggedOut \/ sid[c] \in Bots

\* A timer that reads the flag of a session that is already reclaimed.
ReclaimedFlag(c) == "hidden"
wasInvisible(c) == IF c \in invisible THEN "hidden" ELSE "shown"

handleDisconnect(c) ==
  LET d    == sid[c]
      rest == Audience \ {c}
      view == Forget(told, {c})
      seen == Lost(c) /\ c \notin invisible
  IN  /\ Release({c})
      /\ reconnectTimers' = IF Lost(c) /\ ~LeavesAtOnce(c)
           THEN [reconnectTimers EXCEPT ![d] = wasInvisible(c)] ELSE reconnectTimers
      /\ IF seen /\ LeavesAtOnce(c)
           THEN Leave(view, ForgetRows({c}), rest, d)
           ELSE /\ told' = IF seen THEN Deliver(view, rest, {d}, Reconnecting) ELSE view
                /\ listed' = ForgetRows({c})
      /\ unannounced' = IF Lost(c) /\ c \in invisible THEN unannounced \cup {d} ELSE unannounced

-----------------------------------------------------------------------------
(* Sockets.                                                                *)

\* A full server drops its oldest waiting connection, not the newest.
Crowding == {c \in anonymous : Cardinality(anonymous) >= MaxAnonymous
                               /\ \A b \in anonymous : c <= b}

\* The 'connection' handler of setupWss: an address over its cap is refused.
connection(a) ==
  LET c == opened + 1
      over == a \in Counted /\ perAddress[a] >= MaxPerAddress
  IN  /\ LoopFree /\ phase # "down" /\ opened < MaxConns
      /\ opened' = c
      /\ addr' = [addr EXCEPT ![c] = a]
      /\ IF over
           THEN /\ sock' = [sock EXCEPT ![c] = "closed"]
                /\ UNCHANGED <<sessions, anonVars>>
           ELSE /\ sock' = [Closing(Crowding) EXCEPT ![c] = "open"]
                /\ sessions' = sessions \cup {c}
                /\ anonymous' = (anonymous \ Crowding) \cup {c}
                /\ perAddress' = [b \in Addresses |->
                     SettledCount(Crowding, b) + (IF b = a /\ a \in Counted THEN 1 ELSE 0)]
      /\ UNCHANGED <<sid, flagVars, sessionSockets, reconnectTimers, loginVars,
                     kickVars, choice, clientVars, phase, unannounced>>

\* The peer leaves, or send() terminates one that stopped reading.
PeerCloses(c) ==
  /\ LoopFree /\ sock[c] = "open"
  /\ sock' = [sock EXCEPT ![c] = "closing"]
  /\ UNCHANGED <<opened, addr, sessions, sid, flagVars, sessionSockets, reconnectTimers,
                 anonVars, loginVars, kickVars, choice, clientVars, phase, unannounced>>

\* A deadline that the first answer clears, right or wrong.
deadlineUntilAnswer(c) ==
  /\ LoopFree /\ c \in anonymous /\ sid[c] = None /\ claim[c] = None /\ sock[c] = "open"
  /\ sock' = [sock EXCEPT ![c] = "closing"]
  /\ UNCHANGED <<opened, addr, sessions, sid, flagVars, sessionSockets, reconnectTimers,
                 anonVars, loginVars, kickVars, choice, clientVars, phase, unannounced>>

\* The authentication deadline closes a connection that is still anonymous.
authDeadline(c) ==
  /\ LoopFree /\ c \in anonymous /\ sid[c] = None /\ sock[c] = "open"
  /\ sock' = [sock EXCEPT ![c] = "closing"]
  /\ UNCHANGED <<opened, addr, sessions, sid, flagVars, sessionSockets, reconnectTimers,
                 anonVars, loginVars, kickVars, choice, clientVars, phase, unannounced>>

\* The 'close' event of the socket.
closeEvent(c) ==
  /\ LoopFree /\ sock[c] = "closing"
  /\ sock' = [sock EXCEPT ![c] = "closed"]
  /\ handleDisconnect(c)
  /\ UNCHANGED <<opened, addr, sid, flagVars, loginVars, kickVars, choice, phase>>

\* checkLiveness gives up on a silent peer, or the socket fails ('error'): the
\* connection is let go at once and its close event comes later.
checkLiveness(c) ==
  /\ LoopFree /\ c \in sessions
  /\ sock' = Closing({c})
  /\ handleDisconnect(c)
  /\ UNCHANGED <<opened, addr, sid, flagVars, loginVars, kickVars, choice, phase>>

\* The grace of a dropped device ends without it having come back.
graceExpires(d) ==
  /\ LoopFree /\ reconnectTimers[d] # "none"
  /\ reconnectTimers' = [reconnectTimers EXCEPT ![d] = "none"]
  /\ IF sessionSockets[d] = None /\ reconnectTimers[d] = "shown"
       THEN Leave(told, listed, Audience, d) ELSE UNCHANGED clientVars
  /\ UNCHANGED <<netVars, sessions, sid, flagVars, sessionSockets, anonVars, loginVars,
                 kickVars, choice, phase, unannounced>>

-----------------------------------------------------------------------------
(* Signing in: AuthHandler.answerChallenge, await by await.                *)

\* The signed challenge arrives; the sign-in waits for the TURN probe.  Nothing
\* was queued ahead of it: its nonce is the answer to the message before it.
answerChallenge(c, d) ==
  /\ LoopFree /\ mayHandle(c) /\ stage[c] = "idle" /\ sock[c] = "open" /\ Newest(c, d)
  /\ stage' = [stage EXCEPT ![c] = "probing"]
  /\ claim' = [claim EXCEPT ![c] = d]
  /\ invisible' = IF d \in choice \ Bots THEN invisible \cup {c} ELSE invisible \ {c}
  /\ UNCHANGED <<netVars, sessions, sid, replaced, loggedOut, sessionSockets,
                 reconnectTimers, anonVars, kickVars, choice, clientVars, phase, unannounced>>

\* The user record is read; one that was deleted is not found, and its person
\* would join under a new record.
probed(c) ==
  /\ stage[c] = "probing"
  /\ stage' = [stage EXCEPT ![c] = IF ~isLive(c) THEN "ended"
                                   ELSE IF UserOf[claim[c]] \in removed THEN "idle"
                                   ELSE "verifying"]
  /\ UNCHANGED <<netVars, sessions, sid, flagVars, sessionSockets, reconnectTimers,
                 anonVars, claim, kickVars, choice, clientVars, phase, unannounced>>

\* AuthService refuses the sign-in, or the connection was let go meanwhile.
refused(c) ==
  /\ stage[c] = "verifying"
  /\ stage' = [stage EXCEPT ![c] = IF isLive(c) THEN "idle" ELSE "ended"]
  /\ UNCHANGED <<netVars, sessions, sid, flagVars, sessionSockets, reconnectTimers,
                 anonVars, claim, kickVars, choice, clientVars, phase, unannounced>>

\* replaceConnection: the older connection of this device.
Stale(c) == {sessionSockets[claim[c]]} \ {None, c}

\* A device comes back with "appear offline" while the others have it shown: it
\* takes the place of a visible connection, or ends the grace of one.
ReturnsHidden(c) ==
  /\ c \in invisible
  /\ reconnectTimers[claim[c]] = "shown" \/ \E s \in Stale(c) : s \notin invisible

\* The connection becomes its device's: the older one is let go silently, the
\* grace ends, and the others learn that a reconnecting device is back.
admitted(c) ==
  LET d == claim[c]
  IN  /\ stage[c] = "verifying" /\ isLive(c)
      /\ stage' = [stage EXCEPT ![c] = "admitted"]
      /\ sid' = [sid EXCEPT ![c] = d]
      /\ replaced' = replaced \cup (Stale(c) \cap sessions)
      /\ sessions' = sessions \ Stale(c)
      /\ sock' = Closing(Stale(c))
      /\ sessionSockets' = [Unbind(Stale(c)) EXCEPT ![d] = c]
      /\ settleAnonymous(Stale(c) \cup {c})
      /\ reconnectTimers' = IF d \in Bots THEN reconnectTimers
                            ELSE [reconnectTimers EXCEPT ![d] = "none"]
      /\ told' = LET view == Forget(told, Stale(c))
                 IN  IF d \notin Bots /\ reconnectTimers[d] # "none" /\ c \notin invisible
                       THEN Deliver(view, Audience \ (Stale(c) \cup {c}), {d}, BackOnline)
                       ELSE view
      /\ listed' = ForgetRows(Stale(c))
      /\ unannounced' = IF ReturnsHidden(c) THEN unannounced \cup {d} ELSE unannounced
      /\ UNCHANGED <<opened, addr, loggedOut, invisible, claim, kickVars, choice, phase>>

\* The members AUTH_SUCCESS carries, read when it is sent.
Roster(c) == {s \in sessions : sid[s] # None /\ (s \notin invisible \/ userOf(s) = userOf(c))}
RosterView(c) == [k \in Keys |-> IF \E s \in Roster(c) : sid[s] = k THEN "online" ELSE "absent"]

\* AUTH_SUCCESS.  A bot is announced along with it; a person is after one more
\* await, the bot settings they may see.
welcomed(c) ==
  LET isBot == sid[c] \in Bots
      on    == isLive(c) /\ ~(isBot /\ c \in replaced)
  IN  /\ stage[c] = "admitted"
      /\ stage' = [stage EXCEPT ![c] = IF ~on THEN "ended"
                                       ELSE IF isBot THEN "joined" ELSE "welcomed"]
      /\ told' = CASE on /\ isBot  -> Deliver(told, Audience \ {c}, {sid[c]}, USER_JOINED)
                   [] on /\ ~isBot -> [told EXCEPT ![c] = RosterView(c)]
                   [] OTHER        -> told
      /\ listed' = CASE on /\ isBot  -> addMember(listed, Audience \ {c}, userOf(c))
                     [] on /\ ~isBot -> [listed EXCEPT ![c] = {userOf(s) : s \in Roster(c)}]
                     [] OTHER        -> listed
      /\ UNCHANGED <<netVars, sessions, sid, flagVars, sessionSockets, reconnectTimers,
                     anonVars, claim, kickVars, choice, phase, unannounced>>

\* setVisibility(c, hide): every registered device of the person at once.  Each
\* of their own apps adopts the choice and goes on showing them.  The others
\* hide or show every entry they keep, also of a device that is gone; when that
\* is a change, the registered devices are announced after it.
ThisDevice(c) == {c}    \* the choice applied to the device that made it only
Mates(c) == sessionsOfUser(userOf(c))
Differs(c, hide) == \E s \in Mates(c) : (s \in invisible) # hide
VisibilityOf(c, hide) == IF hide THEN invisible \cup Mates(c) ELSE invisible \ Mates(c)
ChoiceOf(c, hide) ==
  LET apps == {sid[s] : s \in (Mates(c) \cap Audience)}
  IN  IF hide THEN choice \cup apps ELSE choice \ apps
Strangers(c) == {v \in Audience : userOf(v) # userOf(c)}
Announced(c, hide) == IF ~hide /\ Differs(c, hide) THEN {sid[s] : s \in Mates(c)} ELSE {}
ViewOf(c, hide) ==
  IF hide THEN UpdateHidden(told, Strangers(c), userOf(c))
  ELSE Deliver(UpdateVisible(told, Audience, userOf(c), sid[c]), Audience,
               Announced(c, hide), USER_JOINED)
RowsOf(c, hide) == IF hide THEN removeMember(listed, Strangers(c), userOf(c))
                   ELSE addMember(listed, Audience, userOf(c))

\* The rest of answerChallenge after sendSettingsList: the other devices take
\* this one's visibility, then USER_JOINED.  Nothing is checked after the await.
joined(c) ==
  LET hide == c \in invisible
      view == IF Differs(c, hide) THEN ViewOf(c, hide) ELSE told
      rows == IF Differs(c, hide) THEN RowsOf(c, hide) ELSE listed
      own  == IF ~hide /\ sessionSockets[sid[c]] = c THEN {sid[c]} ELSE {}
  IN  /\ stage[c] = "welcomed"
      /\ stage' = [stage EXCEPT ![c] = "joined"]
      /\ invisible' = IF Differs(c, hide) THEN VisibilityOf(c, hide) ELSE invisible
      /\ choice' = IF Differs(c, hide) THEN ChoiceOf(c, hide) ELSE choice
      /\ told' = IF hide THEN view ELSE Deliver(view, Audience \ {c}, {sid[c]}, USER_JOINED)
      /\ listed' = IF hide THEN rows ELSE addMember(rows, Audience \ {c}, userOf(c))
      /\ unannounced' = unannounced \ (Announced(c, hide) \cup own)
      /\ UNCHANGED <<netVars, sessions, sid, replaced, loggedOut, sessionSockets,
                     reconnectTimers, anonVars, claim, kickVars, phase>>

-----------------------------------------------------------------------------
(* Signed-in people.                                                       *)

FromApp(c) == mayHandle(c) /\ sid[c] # None /\ sid[c] \notin Bots /\ Newest(c, sid[c])

\* USER_UPDATE_VISIBILITY: the app saves the choice and tells the server.
setVisibility(c, hide) ==
  /\ FromApp(c) /\ userOf(c) \in Hiders
  /\ invisible' = VisibilityOf(c, hide)
  /\ choice' = IF hide THEN ChoiceOf(c, hide) \cup {sid[c]} ELSE ChoiceOf(c, hide) \ {sid[c]}
  /\ told' = ViewOf(c, hide)
  /\ listed' = RowsOf(c, hide)
  /\ unannounced' = unannounced \ Announced(c, hide)
  /\ UNCHANGED <<netVars, sessions, sid, replaced, loggedOut, sessionSockets,
                 reconnectTimers, anonVars, loginVars, kickVars, phase>>

\* The person changes the choice while their app is disconnected: saved only.
toggleOffline(d) ==
  /\ OfflineToggle /\ d \notin Bots
  /\ \A c \in Conns : sock[c] = "open" => claim[c] # d
  /\ choice' = IF d \in choice THEN choice \ {d} ELSE choice \cup {d}
  /\ UNCHANGED <<netVars, sessions, sid, flagVars, sessionSockets, reconnectTimers,
                 anonVars, loginVars, kickVars, clientVars, phase, unannounced>>

\* USER_LOGOUT only marks the connection; its socket closes next.
logout(c) ==
  /\ FromApp(c)
  /\ loggedOut' = loggedOut \cup {c}
  /\ UNCHANGED <<netVars, sessions, sid, replaced, invisible, sessionSockets,
                 reconnectTimers, anonVars, loginVars, kickVars, choice, clientVars, phase,
                 unannounced>>

\* kick, up to deleteMember: somebody else's record is deleted.
kick(c, u) ==
  /\ FromApp(c) /\ userOf(c) # u
  /\ u \in Kickable \ removed
  /\ removed' = removed \cup {u}
  /\ kicking' = kicking \cup {u}
  /\ UNCHANGED <<netVars, sessions, sid, flagVars, sessionSockets, reconnectTimers,
                 anonVars, loginVars, choice, clientVars, phase, unannounced>>

\* The rest of kick: MEMBER_KICKED to everyone, then closeSessionsOfUser clears
\* the grace of every device of that person and lets all their connections go.
ClearGraces(u) == [d \in Devices |-> IF UserOf[d] = u THEN "none" ELSE reconnectTimers[d]]

kicked(u) ==
  LET out == sessionsOfUser(u)
  IN  /\ u \in kicking
      /\ kicking' = kicking \ {u}
      /\ replaced' = replaced \cup out
      /\ Release(out)
      /\ sock' = Closing(out)
      /\ reconnectTimers' = ClearGraces(u)
      /\ told' = Deliver(Forget(told, out), Audience \ out, KeysOf(u), USER_LEFT)
      /\ listed' = removeMember(ForgetRows(out), Audience \ out, u)
      /\ UNCHANGED <<opened, addr, sid, loggedOut, invisible, loginVars, removed, choice, phase,
                     unannounced>>

\* disconnectBot: a bot whose access was revoked or changed leaves at once.
disconnectBot(d) ==
  LET out == {sessionSockets[d]} \ {None}
  IN  /\ phase = "up" /\ d \in Bots /\ out # {}
      /\ replaced' = replaced \cup out
      /\ Release(out)
      /\ sock' = Closing(out)
      /\ Leave(told, listed, Audience \ out, d)
      /\ UNCHANGED <<opened, addr, sid, loggedOut, invisible, reconnectTimers, loginVars,
                     kickVars, choice, phase, unannounced>>

-----------------------------------------------------------------------------
(* close(): `closing` stops new work, then the deferred releases run in    *)
(* reverse order: the timers, later the transport.                         *)

close ==
  /\ MayClose /\ phase = "up"
  /\ phase' = "closing"
  /\ UNCHANGED <<netVars, sessions, sid, flagVars, sessionSockets, reconnectTimers,
                 anonVars, loginVars, kickVars, choice, clientVars, unannounced>>

closeTimers ==
  /\ phase = "closing"
  /\ phase' = "quiet"
  /\ settleAnonymous(sessions)
  /\ reconnectTimers' = [d \in Devices |-> "none"]
  /\ UNCHANGED <<netVars, sessions, sid, flagVars, sessionSockets, loginVars, kickVars,
                 choice, clientVars, unannounced>>

closeTransport ==
  /\ phase = "quiet"
  /\ phase' = "down"
  /\ sock' = Closing(Conns)
  /\ UNCHANGED <<opened, addr, sessions, sid, flagVars, sessionSockets, reconnectTimers,
                 anonVars, loginVars, kickVars, choice, clientVars, unannounced>>

\* Nothing is left to do.
stopped ==
  /\ phase = "down" /\ kicking = {}
  /\ \A c \in Conns : sock[c] \in {"new", "closed"} /\ stage[c] \in {"idle", "joined", "ended"}
  /\ UNCHANGED vars

Handlers(c) == probed(c) \/ refused(c) \/ admitted(c) \/ welcomed(c) \/ joined(c)

Next ==
  \/ \E a \in Addresses : connection(a)
  \/ \E c \in Conns :
       \/ PeerCloses(c) \/ authDeadline(c) \/ closeEvent(c) \/ checkLiveness(c)
       \/ \E d \in Devices : answerChallenge(c, d)
       \/ Handlers(c)
       \/ \E hide \in BOOLEAN : setVisibility(c, hide)
       \/ logout(c)
       \/ \E u \in Users : kick(c, u)
  \/ \E d \in Devices : graceExpires(d) \/ toggleOffline(d) \/ disconnectBot(d)
  \/ \E u \in Users : kicked(u)
  \/ close \/ closeTimers \/ closeTransport \/ stopped

\* What the event loop owes: a suspended handler resumes, a shutdown that
\* started goes on, and a socket that reports its close and a timer that is due
\* are served however often ready handlers go first.
Fairness ==
  /\ \A c \in Conns : WF_vars(Handlers(c)) /\ SF_vars(closeEvent(c)) /\ SF_vars(authDeadline(c))
  /\ \A d \in Devices : SF_vars(graceExpires(d))
  /\ \A u \in Users : WF_vars(kicked(u))
  /\ WF_vars(closeTimers) /\ WF_vars(closeTransport)

Spec == Init /\ [][Next]_vars
FairSpec == Spec /\ Fairness

-----------------------------------------------------------------------------
(* Correctness.                                                            *)

\* A sign-in in progress is for a device, and past its admission it has a user.
SignInOfUser == \A c \in Conns :
  /\ stage[c] \in {"probing", "verifying"} => claim[c] # None
  /\ stage[c] \in {"admitted", "welcomed"} => sid[c] # None

TypeOK ==
  /\ opened \in 0..MaxConns
  /\ sock \in [Conns -> SockStates]
  /\ addr \in [Conns -> Addresses \cup {None}]
  /\ sessions \subseteq Conns
  /\ sid \in [Conns -> Devices \cup {None}]
  /\ replaced \subseteq Conns /\ loggedOut \subseteq Conns /\ invisible \subseteq Conns
  /\ sessionSockets \in [Devices -> Conns \cup {None}]
  /\ reconnectTimers \in [Devices -> Graces]
  /\ anonymous \subseteq Conns
  /\ perAddress \in [Addresses -> Nat]
  /\ stage \in [Conns -> Stages]
  /\ claim \in [Conns -> Devices \cup {None}]
  /\ removed \subseteq Users /\ kicking \subseteq Users
  /\ choice \subseteq Devices
  /\ told \in [Conns -> [Keys -> Shown]]
  /\ listed \in [Conns -> SUBSET Users]
  /\ unannounced \subseteq Devices \cup {None}
  /\ phase \in Phases
  /\ SignInOfUser

\* The two maps agree through every replacement, kick and late close event: a
\* device is bound to a socket exactly when that socket's session is registered
\* and signed in for it, and then it was not let go.  So a device has at most
\* one connection that receives broadcasts and may act.
IndexAgrees ==
  \A c \in Conns, d \in Devices :
    sessionSockets[d] = c <=> c \in sessions /\ sid[c] = d /\ c \notin replaced

\* The grace of a device never runs while the device is connected, so it cannot
\* announce the departure of somebody who came back.
NoGraceWhileBound ==
  \A d \in Devices : reconnectTimers[d] # "none" => sessionSockets[d] = None

\* Until the server closes, the counters of anonymous sockets are the sockets
\* that wait for authentication, neither leaking nor counting out twice, so the
\* caps hold for the sockets themselves.
AnonymousBounded ==
  phase = "up" =>
    LET waiting == {c \in sessions : sid[c] = None /\ sock[c] = "open"}
    IN  /\ waiting \subseteq anonymous
        /\ \A c \in anonymous : c \in sessions /\ sid[c] = None
        /\ \A a \in Counted : perAddress[a] = Cardinality({c \in anonymous : addr[c] = a})
        /\ \A a \in Counted : Cardinality({c \in waiting : addr[c] = a}) <= MaxPerAddress
        /\ Cardinality(waiting) <= MaxAnonymous

\* No sign-in of this device is between its admission and its announcement, or
\* was cut short there by a socket whose close event is still to come.
SignInSettled(d) ==
  /\ \A c \in Conns : claim[c] = d => stage[c] \notin {"admitted", "welcomed"}
  /\ \A c \in Conns : sessionSockets[d] = c => stage[c] = "joined"

\* Somebody the others may see is connected from device d.
OnShow(d) == sessionSockets[d] # None /\ sessionSockets[d] \notin invisible

\* How a connected client may show a device once its sign-ins are settled.
\* During the grace of a visible device it may show anything: "reconnecting",
\* "absent" if it signed in later, hidden with the person's other devices.  Of a
\* device that left or came back with nobody told it may keep what it had.
MayShow(d) ==
  IF OnShow(d) THEN {"online"}
  ELSE IF reconnectTimers[d] = "shown" \/ d \in unannounced THEN Shown
  ELSE IF sessionSockets[d] # None THEN {"absent", "hidden"}
  ELSE {"absent"}

Viewers(u) == {v \in Audience : userOf(v) # u}

\* Client v shows the devices of person u as the server has them.
ListAgrees(v, u) ==
  \A d \in DevicesOf(u) : SignInSettled(d) => told[v][d] \in MayShow(d)

\* Client v lists person u while one of their devices is on show, and otherwise
\* only for a device in its grace or one that left or came back with nobody
\* told, or for an entry under the user id.
RowAgrees(v, u) ==
  (\A d \in DevicesOf(u) : SignInSettled(d)) =>
    /\ (\E d \in DevicesOf(u) : OnShow(d)) => u \in listed[v]
    /\ u \in listed[v] => \/ told[v][u] # "absent"
                          \/ \E d \in DevicesOf(u) : OnShow(d) \/ reconnectTimers[d] = "shown"
                                                    \/ d \in unannounced

\* Whatever joins, drops, replacements, visibility changes and departures of
\* others crossed its sign-in, every connected client shows whoever is on show
\* and lists them; what it shows besides is left from a drop whose grace runs or
\* from a device that went, or came back hidden, with nobody told.
RostersAgree ==
  phase = "up" => \A u \in Users \ removed : \A v \in Viewers(u) :
                    ListAgrees(v, u) /\ RowAgrees(v, u)

\* "Only drop the member row once the person has no device left online": nobody
\* is listed who has no device connected or in its grace.  It does not hold: an
\* entry of a device that logged out hidden, or one under the user id, is shown
\* again with the person's next update and outlives their last device.
NobodyGoneListed ==
  phase = "up" => \A u \in Users \ removed : \A v \in Viewers(u) :
    u \in listed[v] => \E d \in DevicesOf(u) :
                          sessionSockets[d] # None \/ reconnectTimers[d] # "none"

\* closeSessionsOfUser must not leave a device of a removed person online.  It
\* does not hold: a sign-in that read its record before the kick is admitted.
NoDeviceLeftOnline ==
  phase = "up" => \A u \in removed \ kicking : sessionsOfUser(u) = {}

\* "You will be invisible to all other users": nobody shows the device of a
\* person who signed in with "appear offline".
HiddenNotShown ==
  phase = "up" => \A d \in Devices :
    LET c == sessionSockets[d]
    IN  c # None /\ c \in invisible /\ UserOf[d] \notin removed
          => \A v \in Viewers(UserOf[d]) :
               SignInSettled(d) => told[v][d] \notin {"online", "reconnecting"}

\* Once the transport is closed and every socket reported it, the server holds
\* no connection, no binding, no grace and no anonymous socket.
CleanShutdown ==
  (phase = "down" /\ \A c \in Conns : sock[c] \in {"new", "closed"})
    => /\ sessions = {} /\ anonymous = {}
       /\ \A d \in Devices : sessionSockets[d] = None /\ reconnectTimers[d] = "none"
       /\ \A a \in Addresses : perAddress[a] = 0

\* A connection that was let go never acts as signed in again: it is not
\* registered, bound or signed in under another session id later.
StaysOut == \A c \in Conns : (c \notin sessions /\ c <= opened)
              => /\ c \notin sessions' /\ sid'[c] = sid[c]
                 /\ \A d \in Devices : sessionSockets'[d] = c => sessionSockets[d] = c
NeverReadmitted == [][StaysOut]_vars

\* Seen from outside, each device follows the presence that Presence promises.
status == [d \in Devices |-> IF sessionSockets[d] # None THEN "online"
                             ELSE IF reconnectTimers[d] # "none" THEN "reconnecting"
                             ELSE "offline"]
P == INSTANCE Presence WITH leaving <- {d \in Devices : sessionSockets[d] \in loggedOut},
                            gone <- removed \ kicking,
                            up <- (phase = "up")

\* Replacements, late close events, crossed kicks and the shutdown included,
\* the registry implements Presence.
ImplementsPresence == P!Spec

\* Nobody is shown as reconnecting for ever: the device comes back or leaves,
\* or came back hidden and the others were not told, or the client looking at it
\* is gone, or the server stops.
ReconnectingEnds ==
  \A v \in Conns, d \in Devices :
    (v \in Audience /\ told[v][d] = "reconnecting")
      ~> (v \notin Audience \/ told[v][d] # "reconnecting" \/ d \in unannounced \/ phase # "up")

\* A socket that never signs in does not stay open: the deadline, a crowded
\* server or the shutdown closes it.
AnonymousEnds ==
  \A c \in Conns : (sock[c] = "open" /\ sid[c] = None) ~> (sock[c] # "open" \/ sid[c] # None)
=============================================================================
