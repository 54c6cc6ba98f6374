--------------------------- MODULE ChannelAccess ---------------------------
(***************************************************************************)
(* Who is told what while access to the channels changes: AccessEpoch.ts   *)
(* and the role version of PermissionService.ts, the requests that change  *)
(* access between two of their versions, and the work that compares them:  *)
(* posting a message and publishing it (ChatHandler.ts, Outbox.ts) and     *)
(* catching up a connection that signs in (AuthHandler.ts), all of         *)
(* src/apps/server/src.                                                    *)
(*                                                                         *)
(* The versions are judged by themselves: any await of the work they guard *)
(* may take a turn, whether or not this build's database answers at once.  *)
(* A state that is read and sent on with nothing but database reads        *)
(* between is one step.  One role opens the private channels and stands    *)
(* for every permission a message needs; people are connected once.        *)
(***************************************************************************)
EXTENDS Integers, FiniteSets, Sequences

CONSTANTS
  Users, Channels,
  ChannelEdits,   \* the requests that change a channel or delete it
  RoleEdits,      \* the requests that give somebody the role or take it away
  Posts,          \* the messages somebody sends
  Present,        \* bound: who is signed in when the first request comes
  Apart,          \* bound: messages and sign-ins, which share no state, take turns
  None            \* nobody, or no channel

ASSUME ChannelAccessAssumption ==
  /\ IsFiniteSet(ChannelEdits) /\ IsFiniteSet(RoleEdits)
  /\ ChannelEdits \intersect RoleEdits = {}
  /\ Present \subseteq Users /\ Apart \in BOOLEAN
  /\ None \notin Users \union Channels

Edits == ChannelEdits \union RoleEdits
Null == -1           \* no version

VARIABLES
  rows,         \* the channels as stored
  holders,      \* who holds the role, as stored
  changes, running, generation,        \* AccessEpoch
  roleVersion, roleMutations,          \* PermissionService
  edit,         \* by request, how far it is
  carries,      \* the role state a request read, to be published
  refreshes,    \* screenRolesRefresh: the requests whose turn to publish has not come
  post,         \* by message, how far it is
  conn          \* by person, the connection

Blank == [at |-> "new", author |-> None, channel |-> None, versions |-> <<Null, Null>>,
          row |-> "gone", people |-> {}, asked |-> {}, audience |-> {}]
Empty == [roles |-> {}, channels |-> {}]

vars == <<rows, holders, changes, running, generation, roleVersion, roleMutations,
          edit, carries, refreshes, post, conn>>

stored == <<rows, holders>>
epoch == <<changes, running, generation>>
roleEpoch == <<roleVersion, roleMutations>>

Rows == {"open", "private", "gone"}

\* The rule of a channel for a member: canAccessChannel and hasChannelPermission.
Allows(row, holds) == row = "open" \/ (row = "private" /\ holds)
May(u, c) == Allows(rows[c], u \in holders)
Readers(c) == {u \in Users : May(u, c)}
Visible(u) == {c \in Channels : May(u, c)}

-----------------------------------------------------------------------------
(* Versions.                                                               *)

VersionAlways == changes + generation

\* AccessEpoch.channels: none while a change runs.
Version == IF running > 0 THEN Null ELSE changes + generation

RoleVersion == IF roleMutations = 0 THEN roleVersion ELSE Null

\* captureAccess, and the answer it gives later.
Captured == <<Version, RoleVersion>>
Unchanged(v) == v[1] # Null /\ v[2] # Null /\ v = Captured

-----------------------------------------------------------------------------
(* Requests that change access.                                            *)

\* AccessEpoch.change and withRoleMutation, before the write ...
Begin(e) ==
  /\ edit[e] = "new"
  /\ edit' = [edit EXCEPT ![e] = "begun"]
  /\ IF e \in ChannelEdits
     THEN /\ changes' = changes + 1 /\ running' = running + 1
          /\ UNCHANGED <<generation, roleEpoch>>
     ELSE /\ roleVersion' = roleVersion + 1 /\ roleMutations' = roleMutations + 1
          /\ UNCHANGED epoch
  /\ UNCHANGED <<stored, carries, refreshes, post, conn>>

WriteChannel(e) ==
  /\ e \in ChannelEdits /\ edit[e] = "begun"
  /\ \E c \in Channels, r \in Rows :
       /\ rows[c] # "gone"
       /\ rows' = [rows EXCEPT ![c] = r]
  /\ edit' = [edit EXCEPT ![e] = "written"]
  /\ UNCHANGED <<holders, epoch, roleEpoch, carries, refreshes, post, conn>>

WriteRole(e) ==
  /\ e \in RoleEdits /\ edit[e] = "begun"
  /\ \E u \in Users : holders' \in {holders \union {u}, holders \ {u}}
  /\ edit' = [edit EXCEPT ![e] = "written"]
  /\ UNCHANGED <<rows, epoch, roleEpoch, carries, refreshes, post, conn>>

Finish(e, ends) ==
  /\ edit[e] \in {"begun", "written"}
  /\ edit' = [edit EXCEPT ![e] = IF edit[e] = "written" THEN "ended" ELSE "done"]
  /\ IF e \in ChannelEdits
     THEN /\ changes' = changes + 1 /\ running' = running - ends
          /\ UNCHANGED <<generation, roleEpoch>>
     ELSE /\ roleVersion' = roleVersion + 1 /\ roleMutations' = roleMutations - ends
          /\ UNCHANGED epoch
  /\ UNCHANGED <<stored, carries, refreshes, post, conn>>

EndUnlessRefused(e) == Finish(e, IF edit[e] = "written" THEN 1 ELSE 0)

\* ... and after it, whether it was made, refused or failed (try ... finally).
End(e) == Finish(e, 1)

\* A connection that broadcasts and reconciliations reach: its session has a user.
Registered == {u \in Users : conn[u].at \notin {"out", "proving", "read"}}

\* sendChannels: what the connection was told changes by the difference.
SendChannels(k, now) ==
  [k EXCEPT !.listed = (@ \union (now \ k.visible)) \ (k.visible \ now), !.visible = now]

\* ChannelVisibility.reconcile, where nobody has to be muted in a call.
Reconcile(reached) ==
  [u \in Users |-> IF u \in Registered THEN SendChannels(reached[u], Visible(u)) ELSE reached[u]]

\* A channel was changed or deleted: the lists follow.
FollowChannel(e) ==
  /\ e \in ChannelEdits /\ edit[e] = "ended"
  /\ edit' = [edit EXCEPT ![e] = "done"]
  /\ generation' = generation + 1
  /\ conn' = Reconcile(conn)
  /\ UNCHANGED <<stored, changes, running, roleEpoch, carries, refreshes, post>>

\* broadcastState reads the roles and waits for its turn in refreshScreenRoles ...
ReadRoles(e) ==
  /\ e \in RoleEdits /\ edit[e] = "ended"
  /\ edit' = [edit EXCEPT ![e] = "waiting"]
  /\ generation' = generation + 1
  /\ carries' = [carries EXCEPT ![e] = holders]
  /\ refreshes' = Append(refreshes, e)
  /\ UNCHANGED <<stored, changes, running, roleEpoch, post, conn>>

\* ROLES_LIST to everyone signed in.
Told(roles) == [u \in Users |-> IF u \in Registered THEN [conn[u] EXCEPT !.roles = roles] ELSE conn[u]]

\* ... then tells everyone signed in what it read, and the lists follow.
PublishInAnyOrder(e) ==
  /\ edit[e] = "waiting"
  /\ edit' = [edit EXCEPT ![e] = "done"]
  /\ refreshes' = SelectSeq(refreshes, LAMBDA f : f # e)
  /\ generation' = generation + 1
  /\ conn' = Reconcile(Told(carries[e]))
  /\ carries' = [carries EXCEPT ![e] = {}]
  /\ UNCHANGED <<stored, changes, running, roleEpoch, post>>

PublishRoles(e) ==
  /\ edit[e] = "waiting" /\ refreshes # <<>> /\ e = Head(refreshes)
  /\ edit' = [edit EXCEPT ![e] = "done"]
  /\ refreshes' = Tail(refreshes)
  /\ generation' = generation + 1
  /\ conn' = Reconcile(Told(carries[e]))
  /\ carries' = [carries EXCEPT ![e] = {}]
  /\ UNCHANGED <<stored, changes, running, roleEpoch, post>>

-----------------------------------------------------------------------------
(* A message: saved if its author may still post, then sent to whoever may *)
(* read the channel, unless access moved meanwhile.                        *)

Step(p, to) == post' = [post EXCEPT ![p] = to]
Over(how) == [Blank EXCEPT !.at = how]

\* captureChannelOperation, before anything is read.
Receive(p) ==
  /\ post[p].at = "new" /\ (Apart => \A u \in Users : conn[u].at \in {"out", "in"})
  /\ \E u \in Users, c \in Channels :
       /\ conn[u].at = "in"
       /\ Step(p, [post[p] EXCEPT !.at = "received", !.author = u, !.channel = c, !.versions = Captured])
  /\ UNCHANGED <<stored, epoch, roleEpoch, edit, carries, refreshes, conn>>

\* canUserAccessChannel reads the channel, then the member.
ReadChannel(p) ==
  /\ post[p].at = "received"
  /\ Step(p, IF rows[post[p].channel] = "gone" THEN Over("refused")
             ELSE [post[p] EXCEPT !.at = "channel", !.row = rows[post[p].channel]])
  /\ UNCHANGED <<stored, epoch, roleEpoch, edit, carries, refreshes, conn>>

ReadMember(p) ==
  /\ post[p].at = "channel"
  /\ Step(p, IF Allows(post[p].row, post[p].author \in holders)
             THEN [post[p] EXCEPT !.at = "permitted"] ELSE Over("refused"))
  /\ UNCHANGED <<stored, epoch, roleEpoch, edit, carries, refreshes, conn>>

SaveUnchecked(p) ==
  /\ post[p].at = "permitted"
  /\ Step(p, [post[p] EXCEPT !.at = "saved"])
  /\ UNCHANGED <<stored, epoch, roleEpoch, edit, carries, refreshes, conn>>

\* canSend is asked last, with no await before the message is stored.
Save(p) ==
  /\ post[p].at = "permitted"
  /\ Step(p, IF Unchanged(post[p].versions) THEN [post[p] EXCEPT !.at = "saved"] ELSE Over("refused"))
  /\ UNCHANGED <<stored, epoch, roleEpoch, edit, carries, refreshes, conn>>

\* broadcastToChannel gives up at once while access changes, ...
Broadcast(p) ==
  /\ post[p].at = "saved"
  /\ Step(p, IF Unchanged(Captured) THEN [post[p] EXCEPT !.at = "broadcast", !.versions = Captured]
             ELSE Over("dropped"))
  /\ UNCHANGED <<stored, epoch, roleEpoch, edit, carries, refreshes, conn>>

ReadSummary(p) ==
  /\ post[p].at = "broadcast"
  /\ Step(p, [post[p] EXCEPT !.at = "summary", !.row = rows[post[p].channel]])
  /\ UNCHANGED <<stored, epoch, roleEpoch, edit, carries, refreshes, conn>>

\* ... once the channel is read, for the people connected by then (channelAudience):
Address(p) ==
  /\ post[p].at = "summary"
  /\ Step(p, IF post[p].row # "gone" /\ Unchanged(post[p].versions)
             THEN [post[p] EXCEPT !.at = "audience", !.people = Registered, !.asked = {}, !.audience = {}]
             ELSE Over("dropped"))
  /\ UNCHANGED <<stored, epoch, roleEpoch, edit, carries, refreshes, conn>>

\* each of them is looked up, in any order, ...
Ask(p) ==
  /\ post[p].at = "audience"
  /\ \E u \in post[p].people \ post[p].asked :
       Step(p, [post[p] EXCEPT !.asked = @ \union {u},
                               !.audience = IF Allows(post[p].row, u \in holders) THEN @ \union {u} ELSE @])
  /\ UNCHANGED <<stored, epoch, roleEpoch, edit, carries, refreshes, conn>>

\* ... and once everyone is.
Publish(p) ==
  /\ post[p].at = "audience" /\ post[p].asked = post[p].people
  /\ Step(p, Over(IF Unchanged(post[p].versions) THEN "sent" ELSE "dropped"))
  /\ UNCHANGED <<stored, epoch, roleEpoch, edit, carries, refreshes, conn>>

-----------------------------------------------------------------------------
(* A connection that signs in: its snapshot, and the catching up of one    *)
(* that went stale while it was assembled.                                 *)

Reach(u, k) == conn' = [conn EXCEPT ![u] = k]

\* What it is told replaces what it was told; it is caught up, or found stale.
Ready(k, how) == [k EXCEPT !.at = how, !.versions = <<Null, Null>>, !.snapshot = Empty]

Snapshot(u) == [roles |-> holders, channels |-> Visible(u)]

SignIn(u) ==
  /\ conn[u].at = "out" /\ (Apart => \A p \in Posts : post[p] = Blank)
  /\ Reach(u, [conn[u] EXCEPT !.at = "proving", !.versions = Captured])
  /\ UNCHANGED <<stored, epoch, roleEpoch, edit, carries, refreshes, post>>

ReadSnapshot(u) ==
  /\ conn[u].at = "proving"
  /\ Reach(u, [conn[u] EXCEPT !.at = "read", !.snapshot = Snapshot(u)])
  /\ UNCHANGED <<stored, epoch, roleEpoch, edit, carries, refreshes, post>>

\* The session has a user, and remembers the channels of the snapshot.
Register(u) ==
  /\ conn[u].at = "read"
  /\ Reach(u, [conn[u] EXCEPT !.at = "registered", !.visible = conn[u].snapshot.channels])
  /\ UNCHANGED <<stored, epoch, roleEpoch, edit, carries, refreshes, post>>

\* AUTH_SUCCESS replaces whatever reached the connection before it.
AuthSuccess(u) ==
  /\ conn[u].at = "registered"
  /\ Reach(u, Ready([conn[u] EXCEPT !.roles = conn[u].snapshot.roles,
                                    !.listed = conn[u].snapshot.channels,
                                    !.visible = conn[u].snapshot.channels],
                    IF Unchanged(conn[u].versions) THEN "in" ELSE "stale"))
  /\ UNCHANGED <<stored, epoch, roleEpoch, edit, carries, refreshes, post>>

CaughtUp(k, snapshot) == [Ready(SendChannels(k, snapshot.channels), "in") EXCEPT !.roles = snapshot.roles]

\* resyncLoginAccess reads again, and keeps what it read if access stood still.
ResyncRead(u) ==
  /\ conn[u].at = "stale"
  /\ Reach(u, [conn[u] EXCEPT !.at = "resyncing", !.versions = Captured,
                              !.snapshot = Snapshot(u)])
  /\ UNCHANGED <<stored, epoch, roleEpoch, edit, carries, refreshes, post>>

ResyncSend(u) ==
  /\ conn[u].at = "resyncing"
  /\ Reach(u, IF Unchanged(conn[u].versions) THEN CaughtUp(conn[u], conn[u].snapshot) ELSE Ready(conn[u], "stale"))
  /\ UNCHANGED <<stored, epoch, roleEpoch, edit, carries, refreshes, post>>

\* After LOGIN_RESYNC_WAIT_MS what is read is sent as it stands, at once.
ResyncLate(u) ==
  /\ conn[u].at = "stale"
  /\ Reach(u, CaughtUp(conn[u], Snapshot(u)))
  /\ UNCHANGED <<stored, epoch, roleEpoch, edit, carries, refreshes, post>>

-----------------------------------------------------------------------------
Init ==
  /\ rows \in [Channels -> {"open", "private"}] /\ holders \in SUBSET Users
  /\ changes = 0 /\ running = 0 /\ generation = 0
  /\ roleVersion = 0 /\ roleMutations = 0
  /\ edit = [e \in Edits |-> "new"]
  /\ carries = [e \in RoleEdits |-> {}]
  /\ refreshes = <<>>
  /\ post = [p \in Posts |-> Blank]
  /\ conn = [u \in Users |->
       [at |-> IF u \in Present THEN "in" ELSE "out", versions |-> <<Null, Null>>, snapshot |-> Empty,
        roles |-> IF u \in Present THEN holders ELSE {},
        listed |-> IF u \in Present THEN Visible(u) ELSE {},
        visible |-> IF u \in Present THEN Visible(u) ELSE {}]]

EditNext ==
  \E e \in Edits : Begin(e) \/ WriteChannel(e) \/ WriteRole(e) \/ End(e) \/ FollowChannel(e) \/ ReadRoles(e) \/ PublishRoles(e)

PostNext ==
  \E p \in Posts : Receive(p) \/ ReadChannel(p) \/ ReadMember(p) \/ Save(p) \/ Broadcast(p) \/ ReadSummary(p)
                     \/ Address(p) \/ Ask(p) \/ Publish(p)

ConnNext ==
  \E u \in Users : SignIn(u) \/ ReadSnapshot(u) \/ Register(u) \/ AuthSuccess(u) \/ ResyncRead(u) \/ ResyncSend(u) \/ ResyncLate(u)

Next == EditNext \/ PostNext \/ ConnNext

Spec == Init /\ [][Next]_vars

-----------------------------------------------------------------------------
Versions == {Null} \union Nat

\* Every variable has a value of its type: a step of the versions never leaves
\* the naturals.
TypeOK ==
  /\ rows \in [Channels -> Rows] /\ holders \in SUBSET Users
  /\ {changes, running, generation, roleVersion, roleMutations} \subseteq Nat
  /\ edit \in [Edits -> {"new", "begun", "written", "ended", "waiting", "done"}]
  /\ carries \in [RoleEdits -> SUBSET Users]
  /\ refreshes \in Seq(RoleEdits)
  /\ post \in [Posts -> [at : {"new", "received", "channel", "permitted", "refused", "saved", "broadcast",
                              "summary", "audience", "sent", "dropped"},
                        author : Users \union {None}, channel : Channels \union {None},
                        versions : Versions \X Versions, row : Rows,
                        people : SUBSET Users, asked : SUBSET Users, audience : SUBSET Users]]
  /\ conn \in [Users -> [at : {"out", "proving", "read", "registered", "stale", "resyncing", "in"},
                        versions : Versions \X Versions,
                        snapshot : [roles : SUBSET Users, channels : SUBSET Channels],
                        roles : SUBSET Users, listed : SUBSET Channels, visible : SUBSET Channels]]

\* A message goes out only to those who may read its channel at that moment, and
\* to all of them who were connected when their lookup began, with no change to
\* access under way.  Somebody whose connection is registered later is not told.
OnlyReadersHear ==
  [][\A p \in Posts : post[p].at = "audience" /\ post'[p].at = "sent" =>
       /\ post[p].audience = post[p].people \intersect Readers(post[p].channel)
       /\ \A e \in Edits : edit[e] \notin {"begun", "written"}]_vars

\* A message is saved only while its author may post in its channel.
SavedWithLeave ==
  [][\A p \in Posts : post[p].at = "permitted" /\ post'[p].at = "saved" =>
       May(post[p].author, post[p].channel)]_vars

\* Once no change runs there are versions again, whether the change was made or
\* refused: without them every message would be dropped.
VersionsComeBack ==
  (\A e \in Edits : edit[e] \notin {"begun", "written"}) => Version # Null /\ RoleVersion # Null

Settled == \A e \in Edits : edit[e] \in {"new", "done"}

\* Once no request is under way, whoever has signed in was told the roles as
\* they are and the channels it may see, however its sign-in crossed them.
ToldAsItIs ==
  Settled => \A u \in Users : conn[u].at = "in" =>
               conn[u].roles = holders /\ conn[u].listed = Visible(u)
=============================================================================
