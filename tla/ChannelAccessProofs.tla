------------------------ MODULE ChannelAccessProofs ------------------------
(* The versions of access do what they are for, whatever the number of     *)
(* requests, messages, people and channels: a message reaches nobody who   *)
(* may not read it and is saved for nobody who may not post it.            *)
EXTENDS ChannelAccess, FiniteSetTheorems, SequenceTheorems, TLAPS

Underway(set) == {e \in set : edit[e] \in {"begun", "written"}}

\* The two counters count the changes under way.
CountsAgree ==
  /\ running = Cardinality(Underway(ChannelEdits))
  /\ roleMutations = Cardinality(Underway(RoleEdits))

\* A version handed out is never ahead of the counters it was made from.
Behind(v) ==
  /\ v[1] # Null => v[1] <= changes + generation
  /\ v[2] # Null => v[2] <= roleVersion

VersionsBehind == \A p \in Posts : Behind(post[p].versions)

\* A message that is being handled has an author and a channel, ...
Placed(q) ==
  q.at \notin {"new", "refused", "dropped", "sent"} => q.author \in Users /\ q.channel \in Channels

Addressed == \A p \in Posts : Placed(post[p])

\* ... and while its versions still stand, what it has read still stands.
ReadStands(q) ==
  /\ q.at \in {"channel", "summary", "audience"} => q.row = rows[q.channel]
  /\ q.at = "permitted" => May(q.author, q.channel)
  /\ q.at = "audience" => q.audience = q.asked \intersect Readers(q.channel)

ReadsStand == \A p \in Posts : Unchanged(post[p].versions) => ReadStands(post[p])

IInv == TypeOK /\ CountsAgree /\ VersionsBehind /\ Addressed /\ ReadsStand

-----------------------------------------------------------------------------
(* The counters.                                                           *)

LEMMA UnderwayFinite ==
  /\ IsFiniteSet(Underway(ChannelEdits)) /\ IsFiniteSet(Underway(RoleEdits))
  /\ Cardinality(Underway(ChannelEdits)) \in Nat /\ Cardinality(Underway(RoleEdits)) \in Nat
  /\ IsFiniteSet(Underway(ChannelEdits))' /\ IsFiniteSet(Underway(RoleEdits))'
<1>1. /\ Underway(ChannelEdits) \subseteq ChannelEdits /\ Underway(RoleEdits) \subseteq RoleEdits
      /\ Underway(ChannelEdits)' \subseteq ChannelEdits /\ Underway(RoleEdits)' \subseteq RoleEdits
  BY DEF Underway
<1>2. IsFiniteSet(Underway(ChannelEdits)) /\ IsFiniteSet(Underway(RoleEdits))
  BY <1>1, FS_Subset, ChannelAccessAssumption
<1>3. IsFiniteSet(Underway(ChannelEdits)') /\ IsFiniteSet(Underway(RoleEdits)')
  BY <1>1, FS_Subset, ChannelAccessAssumption
<1>4. QED
  BY <1>2, <1>3, FS_CardinalityType

\* A request under way keeps its counter above zero.
LEMMA UnderwayCounts ==
  ASSUME TypeOK, CountsAgree, NEW e \in Edits, edit[e] \in {"begun", "written"}
  PROVE  /\ e \in ChannelEdits => running >= 1
         /\ e \in RoleEdits => roleMutations >= 1
<1>1. ASSUME e \in ChannelEdits PROVE running >= 1
  <2>1. e \in Underway(ChannelEdits)
    BY <1>1 DEF Underway
  <2>2. Cardinality(Underway(ChannelEdits)) # 0
    BY <2>1, UnderwayFinite, FS_EmptySet
  <2>3. QED
    BY <2>2, UnderwayFinite DEF CountsAgree
<1>2. ASSUME e \in RoleEdits PROVE roleMutations >= 1
  <2>1. e \in Underway(RoleEdits)
    BY <1>2 DEF Underway
  <2>2. Cardinality(Underway(RoleEdits)) # 0
    BY <2>1, UnderwayFinite, FS_EmptySet
  <2>3. QED
    BY <2>2, UnderwayFinite DEF CountsAgree
<1>3. QED
  BY <1>1, <1>2

LEMMA CountsStep ==
  ASSUME TypeOK, CountsAgree, [Next]_vars
  PROVE  CountsAgree'
<1>. USE ChannelAccessAssumption DEF Edits
<1>1. ASSUME NEW e \in Edits, Begin(e) PROVE CountsAgree'
  <2>1. /\ e \in ChannelEdits => /\ Underway(ChannelEdits)' = Underway(ChannelEdits) \union {e}
                                 /\ e \notin Underway(ChannelEdits)
                                 /\ Underway(RoleEdits)' = Underway(RoleEdits)
        /\ e \notin ChannelEdits => /\ Underway(RoleEdits)' = Underway(RoleEdits) \union {e}
                                    /\ e \notin Underway(RoleEdits)
                                    /\ Underway(ChannelEdits)' = Underway(ChannelEdits)
    BY <1>1 DEF Begin, Underway, TypeOK
  <2>2. CASE e \in ChannelEdits
    <3>1. Cardinality(Underway(ChannelEdits) \union {e}) = Cardinality(Underway(ChannelEdits)) + 1
      BY <2>1, <2>2, UnderwayFinite, FS_AddElement
    <3>2. QED
      BY <1>1, <2>1, <2>2, <3>1 DEF Begin, CountsAgree, roleEpoch
  <2>3. CASE e \notin ChannelEdits
    <3>1. Cardinality(Underway(RoleEdits) \union {e}) = Cardinality(Underway(RoleEdits)) + 1
      BY <2>1, <2>3, UnderwayFinite, FS_AddElement
    <3>2. QED
      BY <1>1, <2>1, <2>3, <3>1 DEF Begin, CountsAgree, epoch
  <2>4. QED
    BY <2>2, <2>3
<1>2. ASSUME NEW e \in Edits, End(e) PROVE CountsAgree'
  <2>1. /\ e \in ChannelEdits => /\ Underway(ChannelEdits)' = Underway(ChannelEdits) \ {e}
                                 /\ e \in Underway(ChannelEdits)
                                 /\ Underway(RoleEdits)' = Underway(RoleEdits)
        /\ e \notin ChannelEdits => /\ Underway(RoleEdits)' = Underway(RoleEdits) \ {e}
                                    /\ e \in Underway(RoleEdits)
                                    /\ Underway(ChannelEdits)' = Underway(ChannelEdits)
    BY <1>2 DEF End, Finish, Underway, TypeOK
  <2>2. CASE e \in ChannelEdits
    <3>1. Cardinality(Underway(ChannelEdits) \ {e}) = Cardinality(Underway(ChannelEdits)) - 1
      BY <2>1, <2>2, UnderwayFinite, FS_RemoveElement
    <3>2. QED
      BY <1>2, <2>1, <2>2, <3>1 DEF End, Finish, CountsAgree, roleEpoch
  <2>3. CASE e \notin ChannelEdits
    <3>1. Cardinality(Underway(RoleEdits) \ {e}) = Cardinality(Underway(RoleEdits)) - 1
      BY <2>1, <2>3, UnderwayFinite, FS_RemoveElement
    <3>2. QED
      BY <1>2, <2>1, <2>3, <3>1 DEF End, Finish, CountsAgree, epoch
  <2>4. QED
    BY <2>2, <2>3
<1>3. ASSUME UNCHANGED <<running, roleMutations>>,
             \A e \in Edits : (edit'[e] \in {"begun", "written"}) = (edit[e] \in {"begun", "written"})
      PROVE  CountsAgree'
  <2>1. Underway(ChannelEdits)' = Underway(ChannelEdits) /\ Underway(RoleEdits)' = Underway(RoleEdits)
    BY <1>3 DEF Underway
  <2>2. QED
    BY <1>3, <2>1 DEF CountsAgree
<1>4. ASSUME NEW e \in Edits, WriteChannel(e) \/ WriteRole(e) \/ FollowChannel(e) \/ ReadRoles(e) \/ PublishRoles(e)
      PROVE  CountsAgree'
  <2>1. /\ UNCHANGED <<running, roleMutations>>
        /\ \A f \in Edits : (edit'[f] \in {"begun", "written"}) = (edit[f] \in {"begun", "written"})
    BY <1>4 DEF WriteChannel, WriteRole, FollowChannel, ReadRoles, PublishRoles, epoch, roleEpoch, TypeOK
  <2>2. QED
    BY <1>3, <2>1
<1>5. ASSUME PostNext \/ ConnNext \/ UNCHANGED vars PROVE UNCHANGED <<running, roleMutations, edit>>
  BY <1>5 DEF PostNext, ConnNext, vars, epoch, roleEpoch, Receive, ReadChannel, ReadMember, Save, Broadcast,
              ReadSummary, Address, Ask, Publish, SignIn, ReadSnapshot, Register, AuthSuccess, ResyncRead,
              ResyncSend, ResyncLate
<1>6. ASSUME PostNext \/ ConnNext \/ UNCHANGED vars PROVE CountsAgree'
  BY <1>3, <1>5, <1>6
<1>7. QED
  BY <1>1, <1>2, <1>4, <1>6 DEF Next, EditNext

-----------------------------------------------------------------------------
(* Types.                                                                  *)

PostType ==
  [at : {"new", "received", "channel", "permitted", "refused", "saved", "broadcast",
         "summary", "audience", "sent", "dropped"},
   author : Users \union {None}, channel : Channels \union {None},
   versions : Versions \X Versions, row : Rows, people : SUBSET Users,
   asked : SUBSET Users, audience : SUBSET Users]

ConnType ==
  [at : {"out", "proving", "read", "registered", "stale", "resyncing", "in"},
   versions : Versions \X Versions,
   snapshot : [roles : SUBSET Users, channels : SUBSET Channels],
   roles : SUBSET Users, listed : SUBSET Channels, visible : SUBSET Channels]

LEMMA CapturedType ==
  ASSUME TypeOK
  PROVE  Captured \in Versions \X Versions
<1>1. Version \in Versions /\ RoleVersion \in Versions
  BY DEF TypeOK, Version, RoleVersion, Versions
<1>2. QED
  BY <1>1 DEF Captured

LEMMA OverType ==
  /\ Blank \in PostType
  /\ \A how \in {"refused", "dropped", "sent"} : Over(how) \in PostType
<1>1. <<Null, Null>> \in Versions \X Versions
  BY DEF Versions
<1>2. Blank \in PostType
  BY <1>1 DEF Blank, PostType, Rows
<1>3. QED
  BY <1>1, <1>2 DEF Over, PostType, Blank, Rows

LEMMA PostTypes ==
  ASSUME TypeOK, Addressed, PostNext
  PROVE  post' \in [Posts -> PostType]
<1>0. post \in [Posts -> PostType]
  BY DEF TypeOK, PostType
<1>. SUFFICES ASSUME NEW p \in Posts, NEW to \in PostType, Step(p, to)
              PROVE  post' \in [Posts -> PostType]
  <2>1. PICK p \in Posts : \/ Receive(p) \/ ReadChannel(p) \/ ReadMember(p) \/ Save(p) \/ Broadcast(p)
                          \/ ReadSummary(p) \/ Address(p) \/ Ask(p) \/ Publish(p)
    BY DEF PostNext
  <2>. DEFINE q == post[p]
  <2>0. q \in PostType
    BY <1>0
  <2>2. CASE Receive(p)
    <3>1. PICK u \in Users, c \in Channels :
            Step(p, [q EXCEPT !.at = "received", !.author = u, !.channel = c, !.versions = Captured])
      BY <2>2 DEF Receive
    <3>2. [q EXCEPT !.at = "received", !.author = u, !.channel = c, !.versions = Captured] \in PostType
      BY <2>0, CapturedType DEF PostType
    <3>3. QED
      BY <3>1, <3>2
  <2>3. CASE ReadChannel(p)
    <3>1. rows[q.channel] \in Rows
      BY <2>3 DEF ReadChannel, TypeOK, Addressed, Placed
    <3>2. [q EXCEPT !.at = "channel", !.row = rows[q.channel]] \in PostType
      BY <2>0, <3>1 DEF PostType
    <3>3. QED
      BY <2>3, <3>2, OverType DEF ReadChannel
  <2>4. CASE ReadMember(p)
    <3>1. [q EXCEPT !.at = "permitted"] \in PostType
      BY <2>0 DEF PostType
    <3>2. QED
      BY <2>4, <3>1, OverType DEF ReadMember
  <2>5. CASE Save(p)
    <3>1. [q EXCEPT !.at = "saved"] \in PostType
      BY <2>0 DEF PostType
    <3>2. QED
      BY <2>5, <3>1, OverType DEF Save
  <2>6. CASE Broadcast(p)
    <3>1. [q EXCEPT !.at = "broadcast", !.versions = Captured] \in PostType
      BY <2>0, CapturedType DEF PostType
    <3>2. QED
      BY <2>6, <3>1, OverType DEF Broadcast
  <2>7. CASE ReadSummary(p)
    <3>1. rows[q.channel] \in Rows
      BY <2>7 DEF ReadSummary, TypeOK, Addressed, Placed
    <3>2. [q EXCEPT !.at = "summary", !.row = rows[q.channel]] \in PostType
      BY <2>0, <3>1 DEF PostType
    <3>3. QED
      BY <2>7, <3>2 DEF ReadSummary
  <2>8. CASE Address(p)
    <3>1. [q EXCEPT !.at = "audience", !.people = Registered, !.asked = {}, !.audience = {}] \in PostType
      BY <2>0 DEF PostType, Registered
    <3>2. QED
      BY <2>8, <3>1, OverType DEF Address
  <2>9. CASE Ask(p)
    <3>1. PICK u \in Users :
            Step(p, [q EXCEPT !.asked = @ \union {u},
                              !.audience = IF Allows(q.row, u \in holders) THEN @ \union {u} ELSE @])
      BY <2>0, <2>9 DEF PostType, Ask
    <3>2. [q EXCEPT !.asked = @ \union {u},
                    !.audience = IF Allows(q.row, u \in holders) THEN @ \union {u} ELSE @] \in PostType
      BY <2>0 DEF PostType
    <3>3. QED
      BY <3>1, <3>2
  <2>10. CASE Publish(p)
    BY <2>10, OverType DEF Publish
  <2>11. QED
    BY <2>1, <2>2, <2>3, <2>4, <2>5, <2>6, <2>7, <2>8, <2>9, <2>10
<1>1. QED
  BY <1>0 DEF Step

LEMMA SnapshotType ==
  ASSUME TypeOK, NEW u \in Users
  PROVE  Snapshot(u) \in [roles : SUBSET Users, channels : SUBSET Channels]
BY DEF TypeOK, Snapshot, Visible

LEMMA ReadyType ==
  ASSUME NEW k \in ConnType, NEW how \in {"in", "stale"}
  PROVE  Ready(k, how) \in ConnType
<1>1. <<Null, Null>> \in Versions \X Versions
  BY DEF Versions
<1>2. QED
  BY <1>1 DEF Ready, ConnType, Empty

LEMMA SendChannelsType ==
  ASSUME NEW k \in ConnType, NEW now \in SUBSET Channels
  PROVE  SendChannels(k, now) \in ConnType
BY DEF SendChannels, ConnType

LEMMA CaughtUpType ==
  ASSUME NEW k \in ConnType, NEW s \in [roles : SUBSET Users, channels : SUBSET Channels]
  PROVE  CaughtUp(k, s) \in ConnType
<1>1. Ready(SendChannels(k, s.channels), "in") \in ConnType
  BY SendChannelsType, ReadyType
<1>2. QED
  BY <1>1 DEF CaughtUp, ConnType

LEMMA ConnTypes ==
  ASSUME TypeOK, ConnNext
  PROVE  conn' \in [Users -> ConnType]
<1>0. conn \in [Users -> ConnType]
  BY DEF TypeOK, ConnType
<1>. SUFFICES ASSUME NEW u \in Users, NEW to \in ConnType, Reach(u, to)
              PROVE  conn' \in [Users -> ConnType]
  <2>1. PICK u \in Users : \/ SignIn(u) \/ ReadSnapshot(u) \/ Register(u) \/ AuthSuccess(u)
                          \/ ResyncRead(u) \/ ResyncSend(u) \/ ResyncLate(u)
    BY DEF ConnNext
  <2>. DEFINE k == conn[u]
  <2>0. k \in ConnType /\ Snapshot(u) \in [roles : SUBSET Users, channels : SUBSET Channels]
    BY <1>0, SnapshotType
  <2>2. CASE SignIn(u)
    <3>1. [k EXCEPT !.at = "proving", !.versions = Captured] \in ConnType
      BY <2>0, CapturedType DEF ConnType
    <3>2. QED
      BY <2>2, <3>1 DEF SignIn
  <2>3. CASE ReadSnapshot(u)
    <3>1. [k EXCEPT !.at = "read", !.snapshot = Snapshot(u)] \in ConnType
      BY <2>0 DEF ConnType
    <3>2. QED
      BY <2>3, <3>1 DEF ReadSnapshot
  <2>4. CASE Register(u)
    <3>1. [k EXCEPT !.at = "registered", !.visible = k.snapshot.channels] \in ConnType
      BY <2>0 DEF ConnType
    <3>2. QED
      BY <2>4, <3>1 DEF Register
  <2>5. CASE AuthSuccess(u)
    <3>1. [k EXCEPT !.roles = k.snapshot.roles, !.listed = k.snapshot.channels,
                    !.visible = k.snapshot.channels] \in ConnType
      BY <2>0 DEF ConnType
    <3>2. QED
      BY <2>5, <3>1, ReadyType DEF AuthSuccess
  <2>6. CASE ResyncRead(u)
    <3>1. [k EXCEPT !.at = "resyncing", !.versions = Captured, !.snapshot = Snapshot(u)] \in ConnType
      BY <2>0, CapturedType DEF ConnType
    <3>2. QED
      BY <2>6, <3>1 DEF ResyncRead
  <2>7. CASE ResyncSend(u)
    <3>1. k.snapshot \in [roles : SUBSET Users, channels : SUBSET Channels]
      BY <2>0 DEF ConnType
    <3>2. QED
      BY <2>0, <2>7, <3>1, ReadyType, CaughtUpType DEF ResyncSend
  <2>8. CASE ResyncLate(u)
    BY <2>0, <2>8, CaughtUpType DEF ResyncLate
  <2>9. QED
    BY <2>1, <2>2, <2>3, <2>4, <2>5, <2>6, <2>7, <2>8
<1>1. QED
  BY <1>0 DEF Reach

LEMMA ReconcileType ==
  ASSUME TypeOK, NEW reached \in [Users -> ConnType]
  PROVE  Reconcile(reached) \in [Users -> ConnType]
<1>1. \A u \in Users : Visible(u) \in SUBSET Channels
  BY DEF Visible
<1>2. QED
  BY <1>1, SendChannelsType DEF Reconcile

LEMMA ToldType ==
  ASSUME TypeOK, NEW roles \in SUBSET Users
  PROVE  Told(roles) \in [Users -> ConnType]
<1>1. \A u \in Users : conn[u] \in ConnType
  BY DEF TypeOK, ConnType
<1>2. \A k \in ConnType : [k EXCEPT !.roles = roles] \in ConnType
  BY DEF ConnType
<1>3. QED
  BY <1>1, <1>2 DEF Told

Bookkeeping ==
  /\ edit \in [Edits -> {"new", "begun", "written", "ended", "waiting", "done"}]
  /\ carries \in [RoleEdits -> SUBSET Users] /\ refreshes \in Seq(RoleEdits)

LEMMA EditTypes ==
  ASSUME TypeOK, CountsAgree, EditNext
  PROVE  TypeOK'
<1>. USE ChannelAccessAssumption
<1>1. PICK e \in Edits : \/ Begin(e) \/ WriteChannel(e) \/ WriteRole(e) \/ End(e) \/ FollowChannel(e)
                        \/ ReadRoles(e) \/ PublishRoles(e)
  BY DEF EditNext
<1>2. CASE Begin(e)
  BY <1>2 DEF Begin, TypeOK, stored, epoch, roleEpoch
<1>3. CASE WriteChannel(e)
  BY <1>3 DEF WriteChannel, TypeOK, epoch, roleEpoch
<1>4. CASE WriteRole(e)
  BY <1>4 DEF WriteRole, TypeOK, epoch, roleEpoch
<1>5. CASE End(e)
  <2>1. /\ e \in ChannelEdits => running >= 1
        /\ e \notin ChannelEdits => roleMutations >= 1
    BY <1>5, UnderwayCounts DEF End, Finish, Edits
  <2>2. /\ changes' \in Nat /\ running' \in Nat /\ generation' \in Nat
        /\ roleVersion' \in Nat /\ roleMutations' \in Nat
    BY <1>5, <2>1 DEF End, Finish, TypeOK, epoch, roleEpoch
  <2>3. Bookkeeping' /\ UNCHANGED <<stored, post, conn>>
    BY <1>5 DEF End, Finish, TypeOK, Bookkeeping
  <2>4. QED
    BY <2>2, <2>3 DEF TypeOK, Bookkeeping, stored
<1>6. CASE FollowChannel(e)
  <2>1. conn' \in [Users -> ConnType]
    BY <1>6, ReconcileType DEF FollowChannel, TypeOK, ConnType
  <2>2. QED
    BY <1>6, <2>1 DEF FollowChannel, TypeOK, ConnType, stored, roleEpoch
<1>7. CASE ReadRoles(e)
  BY <1>7 DEF ReadRoles, TypeOK, stored, roleEpoch
<1>8. CASE PublishRoles(e)
  <2>1. e \in RoleEdits /\ Tail(refreshes) \in Seq(RoleEdits)
    BY <1>8, HeadTailProperties DEF PublishRoles, TypeOK
  <2>2. conn' \in [Users -> ConnType]
    BY <1>8, <2>1, ToldType, ReconcileType DEF PublishRoles, TypeOK
  <2>3. Bookkeeping'
    BY <1>8, <2>1 DEF PublishRoles, TypeOK, Bookkeeping
  <2>4. QED
    BY <1>8, <2>2, <2>3 DEF PublishRoles, TypeOK, ConnType, Bookkeeping, stored, roleEpoch
<1>9. QED
  BY <1>1, <1>2, <1>3, <1>4, <1>5, <1>6, <1>7, <1>8

LEMMA TypeStep ==
  ASSUME TypeOK, CountsAgree, Addressed, [Next]_vars
  PROVE  TypeOK'
<1>1. CASE EditNext
  BY <1>1, EditTypes
<1>2. CASE PostNext
  <2>1. UNCHANGED <<stored, epoch, roleEpoch, edit, carries, refreshes, conn>>
    BY <1>2 DEF PostNext, Receive, ReadChannel, ReadMember, Save, Broadcast, ReadSummary, Address, Ask, Publish
  <2>2. QED
    BY <1>2, <2>1, PostTypes DEF TypeOK, PostType, stored, epoch, roleEpoch
<1>3. CASE ConnNext
  <2>1. UNCHANGED <<stored, epoch, roleEpoch, edit, carries, refreshes, post>>
    BY <1>3 DEF ConnNext, SignIn, ReadSnapshot, Register, AuthSuccess, ResyncRead, ResyncSend, ResyncLate
  <2>2. QED
    BY <1>3, <2>1, ConnTypes DEF TypeOK, ConnType, stored, epoch, roleEpoch
<1>4. CASE UNCHANGED vars
  BY <1>4 DEF TypeOK, vars, stored, epoch, roleEpoch
<1>5. QED
  BY <1>1, <1>2, <1>3, <1>4 DEF Next

-----------------------------------------------------------------------------
(* Versions.                                                               *)

LEMMA CapturedBehind ==
  ASSUME TypeOK
  PROVE  Behind(Captured)
BY DEF Behind, Captured, Version, RoleVersion, TypeOK

\* Whatever a request does, no version captured before it stands after it.
LEMMA EditsSupersede ==
  ASSUME TypeOK, CountsAgree, EditNext, NEW v \in Versions \X Versions, Behind(v)
  PROVE  /\ Behind(v)'
         /\ ~Unchanged(v)'
<1>. USE DEF Behind, Unchanged, Captured, Version, RoleVersion, Versions
<1>1. PICK e \in Edits : \/ Begin(e) \/ WriteChannel(e) \/ WriteRole(e) \/ End(e) \/ FollowChannel(e)
                        \/ ReadRoles(e) \/ PublishRoles(e)
  BY DEF EditNext
<1>2. CASE Begin(e)
  BY <1>2 DEF Begin, TypeOK, epoch, roleEpoch, Null
<1>3. CASE WriteChannel(e)
  <2>1. running >= 1
    BY <1>3, UnderwayCounts DEF WriteChannel
  <2>2. QED
    BY <1>3, <2>1 DEF WriteChannel, TypeOK, epoch, roleEpoch, Null
<1>4. CASE WriteRole(e)
  <2>1. roleMutations >= 1
    BY <1>4, UnderwayCounts DEF WriteRole
  <2>2. QED
    BY <1>4, <2>1 DEF WriteRole, TypeOK, epoch, roleEpoch, Null
<1>5. CASE End(e)
  BY <1>5 DEF End, Finish, TypeOK, epoch, roleEpoch, Null
<1>6. CASE FollowChannel(e)
  BY <1>6 DEF FollowChannel, TypeOK, roleEpoch, Null
<1>7. CASE ReadRoles(e)
  BY <1>7 DEF ReadRoles, TypeOK, roleEpoch, Null
<1>8. CASE PublishRoles(e)
  BY <1>8 DEF PublishRoles, TypeOK, roleEpoch, Null
<1>9. QED
  BY <1>1, <1>2, <1>3, <1>4, <1>5, <1>6, <1>7, <1>8

-----------------------------------------------------------------------------
(* Messages.                                                               *)

Sound(q) == Behind(q.versions) /\ Placed(q) /\ (Unchanged(q.versions) => ReadStands(q))

LEMMA OverIsSound ==
  \A how \in {"refused", "dropped", "sent"} : Sound(Over(how))
BY DEF Sound, Over, Blank, Behind, Placed, Unchanged

\* A message keeps its versions and its address from step to step.
LEMMA PostsStaySound ==
  ASSUME TypeOK, \A p \in Posts : Sound(post[p]), PostNext
  PROVE  \A p \in Posts : Sound(post'[p])
<1>0. post \in [Posts -> PostType]
  BY DEF TypeOK, PostType
<1>. SUFFICES ASSUME NEW p \in Posts, NEW to, Sound(to), Step(p, to)
              PROVE  \A q \in Posts : Sound(post'[q])
  <2>1. PICK p \in Posts : \/ Receive(p) \/ ReadChannel(p) \/ ReadMember(p) \/ Save(p) \/ Broadcast(p)
                          \/ ReadSummary(p) \/ Address(p) \/ Ask(p) \/ Publish(p)
    BY DEF PostNext
  <2>. DEFINE q == post[p]
  <2>0. q \in PostType /\ Sound(q)
    BY <1>0
  <2>2. CASE Receive(p)
    <3>1. PICK u \in Users, c \in Channels :
            Step(p, [q EXCEPT !.at = "received", !.author = u, !.channel = c, !.versions = Captured])
      BY <2>2 DEF Receive
    <3>2. Sound([q EXCEPT !.at = "received", !.author = u, !.channel = c, !.versions = Captured])
      BY <2>0, CapturedBehind DEF PostType, Sound, Placed, ReadStands
    <3>3. QED
      BY <3>1, <3>2
  <2>3. CASE ReadChannel(p)
    <3>1. Sound([q EXCEPT !.at = "channel", !.row = rows[q.channel]])
      BY <2>0, <2>3 DEF PostType, Sound, Placed, ReadStands, ReadChannel
    <3>2. QED
      BY <2>3, <3>1, OverIsSound DEF ReadChannel
  <2>4. CASE ReadMember(p)
    <3>1. ASSUME Allows(q.row, q.author \in holders) PROVE Sound([q EXCEPT !.at = "permitted"])
      BY <2>0, <2>4, <3>1 DEF PostType, Sound, Placed, ReadStands, ReadMember, May
    <3>2. QED
      BY <2>4, <3>1, OverIsSound DEF ReadMember
  <2>5. CASE Save(p)
    <3>1. Sound([q EXCEPT !.at = "saved"])
      BY <2>0, <2>5 DEF PostType, Sound, Placed, ReadStands, Save
    <3>2. QED
      BY <2>5, <3>1, OverIsSound DEF Save
  <2>6. CASE Broadcast(p)
    <3>1. Sound([q EXCEPT !.at = "broadcast", !.versions = Captured])
      BY <2>0, <2>6, CapturedBehind DEF PostType, Sound, Placed, ReadStands, Broadcast
    <3>2. QED
      BY <2>6, <3>1, OverIsSound DEF Broadcast
  <2>7. CASE ReadSummary(p)
    <3>1. Sound([q EXCEPT !.at = "summary", !.row = rows[q.channel]])
      BY <2>0, <2>7 DEF PostType, Sound, Placed, ReadStands, ReadSummary
    <3>2. QED
      BY <2>7, <3>1 DEF ReadSummary
  <2>8. CASE Address(p)
    <3>1. Sound([q EXCEPT !.at = "audience", !.people = Registered, !.asked = {}, !.audience = {}])
      BY <2>0, <2>8 DEF PostType, Sound, Placed, ReadStands, Address
    <3>2. QED
      BY <2>8, <3>1, OverIsSound DEF Address
  <2>9. CASE Ask(p)
    <3>1. PICK u \in Users :
            Step(p, [q EXCEPT !.asked = @ \union {u},
                              !.audience = IF Allows(q.row, u \in holders) THEN @ \union {u} ELSE @])
      BY <2>0, <2>9 DEF PostType, Ask
    <3>. DEFINE to == [q EXCEPT !.asked = @ \union {u},
                              !.audience = IF Allows(q.row, u \in holders) THEN @ \union {u} ELSE @]
    <3>2. /\ to.at = "audience" /\ to.author = q.author /\ to.channel = q.channel /\ to.versions = q.versions
          /\ to.row = q.row /\ to.asked = q.asked \union {u}
          /\ to.audience = IF Allows(q.row, u \in holders) THEN q.audience \union {u} ELSE q.audience
      BY <2>0, <2>9 DEF PostType, Ask
    <3>3. ASSUME Unchanged(q.versions) PROVE to.audience = to.asked \intersect Readers(to.channel)
      <4>1. q.audience = q.asked \intersect Readers(q.channel) /\ q.row = rows[q.channel]
        BY <2>0, <2>9, <3>3 DEF Sound, ReadStands, Ask
      <4>2. (u \in Readers(q.channel)) = Allows(q.row, u \in holders)
        BY <4>1 DEF Readers, May, Allows
      <4>3. QED
        BY <3>2, <4>1, <4>2
    <3>4. Sound(to)
      BY <2>0, <2>9, <3>2, <3>3 DEF Sound, Placed, ReadStands, Ask
    <3>5. QED
      BY <3>1, <3>4
  <2>10. CASE Publish(p)
    BY <2>10, OverIsSound DEF Publish
  <2>11. QED
    BY <2>1, <2>2, <2>3, <2>4, <2>5, <2>6, <2>7, <2>8, <2>9, <2>10
<1>1. QED
  BY <1>0 DEF Step

-----------------------------------------------------------------------------
(* The inductive invariant.                                                *)

LEMMA InitIInv == Init => IInv
<1>. SUFFICES ASSUME Init PROVE IInv
  OBVIOUS
<1>. USE ChannelAccessAssumption
<1>1. <<Null, Null>> \in Versions \X Versions
  BY DEF Versions
<1>2. conn \in [Users -> ConnType]
  BY <1>1 DEF Init, ConnType, Empty, Visible
<1>3. TypeOK
  <2>1. post \in [Posts -> PostType]
    BY OverType DEF Init
  <2>2. rows \in [Channels -> Rows] /\ holders \in SUBSET Users
    BY DEF Init, Rows
  <2>3. {changes, running, generation, roleVersion, roleMutations} \subseteq Nat
    BY DEF Init
  <2>4. Bookkeeping
    BY DEF Init, Bookkeeping
  <2>5. QED
    BY <1>2, <2>1, <2>2, <2>3, <2>4 DEF TypeOK, PostType, ConnType, Bookkeeping
<1>4. CountsAgree
  <2>1. Underway(ChannelEdits) = {} /\ Underway(RoleEdits) = {}
    BY DEF Init, Underway, Edits
  <2>2. QED
    BY <2>1, FS_EmptySet DEF Init, CountsAgree
<1>5. VersionsBehind /\ Addressed /\ ReadsStand
  BY DEF Init, VersionsBehind, Behind, Addressed, Placed, ReadsStand, Unchanged, Blank
<1>6. QED
  BY <1>3, <1>4, <1>5 DEF IInv

LEMMA NextIInv == IInv /\ [Next]_vars => IInv'
<1>. SUFFICES ASSUME IInv, [Next]_vars PROVE IInv'
  OBVIOUS
<1>1. TypeOK' /\ CountsAgree'
  BY TypeStep, CountsStep DEF IInv
<1>2. \A p \in Posts : Sound(post[p]) /\ post[p].versions \in Versions \X Versions
  BY DEF IInv, TypeOK, VersionsBehind, Addressed, ReadsStand, Sound
<1>3. CASE EditNext
  <2>1. UNCHANGED post
    BY <1>3 DEF EditNext, Begin, WriteChannel, WriteRole, End, Finish, FollowChannel, ReadRoles, PublishRoles
  <2>2. \A p \in Posts : Behind(post[p].versions)' /\ ~Unchanged(post[p].versions)'
    BY <1>2, <1>3, <2>1, EditsSupersede DEF IInv, Sound
  <2>3. QED
    BY <1>1, <2>1, <2>2 DEF IInv, VersionsBehind, Addressed, ReadsStand
<1>4. CASE PostNext
  <2>1. UNCHANGED <<stored, epoch, roleEpoch, edit, carries, refreshes, conn>>
    BY <1>4 DEF PostNext, Receive, ReadChannel, ReadMember, Save, Broadcast, ReadSummary, Address, Ask, Publish
  <2>2. \A p \in Posts : Sound(post'[p])
    BY <1>2, <1>4, PostsStaySound DEF IInv
  <2>3. \A p \in Posts : Sound(post[p])'
    BY <2>1, <2>2 DEF Sound, Behind, Placed, ReadStands, Unchanged, Captured, Version, RoleVersion,
                      May, Allows, Readers, stored, epoch, roleEpoch
  <2>4. QED
    BY <1>1, <2>3 DEF IInv, VersionsBehind, Addressed, ReadsStand, Sound
<1>5. CASE ConnNext \/ UNCHANGED vars
  <2>1. UNCHANGED <<stored, epoch, roleEpoch, post>>
    BY <1>5 DEF ConnNext, SignIn, ReadSnapshot, Register, AuthSuccess, ResyncRead, ResyncSend, ResyncLate,
                vars, stored, epoch, roleEpoch
  <2>2. \A p \in Posts : Sound(post[p])'
    BY <1>2, <2>1 DEF Sound, Behind, Placed, ReadStands, Unchanged, Captured, Version, RoleVersion,
                      May, Allows, Readers, stored, epoch, roleEpoch
  <2>3. QED
    BY <1>1, <2>2 DEF IInv, VersionsBehind, Addressed, ReadsStand, Sound
<1>6. QED
  BY <1>3, <1>4, <1>5 DEF Next

LEMMA SpecIInv == Spec => []IInv
BY InitIInv, NextIInv, PTL DEF Spec

-----------------------------------------------------------------------------
\* The counters of AccessEpoch and of the role version stay natural numbers,
\* and every message and connection has the shape its handler gives it.
THEOREM TypesHold == Spec => []TypeOK
<1>1. IInv => TypeOK
  BY DEF IInv
<1>2. QED
  BY <1>1, SpecIInv, PTL

LEMMA NothingUnderway ==
  ASSUME IInv
  PROVE  (running = 0 /\ roleMutations = 0) <=> \A e \in Edits : edit[e] \notin {"begun", "written"}
<1>1. ASSUME running = 0, roleMutations = 0, NEW e \in Edits PROVE edit[e] \notin {"begun", "written"}
  BY <1>1, UnderwayCounts DEF IInv, Edits
<1>2. ASSUME \A e \in Edits : edit[e] \notin {"begun", "written"} PROVE running = 0 /\ roleMutations = 0
  <2>1. Underway(ChannelEdits) = {} /\ Underway(RoleEdits) = {}
    BY <1>2 DEF Underway, Edits
  <2>2. QED
    BY <2>1, FS_EmptySet DEF IInv, CountsAgree
<1>3. QED
  BY <1>1, <1>2

\* AccessEpoch.change and withRoleMutation restore their counters on every way
\* out: once no change runs, whoever asks for a version is given one.
THEOREM VersionsReturn == Spec => []VersionsComeBack
<1>1. IInv => VersionsComeBack
  BY NothingUnderway DEF VersionsComeBack, Version, RoleVersion, Null, IInv, TypeOK
<1>2. QED
  BY <1>1, SpecIInv, PTL

\* Outbox.broadcastToChannel: a message goes to the readers its channel has at
\* that moment, to all of them who were connected when the lookup began and to
\* nobody else, whatever changed while it was prepared.
THEOREM HeardByReaders == Spec => OnlyReadersHear
<1>1. IInv /\ [Next]_vars =>
        [\A p \in Posts : post[p].at = "audience" /\ post'[p].at = "sent" =>
           /\ post[p].audience = post[p].people \intersect Readers(post[p].channel)
           /\ \A e \in Edits : edit[e] \notin {"begun", "written"}]_vars
  <2>. SUFFICES ASSUME IInv, Next, NEW p \in Posts, post[p].at = "audience", post'[p].at = "sent"
                PROVE  /\ post[p].audience = post[p].people \intersect Readers(post[p].channel)
                       /\ \A e \in Edits : edit[e] \notin {"begun", "written"}
    OBVIOUS
  <2>1. post[p].asked = post[p].people /\ Unchanged(post[p].versions)
    <3>1. ~EditNext /\ ~ConnNext
      BY DEF EditNext, Begin, WriteChannel, WriteRole, End, Finish, FollowChannel, ReadRoles, PublishRoles,
             ConnNext, SignIn, ReadSnapshot, Register, AuthSuccess, ResyncRead, ResyncSend, ResyncLate
    <3>2. PICK q \in Posts : \/ Receive(q) \/ ReadChannel(q) \/ ReadMember(q) \/ Save(q) \/ Broadcast(q)
                            \/ ReadSummary(q) \/ Address(q) \/ Ask(q) \/ Publish(q)
      BY <3>1 DEF Next, PostNext
    <3>3. p = q
      BY <3>2 DEF Receive, ReadChannel, ReadMember, Save, Broadcast, ReadSummary, Address, Ask, Publish,
                  Step, IInv, TypeOK
    <3>4. ASSUME Ask(p) PROVE FALSE
      <4>1. post \in [Posts -> PostType]
        BY DEF IInv, TypeOK, PostType
      <4>2. PICK u \in Users :
              Step(p, [post[p] EXCEPT !.asked = @ \union {u},
                         !.audience = IF Allows(post[p].row, u \in holders) THEN @ \union {u} ELSE @])
        BY <3>4, <4>1 DEF PostType, Ask
      <4>3. post'[p].at = "audience"
        BY <4>1, <4>2 DEF Step, PostType
      <4>4. QED
        BY <4>3
    <3>5. ~Address(p)
      BY DEF Address
    <3>6. ~Receive(p) /\ ~ReadChannel(p) /\ ~ReadMember(p) /\ ~Save(p) /\ ~Broadcast(p) /\ ~ReadSummary(p)
      BY DEF Receive, ReadChannel, ReadMember, Save, Broadcast, ReadSummary
    <3>7. Publish(p)
      BY <3>2, <3>3, <3>4, <3>5, <3>6
    <3>8. QED
      BY <3>7 DEF Publish, Step, Over, Blank, IInv, TypeOK
  <2>2. post[p].audience = post[p].people \intersect Readers(post[p].channel)
    BY <2>1 DEF IInv, ReadsStand, ReadStands, Readers
  <2>3. running = 0 /\ roleMutations = 0
    BY <2>1 DEF Unchanged, Captured, Version, RoleVersion, IInv, TypeOK
  <2>4. QED
    BY <2>2, <2>3, NothingUnderway
<1>2. QED
  BY <1>1, SpecIInv, PTL DEF Spec, OnlyReadersHear

\* ChatService.sendMessage: a message is stored only while its author may post
\* in its channel, although it was asked for several reads earlier.
THEOREM StoredWithLeave == Spec => SavedWithLeave
<1>1. IInv /\ [Next]_vars =>
        [\A p \in Posts : post[p].at = "permitted" /\ post'[p].at = "saved" =>
           May(post[p].author, post[p].channel)]_vars
  <2>. SUFFICES ASSUME IInv, Next, NEW p \in Posts, post[p].at = "permitted", post'[p].at = "saved"
                PROVE  May(post[p].author, post[p].channel)
    OBVIOUS
  <2>1. Unchanged(post[p].versions)
    <3>1. ~EditNext /\ ~ConnNext
      BY DEF EditNext, Begin, WriteChannel, WriteRole, End, Finish, FollowChannel, ReadRoles, PublishRoles,
             ConnNext, SignIn, ReadSnapshot, Register, AuthSuccess, ResyncRead, ResyncSend, ResyncLate
    <3>2. PICK q \in Posts : \/ Receive(q) \/ ReadChannel(q) \/ ReadMember(q) \/ Save(q) \/ Broadcast(q)
                            \/ ReadSummary(q) \/ Address(q) \/ Ask(q) \/ Publish(q)
      BY <3>1 DEF Next, PostNext
    <3>3. p = q
      BY <3>2 DEF Receive, ReadChannel, ReadMember, Save, Broadcast, ReadSummary, Address, Ask, Publish,
                  Step, IInv, TypeOK
    <3>4. Save(p)
      BY <3>2, <3>3 DEF Receive, ReadChannel, ReadMember, Broadcast, ReadSummary, Address, Ask, Publish
    <3>5. QED
      BY <3>4 DEF Save, Step, Over, Blank, IInv, TypeOK
  <2>2. QED
    BY <2>1 DEF IInv, ReadsStand, ReadStands
<1>2. QED
  BY <1>1, SpecIInv, PTL DEF Spec, SavedWithLeave

-----------------------------------------------------------------------------
(* What those who signed in were told.  The versions say which snapshots   *)
(* still stand; the rest is the order of refreshScreenRoles: its requests  *)
(* publish in the order they read, so the last one carries what is stored. *)

\* refreshScreenRoles holds the requests that wait, each of them once.
QueueIsWaiting ==
  /\ \A e \in RoleEdits : edit[e] = "waiting" <=> \E i \in DOMAIN refreshes : refreshes[i] = e
  /\ \A i, j \in DOMAIN refreshes : refreshes[i] = refreshes[j] => i = j

RolesRead == \A e \in RoleEdits : edit[e] \notin {"written", "ended"}

\* With every role that was written read as well, the last request in the queue
\* carries the roles as they are; with none left everyone was told them.
RolesOnTheWay ==
  RolesRead =>
    IF refreshes = <<>> THEN \A u \in Users : conn[u].at = "in" => conn[u].roles = holders
    ELSE carries[refreshes[Len(refreshes)]] = holders

Followed == \A e \in Edits : edit[e] \notin {"written", "ended", "waiting"}

\* With no reconciliation owed the lists are right.
ListsFollow == Followed => \A u \in Users : conn[u].at = "in" => conn[u].listed = Visible(u)

\* What the session remembers is what its connection was told, once it was told
\* anything; and what a sign-in read stands while its versions do.
Tracked(k) == k.at \in {"stale", "resyncing", "in"} => k.listed = k.visible

Fresh(u, k) ==
  /\ Behind(k.versions)
  /\ k.at \in {"read", "registered", "resyncing"} /\ Unchanged(k.versions) => k.snapshot = Snapshot(u)

ConnsInStep == \A u \in Users : Tracked(conn[u]) /\ Fresh(u, conn[u])

TInv == IInv /\ QueueIsWaiting /\ RolesOnTheWay /\ ListsFollow /\ ConnsInStep

LEMMA NullBehind ==
  /\ Behind(<<Null, Null>>)
  /\ ~Unchanged(<<Null, Null>>)
BY DEF Behind, Unchanged

LEMMA SendChannelsTells ==
  ASSUME NEW k \in ConnType, NEW now \in SUBSET Channels
  PROVE  /\ SendChannels(k, now).at = k.at /\ SendChannels(k, now).versions = k.versions
         /\ SendChannels(k, now).snapshot = k.snapshot /\ SendChannels(k, now).roles = k.roles
         /\ SendChannels(k, now).visible = now
         /\ k.listed = k.visible => SendChannels(k, now).listed = now
<1>1. /\ SendChannels(k, now).at = k.at /\ SendChannels(k, now).versions = k.versions
      /\ SendChannels(k, now).snapshot = k.snapshot /\ SendChannels(k, now).roles = k.roles
      /\ SendChannels(k, now).visible = now
      /\ SendChannels(k, now).listed = (k.listed \union (now \ k.visible)) \ (k.visible \ now)
  BY DEF SendChannels, ConnType
<1>2. (k.visible \union (now \ k.visible)) \ (k.visible \ now) = now
  OBVIOUS
<1>3. QED
  BY <1>1, <1>2

LEMMA ReadyTells ==
  ASSUME NEW k \in ConnType, NEW how \in {"in", "stale"}
  PROVE  /\ Ready(k, how).at = how /\ Ready(k, how).versions = <<Null, Null>>
         /\ Ready(k, how).roles = k.roles /\ Ready(k, how).listed = k.listed
         /\ Ready(k, how).visible = k.visible
BY DEF Ready, ConnType

LEMMA CaughtUpTells ==
  ASSUME NEW k \in ConnType, NEW s \in [roles : SUBSET Users, channels : SUBSET Channels],
         k.listed = k.visible
  PROVE  /\ CaughtUp(k, s).at = "in" /\ CaughtUp(k, s).versions = <<Null, Null>>
         /\ CaughtUp(k, s).roles = s.roles /\ CaughtUp(k, s).listed = s.channels
         /\ CaughtUp(k, s).visible = s.channels
<1>. DEFINE m == SendChannels(k, s.channels)
<1>1. m \in ConnType /\ m.listed = s.channels /\ m.visible = s.channels
  BY SendChannelsType, SendChannelsTells
<1>. HIDE DEF m
<1>2. Ready(m, "in") \in ConnType
  BY <1>1, ReadyType
<1>3. /\ Ready(m, "in").at = "in" /\ Ready(m, "in").versions = <<Null, Null>>
      /\ Ready(m, "in").listed = s.channels /\ Ready(m, "in").visible = s.channels
  BY <1>1, ReadyTells
<1>4. CaughtUp(k, s) = [Ready(m, "in") EXCEPT !.roles = s.roles]
  BY DEF CaughtUp, m
<1>5. QED
  BY <1>2, <1>3, <1>4 DEF ConnType

\* Whoever a step lets in is told what is stored at that moment.
LEMMA SignInsTell ==
  ASSUME TypeOK, ConnsInStep, ConnNext
  PROVE  \A u \in Users :
           /\ Tracked(conn'[u]) /\ Fresh(u, conn'[u])
           /\ conn'[u].at = "in" => \/ conn'[u] = conn[u]
                                    \/ conn'[u].roles = holders /\ conn'[u].listed = Visible(u)
<1>. DEFINE Right(u, k) == /\ Tracked(k) /\ Fresh(u, k)
                           /\ k.at = "in" => k.roles = holders /\ k.listed = Visible(u)
<1>0. conn \in [Users -> ConnType]
  BY DEF TypeOK, ConnType
<1>. SUFFICES ASSUME NEW u \in Users, NEW to, Right(u, to), Reach(u, to)
              PROVE  \A w \in Users :
                       /\ Tracked(conn'[w]) /\ Fresh(w, conn'[w])
                       /\ conn'[w].at = "in" => \/ conn'[w] = conn[w]
                                                \/ conn'[w].roles = holders /\ conn'[w].listed = Visible(w)
  <2>1. PICK u \in Users : \/ SignIn(u) \/ ReadSnapshot(u) \/ Register(u) \/ AuthSuccess(u)
                          \/ ResyncRead(u) \/ ResyncSend(u) \/ ResyncLate(u)
    BY DEF ConnNext
  <2>. DEFINE k == conn[u]
  <2>0. /\ k \in ConnType /\ Tracked(k) /\ Fresh(u, k)
        /\ Snapshot(u) \in [roles : SUBSET Users, channels : SUBSET Channels]
        /\ Snapshot(u).roles = holders /\ Snapshot(u).channels = Visible(u)
    BY <1>0, SnapshotType DEF ConnsInStep, Snapshot
  <2>2. CASE SignIn(u)
    <3>1. Right(u, [k EXCEPT !.at = "proving", !.versions = Captured])
      BY <2>0, CapturedBehind DEF ConnType, Tracked, Fresh
    <3>2. QED
      BY <2>2, <3>1 DEF SignIn
  <2>3. CASE ReadSnapshot(u)
    <3>1. Right(u, [k EXCEPT !.at = "read", !.snapshot = Snapshot(u)])
      BY <2>0 DEF ConnType, Tracked, Fresh
    <3>2. QED
      BY <2>3, <3>1 DEF ReadSnapshot
  <2>4. CASE Register(u)
    <3>1. Right(u, [k EXCEPT !.at = "registered", !.visible = k.snapshot.channels])
      BY <2>0, <2>4 DEF ConnType, Tracked, Fresh, Register
    <3>2. QED
      BY <2>4, <3>1 DEF Register
  <2>5. CASE AuthSuccess(u)
    <3>. DEFINE m == [k EXCEPT !.roles = k.snapshot.roles, !.listed = k.snapshot.channels,
                               !.visible = k.snapshot.channels]
                how == IF Unchanged(k.versions) THEN "in" ELSE "stale"
    <3>1. /\ m \in ConnType /\ m.listed = m.visible
          /\ m.roles = k.snapshot.roles /\ m.listed = k.snapshot.channels
      BY <2>0 DEF ConnType
    <3>2. how = "in" => k.snapshot = Snapshot(u)
      BY <2>0, <2>5 DEF Fresh, AuthSuccess
    <3>3. Reach(u, Ready(m, how))
      BY <2>5 DEF AuthSuccess
    <3>. HIDE DEF m
    <3>4. how \in {"in", "stale"}
      OBVIOUS
    <3>. HIDE DEF how
    <3>5. Right(u, Ready(m, how))
      BY <2>0, <3>1, <3>2, <3>4, ReadyTells, NullBehind DEF Tracked, Fresh
    <3>6. QED
      BY <3>3, <3>5
  <2>6. CASE ResyncRead(u)
    <3>1. Right(u, [k EXCEPT !.at = "resyncing", !.versions = Captured, !.snapshot = Snapshot(u)])
      BY <2>0, <2>6, CapturedBehind DEF ConnType, Tracked, Fresh, ResyncRead
    <3>2. QED
      BY <2>6, <3>1 DEF ResyncRead
  <2>7. CASE ResyncSend(u)
    <3>1. k.listed = k.visible /\ k.snapshot \in [roles : SUBSET Users, channels : SUBSET Channels]
      BY <2>0, <2>7 DEF Tracked, ResyncSend, ConnType
    <3>2. ASSUME Unchanged(k.versions) PROVE Right(u, CaughtUp(k, k.snapshot))
      <4>1. k.snapshot = Snapshot(u)
        BY <2>0, <2>7, <3>2 DEF Fresh, ResyncSend
      <4>2. QED
        BY <2>0, <3>1, <4>1, CaughtUpTells, NullBehind DEF Tracked, Fresh
    <3>3. Right(u, Ready(k, "stale"))
      BY <2>0, <3>1, ReadyTells, NullBehind DEF Tracked, Fresh
    <3>4. QED
      BY <2>7, <3>2, <3>3 DEF ResyncSend
  <2>8. CASE ResyncLate(u)
    <3>1. k.listed = k.visible
      BY <2>0, <2>8 DEF Tracked, ResyncLate
    <3>2. Right(u, CaughtUp(k, Snapshot(u)))
      BY <2>0, <3>1, CaughtUpTells, NullBehind DEF Tracked, Fresh
    <3>3. QED
      BY <2>8, <3>2 DEF ResyncLate
  <2>9. QED
    BY <2>1, <2>2, <2>3, <2>4, <2>5, <2>6, <2>7, <2>8
<1>1. \A w \in Users : conn'[w] = IF w = u THEN to ELSE conn[w]
  BY <1>0 DEF Reach
<1>2. QED
  BY <1>1 DEF ConnsInStep

\* What a reconciliation leaves alone, and what it brings up to date.
LEMMA ReconcileTells ==
  ASSUME NEW reached \in [Users -> ConnType], NEW u \in Users
  PROVE  /\ Reconcile(reached)[u].at = reached[u].at
         /\ Reconcile(reached)[u].versions = reached[u].versions
         /\ Reconcile(reached)[u].snapshot = reached[u].snapshot
         /\ Reconcile(reached)[u].roles = reached[u].roles
         /\ reached[u].listed = reached[u].visible =>
              /\ Reconcile(reached)[u].listed = Reconcile(reached)[u].visible
              /\ u \in Registered => Reconcile(reached)[u].listed = Visible(u)
<1>1. Visible(u) \in SUBSET Channels
  BY DEF Visible
<1>2. Reconcile(reached)[u] = IF u \in Registered THEN SendChannels(reached[u], Visible(u)) ELSE reached[u]
  BY DEF Reconcile
<1>3. CASE u \in Registered
  BY <1>1, <1>2, <1>3, SendChannelsTells
<1>4. CASE u \notin Registered
  BY <1>2, <1>4
<1>5. QED
  BY <1>3, <1>4

LEMMA ToldTells ==
  ASSUME TypeOK, NEW roles \in SUBSET Users, NEW u \in Users
  PROVE  /\ Told(roles)[u].at = conn[u].at /\ Told(roles)[u].versions = conn[u].versions
         /\ Told(roles)[u].snapshot = conn[u].snapshot
         /\ Told(roles)[u].listed = conn[u].listed /\ Told(roles)[u].visible = conn[u].visible
         /\ u \in Registered => Told(roles)[u].roles = roles
<1>1. conn[u] \in ConnType
  BY DEF TypeOK, ConnType
<1>2. Told(roles)[u] = IF u \in Registered THEN [conn[u] EXCEPT !.roles = roles] ELSE conn[u]
  BY DEF Told
<1>3. QED
  BY <1>1, <1>2 DEF ConnType

\* Publishing tells everyone signed in what its request read.
LEMMA PublishTells ==
  ASSUME TypeOK, ConnsInStep, NEW e \in RoleEdits, PublishRoles(e), NEW u \in Users
  PROVE  /\ conn'[u].at = conn[u].at /\ conn'[u].versions = conn[u].versions
         /\ conn'[u].snapshot = conn[u].snapshot /\ Tracked(conn'[u])
         /\ conn[u].at = "in" => conn'[u].roles = carries[e] /\ conn'[u].listed = Visible(u)
<1>1. carries[e] \in SUBSET Users /\ conn' = Reconcile(Told(carries[e]))
  BY DEF TypeOK, PublishRoles
<1>2. Told(carries[e]) \in [Users -> ConnType]
  BY <1>1, ToldType
<1>3. conn[u].at = "in" => u \in Registered
  BY DEF Registered
<1>. DEFINE told == Told(carries[e])[u]
<1>4. /\ told.at = conn[u].at /\ told.versions = conn[u].versions /\ told.snapshot = conn[u].snapshot
      /\ told.listed = conn[u].listed /\ told.visible = conn[u].visible
      /\ u \in Registered => told.roles = carries[e]
  BY <1>1, ToldTells
<1>5. /\ conn'[u].at = told.at /\ conn'[u].versions = told.versions /\ conn'[u].snapshot = told.snapshot
      /\ conn'[u].roles = told.roles
      /\ told.listed = told.visible => /\ conn'[u].listed = conn'[u].visible
                                       /\ u \in Registered => conn'[u].listed = Visible(u)
  BY <1>1, <1>2, ReconcileTells
<1>6. QED
  BY <1>3, <1>4, <1>5 DEF ConnsInStep, Tracked

LEMMA FollowTells ==
  ASSUME TypeOK, ConnsInStep, NEW e \in Edits, FollowChannel(e), NEW u \in Users
  PROVE  /\ conn'[u].at = conn[u].at /\ conn'[u].versions = conn[u].versions
         /\ conn'[u].snapshot = conn[u].snapshot /\ Tracked(conn'[u])
         /\ conn'[u].roles = conn[u].roles
         /\ conn[u].at = "in" => conn'[u].listed = Visible(u)
<1>1. conn \in [Users -> ConnType] /\ conn' = Reconcile(conn)
  BY DEF TypeOK, ConnType, FollowChannel
<1>2. conn[u].at = "in" => u \in Registered
  BY DEF Registered
<1>3. QED
  BY <1>1, <1>2, ReconcileTells DEF ConnsInStep, Tracked

LEMMA InitTInv == Init => TInv
<1>. SUFFICES ASSUME Init PROVE TInv
  OBVIOUS
<1>1. QueueIsWaiting /\ RolesOnTheWay /\ ListsFollow
  BY ChannelAccessAssumption DEF Init, QueueIsWaiting, RolesOnTheWay, ListsFollow, Edits
<1>2. ConnsInStep
  BY NullBehind DEF Init, ConnsInStep, Tracked, Fresh
<1>3. QED
  BY <1>1, <1>2, InitIInv DEF TInv

LEMMA QueueStep ==
  ASSUME TypeOK, QueueIsWaiting, [Next]_vars
  PROVE  QueueIsWaiting'
<1>. USE ChannelAccessAssumption DEF Edits
<1>0. refreshes \in Seq(RoleEdits) /\ DOMAIN refreshes = 1..Len(refreshes) /\ Len(refreshes) \in Nat
  BY DEF TypeOK
<1>1. ASSUME UNCHANGED refreshes, \A e \in RoleEdits : (edit'[e] = "waiting") = (edit[e] = "waiting")
      PROVE  QueueIsWaiting'
  BY <1>1 DEF QueueIsWaiting
<1>2. ASSUME NEW e \in Edits, Begin(e) \/ WriteChannel(e) \/ WriteRole(e) \/ End(e) \/ FollowChannel(e)
      PROVE  QueueIsWaiting'
  <2>1. UNCHANGED refreshes /\ \A f \in RoleEdits : (edit'[f] = "waiting") = (edit[f] = "waiting")
    BY <1>2 DEF Begin, WriteChannel, WriteRole, End, Finish, FollowChannel, TypeOK
  <2>2. QED
    BY <1>1, <2>1
<1>3. ASSUME NEW e \in Edits, ReadRoles(e) PROVE QueueIsWaiting'
  <2>1. /\ e \in RoleEdits /\ edit[e] = "ended" /\ refreshes' = Append(refreshes, e)
        /\ edit' = [edit EXCEPT ![e] = "waiting"]
    BY <1>3 DEF ReadRoles
  <2>2. /\ DOMAIN refreshes' = 1..(Len(refreshes) + 1)
        /\ \A i \in 1..Len(refreshes) : refreshes'[i] = refreshes[i]
        /\ refreshes'[Len(refreshes) + 1] = e
    BY <1>0, <2>1
  <2>3. \A i \in 1..Len(refreshes) : refreshes[i] # e
    <3>1. ~\E i \in DOMAIN refreshes : refreshes[i] = e
      BY <2>1 DEF QueueIsWaiting
    <3>2. QED
      BY <1>0, <3>1
  <2>4. \A f \in RoleEdits : edit'[f] = IF f = e THEN "waiting" ELSE edit[f]
    BY <2>1 DEF TypeOK
  <2>5. ASSUME NEW f \in RoleEdits
        PROVE  edit'[f] = "waiting" <=> \E i \in DOMAIN refreshes' : refreshes'[i] = f
    <3>1. CASE f = e
      BY <1>0, <2>2, <2>4, <3>1
    <3>2. CASE f # e
      <4>1. (\E i \in DOMAIN refreshes' : refreshes'[i] = f) <=> \E i \in DOMAIN refreshes : refreshes[i] = f
        BY <1>0, <2>2, <3>2
      <4>2. QED
        BY <2>4, <3>2, <4>1 DEF QueueIsWaiting
    <3>3. QED
      BY <3>1, <3>2
  <2>6. ASSUME NEW i \in DOMAIN refreshes', NEW j \in DOMAIN refreshes', refreshes'[i] = refreshes'[j]
        PROVE  i = j
    <3>1. /\ i \in 1..Len(refreshes) \/ i = Len(refreshes) + 1
          /\ j \in 1..Len(refreshes) \/ j = Len(refreshes) + 1
      BY <1>0, <2>2
    <3>2. QED
      BY <1>0, <2>2, <2>3, <2>6, <3>1 DEF QueueIsWaiting
  <2>7. QED
    BY <2>5, <2>6 DEF QueueIsWaiting
<1>4. ASSUME NEW e \in Edits, PublishRoles(e) PROVE QueueIsWaiting'
  <2>1. /\ refreshes # <<>> /\ e = refreshes[1] /\ refreshes' = Tail(refreshes)
        /\ edit' = [edit EXCEPT ![e] = "done"]
    BY <1>0, <1>4 DEF PublishRoles
  <2>2. /\ Len(refreshes) >= 1 /\ DOMAIN refreshes' = 1..(Len(refreshes) - 1)
        /\ \A i \in 1..(Len(refreshes) - 1) : refreshes'[i] = refreshes[i + 1]
    BY <1>0, <2>1
  <2>3. \A i \in 2..Len(refreshes) : refreshes[i] # e
    BY <1>0, <2>1, <2>2 DEF QueueIsWaiting
  <2>4. \A f \in RoleEdits : edit'[f] = IF f = e THEN "done" ELSE edit[f]
    BY <2>1 DEF TypeOK
  <2>5. ASSUME NEW f \in RoleEdits
        PROVE  edit'[f] = "waiting" <=> \E i \in DOMAIN refreshes' : refreshes'[i] = f
    <3>1. (\E i \in DOMAIN refreshes' : refreshes'[i] = f) <=> \E i \in 2..Len(refreshes) : refreshes[i] = f
      <4>1. ASSUME NEW i \in DOMAIN refreshes', refreshes'[i] = f
            PROVE  i + 1 \in 2..Len(refreshes) /\ refreshes[i + 1] = f
        BY <1>0, <2>2, <4>1
      <4>2. ASSUME NEW i \in 2..Len(refreshes), refreshes[i] = f
            PROVE  i - 1 \in DOMAIN refreshes' /\ refreshes'[i - 1] = f
        <5>1. i - 1 \in 1..(Len(refreshes) - 1) /\ (i - 1) + 1 = i
          BY <1>0
        <5>2. QED
          BY <2>2, <4>2, <5>1
      <4>3. QED
        BY <4>1, <4>2
    <3>2. CASE f = e
      BY <2>3, <2>4, <3>1, <3>2
    <3>3. CASE f # e
      <4>1. (\E i \in 2..Len(refreshes) : refreshes[i] = f) <=> \E i \in DOMAIN refreshes : refreshes[i] = f
        BY <1>0, <2>1, <3>3
      <4>2. QED
        BY <2>4, <3>1, <3>3, <4>1 DEF QueueIsWaiting
    <3>4. QED
      BY <3>2, <3>3
  <2>6. ASSUME NEW i \in DOMAIN refreshes', NEW j \in DOMAIN refreshes', refreshes'[i] = refreshes'[j]
        PROVE  i = j
    <3>1. /\ i + 1 \in DOMAIN refreshes /\ j + 1 \in DOMAIN refreshes /\ i \in Int /\ j \in Int
          /\ refreshes[i + 1] = refreshes[j + 1]
      BY <1>0, <2>2, <2>6
    <3>2. i + 1 = j + 1
      BY <3>1 DEF QueueIsWaiting
    <3>3. QED
      BY <3>1, <3>2
  <2>7. QED
    BY <2>5, <2>6 DEF QueueIsWaiting
<1>5. ASSUME PostNext \/ ConnNext \/ UNCHANGED vars PROVE UNCHANGED <<refreshes, edit>>
  BY <1>5 DEF PostNext, ConnNext, vars, Receive, ReadChannel, ReadMember, Save, Broadcast,
              ReadSummary, Address, Ask, Publish, SignIn, ReadSnapshot, Register, AuthSuccess, ResyncRead,
              ResyncSend, ResyncLate
<1>6. ASSUME PostNext \/ ConnNext \/ UNCHANGED vars PROVE QueueIsWaiting'
  BY <1>1, <1>5, <1>6
<1>7. QED
  BY <1>2, <1>3, <1>4, <1>6 DEF Next, EditNext

LEMMA TailKeepsLast ==
  ASSUME NEW S, NEW s \in Seq(S), Len(s) > 1
  PROVE  /\ Tail(s) # <<>> /\ Len(Tail(s)) = Len(s) - 1
         /\ Tail(s)[Len(Tail(s))] = s[Len(s)]
<1>1. Len(s) \in Nat /\ Len(Tail(s)) = Len(s) - 1
  OBVIOUS
<1>2. \A i \in 1..(Len(s) - 1) : Tail(s)[i] = s[i + 1]
  OBVIOUS
<1>3. Len(s) - 1 \in 1..(Len(s) - 1) /\ (Len(s) - 1) + 1 = Len(s)
  BY <1>1
<1>4. Tail(s)[Len(s) - 1] = s[Len(s)]
  BY <1>2, <1>3
<1>5. Tail(s) # <<>>
  <2>1. ASSUME NEW t, Len(t) >= 1 PROVE t # <<>>
    BY <2>1
  <2>2. Len(Tail(s)) >= 1
    BY <1>1
  <2>3. QED
    BY <2>1, <2>2, Zenon
<1>6. QED
  BY <1>1, <1>4, <1>5

\* A request tells those who are in what it owes them, or still owes it.
LEMMA EditsTell ==
  ASSUME TypeOK, QueueIsWaiting, RolesOnTheWay, ListsFollow, ConnsInStep, EditNext
  PROVE  /\ RolesOnTheWay' /\ ListsFollow'
         /\ \A u \in Users : /\ Tracked(conn'[u])
                             /\ conn'[u].versions = conn[u].versions
<1>. USE ChannelAccessAssumption DEF Edits
<1>0. refreshes \in Seq(RoleEdits) /\ DOMAIN refreshes = 1..Len(refreshes) /\ Len(refreshes) \in Nat
  BY DEF TypeOK
<1>1. PICK e \in Edits : \/ Begin(e) \/ WriteChannel(e) \/ WriteRole(e) \/ End(e) \/ FollowChannel(e)
                        \/ ReadRoles(e) \/ PublishRoles(e)
  BY DEF EditNext
<1>2. CASE Begin(e) \/ End(e)
  <2>1. /\ UNCHANGED <<stored, carries, refreshes, conn>>
        /\ \A f \in Edits : (edit'[f] \in {"written", "ended"}) = (edit[f] \in {"written", "ended"})
        /\ \A f \in Edits : (edit'[f] = "waiting") = (edit[f] = "waiting")
    BY <1>2 DEF Begin, End, Finish, TypeOK
  <2>2. RolesRead' = RolesRead /\ Followed' = Followed
    BY <2>1 DEF RolesRead, Followed
  <2>3. QED
    BY <2>1, <2>2 DEF RolesOnTheWay, ListsFollow, ConnsInStep, Visible, May, stored
<1>3. CASE WriteChannel(e)
  <2>1. /\ UNCHANGED <<holders, carries, refreshes, conn>> /\ edit'[e] = "written"
        /\ \A f \in RoleEdits : edit'[f] = edit[f]
    BY <1>3 DEF WriteChannel, TypeOK
  <2>2. RolesRead' = RolesRead /\ ~Followed'
    BY <2>1 DEF RolesRead, Followed
  <2>3. QED
    BY <2>1, <2>2 DEF RolesOnTheWay, ListsFollow, ConnsInStep
<1>4. CASE WriteRole(e)
  <2>1. UNCHANGED conn /\ e \in RoleEdits /\ edit'[e] = "written"
    BY <1>4 DEF WriteRole, TypeOK
  <2>2. ~RolesRead' /\ ~Followed'
    BY <2>1 DEF RolesRead, Followed
  <2>3. QED
    BY <2>1, <2>2 DEF RolesOnTheWay, ListsFollow, ConnsInStep
<1>5. CASE FollowChannel(e)
  <2>1. /\ UNCHANGED <<stored, carries, refreshes>>
        /\ \A f \in RoleEdits : edit'[f] = edit[f]
    BY <1>5 DEF FollowChannel, TypeOK
  <2>2. RolesRead' = RolesRead
    BY <2>1 DEF RolesRead
  <2>3. \A u \in Users : /\ conn'[u].at = conn[u].at /\ conn'[u].versions = conn[u].versions
                         /\ Tracked(conn'[u]) /\ conn'[u].roles = conn[u].roles
                         /\ conn[u].at = "in" => conn'[u].listed = Visible(u)
    BY <1>5, FollowTells
  <2>4. RolesOnTheWay'
    BY <2>1, <2>2, <2>3 DEF RolesOnTheWay, stored
  <2>5. ListsFollow'
    BY <2>1, <2>3 DEF ListsFollow, Visible, May, stored
  <2>6. QED
    BY <2>3, <2>4, <2>5
<1>6. CASE ReadRoles(e)
  <2>1. /\ e \in RoleEdits /\ refreshes' = Append(refreshes, e) /\ UNCHANGED <<stored, conn>>
        /\ carries'[e] = holders /\ edit'[e] = "waiting"
    BY <1>6 DEF ReadRoles, TypeOK
  <2>2. refreshes' # <<>> /\ refreshes'[Len(refreshes')] = e
    BY <1>0, <2>1
  <2>3. RolesOnTheWay'
    BY <2>1, <2>2 DEF RolesOnTheWay, stored
  <2>4. ~Followed'
    BY <2>1 DEF Followed
  <2>5. QED
    BY <2>1, <2>3, <2>4 DEF ListsFollow, ConnsInStep
<1>7. CASE PublishRoles(e)
  <2>1. /\ refreshes # <<>> /\ e = refreshes[1] /\ refreshes' = Tail(refreshes) /\ UNCHANGED stored
        /\ edit' = [edit EXCEPT ![e] = "done"] /\ carries' = [carries EXCEPT ![e] = {}]
    BY <1>0, <1>7 DEF PublishRoles
  <2>2. e \in RoleEdits /\ Len(refreshes) >= 1
    BY <1>0, <2>1
  <2>3. \A u \in Users : /\ conn'[u].at = conn[u].at /\ conn'[u].versions = conn[u].versions
                         /\ Tracked(conn'[u])
                         /\ conn[u].at = "in" => conn'[u].roles = carries[e] /\ conn'[u].listed = Visible(u)
    BY <1>7, <2>2, PublishTells
  <2>4. RolesRead' = RolesRead
    <3>1. edit[e] = "waiting"
      BY <1>7 DEF PublishRoles
    <3>2. \A f \in RoleEdits : (edit'[f] \in {"written", "ended"}) = (edit[f] \in {"written", "ended"})
      BY <2>1, <3>1 DEF TypeOK
    <3>3. QED
      BY <3>2 DEF RolesRead
  <2>5. RolesOnTheWay'
    <3>. SUFFICES ASSUME RolesRead'
                  PROVE  IF refreshes' = <<>> THEN \A u \in Users : conn'[u].at = "in" => conn'[u].roles = holders'
                         ELSE carries'[refreshes'[Len(refreshes')]] = holders'
      BY DEF RolesOnTheWay
    <3>1. carries[refreshes[Len(refreshes)]] = holders /\ holders' = holders
      BY <2>1, <2>4 DEF RolesOnTheWay, stored
    <3>2. CASE Len(refreshes) = 1
      <4>1. refreshes' = <<>> /\ carries[e] = holders
        BY <1>0, <2>1, <3>1, <3>2
      <4>2. QED
        BY <2>3, <3>1, <4>1
    <3>3. CASE Len(refreshes) > 1
      <4>1. /\ refreshes' # <<>> /\ Len(refreshes') = Len(refreshes) - 1
            /\ refreshes'[Len(refreshes')] = refreshes[Len(refreshes)]
        BY <1>0, <2>1, <3>3, TailKeepsLast
      <4>2. refreshes[Len(refreshes)] # e /\ refreshes[Len(refreshes)] \in RoleEdits
        BY <1>0, <2>1, <3>3 DEF QueueIsWaiting
      <4>3. carries'[refreshes[Len(refreshes)]] = carries[refreshes[Len(refreshes)]]
        BY <2>1, <4>2 DEF TypeOK
      <4>4. QED
        BY <3>1, <4>1, <4>3
    <3>4. QED
      BY <1>0, <2>2, <3>2, <3>3
  <2>6. ListsFollow'
    BY <2>1, <2>3 DEF ListsFollow, Visible, May, stored
  <2>7. QED
    BY <2>3, <2>5, <2>6
<1>8. QED
  BY <1>1, <1>2, <1>3, <1>4, <1>5, <1>6, <1>7

LEMMA NextTInv == TInv /\ [Next]_vars => TInv'
<1>. SUFFICES ASSUME TInv, [Next]_vars PROVE TInv'
  OBVIOUS
<1>0. IInv /\ TypeOK /\ CountsAgree /\ QueueIsWaiting /\ RolesOnTheWay /\ ListsFollow /\ ConnsInStep
  BY DEF TInv, IInv
<1>1. IInv' /\ QueueIsWaiting'
  BY <1>0, NextIInv, QueueStep
<1>2. CASE EditNext
  <2>1. /\ RolesOnTheWay' /\ ListsFollow'
        /\ \A u \in Users : Tracked(conn'[u]) /\ conn'[u].versions = conn[u].versions
    BY <1>0, <1>2, EditsTell
  <2>2. ASSUME NEW u \in Users PROVE Behind(conn[u].versions)' /\ ~Unchanged(conn[u].versions)'
    <3>1. conn[u].versions \in Versions \X Versions /\ Behind(conn[u].versions)
      BY <1>0 DEF TypeOK, ConnsInStep, Fresh
    <3>. DEFINE v == conn[u].versions
    <3>2. Behind(v)' /\ ~Unchanged(v)'
      <4>. SUFFICES ASSUME NEW w \in Versions \X Versions, Behind(w), w = conn'[u].versions
                    PROVE  Behind(w)' /\ ~Unchanged(w)'
        BY <2>1, <3>1
      <4>1. QED
        BY <1>0, <1>2, EditsSupersede
    <3>3. QED
      BY <3>2
  <2>3. ConnsInStep'
    BY <2>1, <2>2 DEF ConnsInStep, Tracked, Fresh
  <2>4. QED
    BY <1>1, <2>1, <2>3 DEF TInv
<1>3. ASSUME UNCHANGED <<stored, epoch, roleEpoch, edit, carries, refreshes>>,
             \A u \in Users :
               /\ Tracked(conn'[u]) /\ Fresh(u, conn'[u])
               /\ conn'[u].at = "in" => \/ conn'[u] = conn[u]
                                        \/ conn'[u].roles = holders /\ conn'[u].listed = Visible(u)
      PROVE  TInv'
  <2>1. ConnsInStep'
    BY <1>3 DEF ConnsInStep, Tracked, Fresh, Behind, Unchanged, Captured, Version, RoleVersion, Snapshot,
                Visible, May, stored, epoch, roleEpoch
  <2>2. RolesOnTheWay'
    BY <1>0, <1>3 DEF RolesOnTheWay, RolesRead, stored
  <2>3. ListsFollow'
    BY <1>0, <1>3 DEF ListsFollow, Followed, Visible, May, stored
  <2>4. QED
    BY <1>1, <2>1, <2>2, <2>3 DEF TInv
<1>4. CASE ConnNext
  <2>1. UNCHANGED <<stored, epoch, roleEpoch, edit, carries, refreshes>>
    BY <1>4 DEF ConnNext, SignIn, ReadSnapshot, Register, AuthSuccess, ResyncRead, ResyncSend, ResyncLate
  <2>2. QED
    BY <1>0, <1>3, <1>4, <2>1, SignInsTell
<1>5. CASE PostNext \/ UNCHANGED vars
  <2>1. UNCHANGED <<stored, epoch, roleEpoch, edit, carries, refreshes, conn>>
    BY <1>5 DEF PostNext, Receive, ReadChannel, ReadMember, Save, Broadcast, ReadSummary, Address, Ask, Publish,
                vars, stored, epoch, roleEpoch
  <2>2. QED
    BY <1>0, <1>3, <2>1 DEF ConnsInStep
<1>6. QED
  BY <1>2, <1>4, <1>5 DEF Next

\* PermissionService.refreshScreenRoles, ChannelVisibility.reconcile and
\* AuthHandler.resyncLoginAccess between them: once no request is under way,
\* whoever is signed in was told the roles as they are stored and the channels
\* it may see, in whatever order the requests read, published and crossed it.
THEOREM EveryoneToldAsItIs == Spec => []ToldAsItIs
<1>1. TInv => ToldAsItIs
  <2>. SUFFICES ASSUME TInv, Settled, NEW u \in Users, conn[u].at = "in"
                PROVE  conn[u].roles = holders /\ conn[u].listed = Visible(u)
    BY DEF ToldAsItIs
  <2>1. RolesRead /\ Followed
    BY DEF Settled, RolesRead, Followed, Edits
  <2>2. refreshes = <<>>
    <3>. SUFFICES ASSUME refreshes # <<>> PROVE FALSE
      OBVIOUS
    <3>1. 1 \in DOMAIN refreshes /\ refreshes[1] \in RoleEdits
      BY DEF TInv, IInv, TypeOK
    <3>2. edit[refreshes[1]] = "waiting"
      BY <3>1 DEF TInv, QueueIsWaiting
    <3>3. QED
      BY <3>1, <3>2 DEF Settled, Edits
  <2>3. QED
    BY <2>1, <2>2 DEF TInv, RolesOnTheWay, ListsFollow
<1>2. QED
  BY <1>1, InitTInv, NextTInv, PTL DEF Spec

=============================================================================
