------------------------- MODULE ConnectionsProofs -------------------------
(* Theorems about Connections, for every number of sockets, users, devices *)
(* and addresses.                                                          *)
EXTENDS Connections, FiniteSetTheorems, TLAPS

USE DEF Conns

-----------------------------------------------------------------------------
(* Type correctness.                                                       *)

\* Each event leaves every client showing every entry in one of five ways.
LEMMA DeliverType ==
  ASSUME NEW view \in [Conns -> [Keys -> Shown]], NEW R, NEW D
  PROVE  /\ Deliver(view, R, D, USER_JOINED) \in [Conns -> [Keys -> Shown]]
         /\ Deliver(view, R, D, USER_LEFT) \in [Conns -> [Keys -> Shown]]
         /\ Deliver(view, R, D, Reconnecting) \in [Conns -> [Keys -> Shown]]
         /\ Deliver(view, R, D, BackOnline) \in [Conns -> [Keys -> Shown]]
         /\ Deliver(view, R, D, Hidden) \in [Conns -> [Keys -> Shown]]
         /\ Deliver(view, R, D, Visible) \in [Conns -> [Keys -> Shown]]
         /\ Deliver(view, R, D, NewHidden) \in [Conns -> [Keys -> Shown]]
<1>1. ASSUME NEW e \in [Shown -> Shown] PROVE Deliver(view, R, D, e) \in [Conns -> [Keys -> Shown]]
  BY DEF Deliver
<1>2. /\ USER_JOINED \in [Shown -> Shown] /\ USER_LEFT \in [Shown -> Shown]
      /\ NewHidden \in [Shown -> Shown]
  BY DEF USER_JOINED, USER_LEFT, NewHidden, Shown
<1>3. Reconnecting \in [Shown -> Shown] /\ BackOnline \in [Shown -> Shown]
  BY DEF Reconnecting, BackOnline, Shown
<1>4. Hidden \in [Shown -> Shown] /\ Visible \in [Shown -> Shown]
  BY DEF Hidden, Visible, Shown
<1>5. QED
  BY <1>1, <1>2, <1>3, <1>4

\* So do the updates of a person.
LEMMA UpdateType ==
  ASSUME NEW view \in [Conns -> [Keys -> Shown]], NEW R, NEW u, NEW d
  PROVE  /\ UpdateHidden(view, R, u) \in [Conns -> [Keys -> Shown]]
         /\ UpdateVisible(view, R, u, d) \in [Conns -> [Keys -> Shown]]
BY DeliverType DEF UpdateHidden, UpdateVisible

\* Rows are added and removed one person at a time.
LEMMA RowType ==
  ASSUME NEW rows \in [Conns -> SUBSET Users], NEW R, NEW u
  PROVE  /\ removeMember(rows, R, u) \in [Conns -> SUBSET Users]
         /\ u \in Users => addMember(rows, R, u) \in [Conns -> SUBSET Users]
BY DEF addMember, removeMember

\* A client that is gone lists nobody.
LEMMA ForgetRowsType ==
  ASSUME TypeOK, NEW R
  PROVE  ForgetRows(R) \in [Conns -> SUBSET Users]
BY DEF ForgetRows, TypeOK

\* The departure of a device.
LEMMA LeaveType ==
  ASSUME NEW view \in [Conns -> [Keys -> Shown]], NEW rows \in [Conns -> SUBSET Users],
         NEW R, NEW d, Leave(view, rows, R, d)
  PROVE  told' \in [Conns -> [Keys -> Shown]] /\ listed' \in [Conns -> SUBSET Users]
BY DeliverType, RowType DEF Leave

\* What clients show stays well formed when some are forgotten.
LEMMA ForgetType ==
  ASSUME NEW view \in [Conns -> [Keys -> Shown]], NEW R
  PROVE  Forget(view, R) \in [Conns -> [Keys -> Shown]]
BY DEF Forget, NoView, Shown

\* Counting sockets out of an address never takes its counter below zero.
LEMMA SettledType ==
  ASSUME TypeOK, NEW R, NEW a \in Addresses
  PROVE  SettledCount(R, a) \in Nat
<1>1. IsFiniteSet(Conns)
  BY FS_Interval, ConnectionsAssumption
<1>2. AnonymousFrom(R, a) \subseteq Conns
  BY DEF AnonymousFrom, TypeOK
<1>3. Cardinality(AnonymousFrom(R, a)) \in Nat
  BY <1>1, <1>2, FS_Subset, FS_CardinalityType
<1>4. perAddress[a] \in Nat
  BY DEF TypeOK
<1>5. QED
  BY <1>3, <1>4 DEF SettledCount

\* Settling leaves the counters naturals.
LEMMA SettleType ==
  ASSUME TypeOK, NEW R, settleAnonymous(R)
  PROVE  anonymous' \subseteq Conns /\ perAddress' \in [Addresses -> Nat]
BY SettledType DEF settleAnonymous, TypeOK

\* Letting go of connections leaves the map well formed.
LEMMA UnbindType ==
  ASSUME TypeOK, NEW R
  PROVE  Unbind(R) \in [Devices -> Conns \cup {None}]
BY DEF Unbind, TypeOK

\* So does closing their sockets.
LEMMA ClosingType ==
  ASSUME TypeOK, NEW R
  PROVE  Closing(R) \in [Conns -> SockStates]
BY DEF Closing, TypeOK, SockStates

\* And all that releaseConnection does.
LEMMA ReleaseType ==
  ASSUME TypeOK, NEW R, Release(R)
  PROVE  /\ sessions' \subseteq Conns
         /\ sessionSockets' \in [Devices -> Conns \cup {None}]
         /\ anonymous' \subseteq Conns /\ perAddress' \in [Addresses -> Nat]
BY SettleType, UnbindType DEF Release, TypeOK

\* The whole of handleDisconnect keeps the types of what it changes.
LEMMA DisconnectType ==
  ASSUME TypeOK, NEW c \in Conns, handleDisconnect(c)
  PROVE  /\ sessions' \subseteq Conns
         /\ sessionSockets' \in [Devices -> Conns \cup {None}]
         /\ anonymous' \subseteq Conns /\ perAddress' \in [Addresses -> Nat]
         /\ reconnectTimers' \in [Devices -> Graces]
         /\ told' \in [Conns -> [Keys -> Shown]] /\ listed' \in [Conns -> SUBSET Users]
         /\ unannounced' \subseteq Devices \cup {None}
<1>1. Release({c})
  BY DEF handleDisconnect
<1>2. reconnectTimers' \in [Devices -> Graces]
  BY DEF handleDisconnect, Lost, wasInvisible, TypeOK, Graces
<1>3. told' \in [Conns -> [Keys -> Shown]] /\ listed' \in [Conns -> SUBSET Users]
  <2>1. told \in [Conns -> [Keys -> Shown]]
    BY DEF TypeOK
  <2>2. Forget(told, {c}) \in [Conns -> [Keys -> Shown]]
    BY <2>1, ForgetType
  <2>3. ForgetRows({c}) \in [Conns -> SUBSET Users]
    BY ForgetRowsType
  <2>4. CASE Lost(c) /\ c \notin invisible /\ LeavesAtOnce(c)
    <3>1. Leave(Forget(told, {c}), ForgetRows({c}), Audience \ {c}, sid[c])
      BY <2>4 DEF handleDisconnect
    <3>2. QED
      BY <2>2, <2>3, <3>1, LeaveType
  <2>5. CASE ~ (Lost(c) /\ c \notin invisible /\ LeavesAtOnce(c))
    <3>1. /\ \/ told' = Forget(told, {c})
             \/ told' = Deliver(Forget(told, {c}), Audience \ {c}, {sid[c]}, Reconnecting)
          /\ listed' = ForgetRows({c})
      BY <2>5 DEF handleDisconnect
    <3>2. Deliver(Forget(told, {c}), Audience \ {c}, {sid[c]}, Reconnecting) \in [Conns -> [Keys -> Shown]]
      BY <2>2, DeliverType
    <3>3. QED
      BY <2>2, <2>3, <3>1, <3>2
  <2>6. QED
    BY <2>4, <2>5
<1>4. unannounced' \subseteq Devices \cup {None}
  BY DEF handleDisconnect, TypeOK
<1>5. QED
  BY <1>1, <1>2, <1>3, <1>4, ReleaseType

\* The stages of a sign-in: a device is named first, then a user is admitted.
LEMMA StagesStep ==
  ASSUME TypeOK, [Next]_vars
  PROVE  SignInOfUser'
<1>. USE ConnectionsAssumption
<1>. DEFINE Right(c) == /\ stage[c] \in {"probing", "verifying"} => claim[c] # None
                        /\ stage[c] \in {"admitted", "welcomed"} => sid[c] # None
<1>0. /\ stage \in [Conns -> Stages] /\ sid \in [Conns -> Devices \cup {None}]
      /\ claim \in [Conns -> Devices \cup {None}] /\ \A c \in Conns : Right(c)
  BY DEF TypeOK, SignInOfUser
<1>1. ASSUME NEW c \in Conns, Right(c)',
             \A b \in Conns \ {c} : stage'[b] = stage[b] /\ claim'[b] = claim[b] /\ sid'[b] = sid[b]
      PROVE  SignInOfUser'
  BY <1>0, <1>1 DEF SignInOfUser
<1>2. ASSUME NEW c \in Conns, admitted(c) PROVE SignInOfUser'
  <2>1. /\ sid' = [sid EXCEPT ![c] = claim[c]] /\ stage' = [stage EXCEPT ![c] = "admitted"]
        /\ claim' = claim /\ claim[c] # None
    BY <1>0, <1>2 DEF admitted
  <2>2. QED
    BY <1>0, <1>1, <2>1
<1>3. ASSUME NEW c \in Conns, \/ probed(c) \/ refused(c) \/ welcomed(c) \/ joined(c)
      PROVE  SignInOfUser'
  <2>1. sid' = sid /\ claim' = claim
    BY <1>3 DEF probed, refused, welcomed, joined
  <2>2. \A b \in Conns \ {c} : stage'[b] = stage[b]
    BY <1>0, <1>3 DEF probed, refused, welcomed, joined
  <2>3. Right(c)'
    BY <1>0, <1>3, <2>1 DEF probed, refused, welcomed, joined
  <2>4. QED
    BY <1>1, <2>1, <2>2, <2>3
<1>4. ASSUME NEW c \in Conns, NEW d \in Devices, answerChallenge(c, d) PROVE SignInOfUser'
  <2>1. /\ sid' = sid /\ claim' = [claim EXCEPT ![c] = d]
        /\ stage' = [stage EXCEPT ![c] = "probing"]
    BY <1>4 DEF answerChallenge
  <2>2. QED
    BY <1>0, <1>1, <2>1
<1>5. ASSUME UNCHANGED <<sid, stage, claim>> PROVE SignInOfUser'
  BY <1>0, <1>5 DEF SignInOfUser
<1>6. \/ UNCHANGED <<sid, stage, claim>>
      \/ \E c \in Conns : \/ admitted(c) \/ probed(c) \/ refused(c) \/ welcomed(c) \/ joined(c)
                          \/ \E d \in Devices : answerChallenge(c, d)
  BY DEF Next, Handlers, vars, connection, PeerCloses, authDeadline, closeEvent, checkLiveness,
         setVisibility, logout, kick, graceExpires, toggleOffline, disconnectBot, kicked, close,
         closeTimers, closeTransport, stopped, loginVars
<1>7. QED
  BY <1>2, <1>3, <1>4, <1>5, <1>6

\* Type correctness is inductive by itself: no step needs more than its types.
LEMMA TypeStep ==
  ASSUME TypeOK, [Next]_vars
  PROVE  TypeOK'
<1>0. SignInOfUser'
  BY StagesStep
<1>. USE ConnectionsAssumption, <1>0
<1>1. ASSUME NEW a \in Addresses, connection(a) PROVE TypeOK'
  <2>1. opened + 1 \in Conns /\ opened + 1 \in 0..MaxConns
    BY <1>1 DEF connection, TypeOK
  <2>2. sock' \in [Conns -> SockStates]
    <3>1. Closing(Crowding) \in [Conns -> SockStates]
      BY ClosingType
    <3>2. sock' = [sock EXCEPT ![opened + 1] = "closed"]
          \/ sock' = [Closing(Crowding) EXCEPT ![opened + 1] = "open"]
      BY <1>1 DEF connection
    <3>3. sock \in [Conns -> SockStates]
      BY DEF TypeOK
    <3>4. QED
      BY <3>1, <3>2, <3>3 DEF SockStates
  <2>3. anonymous' \subseteq Conns /\ sessions' \subseteq Conns
    <3>1. /\ anonymous' = anonymous \/ anonymous' = (anonymous \ Crowding) \cup {opened + 1}
          /\ sessions' = sessions \/ sessions' = sessions \cup {opened + 1}
      BY <1>1 DEF connection, anonVars
    <3>2. anonymous \subseteq Conns /\ sessions \subseteq Conns
      BY DEF TypeOK
    <3>3. QED
      BY <2>1, <3>1, <3>2
  <2>4. perAddress' \in [Addresses -> Nat]
    <3>1. \A b \in Addresses : SettledCount(Crowding, b) \in Nat
      BY SettledType
    <3>2. perAddress \in [Addresses -> Nat]
      BY DEF TypeOK
    <3>3. \/ perAddress' = perAddress
          \/ perAddress' = [b \in Addresses |->
                SettledCount(Crowding, b) + (IF b = a /\ a \in Counted THEN 1 ELSE 0)]
      BY <1>1 DEF connection, anonVars
    <3>4. QED
      BY <3>1, <3>2, <3>3
  <2>5. addr' \in [Conns -> Addresses \cup {None}]
    BY <1>1, <2>1 DEF connection, TypeOK
  <2>6. QED
    BY <1>1, <2>1, <2>2, <2>3, <2>4, <2>5
    DEF connection, TypeOK, flagVars, loginVars, kickVars, clientVars
<1>2. ASSUME NEW c \in Conns, PeerCloses(c) \/ authDeadline(c) PROVE TypeOK'
  <2>1. /\ sock' = [sock EXCEPT ![c] = "closing"]
        /\ UNCHANGED <<opened, addr, sessions, sid, flagVars, sessionSockets, reconnectTimers,
                       anonVars, loginVars, kickVars, choice, clientVars, phase, unannounced>>
    BY <1>2 DEF PeerCloses, authDeadline
  <2>2. QED
    BY <2>1 DEF TypeOK, SockStates, flagVars, anonVars, loginVars, kickVars, clientVars
<1>3. ASSUME NEW c \in Conns, closeEvent(c) \/ checkLiveness(c) PROVE TypeOK'
  <2>1. handleDisconnect(c)
    BY <1>3 DEF closeEvent, checkLiveness
  <2>2. sock' \in [Conns -> SockStates]
    BY <1>3, ClosingType DEF closeEvent, checkLiveness, TypeOK, SockStates
  <2>3. UNCHANGED <<opened, addr, sid, replaced, loggedOut, invisible, stage, claim, removed, kicking,
                    choice, phase>>
    BY <1>3 DEF closeEvent, checkLiveness, flagVars, loginVars, kickVars
  <2>4. /\ sessions' \subseteq Conns
        /\ sessionSockets' \in [Devices -> Conns \cup {None}]
        /\ anonymous' \subseteq Conns /\ perAddress' \in [Addresses -> Nat]
        /\ reconnectTimers' \in [Devices -> Graces]
        /\ told' \in [Conns -> [Keys -> Shown]] /\ listed' \in [Conns -> SUBSET Users]
        /\ unannounced' \subseteq Devices \cup {None}
    BY <2>1, DisconnectType
  <2>5. QED
    BY <2>2, <2>3, <2>4 DEF TypeOK
<1>4. ASSUME NEW c \in Conns, NEW d \in Devices, answerChallenge(c, d) PROVE TypeOK'
  BY <1>4 DEF answerChallenge, TypeOK, Stages, netVars, anonVars, kickVars, clientVars
<1>5. ASSUME NEW c \in Conns, probed(c) \/ refused(c) PROVE TypeOK'
  <2>1. stage' \in [Conns -> Stages]
    BY <1>5 DEF probed, refused, TypeOK, Stages
  <2>2. UNCHANGED <<opened, sock, addr, sessions, sid, replaced, loggedOut, invisible, sessionSockets,
                    reconnectTimers, anonymous, perAddress, claim, removed, kicking, choice, told,
                    listed, unannounced, phase>>
    BY <1>5 DEF probed, refused, netVars, flagVars, anonVars, kickVars, clientVars
  <2>3. QED
    BY <2>1, <2>2 DEF TypeOK
<1>6. ASSUME NEW c \in Conns, admitted(c) PROVE TypeOK'
  <2>1. sessions' \subseteq Conns /\ replaced' \subseteq Conns
    BY <1>6 DEF admitted, TypeOK
  <2>2. sock' \in [Conns -> SockStates]
    BY <1>6, ClosingType DEF admitted
  <2>3. sessionSockets' \in [Devices -> Conns \cup {None}]
    BY <1>6, UnbindType DEF admitted
  <2>4. anonymous' \subseteq Conns /\ perAddress' \in [Addresses -> Nat]
    BY <1>6, SettleType DEF admitted
  <2>5. told' \in [Conns -> [Keys -> Shown]]
    <3>1. Forget(told, Stale(c)) \in [Conns -> [Keys -> Shown]]
      BY ForgetType DEF TypeOK
    <3>2. QED
      BY <1>6, <3>1, DeliverType DEF admitted
  <2>6. stage' \in [Conns -> Stages] /\ sid' \in [Conns -> Devices \cup {None}]
        /\ reconnectTimers' \in [Devices -> Graces]
    BY <1>6 DEF admitted, TypeOK, Stages, Graces
  <2>7. unannounced' \subseteq Devices \cup {None} /\ listed' \in [Conns -> SUBSET Users]
    BY <1>6, ForgetRowsType DEF admitted, TypeOK
  <2>8. UNCHANGED <<opened, addr, loggedOut, invisible, claim, removed, kicking, choice, phase>>
    BY <1>6 DEF admitted, kickVars
  <2>9. QED
    BY <2>1, <2>2, <2>3, <2>4, <2>5, <2>6, <2>7, <2>8 DEF TypeOK
<1>7. ASSUME NEW c \in Conns, welcomed(c) PROVE TypeOK'
  <2>1. RosterView(c) \in [Keys -> Shown]
    BY DEF RosterView, Shown
  <2>2. told' \in [Conns -> [Keys -> Shown]]
    BY <1>7, <2>1, DeliverType DEF welcomed, TypeOK
  <2>3. stage' \in [Conns -> Stages]
    BY <1>7 DEF welcomed, TypeOK, Stages
  <2>4. listed' \in [Conns -> SUBSET Users]
    <3>1. \A s \in Roster(c) : userOf(s) \in Users
      BY DEF Roster, userOf, TypeOK
    <3>2. sid[c] \in Bots => userOf(c) \in Users
      BY DEF userOf
    <3>3. listed \in [Conns -> SUBSET Users]
      BY DEF TypeOK
    <3>4. {userOf(s) : s \in Roster(c)} \subseteq Users
      BY <3>1
    <3>5. [listed EXCEPT ![c] = {userOf(s) : s \in Roster(c)}] \in [Conns -> SUBSET Users]
      BY <3>3, <3>4
    <3>6. sid[c] \in Bots => addMember(listed, Audience \ {c}, userOf(c)) \in [Conns -> SUBSET Users]
      BY <3>2, <3>3, RowType
    <3>7. QED
      BY <1>7, <3>3, <3>5, <3>6 DEF welcomed
  <2>5. QED
    BY <1>7, <2>2, <2>3, <2>4 DEF welcomed, TypeOK, netVars, flagVars, anonVars, kickVars
<1>8. ASSUME NEW c \in Conns, NEW hide
      PROVE  /\ ViewOf(c, hide) \in [Conns -> [Keys -> Shown]]
             /\ VisibilityOf(c, hide) \subseteq Conns
             /\ sid[c] \in Devices => RowsOf(c, hide) \in [Conns -> SUBSET Users]
  <2>1. told \in [Conns -> [Keys -> Shown]] /\ listed \in [Conns -> SUBSET Users]
    BY DEF TypeOK
  <2>2. /\ UpdateHidden(told, Strangers(c), userOf(c)) \in [Conns -> [Keys -> Shown]]
        /\ UpdateVisible(told, Audience, userOf(c), sid[c]) \in [Conns -> [Keys -> Shown]]
    BY <2>1, UpdateType
  <2>3. ViewOf(c, hide) \in [Conns -> [Keys -> Shown]]
    BY <2>2, DeliverType DEF ViewOf
  <2>4. sid[c] \in Devices => userOf(c) \in Users
    BY DEF userOf
  <2>5. sid[c] \in Devices => RowsOf(c, hide) \in [Conns -> SUBSET Users]
    BY <2>1, <2>4, RowType DEF RowsOf
  <2>6. QED
    BY <2>3, <2>5 DEF VisibilityOf, Mates, sessionsOfUser, TypeOK
<1>9. ASSUME NEW c \in Conns, NEW hide PROVE ChoiceOf(c, hide) \subseteq Devices
  <2>1. \A s \in Mates(c) : sid[s] \in Devices
    BY DEF Mates, sessionsOfUser, TypeOK
  <2>2. {sid[s] : s \in Mates(c) \cap Audience} \subseteq Devices
    BY <2>1
  <2>3. QED
    BY <2>2 DEF ChoiceOf, TypeOK
<1>10. ASSUME NEW c \in Conns, joined(c) PROVE TypeOK'
  <2>0. sid[c] \in Devices /\ userOf(c) \in Users
    BY <1>10 DEF joined, userOf, TypeOK, SignInOfUser
  <2>1. told' \in [Conns -> [Keys -> Shown]]
    BY <1>8, <1>10, DeliverType DEF joined, TypeOK
  <2>2. invisible' \subseteq Conns /\ choice' \subseteq Devices
    BY <1>8, <1>9, <1>10 DEF joined, TypeOK
  <2>3. stage' \in [Conns -> Stages]
    BY <1>10 DEF joined, TypeOK, Stages
  <2>4. listed' \in [Conns -> SUBSET Users]
    BY <1>8, <1>10, <2>0, RowType DEF joined, TypeOK
  <2>5. unannounced' \subseteq Devices \cup {None}
    BY <1>10 DEF joined, TypeOK
  <2>6. QED
    BY <1>10, <2>1, <2>2, <2>3, <2>4, <2>5 DEF joined, TypeOK, netVars, anonVars, kickVars
<1>11. ASSUME NEW c \in Conns, NEW hide \in BOOLEAN, setVisibility(c, hide) PROVE TypeOK'
  <2>1. sid[c] \in Devices
    BY <1>11 DEF setVisibility, FromApp, TypeOK
  <2>2. choice' \subseteq Devices
    BY <1>9, <1>11, <2>1 DEF setVisibility
  <2>3. unannounced' \subseteq Devices \cup {None} /\ listed' \in [Conns -> SUBSET Users]
    BY <1>8, <1>11, <2>1 DEF setVisibility, TypeOK
  <2>4. QED
    BY <1>8, <1>11, <2>2, <2>3 DEF setVisibility, TypeOK, netVars, anonVars, loginVars, kickVars
<1>12. ASSUME NEW c \in Conns, logout(c) PROVE TypeOK'
  BY <1>12 DEF logout, TypeOK, netVars, anonVars, loginVars, kickVars,
            clientVars
<1>13. ASSUME NEW c \in Conns, NEW u \in Users, kick(c, u) PROVE TypeOK'
  BY <1>13 DEF kick, TypeOK, netVars, flagVars, anonVars, loginVars,
            clientVars
<1>14. ASSUME NEW d \in Devices, graceExpires(d) PROVE TypeOK'
  <2>1. told' \in [Conns -> [Keys -> Shown]] /\ listed' \in [Conns -> SUBSET Users]
    <3>1. told \in [Conns -> [Keys -> Shown]] /\ listed \in [Conns -> SUBSET Users]
      BY DEF TypeOK
    <3>2. Leave(told, listed, Audience, d) \/ UNCHANGED <<told, listed>>
      BY <1>14 DEF graceExpires, clientVars
    <3>3. QED
      BY <3>1, <3>2, LeaveType
  <2>2. QED
    BY <1>14, <2>1
    DEF graceExpires, TypeOK, Graces, netVars, flagVars, anonVars, loginVars, kickVars
<1>15. ASSUME NEW d \in Devices, toggleOffline(d) PROVE TypeOK'
  BY <1>15 DEF toggleOffline, TypeOK, netVars, flagVars, anonVars, loginVars, kickVars,
            clientVars
<1>16. ASSUME NEW d \in Devices, disconnectBot(d) PROVE TypeOK'
  <2>. DEFINE out == {sessionSockets[d]} \ {None}
  <2>1. Release(out) /\ out \subseteq Conns
    BY <1>16 DEF disconnectBot, TypeOK
  <2>2. told' \in [Conns -> [Keys -> Shown]] /\ listed' \in [Conns -> SUBSET Users]
    <3>1. told \in [Conns -> [Keys -> Shown]] /\ listed \in [Conns -> SUBSET Users]
      BY DEF TypeOK
    <3>2. Leave(told, listed, Audience \ out, d)
      BY <1>16 DEF disconnectBot
    <3>3. QED
      BY <3>1, <3>2, LeaveType
  <2>3. sock' \in [Conns -> SockStates]
    BY <1>16, ClosingType DEF disconnectBot
  <2>4. replaced' \subseteq Conns
    BY <1>16, <2>1 DEF disconnectBot, TypeOK
  <2>5. QED
    BY <1>16, <2>1, <2>2, <2>3, <2>4, ReleaseType
    DEF disconnectBot, TypeOK, loginVars, kickVars
<1>17. ASSUME NEW u \in Users, kicked(u) PROVE TypeOK'
  <2>. DEFINE out == sessionsOfUser(u)
  <2>1. Release(out) /\ out \subseteq Conns
    BY <1>17 DEF kicked, TypeOK, sessionsOfUser
  <2>2. told' \in [Conns -> [Keys -> Shown]] /\ listed' \in [Conns -> SUBSET Users]
    <3>1. Forget(told, out) \in [Conns -> [Keys -> Shown]]
      BY ForgetType DEF TypeOK
    <3>2. ForgetRows(out) \in [Conns -> SUBSET Users]
      BY ForgetRowsType
    <3>3. QED
      BY <1>17, <3>1, <3>2, DeliverType, RowType DEF kicked
  <2>3. sock' \in [Conns -> SockStates]
    BY <1>17, ClosingType DEF kicked
  <2>4. replaced' \subseteq Conns /\ kicking' \subseteq Users
        /\ reconnectTimers' \in [Devices -> Graces]
    BY <1>17, <2>1 DEF kicked, ClearGraces, TypeOK, Graces
  <2>5. QED
    BY <1>17, <2>1, <2>2, <2>3, <2>4, ReleaseType DEF kicked, TypeOK, loginVars
<1>18. ASSUME close PROVE TypeOK'
  BY <1>18 DEF close, TypeOK, Phases, netVars, flagVars, anonVars, loginVars, kickVars,
            clientVars
<1>19. ASSUME closeTimers PROVE TypeOK'
  BY <1>19, SettleType
  DEF closeTimers, TypeOK, Phases, Graces, netVars, flagVars, loginVars, kickVars, clientVars
<1>20. ASSUME closeTransport PROVE TypeOK'
  BY <1>20, ClosingType
  DEF closeTransport, TypeOK, Phases, flagVars, anonVars, loginVars, kickVars, clientVars
<1>21. ASSUME UNCHANGED vars PROVE TypeOK'
  BY <1>21 DEF TypeOK, vars, netVars, flagVars, anonVars, loginVars, kickVars, clientVars
<1>22. QED
  BY <1>1, <1>2, <1>3, <1>4, <1>5, <1>6, <1>7, <1>10, <1>11, <1>12, <1>13, <1>14, <1>15,
     <1>16, <1>17, <1>18, <1>19, <1>20, <1>21
  DEF Next, Handlers, stopped

\* Every reachable state is well typed: no handler stores anything but what its
\* field may hold.
THEOREM TypeCorrect == Spec => []TypeOK
<1>1. Init => TypeOK
  BY ConnectionsAssumption
  DEF Init, TypeOK, SignInOfUser, SockStates, Stages, Shown, Graces, Phases, NoView
<1>2. TypeOK /\ [Next]_vars => TypeOK'
  BY TypeStep
<1>3. QED
  BY <1>1, <1>2, PTL DEF Spec

-----------------------------------------------------------------------------
(* The two maps of the registry.                                           *)

\* A socket that did not connect yet has no state.
Fresh == \A c \in Conns : c > opened =>
           c \notin sessions /\ c \notin replaced /\ sid[c] = None /\ stage[c] = "idle"

\* A sign-in belongs to a device, and has no session id before its admission.
SigningIn ==
  \A c \in Conns : /\ stage[c] \in {"idle", "probing", "verifying"} => sid[c] = None
                   /\ stage[c] \in {"probing", "verifying"} => claim[c] \in Devices

\* A connection that was let go is no longer registered.
LetGo == replaced \cap sessions = {}

\* A bot gets no grace.
BotsLeaveAtOnce == \A d \in Bots : reconnectTimers[d] = "none"

\* IndexAgrees alone is not inductive: the admission of a connection keeps it
\* only because that connection was signed in for no other device and was not
\* let go, and a new socket only because nothing was kept under its number.
IndexInv == TypeOK /\ Fresh /\ SigningIn /\ LetGo /\ BotsLeaveAtOnce
                   /\ IndexAgrees /\ NoGraceWhileBound

\* What letting go a set R of connections does to the maps: nobody else is
\* touched, and none of R stays registered or bound.
LEMMA ReleaseIndex ==
  ASSUME TypeOK, IndexAgrees, NEW R \in SUBSET Conns, Release(R), UNCHANGED sid,
         replaced' = replaced \/ replaced' = replaced \cup R
  PROVE  IndexAgrees'
<1>. SUFFICES ASSUME NEW c \in Conns, NEW d \in Devices
     PROVE  sessionSockets'[d] = c <=> c \in sessions' /\ sid'[c] = d /\ c \notin replaced'
  BY DEF IndexAgrees
<1>1. sessionSockets[d] = c <=> c \in sessions /\ sid[c] = d /\ c \notin replaced
  BY DEF IndexAgrees
<1>2. sessionSockets'[d] = IF sessionSockets[d] \in R THEN None ELSE sessionSockets[d]
  BY DEF Release, Unbind
<1>3. sessions' = sessions \ R
  BY DEF Release
<1>4. QED
  BY <1>1, <1>2, <1>3, ConnectionsAssumption

\* A released connection leaves its device unbound, so its grace may start.
LEMMA DisconnectIndex ==
  ASSUME IndexInv, NEW c \in Conns, handleDisconnect(c),
         UNCHANGED <<opened, sid, flagVars, loginVars>>
  PROVE  Fresh' /\ SigningIn' /\ LetGo' /\ BotsLeaveAtOnce' /\ IndexAgrees' /\ NoGraceWhileBound'
<1>. USE ConnectionsAssumption DEF IndexInv
<1>1. Release({c}) /\ sessions' = sessions \ {c}
  BY DEF handleDisconnect, Release
<1>2. IndexAgrees'
  BY <1>1, ReleaseIndex DEF flagVars
<1>3. NoGraceWhileBound'
  <2>. SUFFICES ASSUME NEW d \in Devices, reconnectTimers'[d] # "none"
       PROVE  sessionSockets'[d] = None
    BY DEF NoGraceWhileBound
  <2>1. sessionSockets'[d] = IF sessionSockets[d] = c THEN None ELSE sessionSockets[d]
    BY <1>1 DEF Release, Unbind
  <2>2. CASE reconnectTimers[d] # "none"
    BY <2>1, <2>2 DEF NoGraceWhileBound
  <2>3. CASE reconnectTimers[d] = "none"
    <3>1. d = sid[c] /\ c \in sessions /\ c \notin replaced
      BY <2>3 DEF handleDisconnect, Lost, TypeOK
    <3>2. sessionSockets[d] = c
      BY <3>1 DEF IndexAgrees
    <3>3. QED
      BY <2>1, <3>2
  <2>4. QED
    BY <2>2, <2>3
<1>4. BotsLeaveAtOnce'
  BY DEF handleDisconnect, Lost, LeavesAtOnce, BotsLeaveAtOnce, TypeOK
<1>5. Fresh' /\ SigningIn' /\ LetGo'
  BY <1>1 DEF Fresh, SigningIn, LetGo, flagVars, loginVars
<1>6. QED
  BY <1>2, <1>3, <1>4, <1>5

\* Every step keeps the invariant of the index.
LEMMA IndexStep ==
  ASSUME IndexInv, [Next]_vars
  PROVE  IndexInv'
<1>. USE ConnectionsAssumption
<1>. DEFINE Rest == Fresh /\ SigningIn /\ LetGo /\ BotsLeaveAtOnce
                          /\ IndexAgrees /\ NoGraceWhileBound
<1>0. TypeOK /\ TypeOK' /\ Rest
  BY TypeStep DEF IndexInv
<1>1. ASSUME NEW a \in Addresses, connection(a) PROVE Rest'
  <2>. DEFINE c == opened + 1
  <2>1. c \in Conns /\ opened' = c /\ c > opened
    BY <1>0, <1>1 DEF connection, TypeOK
  <2>2. c \notin sessions /\ c \notin replaced /\ sid[c] = None /\ stage[c] = "idle"
    BY <1>0, <2>1 DEF Fresh
  <2>3. sessions' = sessions \/ sessions' = sessions \cup {c}
    BY <1>1 DEF connection
  <2>4. UNCHANGED <<sid, flagVars, sessionSockets, reconnectTimers, loginVars>>
    BY <1>1 DEF connection
  <2>5. Fresh' /\ SigningIn' /\ LetGo'
    BY <1>0, <2>1, <2>2, <2>3, <2>4 DEF Fresh, SigningIn, LetGo, flagVars, loginVars, TypeOK
  <2>6. IndexAgrees'
    BY <1>0, <2>1, <2>2, <2>3, <2>4 DEF IndexAgrees, flagVars
  <2>7. BotsLeaveAtOnce' /\ NoGraceWhileBound'
    BY <1>0, <2>4 DEF BotsLeaveAtOnce, NoGraceWhileBound
  <2>8. QED
    BY <2>5, <2>6, <2>7
<1>2. ASSUME NEW c \in Conns, PeerCloses(c) \/ authDeadline(c) PROVE Rest'
  BY <1>0, <1>2
  DEF PeerCloses, authDeadline, Fresh, SigningIn, LetGo, BotsLeaveAtOnce, IndexAgrees,
      NoGraceWhileBound, flagVars, loginVars
<1>3. ASSUME NEW c \in Conns, closeEvent(c) \/ checkLiveness(c) PROVE Rest'
  BY <1>3, DisconnectIndex DEF closeEvent, checkLiveness
<1>4. ASSUME NEW c \in Conns, NEW d \in Devices, answerChallenge(c, d) PROVE Rest'
  <2>1. c \in sessions /\ c \notin replaced /\ stage[c] = "idle"
    BY <1>4 DEF answerChallenge, mayHandle
  <2>2. Fresh' /\ SigningIn'
    BY <1>0, <1>4, <2>1 DEF answerChallenge, Fresh, SigningIn, netVars, TypeOK
  <2>3. QED
    BY <1>0, <1>4, <2>2
    DEF answerChallenge, LetGo, BotsLeaveAtOnce, IndexAgrees, NoGraceWhileBound
<1>5. ASSUME NEW c \in Conns, probed(c) \/ refused(c) PROVE Rest'
  <2>1. Fresh' /\ SigningIn'
    BY <1>0, <1>5 DEF probed, refused, Fresh, SigningIn, netVars, flagVars, TypeOK
  <2>2. QED
    BY <1>0, <1>5, <2>1
    DEF probed, refused, LetGo, BotsLeaveAtOnce, IndexAgrees, NoGraceWhileBound, flagVars
<1>6. ASSUME NEW c \in Conns, admitted(c) PROVE Rest'
  <2>. DEFINE d == claim[c]
  <2>1. /\ stage[c] = "verifying" /\ sid[c] = None /\ d \in Devices
        /\ c \in sessions /\ c \notin replaced
    BY <1>0, <1>6 DEF admitted, isLive, SigningIn, LetGo
  <2>2. /\ sessions' = sessions \ Stale(c) /\ replaced' = replaced \cup (Stale(c) \cap sessions)
        /\ sid' = [sid EXCEPT ![c] = d] /\ stage' = [stage EXCEPT ![c] = "admitted"]
        /\ sessionSockets' = [Unbind(Stale(c)) EXCEPT ![d] = c]
        /\ UNCHANGED <<opened, claim>>
    BY <1>6 DEF admitted
  <2>3. c \notin Stale(c) /\ Stale(c) \subseteq Conns
    BY <1>0, <2>1 DEF Stale, TypeOK
  <2>4. \A b \in Stale(c) : b \in sessions /\ sid[b] = d /\ b \notin replaced
    BY <1>0, <2>1, <2>3 DEF Stale, IndexAgrees
  <2>5. Fresh' /\ SigningIn' /\ LetGo'
    BY <1>0, <2>1, <2>2, <2>3, <2>4 DEF Fresh, SigningIn, LetGo, TypeOK
  <2>6. IndexAgrees'
    <3>. SUFFICES ASSUME NEW b \in Conns, NEW e \in Devices
         PROVE  sessionSockets'[e] = b <=> b \in sessions' /\ sid'[b] = e /\ b \notin replaced'
      BY DEF IndexAgrees
    <3>1. sessionSockets[e] = b <=> b \in sessions /\ sid[b] = e /\ b \notin replaced
      BY <1>0 DEF IndexAgrees
    <3>2. sessionSockets'[e] = IF e = d THEN c
                               ELSE IF sessionSockets[e] \in Stale(c) THEN None
                               ELSE sessionSockets[e]
      BY <1>0, <2>1, <2>2 DEF Unbind, TypeOK
    <3>3. sid'[b] = IF b = c THEN d ELSE sid[b]
      BY <1>0, <2>2 DEF TypeOK
    <3>4. CASE b = c
      <4>1. sessionSockets[e] # c
        BY <1>0, <2>1 DEF IndexAgrees
      <4>2. QED
        BY <2>1, <2>2, <2>3, <3>2, <3>3, <3>4, <4>1
    <3>5. CASE b # c /\ e = d
      <4>1. b \in sessions /\ sid[b] = d /\ b \notin replaced => b \in Stale(c)
        BY <3>1, <3>5 DEF Stale
      <4>2. QED
        BY <2>2, <3>2, <3>3, <3>5, <4>1
    <3>6. CASE b # c /\ e # d
      <4>1. b \in Stale(c) => sid[b] # e
        BY <2>4, <3>6
      <4>2. b \in Stale(c) => sessionSockets[e] # b
        BY <3>1, <4>1
      <4>3. QED
        BY <2>2, <3>1, <3>2, <3>3, <3>6, <4>1, <4>2
    <3>7. QED
      BY <3>4, <3>5, <3>6
  <2>7. BotsLeaveAtOnce'
    BY <1>0, <1>6 DEF admitted, BotsLeaveAtOnce, TypeOK
  <2>8. NoGraceWhileBound'
    <3>. SUFFICES ASSUME NEW e \in Devices, reconnectTimers'[e] # "none"
         PROVE  sessionSockets'[e] = None
      BY DEF NoGraceWhileBound
    <3>1. e # d /\ reconnectTimers[e] # "none"
      BY <1>0, <1>6 DEF admitted, BotsLeaveAtOnce, TypeOK
    <3>2. sessionSockets[e] = None
      BY <1>0, <3>1 DEF NoGraceWhileBound
    <3>3. QED
      BY <1>0, <2>2, <3>1, <3>2 DEF Unbind, TypeOK
  <2>9. QED
    BY <2>5, <2>6, <2>7, <2>8
<1>7. ASSUME NEW c \in Conns, welcomed(c) \/ joined(c) PROVE Rest'
  <2>1. Fresh' /\ SigningIn'
    BY <1>0, <1>7 DEF welcomed, joined, Fresh, SigningIn, netVars, flagVars, TypeOK
  <2>2. QED
    BY <1>0, <1>7, <2>1
    DEF welcomed, joined, LetGo, BotsLeaveAtOnce, IndexAgrees, NoGraceWhileBound, flagVars
<1>8. ASSUME NEW c \in Conns, \/ \E hide \in BOOLEAN : setVisibility(c, hide)
                              \/ logout(c)
                              \/ \E u \in Users : kick(c, u)
      PROVE  Rest'
  BY <1>0, <1>8
  DEF setVisibility, logout, kick, Fresh, SigningIn, LetGo, BotsLeaveAtOnce, IndexAgrees,
      NoGraceWhileBound, netVars, flagVars, loginVars
<1>9. ASSUME NEW d \in Devices, graceExpires(d) \/ toggleOffline(d) PROVE Rest'
  BY <1>0, <1>9
  DEF graceExpires, toggleOffline, Fresh, SigningIn, LetGo, BotsLeaveAtOnce, IndexAgrees,
      NoGraceWhileBound, netVars, flagVars, loginVars, TypeOK
<1>10. ASSUME NEW d \in Devices, disconnectBot(d) PROVE Rest'
  <2>. DEFINE out == {sessionSockets[d]} \ {None}
  <2>1. /\ Release(out) /\ replaced' = replaced \cup out /\ sessions' = sessions \ out
        /\ UNCHANGED <<opened, sid, stage, claim, reconnectTimers>>
    BY <1>10 DEF disconnectBot, Release, loginVars
  <2>2. out \subseteq Conns /\ out \subseteq sessions
    BY <1>0 DEF TypeOK, IndexAgrees
  <2>3. Fresh' /\ SigningIn' /\ LetGo' /\ BotsLeaveAtOnce'
    BY <1>0, <2>1, <2>2 DEF Fresh, SigningIn, LetGo, BotsLeaveAtOnce
  <2>4. IndexAgrees'
    BY <1>0, <2>1, <2>2, ReleaseIndex
  <2>5. NoGraceWhileBound'
    BY <1>0, <2>1 DEF NoGraceWhileBound, Release, Unbind
  <2>6. QED
    BY <2>3, <2>4, <2>5
<1>11. ASSUME NEW u \in Users, kicked(u) PROVE Rest'
  <2>. DEFINE out == sessionsOfUser(u)
  <2>1. /\ Release(out) /\ replaced' = replaced \cup out /\ sessions' = sessions \ out
        /\ reconnectTimers' = ClearGraces(u)
        /\ UNCHANGED <<opened, sid, stage, claim>>
    BY <1>11 DEF kicked, Release, loginVars
  <2>2. out \subseteq Conns /\ out \subseteq sessions
    BY <1>0 DEF TypeOK, sessionsOfUser
  <2>3. Fresh' /\ SigningIn' /\ LetGo' /\ BotsLeaveAtOnce'
    BY <1>0, <2>1, <2>2 DEF Fresh, SigningIn, LetGo, BotsLeaveAtOnce, ClearGraces
  <2>4. IndexAgrees'
    BY <1>0, <2>1, <2>2, ReleaseIndex
  <2>5. NoGraceWhileBound'
    BY <1>0, <2>1 DEF NoGraceWhileBound, Release, Unbind, ClearGraces
  <2>6. QED
    BY <2>3, <2>4, <2>5
<1>12. ASSUME close \/ closeTimers \/ closeTransport PROVE Rest'
  BY <1>0, <1>12
  DEF close, closeTimers, closeTransport, Fresh, SigningIn, LetGo, BotsLeaveAtOnce,
      IndexAgrees, NoGraceWhileBound, netVars, flagVars, loginVars
<1>13. ASSUME UNCHANGED vars PROVE Rest'
  BY <1>0, <1>13
  DEF vars, Fresh, SigningIn, LetGo, BotsLeaveAtOnce, IndexAgrees, NoGraceWhileBound,
      netVars, flagVars, loginVars
<1>14. Rest'
  BY <1>1, <1>2, <1>3, <1>4, <1>5, <1>6, <1>7, <1>8, <1>9, <1>10, <1>11, <1>12, <1>13
  DEF Next, Handlers, stopped
<1>15. QED
  BY <1>0, <1>14 DEF IndexInv

\* It holds at the start.
LEMMA IndexInit == Init => IndexInv
<1>1. Init => TypeOK
  BY ConnectionsAssumption
  DEF Init, TypeOK, SignInOfUser, SockStates, Stages, Shown, Graces, Phases, NoView
<1>2. QED
  BY <1>1, ConnectionsAssumption
  DEF Init, IndexInv, Fresh, SigningIn, LetGo, BotsLeaveAtOnce, IndexAgrees, NoGraceWhileBound

\* So it always holds.
LEMMA IndexInvHolds == Spec => []IndexInv
BY IndexInit, IndexStep, PTL DEF Spec

\* A device is bound to a socket exactly when that socket's session is
\* registered, signed in for it and was not let go: replaceConnection, kick,
\* disconnectBot and late close events keep the two maps together.
THEOREM IndexCorrect == Spec => []IndexAgrees
<1>1. IndexInv => IndexAgrees
  BY DEF IndexInv
<1>2. QED
  BY <1>1, IndexInvHolds, PTL

\* A reconnection grace never runs for a connected device.
THEOREM GraceCorrect == Spec => []NoGraceWhileBound
<1>1. IndexInv => NoGraceWhileBound
  BY DEF IndexInv
<1>2. QED
  BY <1>1, IndexInvHolds, PTL

-----------------------------------------------------------------------------
(* The caps on anonymous sockets, and what a shutdown leaves.              *)

\* The anonymous sockets of an address.
From(a) == {c \in anonymous : addr[c] = a}

\* Only a registered connection whose sign-in is not admitted is anonymous.
AnonymousWait == \A c \in anonymous : c \in sessions /\ sid[c] = None

\* The counter of an address is the number of its anonymous sockets, and an
\* address that is not counted has none.
Counters == \A a \in Addresses :
              perAddress[a] = IF a \in Counted THEN Cardinality(From(a)) ELSE 0

\* The caps, as the connection handler reads them.
WithinCaps == /\ Cardinality(anonymous) <= MaxAnonymous
              /\ \A a \in Counted : perAddress[a] <= MaxPerAddress

\* A socket that may still speak without having signed in is counted.
Waiting == {c \in sessions : sid[c] = None /\ sock[c] = "open"}
AllCounted == phase = "up" => Waiting \subseteq anonymous

\* The close event of a socket takes its connection out of the registry.
RegisteredNotClosed == \A c \in sessions : sock[c] \in {"open", "closing"}

\* The timers are gone with the release that clears them, and no grace starts
\* once the server is closing.
NoGraceAfterTimers ==
  phase \in {"quiet", "down"} => \A d \in Devices : reconnectTimers[d] = "none"

\* AnonymousBounded is not inductive: the caps are kept because the counter the
\* handler reads is the number of sockets in every phase, and that number because
\* nobody is anonymous who is not registered or has signed in.
CapsInv == IndexInv /\ AnonymousWait /\ Counters /\ WithinCaps /\ AllCounted
                    /\ RegisteredNotClosed /\ NoGraceAfterTimers

\* Sets of sockets are finite, and so are those of one address.
LEMMA SocketsFinite ==
  ASSUME NEW S, S \subseteq Conns
  PROVE  IsFiniteSet(S) /\ Cardinality(S) \in Nat
<1>1. IsFiniteSet(Conns)
  BY FS_Interval, ConnectionsAssumption
<1>2. QED
  BY <1>1, FS_Subset, FS_CardinalityType

\* Of some sockets there is an oldest one: the sets of those no newer than one
\* of them are finite, so one such set has no other inside it.
LEMMA Oldest ==
  ASSUME NEW S, S \subseteq Conns, S # {}
  PROVE  \E m \in S : \A n \in S : m <= n
<1>. DEFINE R         == StrictSubsetOrdering(S)
            F         == FiniteSubsetsOf(S)
            NoNewer(n) == {k \in S : k <= n}
            T         == {NoNewer(n) : n \in S}
<1>0. IsFiniteSet(S) /\ S \subseteq Int
  <2>1. IsFiniteSet(S)
    BY SocketsFinite
  <2>2. QED
    BY <2>1, ConnectionsAssumption
<1>1. T \subseteq F
  BY <1>0, FS_Subset DEF FiniteSubsetsOf
<1>2. \E x \in T : \A y \in T : ~ (<<y, x>> \in R)
  <2>1. IsWellFoundedOn(R, F)
    BY <1>0, FS_StrictSubsetOrderingWellFounded
  <2>2. T # {}
    OBVIOUS
  <2>. HIDE DEF R, F, T
  <2>3. QED
    BY <1>1, <2>1, <2>2, WFMin
<1>3. PICK m \in S : \A n \in S : ~ (<<NoNewer(n), NoNewer(m)>> \in R)
  BY <1>2
<1>4. ASSUME NEW n \in S, n < m PROVE <<NoNewer(n), NoNewer(m)>> \in R
  <2>1. NoNewer(n) \in SUBSET S /\ NoNewer(m) \in SUBSET S /\ NoNewer(n) \subseteq NoNewer(m)
    <3>1. \A k \in S : k <= n => k <= m
      BY <1>0, <1>4
    <3>2. QED
      BY <3>1
  <2>2. m \in NoNewer(m) /\ m \notin NoNewer(n)
    BY <1>0, <1>4
  <2>. HIDE DEF NoNewer
  <2>3. QED
    BY <2>1, <2>2 DEF StrictSubsetOrdering
<1>. HIDE DEF R, F, T, NoNewer
<1>5. \A n \in S : ~ (n < m)
  BY <1>3, <1>4
<1>6. QED
  BY <1>0, <1>5

\* settleAnonymous takes out of each counter exactly the sockets it takes out
\* of the set: a socket settled before is not counted out again.
LEMMA SettledRight ==
  ASSUME TypeOK, Counters, NEW R, NEW a \in Addresses
  PROVE  /\ SettledCount(R, a) = IF a \in Counted
                                   THEN Cardinality({c \in anonymous \ R : addr[c] = a}) ELSE 0
         /\ SettledCount(R, a) <= perAddress[a]
<1>1. perAddress[a] = IF a \in Counted THEN Cardinality(From(a)) ELSE 0
  BY DEF Counters
<1>2. CASE a \notin Counted
  <2>1. AnonymousFrom(R, a) = {}
    BY <1>2 DEF AnonymousFrom
  <2>2. Cardinality(AnonymousFrom(R, a)) = 0
    BY <2>1, FS_EmptySet
  <2>3. QED
    BY <1>1, <1>2, <2>2 DEF SettledCount
<1>3. CASE a \in Counted
  <2>1. From(a) \subseteq Conns /\ AnonymousFrom(R, a) = From(a) \cap R
        /\ {c \in anonymous \ R : addr[c] = a} = From(a) \ R
    BY <1>3 DEF From, AnonymousFrom, TypeOK
  <2>2. Cardinality(From(a)) \in Nat /\ IsFiniteSet(From(a))
    BY <2>1, SocketsFinite
  <2>3. Cardinality(From(a) \ R) \in Nat /\ Cardinality(From(a) \cap R) \in Nat
    BY <2>1, SocketsFinite
  <2>4. Cardinality(From(a) \ R) = Cardinality(From(a)) - Cardinality(From(a) \cap R)
    BY <2>2, FS_Difference
  <2>5. Cardinality(From(a) \cap R) >= 0 /\ Cardinality(From(a) \ R) >= 0
    BY <2>3
  <2>6. perAddress[a] - Cardinality(AnonymousFrom(R, a)) = Cardinality(From(a) \ R)
    BY <1>1, <1>3, <2>1, <2>4
  <2>7. SettledCount(R, a) = Cardinality(From(a) \ R)
    BY <2>3, <2>5, <2>6 DEF SettledCount
  <2>8. Cardinality(From(a) \ R) <= perAddress[a]
    BY <1>1, <1>3, <2>2, <2>3, <2>4
  <2>9. QED
    BY <1>3, <2>1, <2>7, <2>8
<1>4. QED
  BY <1>2, <1>3

\* So the counters and the caps survive it, whoever is settled.
LEMMA SettleCaps ==
  ASSUME CapsInv, NEW R, settleAnonymous(R), UNCHANGED addr
  PROVE  Counters' /\ WithinCaps'
<1>0. TypeOK /\ Counters /\ WithinCaps
  BY DEF CapsInv, IndexInv
<1>1. anonymous' = anonymous \ R /\ perAddress' = [a \in Addresses |-> SettledCount(R, a)]
  BY DEF settleAnonymous
<1>2. Counters'
  BY <1>0, <1>1, SettledRight DEF Counters, From
<1>3. Cardinality(anonymous') <= MaxAnonymous
  <2>1. IsFiniteSet(anonymous) /\ anonymous' \subseteq anonymous
        /\ Cardinality(anonymous) \in Nat /\ Cardinality(anonymous') \in Nat
    BY <1>0, <1>1, SocketsFinite DEF TypeOK
  <2>2. Cardinality(anonymous') <= Cardinality(anonymous)
    BY <2>1, FS_Subset
  <2>3. QED
    BY <1>0, <2>1, <2>2, ConnectionsAssumption DEF WithinCaps
<1>4. ASSUME NEW a \in Counted PROVE perAddress'[a] <= MaxPerAddress
  <2>1. a \in Addresses
    BY ConnectionsAssumption
  <2>2. SettledCount(R, a) <= perAddress[a] /\ SettledCount(R, a) \in Nat
    BY <1>0, <2>1, SettledRight, SettledType
  <2>3. perAddress[a] <= MaxPerAddress /\ perAddress[a] \in Nat
    BY <1>0, <2>1 DEF WithinCaps, TypeOK
  <2>4. QED
    BY <1>1, <2>1, <2>2, <2>3, ConnectionsAssumption
<1>5. QED
  BY <1>2, <1>3, <1>4 DEF WithinCaps

\* The rest of the invariant when connections are let go: their sockets may be
\* closed, those of the others only stay open or start to close.
LEMMA ReleaseCaps ==
  ASSUME CapsInv, NEW R, Release(R), UNCHANGED <<addr, sid, phase>>,
         \A c \in sessions \ R : sock'[c] \in {sock[c], "closing"}
  PROVE  AnonymousWait' /\ Counters' /\ WithinCaps' /\ AllCounted' /\ RegisteredNotClosed'
<1>. USE DEF CapsInv
<1>1. /\ sessions' = sessions \ R /\ settleAnonymous(R) /\ anonymous' = anonymous \ R
  BY DEF Release, settleAnonymous
<1>2. Counters' /\ WithinCaps'
  BY <1>1, SettleCaps
<1>3. AnonymousWait' /\ RegisteredNotClosed'
  BY <1>1 DEF AnonymousWait, RegisteredNotClosed
<1>4. AllCounted'
  BY <1>1 DEF AllCounted, Waiting
<1>5. QED
  BY <1>2, <1>3, <1>4

\* A full server makes room for one socket by closing its oldest waiting one.
LEMMA CrowdingRoom ==
  ASSUME TypeOK, WithinCaps
  PROVE  Cardinality(anonymous \ Crowding) < MaxAnonymous
<1>0. /\ anonymous \subseteq Conns /\ IsFiniteSet(anonymous) /\ Cardinality(anonymous) \in Nat
      /\ MaxAnonymous \in Nat \ {0} /\ Cardinality(anonymous) <= MaxAnonymous
  BY SocketsFinite, ConnectionsAssumption DEF TypeOK, WithinCaps
<1>1. CASE Cardinality(anonymous) < MaxAnonymous
  <2>1. Crowding = {}
    BY <1>0, <1>1 DEF Crowding
  <2>2. anonymous \ Crowding = anonymous
    BY <2>1
  <2>3. QED
    BY <1>1, <2>2
<1>2. CASE ~ (Cardinality(anonymous) < MaxAnonymous)
  <2>1. anonymous # {}
    BY <1>0, <1>2, FS_EmptySet
  <2>2. PICK m \in anonymous : \A b \in anonymous : m <= b
    BY <1>0, <2>1, Oldest
  <2>3. m \in Crowding
    BY <1>0, <1>2, <2>2 DEF Crowding
  <2>4. anonymous \ Crowding \subseteq anonymous \ {m}
    BY <2>3
  <2>5. /\ IsFiniteSet(anonymous \ {m})
        /\ Cardinality(anonymous \ {m}) = Cardinality(anonymous) - 1
    BY <1>0, <2>2, FS_RemoveElement
  <2>6. Cardinality(anonymous \ Crowding) <= Cardinality(anonymous \ {m})
    BY <2>4, <2>5, FS_Subset
  <2>7. Cardinality(anonymous \ Crowding) \in Nat
    BY <1>0, SocketsFinite
  <2>8. QED
    BY <1>0, <2>5, <2>6, <2>7
<1>3. QED
  BY <1>1, <1>2

\* The connection handler: one socket more, within both caps.
LEMMA ConnectionCaps ==
  ASSUME CapsInv, NEW a \in Addresses, connection(a)
  PROVE  AnonymousWait' /\ Counters' /\ WithinCaps' /\ AllCounted' /\ RegisteredNotClosed'
<1>. USE ConnectionsAssumption
<1>. DEFINE c    == opened + 1
            over == a \in Counted /\ perAddress[a] >= MaxPerAddress
<1>0. /\ TypeOK /\ Fresh /\ AnonymousWait /\ Counters /\ WithinCaps /\ AllCounted
      /\ RegisteredNotClosed
  BY DEF CapsInv, IndexInv
<1>1. c \in Conns /\ c > opened /\ addr' = [addr EXCEPT ![c] = a] /\ UNCHANGED <<sid, phase>>
  BY <1>0 DEF connection, TypeOK
<1>2. c \notin sessions /\ sid[c] = None /\ c \notin anonymous
  BY <1>0, <1>1 DEF Fresh, AnonymousWait
<1>3. CASE over
  <2>1. /\ sock' = [sock EXCEPT ![c] = "closed"] /\ sessions' = sessions
        /\ anonymous' = anonymous /\ perAddress' = perAddress
    BY <1>3 DEF connection, anonVars
  <2>2. \A b \in Addresses : From(b)' = From(b)
    BY <1>0, <1>1, <1>2, <2>1 DEF From, TypeOK
  <2>3. Counters'
    BY <1>0, <2>1, <2>2 DEF Counters
  <2>4. AnonymousWait' /\ WithinCaps'
    BY <1>0, <1>1, <2>1 DEF AnonymousWait, WithinCaps
  <2>5. AllCounted' /\ RegisteredNotClosed'
    <3>1. sock \in [Conns -> SockStates] /\ sessions \subseteq Conns
      BY <1>0 DEF TypeOK
    <3>2. \A b \in sessions : b # c /\ sock'[b] = sock[b]
      BY <1>2, <2>1, <3>1
    <3>3. QED
      BY <1>0, <1>1, <2>1, <3>2 DEF AllCounted, Waiting, RegisteredNotClosed
  <2>6. QED
    BY <2>3, <2>4, <2>5
<1>4. CASE ~over
  <2>. DEFINE kept == anonymous \ Crowding
              one(b) == IF b = a /\ a \in Counted THEN 1 ELSE 0
  <2>1. /\ sock' = [Closing(Crowding) EXCEPT ![c] = "open"]
        /\ sessions' = sessions \cup {c}
        /\ anonymous' = kept \cup {c}
        /\ perAddress' = [b \in Addresses |-> SettledCount(Crowding, b) + one(b)]
    BY <1>4 DEF connection
  <2>2. c \notin kept /\ kept \subseteq Conns /\ IsFiniteSet(kept) /\ Cardinality(kept) \in Nat
    BY <1>0, <1>2, SocketsFinite DEF TypeOK
  <2>3. ASSUME NEW b \in Addresses
        PROVE  perAddress'[b] = IF b \in Counted THEN Cardinality(From(b)') ELSE 0
    <3>. DEFINE S == {x \in kept : addr[x] = b}
    <3>1. SettledCount(Crowding, b) = IF b \in Counted THEN Cardinality(S) ELSE 0
      BY <1>0, SettledRight
    <3>2. S \subseteq Conns /\ c \notin S
      BY <2>2
    <3>3. IsFiniteSet(S) /\ Cardinality(S) \in Nat
      BY <3>2, SocketsFinite
    <3>4. From(b)' = IF b = a THEN S \cup {c} ELSE S
      BY <1>0, <1>1, <2>1, <2>2 DEF From, TypeOK
    <3>5. Cardinality(S \cup {c}) = Cardinality(S) + 1
      BY <3>2, <3>3, FS_AddElement
    <3>6. perAddress'[b] = SettledCount(Crowding, b) + one(b)
      BY <2>1
    <3>. HIDE DEF S
    <3>7. QED
      BY <3>1, <3>3, <3>4, <3>5, <3>6
  <2>4. Counters'
    BY <2>3 DEF Counters
  <2>5. Cardinality(anonymous') <= MaxAnonymous
    <3>1. Cardinality(kept) < MaxAnonymous
      BY <1>0, CrowdingRoom
    <3>2. Cardinality(kept \cup {c}) = Cardinality(kept) + 1
      BY <2>2, FS_AddElement
    <3>. HIDE DEF kept
    <3>3. QED
      BY <2>1, <2>2, <3>1, <3>2
  <2>6. ASSUME NEW b \in Counted PROVE perAddress'[b] <= MaxPerAddress
    <3>1. b \in Addresses
      OBVIOUS
    <3>2. SettledCount(Crowding, b) <= perAddress[b] /\ SettledCount(Crowding, b) \in Nat
      BY <1>0, <3>1, SettledRight, SettledType
    <3>3. perAddress[b] <= MaxPerAddress /\ perAddress[b] \in Nat
      BY <1>0, <3>1 DEF WithinCaps, TypeOK
    <3>4. perAddress'[b] = SettledCount(Crowding, b) + one(b)
      BY <2>1, <3>1
    <3>5. b = a => perAddress[b] < MaxPerAddress
      BY <1>4, <3>3
    <3>6. QED
      BY <3>2, <3>3, <3>4, <3>5
  <2>7. WithinCaps'
    BY <2>5, <2>6 DEF WithinCaps
  <2>8. sid' = sid /\ sock' \in [Conns -> SockStates]
        /\ \A b \in Conns : sock'[b] = IF b = c THEN "open"
                                       ELSE IF b \in Crowding /\ sock[b] = "open" THEN "closing"
                                       ELSE sock[b]
    BY <1>0, <1>1, <2>1, ClosingType DEF Closing, SockStates
  <2>9. AnonymousWait'
    BY <1>0, <1>1, <1>2, <2>1 DEF AnonymousWait
  <2>10. RegisteredNotClosed'
    BY <1>0, <2>1, <2>8 DEF RegisteredNotClosed, TypeOK
  <2>11. AllCounted'
    <3>. SUFFICES ASSUME phase = "up", NEW b \in sessions', sid'[b] = None, sock'[b] = "open"
         PROVE  b \in anonymous'
      BY <1>1 DEF AllCounted, Waiting
    <3>1. CASE b = c
      BY <2>1, <3>1
    <3>2. CASE b # c
      <4>1. b \in sessions /\ b \in Conns
        BY <1>0, <2>1, <3>2 DEF TypeOK
      <4>2. sock[b] = "open" /\ b \notin Crowding
        BY <2>8, <3>2, <4>1
      <4>3. b \in anonymous
        BY <1>0, <1>1, <4>1, <4>2 DEF AllCounted, Waiting
      <4>4. QED
        BY <2>1, <4>2, <4>3
    <3>3. QED
      BY <3>1, <3>2
  <2>12. QED
    BY <2>4, <2>7, <2>9, <2>10, <2>11
<1>5. QED
  BY <1>3, <1>4

\* A grace is armed by a disconnection only, and by none once the server closes.
LEMMA NoGraceStep ==
  ASSUME CapsInv, [Next]_vars
  PROVE  NoGraceAfterTimers'
<1>0. TypeOK /\ NoGraceAfterTimers
  BY DEF CapsInv, IndexInv
<1>1. ASSUME NEW c \in Conns, closeEvent(c) \/ checkLiveness(c) PROVE NoGraceAfterTimers'
  BY <1>0, <1>1 DEF closeEvent, checkLiveness, handleDisconnect, Lost, NoGraceAfterTimers
<1>2. ASSUME NEW c \in Conns, admitted(c) PROVE NoGraceAfterTimers'
  BY <1>0, <1>2 DEF admitted, isLive, NoGraceAfterTimers
<1>3. ASSUME NEW d \in Devices, graceExpires(d) PROVE NoGraceAfterTimers'
  BY <1>0, <1>3 DEF graceExpires, NoGraceAfterTimers, TypeOK
<1>4. ASSUME NEW u \in Users, kicked(u) PROVE NoGraceAfterTimers'
  BY <1>0, <1>4 DEF kicked, ClearGraces, NoGraceAfterTimers
<1>5. ASSUME close \/ closeTimers \/ closeTransport PROVE NoGraceAfterTimers'
  BY <1>0, <1>5 DEF close, closeTimers, closeTransport, NoGraceAfterTimers
<1>6. ASSUME \/ \E a \in Addresses : connection(a)
             \/ \E c \in Conns : \/ PeerCloses(c) \/ authDeadline(c)
                                 \/ \E d \in Devices : answerChallenge(c, d)
                                 \/ probed(c) \/ refused(c) \/ welcomed(c) \/ joined(c)
                                 \/ \E hide \in BOOLEAN : setVisibility(c, hide)
                                 \/ logout(c)
                                 \/ \E u \in Users : kick(c, u)
             \/ \E d \in Devices : toggleOffline(d) \/ disconnectBot(d)
             \/ UNCHANGED vars
      PROVE  NoGraceAfterTimers'
  <2>1. UNCHANGED <<reconnectTimers, phase>>
    BY <1>6 DEF connection, PeerCloses, authDeadline, answerChallenge, probed, refused,
                welcomed, joined, setVisibility, logout, kick, toggleOffline, disconnectBot, vars
  <2>2. QED
    BY <1>0, <2>1 DEF NoGraceAfterTimers
<1>7. QED
  BY <1>1, <1>2, <1>3, <1>4, <1>5, <1>6 DEF Next, Handlers, stopped

\* Every step keeps the invariant of the counters.
LEMMA CapsStep ==
  ASSUME CapsInv, [Next]_vars
  PROVE  CapsInv'
<1>. USE ConnectionsAssumption
<1>. DEFINE Rest == AnonymousWait /\ Counters /\ WithinCaps /\ AllCounted /\ RegisteredNotClosed
<1>0. TypeOK /\ SigningIn /\ LetGo /\ IndexAgrees /\ Rest
  BY DEF CapsInv, IndexInv
<1>1. ASSUME NEW a \in Addresses, connection(a) PROVE Rest'
  BY <1>1, ConnectionCaps
<1>2. ASSUME NEW c \in Conns, PeerCloses(c) \/ authDeadline(c) PROVE Rest'
  <2>1. /\ sock' = [sock EXCEPT ![c] = "closing"]
        /\ UNCHANGED <<addr, sessions, sid, anonymous, perAddress, phase>>
    BY <1>2 DEF PeerCloses, authDeadline, anonVars
  <2>2. AnonymousWait' /\ Counters' /\ WithinCaps'
    BY <1>0, <2>1 DEF AnonymousWait, Counters, From, WithinCaps
  <2>3. AllCounted' /\ RegisteredNotClosed'
    BY <1>0, <2>1 DEF AllCounted, Waiting, RegisteredNotClosed, TypeOK
  <2>4. QED
    BY <2>2, <2>3
<1>3. ASSUME NEW c \in Conns, closeEvent(c) \/ checkLiveness(c) PROVE Rest'
  <2>1. Release({c}) /\ UNCHANGED <<addr, sid, phase>>
    BY <1>3 DEF closeEvent, checkLiveness, handleDisconnect
  <2>2. \A b \in sessions \ {c} : sock'[b] \in {sock[b], "closing"}
    BY <1>0, <1>3 DEF closeEvent, checkLiveness, Closing, TypeOK
  <2>3. QED
    BY <2>1, <2>2, ReleaseCaps
<1>4. ASSUME NEW c \in Conns, admitted(c) PROVE Rest'
  <2>1. /\ claim[c] \in Devices /\ sessions' = sessions \ Stale(c)
        /\ sid' = [sid EXCEPT ![c] = claim[c]] /\ sock' = Closing(Stale(c))
        /\ settleAnonymous(Stale(c) \cup {c}) /\ anonymous' = anonymous \ (Stale(c) \cup {c})
        /\ UNCHANGED <<addr, phase>>
    BY <1>0, <1>4 DEF admitted, SigningIn, settleAnonymous
  <2>2. Counters' /\ WithinCaps'
    BY <2>1, SettleCaps
  <2>3. \A b \in Conns : sock'[b] \in {sock[b], "closing"}
                         /\ sid'[b] = IF b = c THEN claim[c] ELSE sid[b]
    BY <1>0, <2>1 DEF Closing, TypeOK
  <2>4. AnonymousWait'
    BY <1>0, <2>1, <2>3 DEF AnonymousWait, TypeOK
  <2>5. AllCounted' /\ RegisteredNotClosed'
    <3>1. sessions \subseteq Conns /\ claim[c] # None
      BY <1>0, <2>1, ConnectionsAssumption DEF TypeOK
    <3>2. RegisteredNotClosed'
      BY <1>0, <2>1, <2>3, <3>1 DEF RegisteredNotClosed
    <3>3. AllCounted'
      <4>1. ASSUME phase' = "up", NEW b \in Waiting' PROVE b \in anonymous'
        <5>1. b \in sessions \ Stale(c) /\ b \in Conns /\ sid'[b] = None /\ sock'[b] = "open"
          BY <2>1, <3>1, <4>1 DEF Waiting
        <5>2. b # c /\ sid[b] = None /\ sock[b] = "open"
          BY <2>3, <3>1, <5>1
        <5>3. b \in anonymous
          BY <1>0, <2>1, <4>1, <5>1, <5>2 DEF AllCounted, Waiting
        <5>4. QED
          BY <2>1, <5>1, <5>2, <5>3
      <4>2. QED
        BY <4>1 DEF AllCounted
    <3>4. QED
      BY <3>2, <3>3
  <2>6. QED
    BY <2>2, <2>4, <2>5
<1>5. ASSUME NEW d \in Devices, disconnectBot(d) PROVE Rest'
  <2>. DEFINE out == {sessionSockets[d]} \ {None}
  <2>1. Release(out) /\ sock' = Closing(out) /\ UNCHANGED <<addr, sid, phase>>
    BY <1>5 DEF disconnectBot
  <2>2. \A b \in sessions \ out : sock'[b] \in {sock[b], "closing"}
    BY <1>0, <2>1 DEF Closing, TypeOK
  <2>3. QED
    BY <2>1, <2>2, ReleaseCaps
<1>6. ASSUME NEW u \in Users, kicked(u) PROVE Rest'
  <2>. DEFINE out == sessionsOfUser(u)
  <2>1. Release(out) /\ sock' = Closing(out) /\ UNCHANGED <<addr, sid, phase>>
    BY <1>6 DEF kicked
  <2>2. \A b \in sessions \ out : sock'[b] \in {sock[b], "closing"}
    BY <1>0, <2>1 DEF Closing, TypeOK
  <2>3. QED
    BY <2>1, <2>2, ReleaseCaps
<1>7. ASSUME closeTimers PROVE Rest'
  <2>1. /\ settleAnonymous(sessions) /\ anonymous' = anonymous \ sessions /\ phase' = "quiet"
        /\ UNCHANGED <<addr, sessions, sid, sock>>
    BY <1>7 DEF closeTimers, settleAnonymous, netVars
  <2>2. Counters' /\ WithinCaps'
    BY <2>1, SettleCaps
  <2>3. QED
    BY <1>0, <2>1, <2>2 DEF AnonymousWait, AllCounted, RegisteredNotClosed
<1>8. ASSUME closeTransport PROVE Rest'
  <2>1. /\ phase' = "down" /\ sock' = Closing(Conns)
        /\ UNCHANGED <<addr, sessions, sid, anonymous, perAddress>>
    BY <1>8 DEF closeTransport, anonVars
  <2>2. AnonymousWait' /\ Counters' /\ WithinCaps'
    BY <1>0, <2>1 DEF AnonymousWait, Counters, From, WithinCaps
  <2>3. AllCounted' /\ RegisteredNotClosed'
    BY <1>0, <2>1 DEF AllCounted, RegisteredNotClosed, Closing, TypeOK
  <2>4. QED
    BY <2>2, <2>3
<1>9. ASSUME close PROVE Rest'
  BY <1>0, <1>9 DEF close, netVars, anonVars, AnonymousWait, Counters, From, WithinCaps,
                    AllCounted, RegisteredNotClosed
<1>10. ASSUME \/ \E c \in Conns : \/ \E d \in Devices : answerChallenge(c, d)
                                  \/ probed(c) \/ refused(c) \/ welcomed(c) \/ joined(c)
                                  \/ \E hide \in BOOLEAN : setVisibility(c, hide)
                                  \/ logout(c)
                                  \/ \E u \in Users : kick(c, u)
              \/ \E d \in Devices : graceExpires(d) \/ toggleOffline(d)
              \/ UNCHANGED vars
       PROVE  Rest'
  <2>1. UNCHANGED <<netVars, sessions, sid, anonVars, phase>>
    BY <1>10 DEF answerChallenge, probed, refused, welcomed, joined, setVisibility, logout,
                 kick, graceExpires, toggleOffline, vars
  <2>2. QED
    BY <1>0, <2>1 DEF netVars, anonVars, AnonymousWait, Counters, From, WithinCaps, AllCounted,
                      Waiting, RegisteredNotClosed
<1>11. Rest'
  BY <1>1, <1>2, <1>3, <1>4, <1>5, <1>6, <1>7, <1>8, <1>9, <1>10 DEF Next, Handlers, stopped
<1>12. IndexInv' /\ NoGraceAfterTimers'
  BY IndexStep, NoGraceStep DEF CapsInv
<1>13. QED
  BY <1>11, <1>12 DEF CapsInv

\* So it always holds.
LEMMA CapsInvHolds == Spec => []CapsInv
<1>1. Init => CapsInv
  <2>. SUFFICES ASSUME Init PROVE CapsInv
    OBVIOUS
  <2>1. \A a \in Addresses : From(a) = {}
    BY DEF Init, From
  <2>2. Cardinality({}) = 0 /\ anonymous = {}
    BY FS_EmptySet DEF Init
  <2>3. Counters /\ WithinCaps
    <3>1. \A a \in Addresses : perAddress[a] = 0
      BY DEF Init
    <3>2. Counters
      BY <2>1, <2>2, <3>1 DEF Counters
    <3>3. WithinCaps
      BY <2>2, <3>1, ConnectionsAssumption DEF WithinCaps
    <3>4. QED
      BY <3>2, <3>3
  <2>4. AnonymousWait /\ AllCounted /\ RegisteredNotClosed /\ NoGraceAfterTimers
    BY DEF Init, AnonymousWait, AllCounted, Waiting, RegisteredNotClosed, NoGraceAfterTimers
  <2>5. QED
    BY <2>3, <2>4, IndexInit DEF CapsInv
<1>2. QED
  BY <1>1, CapsStep, PTL DEF Spec

\* While the server is up, the counters of anonymous sockets are the sockets
\* that wait for authentication, and so the caps hold for the sockets: settling
\* at sign-in, replacement, kick and close neither leaks nor counts out twice.
THEOREM CapsCorrect == Spec => []AnonymousBounded
<1>1. CapsInv => AnonymousBounded
  <2>. SUFFICES ASSUME CapsInv, phase = "up" PROVE AnonymousBounded
    BY DEF AnonymousBounded
  <2>0. TypeOK /\ AnonymousWait /\ Counters /\ WithinCaps /\ Waiting \subseteq anonymous
    BY DEF CapsInv, IndexInv, AllCounted
  <2>1. \A a \in Counted : a \in Addresses /\ perAddress[a] = Cardinality(From(a))
    BY <2>0, ConnectionsAssumption DEF Counters
  <2>2. ASSUME NEW a \in Counted
        PROVE  Cardinality({c \in Waiting : addr[c] = a}) <= MaxPerAddress
    <3>. DEFINE W == {c \in Waiting : addr[c] = a}
    <3>1. W \subseteq From(a) /\ From(a) \subseteq Conns
      BY <2>0 DEF From, TypeOK
    <3>2. IsFiniteSet(From(a)) /\ Cardinality(W) \in Nat /\ Cardinality(From(a)) \in Nat
      BY <3>1, SocketsFinite
    <3>3. Cardinality(W) <= Cardinality(From(a))
      BY <3>1, <3>2, FS_Subset
    <3>4. Cardinality(From(a)) <= MaxPerAddress
      BY <2>0, <2>1 DEF WithinCaps
    <3>5. Cardinality(W) <= MaxPerAddress
      <4>. HIDE DEF W
      <4>1. QED
        BY <3>2, <3>3, <3>4, ConnectionsAssumption
    <3>6. QED
      BY <3>5
  <2>3. Cardinality(Waiting) <= MaxAnonymous
    <3>1. IsFiniteSet(anonymous) /\ Cardinality(anonymous) \in Nat /\ Cardinality(Waiting) \in Nat
      BY <2>0, SocketsFinite DEF TypeOK
    <3>2. Cardinality(Waiting) <= Cardinality(anonymous)
      BY <2>0, <3>1, FS_Subset
    <3>3. QED
      BY <2>0, <3>1, <3>2, ConnectionsAssumption DEF WithinCaps
  <2>4. QED
    BY <2>0, <2>1, <2>2, <2>3 DEF AnonymousBounded, AnonymousWait, From, Waiting
<1>2. QED
  BY <1>1, CapsInvHolds, PTL

\* Whatever was signing in, dropping or being kicked when the server closed,
\* and whoever connected between its two releases, once every socket reported
\* its close nothing of any connection is left.
THEOREM ShutdownClean == Spec => []CleanShutdown
<1>1. CapsInv => CleanShutdown
  <2>. SUFFICES ASSUME CapsInv, phase = "down", \A c \in Conns : sock[c] \in {"new", "closed"}
       PROVE  /\ sessions = {} /\ anonymous = {}
              /\ \A d \in Devices : sessionSockets[d] = None /\ reconnectTimers[d] = "none"
              /\ \A a \in Addresses : perAddress[a] = 0
    BY DEF CleanShutdown
  <2>0. TypeOK /\ IndexAgrees /\ AnonymousWait /\ Counters /\ RegisteredNotClosed
        /\ NoGraceAfterTimers
    BY DEF CapsInv, IndexInv
  <2>1. sessions = {}
    BY <2>0 DEF RegisteredNotClosed, TypeOK
  <2>2. anonymous = {}
    BY <2>0, <2>1 DEF AnonymousWait
  <2>3. \A d \in Devices : sessionSockets[d] = None
    BY <2>0, <2>1 DEF IndexAgrees, TypeOK
  <2>4. \A a \in Addresses : perAddress[a] = 0
    <3>1. \A a \in Addresses : From(a) = {}
      BY <2>2 DEF From
    <3>2. QED
      BY <2>0, <3>1, FS_EmptySet DEF Counters
  <2>5. QED
    BY <2>0, <2>1, <2>2, <2>3, <2>4 DEF NoGraceAfterTimers
<1>2. QED
  BY <1>1, CapsInvHolds, PTL

-----------------------------------------------------------------------------
(* What the clients show.  Settled sign-ins are not enough for a step: the *)
(* invariant says of every device what is known of it meanwhile, and why a *)
(* late USER_JOINED never announces a device that is gone.                 *)

\* A connection keeps the device it signed in for.
Claims == \A c \in Conns : sid[c] # None => claim[c] = sid[c]

\* Nobody hides a bot.
BotsVisible == \A c \in invisible : sid[c] \notin Bots /\ claim[c] \notin Bots

\* While a sign-in is between its admission and its announcement, its device is
\* connected: by it, or by the newer connection that replaced it.
InFlight ==
  /\ kicking \subseteq removed
  /\ \A c \in Conns : stage[c] \in {"admitted", "welcomed"} =>
       /\ sid[c] \in Devices
       /\ stage[c] = "welcomed" => sid[c] \notin Bots
       /\ phase = "up" /\ sid[c] \notin Bots /\ userOf(c) \notin removed => sessionSockets[sid[c]] # None

\* Why a client may list the person of device d: the device is on show or in its
\* grace, or it left or came back hidden with nobody told.
Excused(d) == OnShow(d) \/ reconnectTimers[d] = "shown" \/ d \in unannounced

\* What connection v shows of device d, whether its sign-in is settled or not.
Seen(v, d) ==
  LET c == sessionSockets[d]
      u == UserOf[d]
  IN  /\ OnShow(d) /\ stage[c] = "joined" => told[v][d] = "online" /\ u \in listed[v]
      /\ ~ Excused(d) => \/ told[v][d] = "absent"
                         \/ told[v][d] = "hidden" /\ c # None /\ u \notin listed[v]
      /\ told[v][d] \in {"reconnecting", "hiddenReconnecting"}
           => reconnectTimers[d] = "shown" \/ d \in unannounced

AllSeen ==
  phase = "up" => \A d \in Devices : UserOf[d] \notin removed =>
                    \A v \in Viewers(UserOf[d]) : Seen(v, d)

\* A client lists a person only while it has an entry of one of their keys.
Entry(view, v, u)  == \E k \in KeysOf(u) : view[v][k] # "absent"
Backed(view, rows) == \A v \in Conns : \A u \in rows[v] : Entry(view, v, u)

RosterInv == IndexInv /\ Claims /\ BotsVisible /\ InFlight /\ AllSeen /\ Backed(told, listed)

\* A bound socket is its device's, and a registered one that signed in is bound.
LEMMA Bound ==
  ASSUME IndexInv, NEW d \in Devices
  PROVE  /\ sessionSockets[d] # None =>
              /\ sessionSockets[d] \in Conns /\ sessionSockets[d] \in sessions
              /\ sid[sessionSockets[d]] = d /\ sessionSockets[d] \notin replaced
         /\ \A s \in sessions : sid[s] = d => sessionSockets[d] = s
<1>1. TypeOK /\ IndexAgrees /\ LetGo
  BY DEF IndexInv
<1>2. sessionSockets[d] \in Conns \cup {None}
  BY <1>1 DEF TypeOK
<1>3. ASSUME NEW s \in sessions, sid[s] = d PROVE sessionSockets[d] = s
  BY <1>1, <1>3 DEF LetGo, IndexAgrees, TypeOK
<1>4. sessionSockets[d] # None =>
              /\ sessionSockets[d] \in Conns /\ sessionSockets[d] \in sessions
              /\ sid[sessionSockets[d]] = d /\ sessionSockets[d] \notin replaced
  BY <1>1, <1>2 DEF IndexAgrees
<1>5. QED
  BY <1>3, <1>4


\* What a delivery makes of what one client shows under one key.
LEMMA Delivered ==
  ASSUME NEW view, NEW R, NEW D, NEW e, NEW v \in Conns, NEW k \in Keys
  PROVE  Deliver(view, R, D, e)[v][k] =
           IF v \in R /\ k \in D THEN e[view[v][k]] ELSE view[v][k]
BY DEF Deliver

\* A session id is a key of its own user and of nobody else.
LEMMA KeyOfDevice ==
  ASSUME NEW d \in Devices
  PROVE  d \in Keys /\ d \notin Users /\ \A u : d \in KeysOf(u) <=> UserOf[d] = u
BY ConnectionsAssumption DEF Keys, KeysOf, OwnerOf

\* A bound socket keeps its device and is not one that waits for its admission.
LEMMA ClaimsStep ==
  ASSUME RosterInv, [Next]_vars
  PROVE  Claims'
<1>0. TypeOK /\ SigningIn /\ Claims
  BY DEF RosterInv, IndexInv
<1>1. ASSUME NEW c \in Conns, NEW d \in Devices, answerChallenge(c, d) PROVE Claims'
  <2>1. sid[c] = None /\ sid' = sid /\ claim' = [claim EXCEPT ![c] = d]
    BY <1>0, <1>1 DEF answerChallenge, SigningIn
  <2>2. QED
    BY <1>0, <2>1 DEF Claims, TypeOK
<1>2. ASSUME NEW c \in Conns, admitted(c) PROVE Claims'
  <2>1. sid' = [sid EXCEPT ![c] = claim[c]] /\ claim' = claim
    BY <1>2 DEF admitted
  <2>2. QED
    BY <1>0, <2>1 DEF Claims, TypeOK
<1>3. ASSUME UNCHANGED <<sid, claim>> PROVE Claims'
  BY <1>0, <1>3 DEF Claims
<1>4. \/ UNCHANGED <<sid, claim>>
      \/ \E c \in Conns : admitted(c) \/ \E d \in Devices : answerChallenge(c, d)
  BY DEF Next, Handlers, vars, connection, PeerCloses, authDeadline, closeEvent, checkLiveness,
         probed, refused, welcomed, joined, setVisibility, logout, kick, graceExpires,
         toggleOffline, disconnectBot, kicked, close, closeTimers, closeTransport, stopped,
         loginVars
<1>5. QED
  BY <1>1, <1>2, <1>3, <1>4

\* The other devices of a person are no bots.
LEMMA MatesArePeople ==
  ASSUME TypeOK, Claims, NEW c \in Conns, sid[c] \in Devices \ Bots, NEW s \in Mates(c)
  PROVE  s \in Conns /\ s \in sessions /\ sid[s] \in Devices \ Bots /\ claim[s] \notin Bots
         /\ userOf(s) = userOf(c)
<1>1. s \in sessions /\ s \in Conns /\ sid[s] # None /\ UserOf[sid[s]] = UserOf[sid[c]]
  BY DEF Mates, sessionsOfUser, userOf, TypeOK
<1>2. sid[s] \in Devices
  BY <1>1 DEF TypeOK
<1>3. sid[s] \notin Bots
  BY <1>1, <1>2, ConnectionsAssumption
<1>4. QED
  BY <1>1, <1>2, <1>3 DEF Claims, userOf

\* A message of an app, or the announcement of a sign-in, comes from a person.
LEMMA FromPerson ==
  ASSUME RosterInv, NEW c \in Conns,
         stage[c] = "welcomed" \/ FromApp(c)
  PROVE  sid[c] \in Devices \ Bots
BY DEF RosterInv, InFlight, FromApp, IndexInv, TypeOK

LEMMA BotsVisibleStep ==
  ASSUME RosterInv, [Next]_vars
  PROVE  BotsVisible'
<1>0. TypeOK /\ SigningIn /\ Claims /\ BotsVisible
  BY DEF RosterInv, IndexInv
<1>1. ASSUME NEW c \in Conns, NEW d \in Devices, answerChallenge(c, d) PROVE BotsVisible'
  <2>1. /\ sid[c] = None /\ sid' = sid /\ claim' = [claim EXCEPT ![c] = d]
        /\ invisible' = IF d \in choice \ Bots THEN invisible \cup {c} ELSE invisible \ {c}
    BY <1>0, <1>1 DEF answerChallenge, SigningIn
  <2>2. None \notin Bots
    BY ConnectionsAssumption
  <2>3. QED
    BY <1>0, <2>1, <2>2 DEF BotsVisible, TypeOK
<1>2. ASSUME NEW c \in Conns, admitted(c) PROVE BotsVisible'
  <2>1. sid' = [sid EXCEPT ![c] = claim[c]] /\ UNCHANGED <<claim, invisible>>
    BY <1>2 DEF admitted
  <2>2. QED
    BY <1>0, <2>1 DEF BotsVisible, TypeOK
<1>3. ASSUME NEW c \in Conns, joined(c) \/ \E hide \in BOOLEAN : setVisibility(c, hide)
      PROVE  BotsVisible'
  <2>1. sid[c] \in Devices \ Bots
    BY <1>3, FromPerson DEF joined, setVisibility
  <2>2. invisible' \subseteq invisible \cup Mates(c) /\ UNCHANGED <<sid, claim>>
    BY <1>3 DEF joined, setVisibility, VisibilityOf, loginVars
  <2>3. \A s \in Mates(c) : sid[s] \notin Bots /\ claim[s] \notin Bots
    BY <1>0, <2>1, MatesArePeople
  <2>4. QED
    BY <1>0, <2>2, <2>3 DEF BotsVisible
<1>4. ASSUME UNCHANGED <<sid, claim, invisible>> PROVE BotsVisible'
  BY <1>0, <1>4 DEF BotsVisible
<1>5. \/ UNCHANGED <<sid, claim, invisible>>
      \/ \E c \in Conns : \/ admitted(c) \/ joined(c)
                          \/ \E hide \in BOOLEAN : setVisibility(c, hide)
                          \/ \E d \in Devices : answerChallenge(c, d)
  BY DEF Next, Handlers, vars, connection, PeerCloses, authDeadline, closeEvent, checkLiveness,
         probed, refused, welcomed, logout, kick, graceExpires,
         toggleOffline, disconnectBot, kicked, close, closeTimers, closeTransport, stopped,
         loginVars, flagVars
<1>6. QED
  BY <1>1, <1>2, <1>3, <1>4, <1>5

LEMMA InFlightStep ==
  ASSUME RosterInv, [Next]_vars
  PROVE  InFlight'
<1>. USE ConnectionsAssumption
<1>. DEFINE Connected(c) == /\ sid[c] \in Devices
                            /\ stage[c] = "welcomed" => sid[c] \notin Bots
                            /\ phase = "up" /\ sid[c] \notin Bots /\ userOf(c) \notin removed
                                 => sessionSockets[sid[c]] # None
            Between(c)   == stage[c] \in {"admitted", "welcomed"}
<1>0. /\ TypeOK /\ SigningIn /\ Claims /\ IndexAgrees /\ kicking \subseteq removed
      /\ \A c \in Conns : Between(c) => Connected(c)
  BY DEF RosterInv, IndexInv, InFlight
<1>1. kicking' \subseteq removed'
  BY <1>0 DEF Next, Handlers, vars, connection, PeerCloses, authDeadline, closeEvent, checkLiveness,
         answerChallenge, probed, refused, admitted, welcomed, joined, setVisibility, logout, kick,
         graceExpires, toggleOffline, disconnectBot, kicked, close, closeTimers, closeTransport,
         stopped, kickVars
<1>2. ASSUME \A c \in Conns : ~ Between(c)' PROVE InFlight'
  BY <1>1, <1>2 DEF InFlight
<1>3. ASSUME LoopFree, UNCHANGED stage PROVE InFlight'
  BY <1>2, <1>3 DEF LoopFree
<1>4. ASSUME NEW c \in Conns, NEW d \in Devices, answerChallenge(c, d) PROVE InFlight'
  <2>1. LoopFree /\ stage' = [stage EXCEPT ![c] = "probing"]
    BY <1>4 DEF answerChallenge
  <2>2. QED
    BY <1>0, <1>2, <2>1 DEF LoopFree, TypeOK
<1>5. ASSUME UNCHANGED <<sid, sessionSockets, phase, removed>>,
             \A c \in Conns : Between(c)' => Between(c) /\ (stage'[c] = "welcomed" => sid[c] \notin Bots)
      PROVE  InFlight'
  BY <1>0, <1>1, <1>5 DEF InFlight, userOf
<1>6. ASSUME NEW c \in Conns, probed(c) \/ refused(c) \/ joined(c) PROVE InFlight'
  <2>1. UNCHANGED <<sid, sessionSockets, phase, removed>>
    BY <1>6 DEF probed, refused, joined, kickVars
  <2>2. \A b \in Conns : stage'[b] \notin {"admitted", "welcomed"} \/ stage'[b] = stage[b]
    BY <1>0, <1>6 DEF probed, refused, joined, TypeOK
  <2>3. QED
    BY <1>0, <1>5, <2>1, <2>2
<1>7. ASSUME NEW c \in Conns, welcomed(c) PROVE InFlight'
  <2>1. UNCHANGED <<sid, sessionSockets, phase, removed>> /\ stage[c] = "admitted"
    BY <1>7 DEF welcomed, kickVars
  <2>2. \A b \in Conns : stage'[b] = stage[b] \/ (b = c /\ (stage'[b] = "welcomed" => sid[b] \notin Bots))
    BY <1>0, <1>7 DEF welcomed, TypeOK
  <2>3. QED
    BY <1>0, <1>5, <2>1, <2>2
<1>8. ASSUME UNCHANGED <<stage, sid, sessionSockets, phase>>, removed \subseteq removed' PROVE InFlight'
  BY <1>0, <1>1, <1>8 DEF InFlight, userOf
<1>9. ASSUME NEW c \in Conns, admitted(c) PROVE InFlight'
  <2>. DEFINE d == claim[c]
  <2>1. /\ d \in Devices /\ sid' = [sid EXCEPT ![c] = d] /\ stage' = [stage EXCEPT ![c] = "admitted"]
        /\ sessionSockets' = [Unbind(Stale(c)) EXCEPT ![d] = c]
        /\ UNCHANGED <<phase, removed>>
    BY <1>0, <1>9 DEF admitted, SigningIn, kickVars
  <2>2. ASSUME NEW e \in Devices, e # d PROVE sessionSockets'[e] = sessionSockets[e]
    <3>1. sessionSockets'[e] = IF sessionSockets[e] \in Stale(c) THEN None ELSE sessionSockets[e]
      BY <2>1, <2>2 DEF Unbind
    <3>2. sessionSockets[e] \in Stale(c) => e = d
      BY <1>0, <2>1 DEF Stale, IndexAgrees, TypeOK
    <3>3. QED
      BY <2>2, <3>1, <3>2
  <2>3. sessionSockets'[d] = c
    BY <2>1 DEF Unbind
  <2>4. ASSUME NEW b \in Conns, Between(b)' PROVE Connected(b)'
    <3>1. sid'[b] = (IF b = c THEN d ELSE sid[b]) /\ stage'[b] = (IF b = c THEN "admitted" ELSE stage[b])
      BY <1>0, <2>1 DEF TypeOK
    <3>2. CASE b = c
      BY <2>1, <2>3, <3>1, <3>2
    <3>3. CASE b # c
      <4>1. Connected(b) /\ sid'[b] = sid[b] /\ stage'[b] = stage[b]
        BY <1>0, <2>4, <3>1, <3>3
      <4>2. sessionSockets'[sid[b]] # None \/ sessionSockets'[sid[b]] = sessionSockets[sid[b]]
        BY <2>2, <2>3, <4>1
      <4>3. QED
        BY <2>1, <4>1, <4>2 DEF userOf
    <3>4. QED
      BY <3>2, <3>3
  <2>5. QED
    BY <1>1, <2>4 DEF InFlight
<1>10. ASSUME NEW u \in Users, kicked(u) PROVE InFlight'
  <2>1. /\ u \in removed /\ sessionSockets' = Unbind(sessionsOfUser(u))
        /\ UNCHANGED <<stage, sid, phase, removed>>
    BY <1>0, <1>10 DEF kicked, Release, loginVars
  <2>2. ASSUME NEW b \in Conns, Between(b), sid[b] \in Devices, userOf(b) \notin removed
        PROVE  sessionSockets'[sid[b]] = sessionSockets[sid[b]]
    <3>1. ASSUME NEW s \in sessionsOfUser(u) PROVE sessionSockets[sid[b]] # s
      <4>1. s \in Conns /\ UserOf[sid[s]] = u /\ UserOf[sid[b]] # u
        BY <1>0, <2>1, <2>2 DEF sessionsOfUser, userOf, TypeOK
      <4>2. QED
        BY <1>0, <2>2, <4>1 DEF IndexAgrees
    <3>2. QED
      BY <2>1, <2>2, <3>1 DEF Unbind
  <2>3. QED
    BY <1>0, <1>1, <2>1, <2>2 DEF InFlight, userOf
<1>11. ASSUME NEW d \in Devices, disconnectBot(d) PROVE InFlight'
  <2>1. /\ d \in Bots /\ sessionSockets' = Unbind({sessionSockets[d]} \ {None})
        /\ UNCHANGED <<stage, sid, phase, removed>>
    BY <1>11 DEF disconnectBot, Release, loginVars, kickVars
  <2>2. ASSUME NEW e \in Devices \ Bots PROVE sessionSockets'[e] = sessionSockets[e]
    <3>1. sessionSockets[e] \in {sessionSockets[d]} \ {None} => e = d
      BY <1>0 DEF IndexAgrees, TypeOK
    <3>2. QED
      BY <2>1, <3>1 DEF Unbind
  <2>3. QED
    BY <1>0, <1>1, <2>1, <2>2 DEF InFlight, userOf
<1>12. ASSUME phase' # "up", UNCHANGED <<stage, sid>> PROVE InFlight'
  BY <1>0, <1>1, <1>12 DEF InFlight
<1>13. ASSUME NEW a \in Addresses, connection(a) PROVE InFlight'
  BY <1>3, <1>13 DEF connection, loginVars
<1>14. ASSUME NEW c \in Conns, PeerCloses(c) \/ authDeadline(c) \/ closeEvent(c) \/ checkLiveness(c)
       PROVE  InFlight'
  BY <1>3, <1>14 DEF PeerCloses, authDeadline, closeEvent, checkLiveness, loginVars
<1>15. ASSUME NEW d \in Devices, graceExpires(d) \/ toggleOffline(d) PROVE InFlight'
  BY <1>8, <1>15 DEF graceExpires, toggleOffline, loginVars, kickVars
<1>16. ASSUME NEW c \in Conns, \/ \E hide \in BOOLEAN : setVisibility(c, hide)
                               \/ logout(c)
                               \/ \E u \in Users : kick(c, u)
       PROVE  InFlight'
  BY <1>8, <1>16 DEF setVisibility, logout, kick, loginVars, kickVars
<1>17. ASSUME close \/ closeTimers \/ closeTransport PROVE InFlight'
  BY <1>12, <1>17 DEF close, closeTimers, closeTransport, loginVars
<1>18. ASSUME UNCHANGED vars PROVE InFlight'
  BY <1>8, <1>18 DEF vars, loginVars, kickVars
<1>19. QED
  BY <1>4, <1>6, <1>7, <1>9, <1>10, <1>11, <1>13, <1>14, <1>15, <1>16, <1>17, <1>18
  DEF Next, Handlers, stopped

\* What a departure makes of what client v shows of device d and its person: the
\* row stays as long as an entry of theirs does.
LEMMA LeaveOf ==
  ASSUME NEW view, NEW rows, NEW R, NEW e \in Devices, Leave(view, rows, R, e),
         NEW v \in Conns, NEW d \in Devices, view[v][d] \in Shown
  PROVE  /\ told'[v][d] = IF v \in R /\ d = e THEN "absent" ELSE view[v][d]
         /\ UserOf[d] \in listed'[v] => UserOf[d] \in rows[v]
         /\ UserOf[d] \in rows[v] /\ told'[v][d] # "absent" => UserOf[d] \in listed'[v]
<1>1. /\ told' = Deliver(view, R, {e}, USER_LEFT)
      /\ listed' = removeMember(rows, Unaware(told', R, UserOf[e]), UserOf[e])
  BY DEF Leave
<1>2. told'[v][d] = IF v \in R /\ d = e THEN "absent" ELSE view[v][d]
  BY <1>1, KeyOfDevice, Delivered DEF USER_LEFT
<1>3. told'[v][d] # "absent" => v \notin Unaware(told', R, UserOf[d])
  BY KeyOfDevice DEF Unaware
<1>4. listed'[v] = IF v \in Unaware(told', R, UserOf[e]) THEN rows[v] \ {UserOf[e]} ELSE rows[v]
  BY <1>1 DEF removeMember
<1>5. QED
  BY <1>2, <1>3, <1>4

\* What is known of one client and one device stays right while the device stays
\* as it was, whatever happens to the row once its entry is gone.
LEMMA Kept ==
  ASSUME NEW v \in Conns, NEW d \in Devices, Seen(v, d),
         told'[v][d] = told[v][d],
         UserOf[d] \in listed'[v] => UserOf[d] \in listed[v],
         UserOf[d] \in listed[v] /\ told[v][d] # "absent" => UserOf[d] \in listed'[v],
         sessionSockets'[d] = sessionSockets[d],
         reconnectTimers[d] = "shown" => reconnectTimers'[d] = "shown",
         d \in unannounced => d \in unannounced',
         sessionSockets[d] # None =>
           /\ sessionSockets[d] \in invisible' <=> sessionSockets[d] \in invisible
           /\ stage'[sessionSockets[d]] = "joined" => stage[sessionSockets[d]] = "joined"
  PROVE  Seen(v, d)'
<1>1. OnShow(d)' <=> OnShow(d)
  BY DEF OnShow
<1>2. Excused(d) => Excused(d)'
  BY <1>1 DEF Excused
<1>3. OnShow(d) => sessionSockets[d] # None
  BY DEF OnShow
<1>4. QED
  BY <1>1, <1>2, <1>3 DEF Seen

\* A device that goes is reconnecting, or counted as unannounced, or its entry
\* went with it.
LEMMA Gone ==
  ASSUME NEW v \in Conns, NEW d \in Devices, sessionSockets'[d] = None,
         reconnectTimers'[d] = "shown" \/ d \in unannounced' \/ told'[v][d] = "absent"
  PROVE  Seen(v, d)'
BY DEF Seen, Excused, OnShow

\* A step that delivers nothing and connects nobody: what a client shows stays
\* right, since what is known of the devices stays the same.
LEMMA Quiet ==
  ASSUME AllSeen, UNCHANGED <<sid, sessionSockets, reconnectTimers, told, listed, unannounced>>,
         phase' = "up" => phase = "up", removed \subseteq removed', Audience' \subseteq Audience,
         sessions \subseteq Conns,
         \A d \in Devices : sessionSockets[d] # None =>
           /\ sessionSockets[d] \in invisible' <=> sessionSockets[d] \in invisible
           /\ stage'[sessionSockets[d]] = "joined" => stage[sessionSockets[d]] = "joined"
  PROVE  AllSeen'
<1>. SUFFICES ASSUME phase' = "up", NEW d \in Devices, UserOf[d] \notin removed',
                     NEW v \in Viewers(UserOf[d])'
     PROVE  Seen(v, d)'
  BY DEF AllSeen
<1>1. v \in Viewers(UserOf[d]) /\ v \in Conns
  BY DEF Viewers, userOf, Audience
<1>2. Seen(v, d)
  BY <1>1 DEF AllSeen
<1>3. QED
  BY <1>1, <1>2, Kept

\* Who watches a device was already connected, unless this step connected them.
LEMMA Watching ==
  ASSUME RosterInv, phase = "up", removed \subseteq removed',
         NEW d \in Devices, UserOf[d] \notin removed',
         NEW v \in Viewers(UserOf[d])', v \in Audience, sid'[v] = sid[v]
  PROVE  /\ v \in Conns /\ v \in Viewers(UserOf[d]) /\ Seen(v, d)
         /\ userOf(v) # UserOf[d] /\ told[v][d] \in Shown
<1>1. v \in Viewers(UserOf[d]) /\ userOf(v) # UserOf[d]
  BY DEF Viewers, userOf
<1>2. v \in Conns
  BY DEF Audience, RosterInv, IndexInv, TypeOK
<1>3. told[v][d] \in Shown
  BY <1>2, KeyOfDevice DEF RosterInv, IndexInv, TypeOK
<1>4. QED
  BY <1>1, <1>2, <1>3 DEF RosterInv, AllSeen

\* The steps that tell nobody anything.
LEMMA QuietSeen ==
  ASSUME RosterInv,
         \/ \E a \in Addresses : connection(a)
         \/ \E c \in Conns : \/ PeerCloses(c) \/ authDeadline(c) \/ probed(c) \/ refused(c) \/ logout(c)
                             \/ \E d \in Devices : answerChallenge(c, d)
                             \/ \E u \in Users : kick(c, u)
         \/ \E d \in Devices : toggleOffline(d)
         \/ UNCHANGED vars
  PROVE  AllSeen'
<1>. USE ConnectionsAssumption
<1>0. TypeOK /\ Fresh /\ SigningIn /\ IndexAgrees /\ AllSeen /\ sessions \subseteq Conns
  BY DEF RosterInv, IndexInv, TypeOK
<1>1. ASSUME NEW a \in Addresses, connection(a) PROVE AllSeen'
  <2>. DEFINE c == opened + 1
  <2>1. c \in Conns /\ sid[c] = None
    BY <1>0, <1>1 DEF connection, TypeOK, Fresh
  <2>2. /\ sessions' \subseteq sessions \cup {c}
        /\ \A b \in Conns : b # c => (sock'[b] = "open" => sock[b] = "open")
        /\ UNCHANGED <<sid, replaced, stage>>
    BY <1>0, <1>1 DEF connection, Closing, flagVars, loginVars, TypeOK
  <2>3. Audience' \subseteq Audience
    <3>1. ASSUME NEW b \in Audience' PROVE b \in Audience
      <4>1. b \in sessions' /\ sid[b] # None
        BY <2>2 DEF Audience
      <4>2. b # c /\ b \in sessions /\ b \in Conns
        BY <1>0, <2>1, <2>2, <4>1
      <4>3. QED
        BY <2>2, <4>2 DEF Audience
    <3>2. QED
      BY <3>1
  <2>4. QED
    BY <1>0, <1>1, <2>2, <2>3, Quiet DEF connection, flagVars, loginVars, kickVars, clientVars
<1>2. ASSUME NEW c \in Conns, PeerCloses(c) \/ authDeadline(c) PROVE AllSeen'
  <2>1. /\ UNCHANGED <<sessions, sid, flagVars, sessionSockets, reconnectTimers, loginVars, kickVars,
                       clientVars, unannounced, phase>>
        /\ sock' = [sock EXCEPT ![c] = "closing"]
    BY <1>2 DEF PeerCloses, authDeadline
  <2>2. Audience' \subseteq Audience
    BY <1>0, <2>1 DEF Audience, flagVars, loginVars, TypeOK
  <2>3. QED
    BY <1>0, <2>1, <2>2, Quiet DEF flagVars, loginVars, kickVars, clientVars
<1>3. ASSUME NEW c \in Conns, probed(c) \/ refused(c) \/ \E d \in Devices : answerChallenge(c, d)
      PROVE  AllSeen'
  <2>1. sid[c] = None
    BY <1>0, <1>3 DEF probed, refused, answerChallenge, SigningIn
  <2>2. /\ UNCHANGED <<netVars, sessions, sid, replaced, sessionSockets, reconnectTimers, kickVars,
                       clientVars, unannounced, phase>>
        /\ \A b \in Conns : b # c => stage'[b] = stage[b] /\ (b \in invisible' <=> b \in invisible)
    BY <1>0, <1>3 DEF probed, refused, answerChallenge, flagVars, TypeOK
  <2>3. Audience' \subseteq Audience
    BY <1>0, <2>1, <2>2 DEF Audience, netVars, TypeOK
  <2>4. \A d \in Devices : sessionSockets[d] # None => sessionSockets[d] \in Conns /\ sessionSockets[d] # c
    BY <1>0, <2>1 DEF IndexAgrees, TypeOK
  <2>5. QED
    BY <1>0, <2>2, <2>3, <2>4, Quiet DEF kickVars, clientVars
<1>4. ASSUME \/ \E c \in Conns : logout(c) \/ \E u \in Users : kick(c, u)
             \/ \E d \in Devices : toggleOffline(d)
             \/ UNCHANGED vars
      PROVE  AllSeen'
  <2>1. /\ UNCHANGED <<netVars, sessions, sid, replaced, invisible, sessionSockets, reconnectTimers, stage,
                       clientVars, unannounced, phase>>
        /\ removed \subseteq removed'
    BY <1>4 DEF logout, kick, toggleOffline, vars, flagVars, loginVars, kickVars
  <2>2. Audience' = Audience
    BY <2>1 DEF Audience, netVars
  <2>3. QED
    BY <1>0, <2>1, <2>2, Quiet DEF clientVars
<1>5. QED
  BY <1>1, <1>2, <1>3, <1>4

\* A disconnection: the others see the device reconnecting or gone, and nothing
\* if nobody saw it before or its place was taken.
LEMMA DisconnectSeen ==
  ASSUME RosterInv, NEW c \in Conns, closeEvent(c) \/ checkLiveness(c)
  PROVE  AllSeen'
<1>. USE ConnectionsAssumption
<1>. DEFINE view == Forget(told, {c})
            rest == Audience \ {c}
            seen == Lost(c) /\ c \notin invisible
<1>0. TypeOK /\ IndexInv /\ IndexAgrees /\ LetGo /\ AllSeen
  BY DEF RosterInv, IndexInv
<1>. SUFFICES ASSUME phase' = "up", NEW d \in Devices, UserOf[d] \notin removed',
                     NEW v \in Viewers(UserOf[d])'
     PROVE  Seen(v, d)'
  BY DEF AllSeen
<1>1. /\ handleDisconnect(c) /\ sessions' = sessions \ {c} /\ sessionSockets' = Unbind({c})
      /\ UNCHANGED <<sid, replaced, invisible, stage, removed, phase>>
      /\ \A b \in Conns : sock'[b] = "open" => sock[b] = "open"
  BY <1>0 DEF closeEvent, checkLiveness, Closing, handleDisconnect, Release, flagVars, loginVars, kickVars,
              TypeOK
<1>2. v \in Audience /\ v # c
  BY <1>0, <1>1 DEF Viewers, Audience, TypeOK
<1>3. v \in Conns /\ Seen(v, d) /\ told[v][d] \in Shown
  BY <1>1, <1>2, Watching
<1>4. sessionSockets'[d] = IF sessionSockets[d] = c THEN None ELSE sessionSockets[d]
  BY <1>1 DEF Unbind
<1>5. view[v][d] = told[v][d] /\ ForgetRows({c})[v] = listed[v]
  BY <1>2, <1>3 DEF Forget, ForgetRows
<1>6. Lost(c) => sid[c] \in Devices
  BY <1>0 DEF Lost, TypeOK
<1>7. /\ seen /\ LeavesAtOnce(c) => Leave(view, ForgetRows({c}), rest, sid[c])
      /\ seen /\ ~ LeavesAtOnce(c) => told' = Deliver(view, rest, {sid[c]}, Reconnecting)
      /\ ~ seen => told' = view
      /\ ~ (seen /\ LeavesAtOnce(c)) => listed' = ForgetRows({c})
      /\ unannounced' = IF Lost(c) /\ c \in invisible THEN unannounced \cup {sid[c]} ELSE unannounced
      /\ reconnectTimers' = IF Lost(c) /\ ~ LeavesAtOnce(c)
           THEN [reconnectTimers EXCEPT ![sid[c]] = wasInvisible(c)] ELSE reconnectTimers
  BY <1>1 DEF handleDisconnect
<1>. HIDE DEF view
<1>8. CASE ~ (Lost(c) /\ sid[c] = d)
  <2>1. sessionSockets[d] # c
    BY <1>0, <1>1, <1>8 DEF Lost, IndexAgrees
  <2>2. reconnectTimers'[d] = reconnectTimers[d] /\ (d \in unannounced => d \in unannounced')
    BY <1>0, <1>6, <1>7, <1>8 DEF TypeOK
  <2>3. /\ told'[v][d] = told[v][d]
        /\ UserOf[d] \in listed'[v] => UserOf[d] \in listed[v]
        /\ UserOf[d] \in listed[v] /\ told[v][d] # "absent" => UserOf[d] \in listed'[v]
    <3>1. CASE seen /\ LeavesAtOnce(c)
      BY <1>3, <1>5, <1>6, <1>7, <1>8, <3>1, LeaveOf
    <3>2. CASE seen /\ ~ LeavesAtOnce(c)
      BY <1>3, <1>5, <1>7, <1>8, <3>2, KeyOfDevice, Delivered
    <3>3. CASE ~ seen
      BY <1>5, <1>7, <3>3
    <3>4. QED
      BY <3>1, <3>2, <3>3
  <2>4. QED
    BY <1>1, <1>3, <1>4, <2>1, <2>2, <2>3, Kept
<1>9. CASE Lost(c) /\ sid[c] = d
  <2>1. sessionSockets'[d] = None
    BY <1>0, <1>4, <1>9 DEF Lost, IndexAgrees
  <2>2. CASE c \in invisible
    BY <1>3, <1>7, <1>9, <2>1, <2>2, Gone
  <2>3. CASE c \notin invisible /\ LeavesAtOnce(c)
    <3>1. told'[v][d] = "absent"
      BY <1>2, <1>3, <1>5, <1>7, <1>9, <2>3, LeaveOf
    <3>2. QED
      BY <1>3, <2>1, <3>1, Gone
  <2>4. CASE c \notin invisible /\ ~ LeavesAtOnce(c)
    <3>1. reconnectTimers'[d] = "shown"
      BY <1>0, <1>7, <1>9, <2>4 DEF wasInvisible, TypeOK
    <3>2. QED
      BY <1>3, <2>1, <3>1, Gone
  <2>5. QED
    BY <2>2, <2>3, <2>4
<1>10. QED
  BY <1>8, <1>9

\* An admission: the device that comes back hidden was hidden before, or is
\* counted as unannounced.
LEMMA AdmittedSeen ==
  ASSUME RosterInv, NEW c \in Conns, admitted(c)
  PROVE  AllSeen'
<1>. USE ConnectionsAssumption
<1>. DEFINE own  == claim[c]
            view == Forget(told, Stale(c))
            rest == Audience \ (Stale(c) \cup {c})
            back == own \notin Bots /\ reconnectTimers[own] # "none" /\ c \notin invisible
<1>0. TypeOK /\ IndexInv /\ IndexAgrees /\ LetGo /\ SigningIn /\ AllSeen
  BY DEF RosterInv, IndexInv
<1>. SUFFICES ASSUME phase' = "up", NEW d \in Devices, UserOf[d] \notin removed',
                     NEW v \in Viewers(UserOf[d])'
     PROVE  Seen(v, d)'
  BY DEF AllSeen
<1>1. /\ own \in Devices /\ sid[c] = None /\ c \in sessions /\ c \notin replaced
      /\ sessions' = sessions \ Stale(c) /\ replaced \subseteq replaced'
      /\ sid' = [sid EXCEPT ![c] = own] /\ stage' = [stage EXCEPT ![c] = "admitted"]
      /\ sock' = Closing(Stale(c))
      /\ sessionSockets' = [Unbind(Stale(c)) EXCEPT ![own] = c]
      /\ unannounced' = IF ReturnsHidden(c) THEN unannounced \cup {own} ELSE unannounced
      /\ listed' = ForgetRows(Stale(c))
      /\ told' = IF back THEN Deliver(view, rest, {own}, BackOnline) ELSE view
      /\ reconnectTimers' = IF own \in Bots THEN reconnectTimers
                            ELSE [reconnectTimers EXCEPT ![own] = "none"]
      /\ UNCHANGED <<invisible, removed, phase>>
  BY <1>0 DEF admitted, isLive, SigningIn, LetGo, kickVars
<1>2. v \in Audience /\ v # c /\ v \notin Stale(c) /\ sid'[v] = sid[v]
  BY <1>0, <1>1 DEF Viewers, Audience, Closing, TypeOK
<1>3. v \in Conns /\ Seen(v, d) /\ told[v][d] \in Shown
  BY <1>1, <1>2, Watching
<1>4. view[v][d] = told[v][d] /\ listed'[v] = listed[v]
  BY <1>1, <1>2, <1>3 DEF Forget, ForgetRows
<1>5. \A e \in Devices : sessionSockets[e] # c
  BY <1>0, <1>1 DEF IndexAgrees
<1>. HIDE DEF view
<1>6. CASE d # own
  <2>1. sessionSockets[d] \notin Stale(c)
    BY <1>0, <1>1, <1>6 DEF Stale, IndexAgrees, TypeOK
  <2>2. sessionSockets'[d] = sessionSockets[d]
    BY <1>1, <1>6, <2>1 DEF Unbind
  <2>3. reconnectTimers'[d] = reconnectTimers[d]
    BY <1>0, <1>1, <1>6 DEF TypeOK
  <2>4. told'[v][d] = told[v][d]
    BY <1>1, <1>3, <1>4, <1>6, KeyOfDevice, Delivered
  <2>5. sessionSockets[d] # None => stage'[sessionSockets[d]] = stage[sessionSockets[d]]
    BY <1>0, <1>1, <1>5 DEF TypeOK
  <2>6. QED
    BY <1>1, <1>3, <1>4, <2>2, <2>3, <2>4, <2>5, Kept
<1>7. CASE d = own
  <2>1. sessionSockets'[d] = c /\ stage'[c] = "admitted" /\ c # None
    BY <1>0, <1>1, <1>7 DEF Unbind, TypeOK
  <2>2. told'[v][d] = IF back THEN BackOnline[told[v][d]] ELSE told[v][d]
    <3>1. CASE back
      <4>1. told' = Deliver(view, rest, {d}, BackOnline) /\ v \in rest
        BY <1>1, <1>2, <1>7, <3>1
      <4>2. QED
        BY <1>3, <1>4, <3>1, <4>1, KeyOfDevice, Delivered
    <3>2. CASE ~ back
      BY <1>1, <1>4, <3>2
    <3>3. QED
      BY <3>1, <3>2
  <2>3. ASSUME ~ Excused(d)'
        PROVE  told'[v][d] = "absent" \/ (told'[v][d] = "hidden" /\ UserOf[d] \notin listed'[v])
    <3>1. c \in invisible /\ d \notin unannounced /\ ~ ReturnsHidden(c)
      BY <1>1, <1>7, <2>1, <2>3 DEF Excused, OnShow
    <3>2. reconnectTimers[d] # "shown" /\ \A s \in Stale(c) : s \in invisible
      BY <1>7, <3>1 DEF ReturnsHidden
    <3>3. ~ OnShow(d)
      BY <1>5, <1>7, <3>2 DEF Stale, OnShow
    <3>4. told'[v][d] = told[v][d]
      BY <1>1, <1>4, <3>1
    <3>5. QED
      BY <1>3, <1>4, <3>1, <3>2, <3>3, <3>4 DEF Seen, Excused
  <2>4. ASSUME told'[v][d] \in {"reconnecting", "hiddenReconnecting"}
        PROVE  reconnectTimers'[d] = "shown" \/ d \in unannounced'
    <3>1. BackOnline[told[v][d]] \notin {"reconnecting", "hiddenReconnecting"}
      BY <1>3 DEF BackOnline, Shown
    <3>2. ~ back /\ told[v][d] \in {"reconnecting", "hiddenReconnecting"}
      BY <2>2, <2>4, <3>1
    <3>3. reconnectTimers[d] = "shown" \/ d \in unannounced
      BY <1>3, <3>2 DEF Seen
    <3>4. CASE d \in unannounced
      BY <1>1, <3>4
    <3>5. CASE reconnectTimers[d] = "shown" /\ own \in Bots
      BY <1>1, <3>5
    <3>6. CASE reconnectTimers[d] = "shown" /\ own \notin Bots
      BY <1>1, <1>7, <3>2, <3>6 DEF ReturnsHidden
    <3>7. QED
      BY <3>3, <3>4, <3>5, <3>6
  <2>5. QED
    BY <2>1, <2>3, <2>4 DEF Seen
<1>8. QED
  BY <1>6, <1>7

\* AUTH_SUCCESS: the member list of a person is read from the registry as it is
\* sent, and a bot is announced along with its own.
LEMMA WelcomedSeen ==
  ASSUME RosterInv, NEW c \in Conns, welcomed(c)
  PROVE  AllSeen'
<1>. USE ConnectionsAssumption
<1>. DEFINE isBot == sid[c] \in Bots
            on    == isLive(c) /\ ~ (isBot /\ c \in replaced)
<1>0. TypeOK /\ IndexInv /\ IndexAgrees /\ LetGo /\ BotsVisible /\ InFlight /\ AllSeen
  BY DEF RosterInv, IndexInv
<1>. SUFFICES ASSUME phase' = "up", NEW d \in Devices, UserOf[d] \notin removed',
                     NEW v \in Viewers(UserOf[d])'
     PROVE  Seen(v, d)'
  BY DEF AllSeen
<1>1. /\ stage[c] = "admitted"
      /\ stage' = [stage EXCEPT ![c] = IF ~on THEN "ended" ELSE IF isBot THEN "joined" ELSE "welcomed"]
      /\ told' = CASE on /\ isBot  -> Deliver(told, Audience \ {c}, {sid[c]}, USER_JOINED)
                   [] on /\ ~isBot -> [told EXCEPT ![c] = RosterView(c)]
                   [] OTHER        -> told
      /\ listed' = CASE on /\ isBot  -> addMember(listed, Audience \ {c}, userOf(c))
                     [] on /\ ~isBot -> [listed EXCEPT ![c] = {userOf(s) : s \in Roster(c)}]
                     [] OTHER        -> listed
      /\ UNCHANGED <<sock, sessions, sid, replaced, invisible, sessionSockets, reconnectTimers, removed,
                     unannounced, phase>>
  BY DEF welcomed, netVars, flagVars, kickVars
<1>2. v \in Audience \/ (v = c /\ on /\ ~ isBot)
  BY <1>0, <1>1 DEF Viewers, Audience, TypeOK
<1>3. v \in Conns /\ v \in sessions /\ sid[v] # None /\ userOf(v) # UserOf[d] /\ v \notin replaced
  BY <1>0, <1>1 DEF Viewers, Audience, userOf, TypeOK
<1>4. v # c => Seen(v, d) /\ told[v][d] \in Shown
  BY <1>1, <1>2, Watching
<1>5. CASE v = c
  <2>1. on /\ ~ isBot /\ sid[c] \in Devices
    BY <1>0, <1>1, <1>2, <1>5 DEF Audience, InFlight
  <2>2. told'[c] = RosterView(c) /\ listed'[c] = {userOf(s) : s \in Roster(c)}
    BY <1>0, <1>1, <2>1 DEF TypeOK
  <2>3. told'[c][d] = IF \E s \in Roster(c) : sid[s] = d THEN "online" ELSE "absent"
    BY <2>2, KeyOfDevice DEF RosterView
  <2>4. UserOf[d] # userOf(c)
    BY <1>3, <1>5
  <2>5. \A s \in Roster(c) : sid[s] = d => OnShow(d)
    <3>1. \A s \in sessions : sid[s] = d => sessionSockets[d] = s /\ s # None
      BY <1>0, Bound DEF TypeOK
    <3>2. QED
      BY <2>4, <3>1 DEF Roster, OnShow, userOf
  <2>6. OnShow(d) => sessionSockets[d] \in Roster(c) /\ sid[sessionSockets[d]] = d
    BY <1>0, Bound DEF Roster, OnShow
  <2>7. OnShow(d) => told'[c][d] = "online" /\ UserOf[d] \in listed'[c]
    BY <2>2, <2>3, <2>6 DEF userOf
  <2>8. ~ OnShow(d) => told'[c][d] = "absent"
    BY <2>3, <2>5
  <2>9. OnShow(d)' <=> OnShow(d)
    BY <1>1 DEF OnShow
  <2>10. QED
    BY <1>5, <2>7, <2>8, <2>9 DEF Seen, Excused
<1>6. CASE v # c /\ on /\ isBot /\ sid[c] = d
  <2>1. sessionSockets[d] = c /\ c # None
    BY <1>0, <1>6 DEF isLive, IndexAgrees, TypeOK
  <2>2. c \notin invisible
    BY <1>0, <1>6 DEF BotsVisible
  <2>3. told'[v][d] = "online"
    BY <1>1, <1>2, <1>3, <1>4, <1>6, KeyOfDevice, Delivered DEF USER_JOINED
  <2>4. UserOf[d] \in listed'[v]
    BY <1>1, <1>2, <1>3, <1>6 DEF addMember, userOf
  <2>5. OnShow(d)'
    BY <1>1, <2>1, <2>2 DEF OnShow
  <2>6. QED
    BY <2>3, <2>4, <2>5 DEF Seen, Excused
<1>7. CASE v # c /\ ~ (on /\ isBot /\ sid[c] = d)
  <2>1. told'[v][d] = told[v][d]
    <3>1. CASE on /\ isBot
      BY <1>1, <1>3, <1>7, <3>1, KeyOfDevice, Delivered
    <3>2. CASE on /\ ~ isBot
      BY <1>0, <1>1, <1>7, <3>2 DEF TypeOK
    <3>3. CASE ~ on
      BY <1>1, <3>3
    <3>4. QED
      BY <3>1, <3>2, <3>3
  <2>2. UserOf[d] \in listed[v] => UserOf[d] \in listed'[v]
    <3>1. CASE on /\ isBot
      BY <1>1, <1>3, <3>1 DEF addMember
    <3>2. CASE ~ (on /\ isBot)
      BY <1>0, <1>1, <1>7, <3>2 DEF TypeOK
    <3>3. QED
      BY <3>1, <3>2
  <2>3. UserOf[d] \in listed'[v] => UserOf[d] \in listed[v] \/ d \in Bots
    <3>1. CASE on /\ isBot
      <4>1. UserOf[d] \in listed'[v] => UserOf[d] \in listed[v] \/ UserOf[d] = UserOf[sid[c]]
        BY <1>1, <1>3, <3>1 DEF addMember, userOf
      <4>2. UserOf[d] = UserOf[sid[c]] => d \in Bots
        BY <3>1
      <4>3. QED
        BY <4>1, <4>2
    <3>2. CASE ~ (on /\ isBot)
      BY <1>0, <1>1, <1>7, <3>2 DEF TypeOK
    <3>3. QED
      BY <3>1, <3>2
  <2>4. ASSUME sessionSockets[d] # None
        PROVE  /\ stage'[sessionSockets[d]] = "joined" => stage[sessionSockets[d]] = "joined"
               /\ d \in Bots => OnShow(d)
    <3>1. sessionSockets[d] \in Conns /\ sid[sessionSockets[d]] = d
      BY <1>0, <2>4, Bound
    <3>2. d \in Bots => OnShow(d)
      BY <1>0, <2>4, <3>1 DEF BotsVisible, OnShow
    <3>3. QED
      BY <1>0, <1>1, <1>7, <3>1, <3>2 DEF TypeOK
  <2>5. CASE UserOf[d] \in listed'[v] => UserOf[d] \in listed[v]
    BY <1>1, <1>3, <1>4, <1>7, <2>1, <2>2, <2>4, <2>5, Kept
  <2>6. CASE d \in Bots
    <3>1. OnShow(d)' <=> OnShow(d)
      BY <1>1 DEF OnShow
    <3>2. OnShow(d) => sessionSockets[d] # None
      BY DEF OnShow
    <3>3. Excused(d)' <=> Excused(d)
      BY <1>1, <3>1 DEF Excused
    <3>4. ~ Excused(d) => told'[v][d] = "absent"
      BY <1>4, <1>7, <2>1, <2>4, <2>6 DEF Seen, Excused
    <3>5. QED
      BY <1>1, <1>4, <1>7, <2>1, <2>2, <2>4, <3>1, <3>2, <3>3, <3>4 DEF Seen
  <2>7. QED
    BY <2>3, <2>5, <2>6
<1>8. QED
  BY <1>5, <1>6, <1>7

\* What the two forms of USER_UPDATED make of one entry: a session id is changed
\* with its own user's other entries, and added only for the device that is shown.
LEMMA HiddenOf ==
  ASSUME NEW view, NEW R, NEW u \in Users, NEW v \in Conns, NEW d \in Devices
  PROVE  UpdateHidden(view, R, u)[v][d] =
           IF v \in R /\ UserOf[d] = u THEN Hidden[view[v][d]] ELSE view[v][d]
<1>. DEFINE first == Deliver(view, R, KeysOf(u), Hidden)
<1>1. first[v][d] = IF v \in R /\ UserOf[d] = u THEN Hidden[view[v][d]] ELSE view[v][d]
  BY KeyOfDevice, Delivered
<1>2. d \notin {u}
  BY KeyOfDevice
<1>. HIDE DEF first
<1>3. Deliver(first, Unaware(view, R, u), {u}, NewHidden)[v][d] = first[v][d]
  BY <1>2, KeyOfDevice, Delivered
<1>4. QED
  BY <1>1, <1>3 DEF UpdateHidden, first

LEMMA VisibleOf ==
  ASSUME NEW view, NEW R, NEW u, NEW e, NEW v \in Conns, NEW d \in Devices, view[v][d] \in Shown
  PROVE  /\ d # e => UpdateVisible(view, R, u, e)[v][d] =
                       IF v \in R /\ UserOf[d] = u THEN Visible[view[v][d]] ELSE view[v][d]
         /\ UpdateVisible(view, R, u, e)[v][d] \in {"online", view[v][d], Visible[view[v][d]]}
<1>. DEFINE first == Deliver(view, R, KeysOf(u), Visible)
<1>1. first[v][d] = IF v \in R /\ UserOf[d] = u THEN Visible[view[v][d]] ELSE view[v][d]
  BY KeyOfDevice, Delivered
<1>2. first[v][d] \in Shown
  BY <1>1 DEF Visible, Shown
<1>. HIDE DEF first
<1>3. Deliver(first, Unaware(view, R, u), {e}, USER_JOINED)[v][d] =
        IF v \in Unaware(view, R, u) /\ d = e THEN "online" ELSE first[v][d]
  BY <1>2, KeyOfDevice, Delivered DEF USER_JOINED
<1>4. QED
  BY <1>1, <1>3 DEF UpdateVisible, first

\* The registered connections of a person, seen from one of their devices.
LEMMA MatesBound ==
  ASSUME RosterInv, NEW c \in Conns, sid[c] \in Devices, NEW d \in Devices
  PROVE  /\ sessionSockets[d] # None =>
              /\ sessionSockets[d] \in Conns /\ sid[sessionSockets[d]] = d
              /\ sessionSockets[d] \in Mates(c) <=> UserOf[d] = userOf(c)
         /\ d \in {sid[s] : s \in Mates(c)} <=> sessionSockets[d] # None /\ UserOf[d] = userOf(c)
<1>0. IndexInv /\ None \notin Devices /\ None \notin Conns /\ sessions \subseteq Conns
  BY ConnectionsAssumption DEF RosterInv, IndexInv, TypeOK
<1>1. sessionSockets[d] # None =>
        /\ sessionSockets[d] \in Conns /\ sid[sessionSockets[d]] = d
        /\ sessionSockets[d] \in Mates(c) <=> UserOf[d] = userOf(c)
  BY <1>0, Bound DEF Mates, sessionsOfUser, userOf
<1>2. ASSUME NEW s \in Mates(c), sid[s] = d PROVE sessionSockets[d] # None /\ UserOf[d] = userOf(c)
  BY <1>0, <1>2, Bound DEF Mates, sessionsOfUser, userOf
<1>3. QED
  BY <1>1, <1>2

\* A person hides: every entry of theirs, and nobody else's, is hidden for the
\* others, and their row is gone.
LEMMA HideSeen ==
  ASSUME RosterInv, NEW c \in Conns, sid[c] \in Devices \ Bots,
         invisible' = invisible \cup Mates(c), Audience' = Audience,
         told' = UpdateHidden(told, Strangers(c), userOf(c)),
         listed' = removeMember(listed, Strangers(c), userOf(c)),
         \A b \in Conns : sid[b] # sid[c] => stage'[b] = stage[b],
         UNCHANGED <<sid, sessionSockets, reconnectTimers, removed, unannounced, phase>>
  PROVE  AllSeen'
<1>. USE ConnectionsAssumption
<1>0. TypeOK
  BY DEF RosterInv, IndexInv
<1>. SUFFICES ASSUME phase' = "up", NEW d \in Devices, UserOf[d] \notin removed',
                     NEW v \in Viewers(UserOf[d])'
     PROVE  Seen(v, d)'
  BY DEF AllSeen
<1>1. v \in Audience
  BY DEF Viewers, userOf
<1>2. v \in Conns /\ Seen(v, d) /\ userOf(v) # UserOf[d] /\ told[v][d] \in Shown
  BY <1>1, Watching
<1>3. userOf(c) \in Users
  BY DEF userOf
<1>4. sessionSockets[d] # None =>
        /\ sessionSockets[d] \in Conns /\ sid[sessionSockets[d]] = d
        /\ sessionSockets[d] \in Mates(c) <=> UserOf[d] = userOf(c)
  BY MatesBound
<1>5. CASE UserOf[d] = userOf(c)
  <2>1. v \in Strangers(c)
    BY <1>1, <1>2, <1>5 DEF Strangers
  <2>2. told'[v][d] = Hidden[told[v][d]] /\ UserOf[d] \notin listed'[v]
    BY <1>2, <1>3, <1>5, <2>1, HiddenOf DEF removeMember
  <2>3. ~ OnShow(d)'
    BY <1>4, <1>5 DEF OnShow
  <2>4. ASSUME ~ Excused(d)'
        PROVE  told'[v][d] = "absent" \/ (told'[v][d] = "hidden" /\ sessionSockets[d] # None)
    <3>1. reconnectTimers[d] # "shown" /\ d \notin unannounced
      BY <2>4 DEF Excused
    <3>2. told[v][d] \notin {"reconnecting", "hiddenReconnecting"}
      BY <1>2, <3>1 DEF Seen
    <3>3. sessionSockets[d] = None => told[v][d] = "absent"
      BY <1>2, <3>1 DEF Seen, Excused, OnShow
    <3>4. QED
      BY <1>2, <2>2, <3>2, <3>3 DEF Hidden, Shown
  <2>5. ASSUME told'[v][d] \in {"reconnecting", "hiddenReconnecting"}
        PROVE  reconnectTimers[d] = "shown" \/ d \in unannounced
    <3>1. told[v][d] \in {"reconnecting", "hiddenReconnecting"}
      BY <1>2, <2>2, <2>5 DEF Hidden, Shown
    <3>2. QED
      BY <1>2, <3>1 DEF Seen
  <2>6. QED
    BY <2>2, <2>3, <2>4, <2>5 DEF Seen
<1>6. CASE UserOf[d] # userOf(c)
  <2>1. told'[v][d] = told[v][d]
    BY <1>2, <1>3, <1>6, HiddenOf
  <2>2. UserOf[d] \in listed'[v] <=> UserOf[d] \in listed[v]
    BY <1>2, <1>6 DEF removeMember
  <2>3. sid[c] # d
    BY <1>6 DEF userOf
  <2>4. QED
    BY <1>2, <1>4, <1>6, <2>1, <2>2, <2>3, Kept
<1>7. QED
  BY <1>5, <1>6

\* A person shows themself: for the others every connected device of theirs is
\* online, or was on show before, and no entry of a device that is gone appears
\* unless it went with nobody told.
LEMMA ShowSeen ==
  ASSUME RosterInv, NEW c \in Conns, sid[c] \in Devices \ Bots, phase = "up",
         invisible \ Mates(c) \subseteq invisible', invisible' \subseteq invisible \ Mates(c),
         Audience' = Audience,
         \A b \in Conns : sid[b] # sid[c] => stage'[b] = stage[b],
         UNCHANGED <<sid, sessionSockets, reconnectTimers, removed, phase>>,
         \A d \in Devices : UserOf[d] \notin removed => \A v \in Viewers(UserOf[d]) :
           \/ /\ UserOf[d] # userOf(c) /\ told'[v][d] = told[v][d]
              /\ UserOf[d] \in listed'[v] <=> UserOf[d] \in listed[v]
              /\ d \in unannounced => d \in unannounced'
           \/ /\ UserOf[d] = userOf(c) /\ UserOf[d] \in listed'[v]
              /\ \/ sessionSockets[d] # None /\ told'[v][d] = "online"
                 \/ /\ sessionSockets[d] # None => /\ sessionSockets[d] \notin invisible
                                                  /\ stage'[sessionSockets[d]] = stage[sessionSockets[d]]
                    /\ told'[v][d] \in {told[v][d], Visible[told[v][d]]}
                    /\ d \in unannounced => d \in unannounced'
  PROVE  AllSeen'
<1>. USE ConnectionsAssumption
<1>. SUFFICES ASSUME phase' = "up", NEW d \in Devices, UserOf[d] \notin removed',
                     NEW v \in Viewers(UserOf[d])'
     PROVE  Seen(v, d)'
  BY DEF AllSeen
<1>1. v \in Audience /\ v \in Viewers(UserOf[d])
  BY DEF Viewers, userOf
<1>2. v \in Conns /\ Seen(v, d) /\ told[v][d] \in Shown
  BY <1>1, Watching
<1>3. sessionSockets[d] # None =>
        /\ sessionSockets[d] \in Conns /\ sid[sessionSockets[d]] = d
        /\ sessionSockets[d] \in Mates(c) <=> UserOf[d] = userOf(c)
  BY MatesBound
<1>4. CASE /\ UserOf[d] # userOf(c) /\ told'[v][d] = told[v][d]
           /\ UserOf[d] \in listed'[v] <=> UserOf[d] \in listed[v]
           /\ d \in unannounced => d \in unannounced'
  <2>1. sid[c] # d
    BY <1>4 DEF userOf
  <2>2. QED
    BY <1>2, <1>3, <1>4, <2>1, Kept
<1>5. CASE UserOf[d] = userOf(c) /\ UserOf[d] \in listed'[v]
  <2>1. OnShow(d)' <=> sessionSockets[d] # None
    BY <1>3, <1>5 DEF OnShow
  <2>2. CASE sessionSockets[d] # None /\ told'[v][d] = "online"
    BY <1>5, <2>1, <2>2 DEF Seen, Excused
  <2>3. CASE /\ sessionSockets[d] # None => /\ sessionSockets[d] \notin invisible
                                           /\ stage'[sessionSockets[d]] = stage[sessionSockets[d]]
             /\ told'[v][d] \in {told[v][d], Visible[told[v][d]]}
             /\ d \in unannounced => d \in unannounced'
    <3>1. OnShow(d) <=> OnShow(d)'
      BY <2>1, <2>3 DEF OnShow
    <3>2. Excused(d) => Excused(d)'
      BY <2>3, <3>1 DEF Excused
    <3>3. Visible["online"] = "online" /\ Visible["absent"] = "absent"
      BY DEF Visible, Shown
    <3>4. told'[v][d] \in {"reconnecting", "hiddenReconnecting"}
            => told[v][d] \in {"reconnecting", "hiddenReconnecting"}
      BY <1>2, <2>3 DEF Visible, Shown
    <3>5. ~ Excused(d) => told[v][d] = "absent"
      BY <1>2, <2>1, <3>1 DEF Seen, Excused
    <3>6. QED
      BY <1>2, <1>5, <2>1, <2>3, <3>1, <3>2, <3>3, <3>4, <3>5 DEF Seen
  <2>4. QED
    BY <1>1, <1>5, <2>2, <2>3
<1>6. QED
  BY <1>1, <1>4, <1>5

\* What the others make of a person who shows themself.
LEMMA ShownOf ==
  ASSUME RosterInv, NEW c \in Conns, sid[c] \in Devices, NEW d \in Devices,
         NEW v \in Conns, v \in Audience, NEW hide \in BOOLEAN, ~ hide
  PROVE  /\ \/ ViewOf(c, hide)[v][d] = "online" /\ (d \in Announced(c, hide) \/ d = sid[c])
            \/ /\ ViewOf(c, hide)[v][d] \in {told[v][d], Visible[told[v][d]]}
               /\ d \notin Announced(c, hide)
         /\ UserOf[d] # userOf(c) => ViewOf(c, hide)[v][d] = told[v][d]
         /\ d \in Announced(c, hide) => UserOf[d] = userOf(c) /\ sessionSockets[d] # None
<1>. DEFINE first == UpdateVisible(told, Audience, userOf(c), sid[c])
            view  == ViewOf(c, hide)
<1>1. told[v][d] \in Shown
  BY KeyOfDevice DEF RosterInv, IndexInv, TypeOK
<1>2. /\ d # sid[c] => first[v][d] = IF UserOf[d] = userOf(c) THEN Visible[told[v][d]] ELSE told[v][d]
      /\ first[v][d] \in {"online", told[v][d], Visible[told[v][d]]}
  BY <1>1, VisibleOf
<1>3. first[v][d] \in Shown
  BY <1>1, <1>2 DEF Visible, Shown
<1>. HIDE DEF first
<1>4. view[v][d] = IF d \in Announced(c, hide) THEN "online" ELSE first[v][d]
  <2>1. view = Deliver(first, Audience, Announced(c, hide), USER_JOINED)
    BY DEF ViewOf, first
  <2>2. d \in Keys /\ USER_JOINED[first[v][d]] = "online"
    BY <1>3, KeyOfDevice DEF USER_JOINED
  <2>. HIDE DEF view
  <2>3. QED
    BY <2>1, <2>2, Delivered
<1>5. d \in Announced(c, hide) => UserOf[d] = userOf(c) /\ sessionSockets[d] # None
  BY MatesBound DEF Announced
<1>6. QED
  BY <1>2, <1>4, <1>5 DEF userOf

\* The announcement of a sign-in, after the other devices took its visibility.
LEMMA JoinedSeen ==
  ASSUME RosterInv, NEW c \in Conns, joined(c)
  PROVE  AllSeen'
<1>. USE ConnectionsAssumption
<1>. DEFINE hide == c \in invisible
            view == IF Differs(c, hide) THEN ViewOf(c, hide) ELSE told
            rows == IF Differs(c, hide) THEN RowsOf(c, hide) ELSE listed
            own  == IF ~hide /\ sessionSockets[sid[c]] = c THEN {sid[c]} ELSE {}
<1>0. TypeOK /\ IndexInv /\ IndexAgrees /\ InFlight /\ AllSeen
  BY DEF RosterInv, IndexInv
<1>1. /\ stage[c] = "welcomed" /\ stage' = [stage EXCEPT ![c] = "joined"]
      /\ invisible' = IF Differs(c, hide) THEN VisibilityOf(c, hide) ELSE invisible
      /\ told' = IF hide THEN view ELSE Deliver(view, Audience \ {c}, {sid[c]}, USER_JOINED)
      /\ listed' = IF hide THEN rows ELSE addMember(rows, Audience \ {c}, userOf(c))
      /\ unannounced' = unannounced \ (Announced(c, hide) \cup own)
      /\ UNCHANGED <<sock, sessions, sid, replaced, sessionSockets, reconnectTimers, removed, phase>>
  BY DEF joined, netVars, kickVars
<1>2. sid[c] \in Devices \ Bots
  BY <1>1, FromPerson
<1>3. Audience' = Audience
  BY <1>0, <1>1 DEF Audience, TypeOK
<1>4. \A b \in Conns : sid[b] # sid[c] => stage'[b] = stage[b]
  BY <1>0, <1>1 DEF TypeOK
<1>5. CASE hide /\ Differs(c, hide)
  <2>1. /\ invisible' = invisible \cup Mates(c)
        /\ told' = UpdateHidden(told, Strangers(c), userOf(c))
        /\ listed' = removeMember(listed, Strangers(c), userOf(c))
        /\ unannounced' = unannounced
    BY <1>1, <1>5 DEF VisibilityOf, ViewOf, RowsOf, Announced
  <2>2. QED
    BY <1>1, <1>2, <1>3, <1>4, <2>1, HideSeen
<1>6. CASE hide /\ ~ Differs(c, hide)
  <2>1. UNCHANGED <<invisible, told, listed, unannounced>>
    BY <1>1, <1>6 DEF Announced
  <2>. SUFFICES ASSUME phase' = "up", NEW d \in Devices, UserOf[d] \notin removed',
                       NEW v \in Viewers(UserOf[d])'
       PROVE  Seen(v, d)'
    BY DEF AllSeen
  <2>2. v \in Conns /\ Seen(v, d)
    BY <1>1, <1>3, Watching DEF Viewers
  <2>3. OnShow(d)' <=> OnShow(d)
    BY <1>1, <2>1 DEF OnShow
  <2>4. Excused(d)' <=> Excused(d)
    BY <1>1, <2>1, <2>3 DEF Excused
  <2>5. OnShow(d) => stage'[sessionSockets[d]] = stage[sessionSockets[d]]
    BY <1>0, <1>1, <1>6 DEF OnShow, TypeOK
  <2>6. QED
    BY <1>1, <2>1, <2>2, <2>3, <2>4, <2>5 DEF Seen
<1>7. CASE ~ hide /\ phase = "up"
  <2>1. invisible \ Mates(c) \subseteq invisible' /\ invisible' \subseteq invisible \ Mates(c)
    <3>1. CASE Differs(c, hide)
      BY <1>1, <1>7, <3>1 DEF VisibilityOf
    <3>2. CASE ~ Differs(c, hide)
      BY <1>1, <1>7, <3>2 DEF Differs
    <3>3. QED
      BY <3>1, <3>2
  <2>2. ASSUME NEW d \in Devices, UserOf[d] \notin removed, NEW v \in Viewers(UserOf[d])
        PROVE  \/ /\ UserOf[d] # userOf(c) /\ told'[v][d] = told[v][d]
                  /\ UserOf[d] \in listed'[v] <=> UserOf[d] \in listed[v]
                  /\ d \in unannounced => d \in unannounced'
               \/ /\ UserOf[d] = userOf(c) /\ UserOf[d] \in listed'[v]
                  /\ \/ sessionSockets[d] # None /\ told'[v][d] = "online"
                     \/ /\ sessionSockets[d] # None =>
                             /\ sessionSockets[d] \notin invisible
                             /\ stage'[sessionSockets[d]] = stage[sessionSockets[d]]
                        /\ told'[v][d] \in {told[v][d], Visible[told[v][d]]}
                        /\ d \in unannounced => d \in unannounced'
    <3>. DEFINE shown == Announced(c, hide)
    <3>1. v \in Conns /\ v \in Audience /\ userOf(v) # UserOf[d] /\ told[v][d] \in Shown
      BY <1>0, KeyOfDevice DEF Viewers, Audience, TypeOK
    <3>2. hide \in BOOLEAN /\ ~ hide
      BY <1>7
    <3>. HIDE DEF hide
    <3>3. /\ \/ view[v][d] = "online" /\ (d \in shown \/ d = sid[c])
             \/ view[v][d] \in {told[v][d], Visible[told[v][d]]} /\ d \notin shown
          /\ UserOf[d] # userOf(c) => view[v][d] = told[v][d] /\ d \notin shown
          /\ d \in shown => sessionSockets[d] # None
      <4>1. CASE Differs(c, hide)
        BY <1>2, <3>1, <3>2, <4>1, ShownOf
      <4>2. CASE ~ Differs(c, hide)
        BY <3>2, <4>2 DEF Announced
      <4>3. QED
        BY <4>1, <4>2
    <3>4. view[v][d] \in Shown
      BY <3>1, <3>3 DEF Visible, Shown
    <3>5. /\ listed' = addMember(rows, Audience \ {c}, userOf(c))
          /\ rows = IF Differs(c, hide) THEN addMember(listed, Audience, userOf(c)) ELSE listed
      BY <1>1, <1>7, <3>2 DEF RowsOf
    <3>6. told'[v][d] = IF v # c /\ d = sid[c] THEN "online" ELSE view[v][d]
      <4>. HIDE DEF view
      <4>1. told' = Deliver(view, Audience \ {c}, {sid[c]}, USER_JOINED)
        BY <1>1, <1>7
      <4>2. QED
        BY <3>1, <3>4, <4>1, KeyOfDevice, Delivered DEF USER_JOINED
    <3>7. d \in unannounced /\ d \notin shown /\ d # sid[c] => d \in unannounced'
      BY <1>1, <3>2
    <3>. HIDE DEF view, rows
    <3>8. CASE UserOf[d] # userOf(c)
      <4>1. d # sid[c] /\ told'[v][d] = told[v][d]
        BY <3>3, <3>6, <3>8 DEF userOf
      <4>2. UserOf[d] \in listed'[v] <=> UserOf[d] \in listed[v]
        BY <3>1, <3>5, <3>8 DEF addMember
      <4>3. QED
        BY <3>3, <3>7, <3>8, <4>1, <4>2
    <3>9. CASE UserOf[d] = userOf(c)
      <4>1. v # c
        BY <3>1, <3>9
      <4>2. UserOf[d] \in listed'[v]
        BY <3>1, <3>5, <3>9, <4>1 DEF addMember
      <4>3. CASE d = sid[c]
        <5>1. sessionSockets[d] # None
          BY <1>0, <1>1, <1>2, <1>7, <2>2, <3>9, <4>3 DEF InFlight
        <5>2. QED
          BY <3>6, <3>9, <4>1, <4>2, <4>3, <5>1
      <4>4. CASE d # sid[c] /\ d \in shown
        BY <3>3, <3>6, <3>9, <4>2, <4>4
      <4>5. CASE d # sid[c] /\ d \notin shown
        <5>1. told'[v][d] \in {told[v][d], Visible[told[v][d]]}
          BY <3>3, <3>6, <4>5
        <5>2. ASSUME sessionSockets[d] # None
              PROVE  /\ sessionSockets[d] \notin invisible
                     /\ stage'[sessionSockets[d]] = stage[sessionSockets[d]]
          <6>1. /\ sessionSockets[d] \in Conns /\ sid[sessionSockets[d]] = d
                /\ sessionSockets[d] \in Mates(c) /\ d \in {sid[s] : s \in Mates(c)}
            BY <1>2, <3>9, <5>2, MatesBound
          <6>2. ~ Differs(c, hide)
            BY <3>2, <4>5, <6>1 DEF Announced
          <6>3. QED
            BY <1>4, <3>2, <4>5, <6>1, <6>2 DEF Differs
        <5>3. QED
          BY <3>7, <3>9, <4>2, <4>5, <5>1, <5>2
      <4>6. QED
        BY <4>3, <4>4, <4>5
    <3>10. QED
      BY <3>8, <3>9
  <2>3. QED
    BY <1>1, <1>2, <1>3, <1>4, <1>7, <2>1, <2>2, ShowSeen
<1>8. CASE phase # "up"
  BY <1>1, <1>8 DEF AllSeen
<1>9. QED
  BY <1>5, <1>6, <1>7, <1>8

\* A choice of visibility: hidden everywhere, or shown wherever the person was
\* hidden.
LEMMA VisibilitySeen ==
  ASSUME RosterInv, NEW c \in Conns, NEW hide \in BOOLEAN, setVisibility(c, hide)
  PROVE  AllSeen'
<1>. USE ConnectionsAssumption
<1>0. TypeOK /\ IndexInv /\ IndexAgrees /\ AllSeen
  BY DEF RosterInv, IndexInv
<1>1. /\ invisible' = VisibilityOf(c, hide) /\ told' = ViewOf(c, hide) /\ listed' = RowsOf(c, hide)
      /\ unannounced' = unannounced \ Announced(c, hide)
      /\ c \in sessions /\ c \notin replaced /\ phase = "up"
      /\ UNCHANGED <<sock, sessions, sid, replaced, sessionSockets, reconnectTimers, stage, removed,
                     phase>>
  BY DEF setVisibility, FromApp, mayHandle, netVars, kickVars, loginVars
<1>2. sid[c] \in Devices \ Bots
  BY FromPerson DEF setVisibility
<1>3. Audience' = Audience
  BY <1>1 DEF Audience
<1>4. CASE hide
  <2>1. /\ invisible' = invisible \cup Mates(c)
        /\ told' = UpdateHidden(told, Strangers(c), userOf(c))
        /\ listed' = removeMember(listed, Strangers(c), userOf(c))
        /\ unannounced' = unannounced
    BY <1>1, <1>4 DEF VisibilityOf, ViewOf, RowsOf, Announced
  <2>2. QED
    BY <1>1, <1>2, <1>3, <2>1, HideSeen
<1>5. CASE ~ hide
  <2>1. invisible' = invisible \ Mates(c)
    BY <1>1, <1>5 DEF VisibilityOf
  <2>2. /\ told' = ViewOf(c, hide) /\ listed' = addMember(listed, Audience, userOf(c))
        /\ unannounced' = unannounced \ Announced(c, hide)
    BY <1>1, <1>5 DEF RowsOf
  <2>3. ASSUME NEW d \in Devices, UserOf[d] \notin removed, NEW v \in Viewers(UserOf[d])
        PROVE  \/ /\ UserOf[d] # userOf(c) /\ told'[v][d] = told[v][d]
                  /\ UserOf[d] \in listed'[v] <=> UserOf[d] \in listed[v]
                  /\ d \in unannounced => d \in unannounced'
               \/ /\ UserOf[d] = userOf(c) /\ UserOf[d] \in listed'[v]
                  /\ \/ sessionSockets[d] # None /\ told'[v][d] = "online"
                     \/ /\ sessionSockets[d] # None =>
                             /\ sessionSockets[d] \notin invisible
                             /\ stage'[sessionSockets[d]] = stage[sessionSockets[d]]
                        /\ told'[v][d] \in {told[v][d], Visible[told[v][d]]}
                        /\ d \in unannounced => d \in unannounced'
    <3>1. v \in Conns /\ v \in Audience
      BY <1>0 DEF Viewers, Audience, TypeOK
    <3>2. /\ \/ told'[v][d] = "online" /\ (d \in Announced(c, hide) \/ d = sid[c])
             \/ /\ told'[v][d] \in {told[v][d], Visible[told[v][d]]}
                /\ d \notin Announced(c, hide)
          /\ UserOf[d] # userOf(c) => told'[v][d] = told[v][d]
          /\ d \in Announced(c, hide) => UserOf[d] = userOf(c) /\ sessionSockets[d] # None
      BY <1>2, <1>5, <2>2, <3>1, ShownOf
    <3>3. CASE UserOf[d] # userOf(c)
      BY <2>2, <3>1, <3>2, <3>3 DEF addMember
    <3>4. CASE UserOf[d] = userOf(c)
      <4>1. UserOf[d] \in listed'[v]
        BY <2>2, <3>1, <3>4 DEF addMember
      <4>2. d = sid[c] => sessionSockets[d] # None
        BY <1>0, <1>1 DEF IndexAgrees, TypeOK
      <4>3. CASE told'[v][d] = "online" /\ (d \in Announced(c, hide) \/ d = sid[c])
        BY <3>2, <3>4, <4>1, <4>2, <4>3
      <4>4. CASE /\ told'[v][d] \in {told[v][d], Visible[told[v][d]]}
                 /\ d \notin Announced(c, hide)
        <5>1. ASSUME sessionSockets[d] # None PROVE sessionSockets[d] \notin invisible
          <6>1. sessionSockets[d] \in Mates(c) /\ d \in {sid[s] : s \in Mates(c)}
            BY <1>2, <3>4, <5>1, MatesBound
          <6>2. ~ Differs(c, hide)
            BY <1>5, <4>4, <6>1 DEF Announced
          <6>3. QED
            BY <1>5, <6>1, <6>2 DEF Differs
        <5>2. QED
          BY <1>1, <2>2, <3>4, <4>1, <4>4, <5>1
      <4>5. QED
        BY <3>2, <4>3, <4>4
    <3>5. QED
      BY <3>3, <3>4
  <2>4. QED
    BY <1>1, <1>2, <1>3, <2>1, <2>3, ShowSeen
<1>6. QED
  BY <1>4, <1>5

\* The end of a grace: a device that others saw is gone for them.
LEMMA GraceSeen ==
  ASSUME RosterInv, NEW own \in Devices, graceExpires(own)
  PROVE  AllSeen'
<1>. USE ConnectionsAssumption
<1>0. TypeOK /\ NoGraceWhileBound /\ AllSeen
  BY DEF RosterInv, IndexInv
<1>. SUFFICES ASSUME phase' = "up", NEW d \in Devices, UserOf[d] \notin removed',
                     NEW v \in Viewers(UserOf[d])'
     PROVE  Seen(v, d)'
  BY DEF AllSeen
<1>1. /\ UNCHANGED <<sock, sessions, sid, replaced, invisible, sessionSockets, stage, removed, unannounced,
                     phase>>
      /\ reconnectTimers' = [reconnectTimers EXCEPT ![own] = "none"]
      /\ sessionSockets[own] = None
      /\ reconnectTimers[own] = "shown" => Leave(told, listed, Audience, own)
      /\ reconnectTimers[own] # "shown" => UNCHANGED <<told, listed>>
  BY <1>0 DEF graceExpires, netVars, flagVars, loginVars, kickVars, clientVars, NoGraceWhileBound
<1>2. v \in Audience
  BY <1>1 DEF Viewers, Audience
<1>3. v \in Conns /\ Seen(v, d) /\ told[v][d] \in Shown
  BY <1>1, <1>2, Watching
<1>4. CASE d # own \/ reconnectTimers[own] # "shown"
  <2>1. /\ told'[v][d] = told[v][d]
        /\ UserOf[d] \in listed'[v] => UserOf[d] \in listed[v]
        /\ UserOf[d] \in listed[v] /\ told[v][d] # "absent" => UserOf[d] \in listed'[v]
    <3>1. CASE reconnectTimers[own] = "shown"
      BY <1>1, <1>3, <1>4, <3>1, LeaveOf
    <3>2. CASE reconnectTimers[own] # "shown"
      BY <1>1, <3>2
    <3>3. QED
      BY <3>1, <3>2
  <2>2. reconnectTimers[d] = "shown" => reconnectTimers'[d] = "shown"
    BY <1>0, <1>1, <1>4 DEF TypeOK
  <2>3. QED
    BY <1>1, <1>3, <2>1, <2>2, Kept
<1>5. CASE d = own /\ reconnectTimers[own] = "shown"
  <2>1. told'[v][d] = "absent"
    BY <1>1, <1>2, <1>3, <1>5, LeaveOf
  <2>2. QED
    BY <1>1, <1>3, <1>5, <2>1, Gone
<1>6. QED
  BY <1>4, <1>5

\* A kick and the revocation of a bot: nothing about the devices of others.
LEMMA KickedSeen ==
  ASSUME RosterInv, NEW u \in Users, kicked(u)
  PROVE  AllSeen'
<1>. USE ConnectionsAssumption
<1>. DEFINE out == sessionsOfUser(u)
<1>0. TypeOK /\ IndexAgrees /\ AllSeen /\ InFlight
  BY DEF RosterInv, IndexInv
<1>. SUFFICES ASSUME phase' = "up", NEW d \in Devices, UserOf[d] \notin removed',
                     NEW v \in Viewers(UserOf[d])'
     PROVE  Seen(v, d)'
  BY DEF AllSeen
<1>1. /\ u \in removed /\ sessions' = sessions \ out /\ replaced' = replaced \cup out
      /\ sessionSockets' = Unbind(out) /\ sock' = Closing(out) /\ reconnectTimers' = ClearGraces(u)
      /\ told' = Deliver(Forget(told, out), Audience \ out, KeysOf(u), USER_LEFT)
      /\ listed' = removeMember(ForgetRows(out), Audience \ out, u)
      /\ UNCHANGED <<sid, invisible, stage, removed, unannounced, phase>>
  BY <1>0 DEF kicked, Release, InFlight, loginVars
<1>2. UserOf[d] # u
  BY <1>1
<1>3. v \in Audience /\ v \notin out
  BY <1>0, <1>1 DEF Viewers, Audience, Closing, TypeOK
<1>4. v \in Conns /\ Seen(v, d)
  BY <1>1, <1>3, Watching
<1>5. told'[v][d] = told[v][d]
  <2>1. d \notin KeysOf(u) /\ Forget(told, out)[v][d] = told[v][d]
    BY <1>2, <1>3, <1>4, KeyOfDevice DEF Forget
  <2>2. QED
    BY <1>1, <1>4, <2>1, KeyOfDevice, Delivered
<1>6. UserOf[d] \in listed'[v] <=> UserOf[d] \in listed[v]
  BY <1>1, <1>2, <1>3, <1>4 DEF removeMember, ForgetRows
<1>7. sessionSockets'[d] = sessionSockets[d]
  <2>1. ASSUME NEW s \in out PROVE sessionSockets[d] # s
    <3>1. s \in Conns /\ UserOf[sid[s]] = u
      BY <1>0 DEF sessionsOfUser, userOf, TypeOK
    <3>2. QED
      BY <1>0, <1>2, <3>1 DEF IndexAgrees
  <2>2. QED
    BY <1>1, <2>1 DEF Unbind
<1>8. reconnectTimers'[d] = reconnectTimers[d]
  BY <1>1, <1>2 DEF ClearGraces
<1>9. QED
  BY <1>1, <1>4, <1>5, <1>6, <1>7, <1>8, Kept

LEMMA BotOutSeen ==
  ASSUME RosterInv, NEW own \in Devices, disconnectBot(own)
  PROVE  AllSeen'
<1>. USE ConnectionsAssumption
<1>. DEFINE out == {sessionSockets[own]} \ {None}
<1>0. TypeOK /\ IndexAgrees /\ AllSeen
  BY DEF RosterInv, IndexInv
<1>. SUFFICES ASSUME phase' = "up", NEW d \in Devices, UserOf[d] \notin removed',
                     NEW v \in Viewers(UserOf[d])'
     PROVE  Seen(v, d)'
  BY DEF AllSeen
<1>1. /\ sessions' = sessions \ out /\ replaced' = replaced \cup out
      /\ sessionSockets' = Unbind(out) /\ sock' = Closing(out)
      /\ Leave(told, listed, Audience \ out, own)
      /\ UNCHANGED <<sid, invisible, reconnectTimers, stage, removed, unannounced, phase>>
  BY DEF disconnectBot, Release, loginVars, kickVars
<1>2. v \in Audience /\ v \notin out
  BY <1>0, <1>1 DEF Viewers, Audience, Closing, TypeOK
<1>3. v \in Conns /\ Seen(v, d) /\ told[v][d] \in Shown
  BY <1>1, <1>2, Watching
<1>. HIDE DEF out
<1>4. /\ told'[v][d] = IF d = own THEN "absent" ELSE told[v][d]
      /\ UserOf[d] \in listed'[v] => UserOf[d] \in listed[v]
      /\ UserOf[d] \in listed[v] /\ told'[v][d] # "absent" => UserOf[d] \in listed'[v]
  BY <1>1, <1>2, <1>3, LeaveOf
<1>5. CASE d = own
  <2>1. sessionSockets'[d] = None
    BY <1>1, <1>5 DEF Unbind, out
  <2>2. QED
    BY <1>3, <1>4, <1>5, <2>1, Gone
<1>6. CASE d # own
  <2>1. sessionSockets[d] \in out => d = own
    BY <1>0 DEF out, IndexAgrees, TypeOK
  <2>2. sessionSockets'[d] = sessionSockets[d]
    BY <1>1, <1>6, <2>1 DEF Unbind
  <2>3. QED
    BY <1>1, <1>3, <1>4, <1>6, <2>2, Kept
<1>7. QED
  BY <1>5, <1>6

-----------------------------------------------------------------------------
(* The clients by themselves: a row without an entry never appears.        *)

\* Every event but a departure leaves an entry that is there.
LEMMA EntryKept ==
  ASSUME NEW view, NEW R, NEW D, NEW v \in Conns, NEW k \in Keys,
         view[v][k] \in Shown \ {"absent"}
  PROVE  /\ Deliver(view, R, D, USER_JOINED)[v][k] \in Shown \ {"absent"}
         /\ Deliver(view, R, D, Reconnecting)[v][k] \in Shown \ {"absent"}
         /\ Deliver(view, R, D, BackOnline)[v][k] \in Shown \ {"absent"}
         /\ Deliver(view, R, D, Hidden)[v][k] \in Shown \ {"absent"}
         /\ Deliver(view, R, D, Visible)[v][k] \in Shown \ {"absent"}
         /\ Deliver(view, R, D, NewHidden)[v][k] \in Shown \ {"absent"}
<1>1. \A e : \/ Deliver(view, R, D, e)[v][k] = view[v][k]
             \/ Deliver(view, R, D, e)[v][k] = e[view[v][k]]
  BY Delivered
<1>2. /\ USER_JOINED[view[v][k]] \in Shown \ {"absent"}
      /\ NewHidden[view[v][k]] \in Shown \ {"absent"}
  BY DEF USER_JOINED, NewHidden, Shown
<1>3. /\ Reconnecting[view[v][k]] \in Shown \ {"absent"}
      /\ BackOnline[view[v][k]] \in Shown \ {"absent"}
  BY DEF Reconnecting, BackOnline, Shown
<1>4. /\ Hidden[view[v][k]] \in Shown \ {"absent"}
      /\ Visible[view[v][k]] \in Shown \ {"absent"}
  BY DEF Hidden, Visible, Shown
<1>5. QED
  BY <1>1, <1>2, <1>3, <1>4

\* So rows stay backed when none is added and no entry goes.
LEMMA BackedKept ==
  ASSUME NEW view, NEW rows, Backed(view, rows), NEW view2, NEW rows2,
         \A v \in Conns : rows2[v] \subseteq rows[v],
         \A v \in Conns, k \in Keys : view[v][k] # "absent" => view2[v][k] # "absent"
  PROVE  Backed(view2, rows2)
BY DEF Backed, Entry, KeysOf

\* A departure takes the row with the last entry.
LEMMA BackedLeave ==
  ASSUME NEW view, NEW rows, Backed(view, rows), NEW R, NEW d \in Devices, Leave(view, rows, R, d)
  PROVE  Backed(told', listed')
<1>. SUFFICES ASSUME NEW v \in Conns, NEW u \in listed'[v] PROVE Entry(told', v, u)
  BY DEF Backed
<1>1. /\ told' = Deliver(view, R, {d}, USER_LEFT)
      /\ listed' = removeMember(rows, Unaware(told', R, UserOf[d]), UserOf[d])
  BY DEF Leave
<1>2. u \in rows[v] /\ (u = UserOf[d] => v \notin Unaware(told', R, u))
  BY <1>1 DEF removeMember
<1>3. CASE u = UserOf[d] /\ v \in R
  BY <1>2, <1>3 DEF Unaware, Entry
<1>4. CASE ~ (u = UserOf[d] /\ v \in R)
  <2>1. PICK k \in KeysOf(u) : view[v][k] # "absent"
    BY <1>2 DEF Backed, Entry
  <2>2. k \in Keys /\ ~ (v \in R /\ k = d)
    BY <1>4, KeyOfDevice DEF KeysOf
  <2>3. told'[v][k] = view[v][k]
    BY <1>1, <2>2, Delivered
  <2>4. QED
    BY <2>1, <2>3 DEF Entry
<1>5. QED
  BY <1>3, <1>4

\* A client that is gone has neither.
LEMMA BackedForget ==
  ASSUME Backed(told, listed), NEW R
  PROVE  Backed(Forget(told, R), ForgetRows(R))
BY DEF Backed, Entry, Forget, ForgetRows

\* A row may come with an entry.
LEMMA BackedAdd ==
  ASSUME NEW view, NEW rows, Backed(view, rows), NEW view2, NEW R, NEW u,
         \A v \in Conns, k \in Keys : view[v][k] # "absent" => view2[v][k] # "absent",
         \A v \in Conns \cap R : Entry(view2, v, u)
  PROVE  Backed(view2, addMember(rows, R, u))
<1>. SUFFICES ASSUME NEW v \in Conns, NEW w \in addMember(rows, R, u)[v] PROVE Entry(view2, v, w)
  BY DEF Backed
<1>1. w \in rows[v] \/ (v \in R /\ w = u)
  BY DEF addMember
<1>2. w \in rows[v] => Entry(view2, v, w)
  BY DEF Backed, Entry, KeysOf
<1>3. QED
  BY <1>1, <1>2

\* No event but a departure takes an entry away.
LEMMA NoneTaken ==
  ASSUME NEW view \in [Conns -> [Keys -> Shown]], NEW R, NEW D
  PROVE  \A v \in Conns, k \in Keys : view[v][k] # "absent" =>
           /\ Deliver(view, R, D, USER_JOINED)[v][k] # "absent"
           /\ Deliver(view, R, D, Reconnecting)[v][k] # "absent"
           /\ Deliver(view, R, D, BackOnline)[v][k] # "absent"
           /\ Deliver(view, R, D, Hidden)[v][k] # "absent"
           /\ Deliver(view, R, D, Visible)[v][k] # "absent"
           /\ Deliver(view, R, D, NewHidden)[v][k] # "absent"
<1>1. \A v \in Conns, k \in Keys : view[v][k] # "absent" => view[v][k] \in Shown \ {"absent"}
  OBVIOUS
<1>2. QED
  BY <1>1, EntryKept

\* A change of visibility changes rows and entries together.
LEMMA BackedVisibility ==
  ASSUME TypeOK, Backed(told, listed), NEW c \in Conns, sid[c] \in Devices, NEW hide \in BOOLEAN
  PROVE  Backed(ViewOf(c, hide), RowsOf(c, hide)) /\ ViewOf(c, hide) \in [Conns -> [Keys -> Shown]]
<1>. DEFINE u == userOf(c)
<1>0. told \in [Conns -> [Keys -> Shown]]
  BY DEF TypeOK
<1>1. CASE hide
  <2>. DEFINE first == Deliver(told, Strangers(c), KeysOf(u), Hidden)
              view  == Deliver(first, Unaware(told, Strangers(c), u), {u}, NewHidden)
  <2>1. first \in [Conns -> [Keys -> Shown]]
    BY <1>0, DeliverType
  <2>2. \A v \in Conns, k \in Keys : told[v][k] # "absent" => first[v][k] # "absent"
    BY <1>0, NoneTaken
  <2>. HIDE DEF first
  <2>3. view \in [Conns -> [Keys -> Shown]]
    BY <2>1, DeliverType
  <2>4. \A v \in Conns, k \in Keys : first[v][k] # "absent" => view[v][k] # "absent"
    BY <2>1, NoneTaken
  <2>. HIDE DEF view
  <2>5. ViewOf(c, hide) = view /\ RowsOf(c, hide) = removeMember(listed, Strangers(c), u)
    BY <1>1 DEF ViewOf, RowsOf, UpdateHidden, view, first
  <2>6. \A v \in Conns : removeMember(listed, Strangers(c), u)[v] \subseteq listed[v]
    BY DEF removeMember
  <2>7. Backed(view, removeMember(listed, Strangers(c), u))
    BY <2>2, <2>4, <2>6, BackedKept
  <2>8. QED
    BY <2>3, <2>5, <2>7
<1>2. CASE ~ hide
  <2>. DEFINE first == Deliver(told, Audience, KeysOf(u), Visible)
              next  == Deliver(first, Unaware(told, Audience, u), {sid[c]}, USER_JOINED)
              view  == Deliver(next, Audience, Announced(c, hide), USER_JOINED)
  <2>0. sid[c] \in Keys /\ sid[c] \in KeysOf(u)
    BY KeyOfDevice DEF userOf
  <2>1. first \in [Conns -> [Keys -> Shown]]
    BY <1>0, DeliverType
  <2>2. \A v \in Conns, k \in Keys : told[v][k] # "absent" => first[v][k] # "absent"
    BY <1>0, NoneTaken
  <2>. HIDE DEF first
  <2>3. next \in [Conns -> [Keys -> Shown]]
    BY <2>1, DeliverType
  <2>4. \A v \in Conns, k \in Keys : first[v][k] # "absent" => next[v][k] # "absent"
    BY <2>1, NoneTaken
  <2>5. ASSUME NEW v \in Conns, v \in Unaware(told, Audience, u) PROVE next[v][sid[c]] = "online"
    <3>1. first[v][sid[c]] \in Shown
      BY <2>0, <2>1
    <3>2. USER_JOINED[first[v][sid[c]]] = "online"
      BY <3>1 DEF USER_JOINED
    <3>3. next[v][sid[c]] = IF v \in Unaware(told, Audience, u) /\ sid[c] \in {sid[c]}
                            THEN USER_JOINED[first[v][sid[c]]] ELSE first[v][sid[c]]
      BY <2>0 DEF Deliver
    <3>. HIDE DEF next
    <3>4. QED
      BY <2>5, <3>2, <3>3
  <2>. HIDE DEF next
  <2>6. view \in [Conns -> [Keys -> Shown]]
    BY <2>3, DeliverType
  <2>7. \A v \in Conns, k \in Keys : next[v][k] # "absent" => view[v][k] # "absent"
    BY <2>3, NoneTaken
  <2>. HIDE DEF view
  <2>8. ViewOf(c, hide) = view /\ RowsOf(c, hide) = addMember(listed, Audience, u)
    BY <1>2 DEF ViewOf, RowsOf, UpdateVisible, view, next, first
  <2>9. ASSUME NEW v \in Conns \cap Audience PROVE Entry(view, v, u)
    <3>1. CASE v \in Unaware(told, Audience, u)
      BY <2>0, <2>5, <2>7, <3>1 DEF Entry
    <3>2. CASE v \notin Unaware(told, Audience, u)
      <4>1. PICK k \in KeysOf(u) : told[v][k] # "absent"
        BY <3>2 DEF Unaware
      <4>2. k \in Keys
        BY DEF KeysOf
      <4>3. QED
        BY <2>2, <2>4, <2>7, <4>1, <4>2 DEF Entry
    <3>3. QED
      BY <3>1, <3>2
  <2>10. Backed(view, addMember(listed, Audience, u))
    <3>1. \A v \in Conns, k \in Keys : told[v][k] # "absent" => view[v][k] # "absent"
      BY <2>2, <2>4, <2>7
    <3>2. QED
      BY <2>9, <3>1, BackedAdd
  <2>11. QED
    BY <2>6, <2>8, <2>10
<1>3. QED
  BY <1>1, <1>2

\* So does the announcement of device d, from connection c to the others.
LEMMA BackedJoin ==
  ASSUME NEW view \in [Conns -> [Keys -> Shown]], NEW rows, Backed(view, rows), NEW R,
         NEW d \in Devices
  PROVE  Backed(Deliver(view, R, {d}, USER_JOINED), addMember(rows, R, UserOf[d]))
<1>. DEFINE after == Deliver(view, R, {d}, USER_JOINED)
<1>1. \A v \in Conns, k \in Keys : view[v][k] # "absent" => after[v][k] # "absent"
  BY NoneTaken
<1>2. ASSUME NEW v \in Conns \cap R PROVE Entry(after, v, UserOf[d])
  <2>1. d \in KeysOf(UserOf[d]) /\ view[v][d] \in Shown
    BY KeyOfDevice
  <2>2. USER_JOINED[view[v][d]] = "online"
    BY <2>1 DEF USER_JOINED
  <2>3. d \in Keys /\ v \in Conns /\ v \in R
    BY KeyOfDevice
  <2>4. after[v][d] = IF v \in R /\ d \in {d} THEN USER_JOINED[view[v][d]] ELSE view[v][d]
    BY <2>3 DEF Deliver
  <2>. HIDE DEF after
  <2>5. QED
    BY <2>1, <2>2, <2>3, <2>4 DEF Entry
<1>. HIDE DEF after
<1>3. Backed(after, addMember(rows, R, UserOf[d]))
  BY <1>1, <1>2, BackedAdd
<1>4. QED
  BY <1>3 DEF after

LEMMA BackedStep ==
  ASSUME RosterInv, [Next]_vars
  PROVE  Backed(told, listed)'
<1>. USE ConnectionsAssumption
<1>0. TypeOK /\ Backed(told, listed) /\ SigningIn /\ IndexInv /\ told \in [Conns -> [Keys -> Shown]]
  BY DEF RosterInv, IndexInv, TypeOK
<1>1. ASSUME UNCHANGED <<told, listed>> PROVE Backed(told, listed)'
  BY <1>0, <1>1 DEF Backed, Entry
<1>2. ASSUME NEW c \in Conns, closeEvent(c) \/ checkLiveness(c) PROVE Backed(told, listed)'
  <2>. DEFINE view == Forget(told, {c})
              rest == Audience \ {c}
              seen == Lost(c) /\ c \notin invisible
  <2>1. Backed(view, ForgetRows({c})) /\ view \in [Conns -> [Keys -> Shown]]
    BY <1>0, BackedForget, ForgetType
  <2>2. /\ seen /\ LeavesAtOnce(c) => Leave(view, ForgetRows({c}), rest, sid[c])
        /\ ~ (seen /\ LeavesAtOnce(c)) =>
             /\ told' = IF seen THEN Deliver(view, rest, {sid[c]}, Reconnecting) ELSE view
             /\ listed' = ForgetRows({c})
        /\ seen => sid[c] \in Devices
    BY <1>0, <1>2 DEF closeEvent, checkLiveness, handleDisconnect, Lost, TypeOK
  <2>. HIDE DEF view, rest
  <2>3. CASE seen /\ LeavesAtOnce(c)
    BY <2>1, <2>2, <2>3, BackedLeave
  <2>4. CASE ~ (seen /\ LeavesAtOnce(c))
    <3>1. \A v \in Conns, k \in Keys : view[v][k] # "absent" => told'[v][k] # "absent"
      BY <2>1, <2>2, <2>4, NoneTaken
    <3>2. \A v \in Conns : listed'[v] \subseteq ForgetRows({c})[v]
      BY <2>2, <2>4
    <3>3. QED
      BY <2>1, <3>1, <3>2, BackedKept
  <2>5. QED
    BY <2>3, <2>4
<1>3. ASSUME NEW c \in Conns, admitted(c) PROVE Backed(told, listed)'
  <2>. DEFINE view == Forget(told, Stale(c))
  <2>1. Backed(view, ForgetRows(Stale(c))) /\ view \in [Conns -> [Keys -> Shown]]
    BY <1>0, BackedForget, ForgetType
  <2>2. /\ \/ told' = view
           \/ told' = Deliver(view, Audience \ (Stale(c) \cup {c}), {claim[c]}, BackOnline)
        /\ listed' = ForgetRows(Stale(c))
    BY <1>3 DEF admitted
  <2>. HIDE DEF view
  <2>3. \A v \in Conns, k \in Keys : view[v][k] # "absent" => told'[v][k] # "absent"
    BY <2>1, <2>2, NoneTaken
  <2>4. QED
    BY <2>1, <2>2, <2>3, BackedKept
<1>4. ASSUME NEW c \in Conns, welcomed(c) PROVE Backed(told, listed)'
  <2>. DEFINE isBot == sid[c] \in Bots
              on    == isLive(c) /\ ~ (isBot /\ c \in replaced)
  <2>1. /\ told' = CASE on /\ isBot  -> Deliver(told, Audience \ {c}, {sid[c]}, USER_JOINED)
                     [] on /\ ~isBot -> [told EXCEPT ![c] = RosterView(c)]
                     [] OTHER        -> told
        /\ listed' = CASE on /\ isBot  -> addMember(listed, Audience \ {c}, userOf(c))
                       [] on /\ ~isBot -> [listed EXCEPT ![c] = {userOf(s) : s \in Roster(c)}]
                       [] OTHER        -> listed
    BY <1>4 DEF welcomed
  <2>2. CASE on /\ isBot
    <3>1. Backed(Deliver(told, Audience \ {c}, {sid[c]}, USER_JOINED),
                 addMember(listed, Audience \ {c}, UserOf[sid[c]]))
      BY <1>0, <2>2, BackedJoin
    <3>2. QED
      BY <2>1, <2>2, <3>1 DEF userOf
  <2>3. CASE on /\ ~ isBot
    <3>. SUFFICES ASSUME NEW v \in Conns, NEW u \in listed'[v] PROVE Entry(told', v, u)
      BY DEF Backed, Entry
    <3>1. CASE v = c
      <4>1. told'[c] = RosterView(c) /\ listed'[c] = {userOf(s) : s \in Roster(c)}
        BY <1>0, <2>1, <2>3 DEF TypeOK
      <4>2. PICK s \in Roster(c) : u = userOf(s)
        BY <3>1, <4>1
      <4>3. sid[s] \in Devices /\ u = UserOf[sid[s]]
        BY <1>0, <4>2 DEF Roster, TypeOK, userOf
      <4>4. sid[s] \in KeysOf(u) /\ RosterView(c)[sid[s]] = "online"
        BY <4>3, KeyOfDevice DEF RosterView
      <4>5. QED
        BY <3>1, <4>1, <4>4 DEF Entry
    <3>2. CASE v # c
      BY <1>0, <2>1, <2>3, <3>2 DEF Backed, Entry, TypeOK
    <3>3. QED
      BY <3>1, <3>2
  <2>4. CASE ~ on
    BY <1>1, <2>1, <2>4
  <2>5. QED
    BY <2>2, <2>3, <2>4
<1>5. ASSUME NEW c \in Conns, joined(c) PROVE Backed(told, listed)'
  <2>. DEFINE hide == c \in invisible
              view == IF Differs(c, hide) THEN ViewOf(c, hide) ELSE told
              rows == IF Differs(c, hide) THEN RowsOf(c, hide) ELSE listed
  <2>1. /\ told' = IF hide THEN view ELSE Deliver(view, Audience \ {c}, {sid[c]}, USER_JOINED)
        /\ listed' = IF hide THEN rows ELSE addMember(rows, Audience \ {c}, userOf(c))
    BY <1>5 DEF joined
  <2>2. sid[c] \in Devices /\ hide \in BOOLEAN
    BY <1>5, FromPerson DEF joined
  <2>. HIDE DEF hide
  <2>3. Backed(view, rows) /\ view \in [Conns -> [Keys -> Shown]]
    BY <1>0, <2>2, BackedVisibility
  <2>. HIDE DEF view, rows
  <2>4. Backed(Deliver(view, Audience \ {c}, {sid[c]}, USER_JOINED),
               addMember(rows, Audience \ {c}, UserOf[sid[c]]))
    BY <2>2, <2>3, BackedJoin
  <2>5. QED
    BY <2>1, <2>3, <2>4 DEF userOf
<1>6. ASSUME NEW c \in Conns, NEW hide \in BOOLEAN, setVisibility(c, hide)
      PROVE  Backed(told, listed)'
  <2>1. told' = ViewOf(c, hide) /\ listed' = RowsOf(c, hide)
    BY <1>6 DEF setVisibility
  <2>2. sid[c] \in Devices
    BY <1>6, FromPerson DEF setVisibility
  <2>3. Backed(ViewOf(c, hide), RowsOf(c, hide))
    BY <1>0, <2>2, BackedVisibility
  <2>4. QED
    BY <2>1, <2>3
<1>7. ASSUME NEW d \in Devices, graceExpires(d) PROVE Backed(told, listed)'
  <2>1. Leave(told, listed, Audience, d) \/ UNCHANGED <<told, listed>>
    BY <1>7 DEF graceExpires, clientVars
  <2>2. QED
    BY <1>0, <1>1, <2>1, BackedLeave
<1>8. ASSUME NEW d \in Devices, disconnectBot(d) PROVE Backed(told, listed)'
  <2>. DEFINE out == {sessionSockets[d]} \ {None}
  <2>1. Leave(told, listed, Audience \ out, d)
    BY <1>8 DEF disconnectBot
  <2>. HIDE DEF out
  <2>2. QED
    BY <1>0, <2>1, BackedLeave
<1>9. ASSUME NEW u \in Users, kicked(u) PROVE Backed(told, listed)'
  <2>. DEFINE out  == sessionsOfUser(u)
              view == Forget(told, out)
  <2>1. Backed(view, ForgetRows(out))
    BY <1>0, BackedForget
  <2>2. /\ told' = Deliver(view, Audience \ out, KeysOf(u), USER_LEFT)
        /\ listed' = removeMember(ForgetRows(out), Audience \ out, u)
    BY <1>9 DEF kicked
  <2>. HIDE DEF view, out
  <2>. SUFFICES ASSUME NEW v \in Conns, NEW w \in listed'[v] PROVE Entry(told', v, w)
    BY DEF Backed, Entry
  <2>3. w \in ForgetRows(out)[v] /\ (v \in Audience \ out => w # u)
    BY <2>2 DEF removeMember
  <2>4. PICK k \in KeysOf(w) : view[v][k] # "absent"
    BY <2>1, <2>3 DEF Backed, Entry
  <2>5. k \in Keys /\ (w # u => k \notin KeysOf(u))
    BY DEF KeysOf
  <2>6. told'[v][k] = view[v][k]
    BY <2>2, <2>3, <2>5, Delivered
  <2>7. QED
    BY <2>4, <2>6 DEF Entry
<1>10. \/ UNCHANGED <<told, listed>>
       \/ \E c \in Conns : \/ closeEvent(c) \/ checkLiveness(c) \/ admitted(c) \/ welcomed(c)
                           \/ joined(c) \/ \E hide \in BOOLEAN : setVisibility(c, hide)
       \/ \E d \in Devices : graceExpires(d) \/ disconnectBot(d)
       \/ \E u \in Users : kicked(u)
  BY DEF Next, Handlers, vars, clientVars, connection, PeerCloses, authDeadline, answerChallenge,
         probed, refused, logout, kick, toggleOffline, close, closeTimers, closeTransport, stopped
<1>11. QED
  BY <1>1, <1>2, <1>3, <1>4, <1>5, <1>6, <1>7, <1>8, <1>9, <1>10

-----------------------------------------------------------------------------
(* Rosters.                                                                *)

\* Every step keeps the invariant.
LEMMA RosterStep ==
  ASSUME RosterInv, [Next]_vars
  PROVE  RosterInv'
<1>1. IndexInv' /\ Claims' /\ BotsVisible' /\ InFlight' /\ Backed(told, listed)'
  BY IndexStep, ClaimsStep, BotsVisibleStep, InFlightStep, BackedStep DEF RosterInv
<1>2. ASSUME close \/ closeTimers \/ closeTransport PROVE AllSeen'
  BY <1>2 DEF close, closeTimers, closeTransport, AllSeen
<1>3. AllSeen'
  BY <1>2, QuietSeen, DisconnectSeen, AdmittedSeen, WelcomedSeen, JoinedSeen, VisibilitySeen,
     GraceSeen, KickedSeen, BotOutSeen
  DEF Next, Handlers, stopped
<1>4. QED
  BY <1>1, <1>3 DEF RosterInv

LEMMA RosterInit == Init => RosterInv
<1>1. Init => Claims /\ BotsVisible /\ InFlight /\ AllSeen
  BY ConnectionsAssumption DEF Init, Claims, BotsVisible, InFlight, AllSeen, Viewers, Audience
<1>2. Init => Backed(told, listed)
  BY DEF Init, Backed
<1>3. QED
  BY <1>1, <1>2, IndexInit DEF RosterInv

\* Whatever joins, drops, replacements, visibility changes and removals crossed
\* their own sign-in (Outbox.publish against AUTH_SUCCESS), the connected clients
\* show and list every other person whose device is on show, and what they keep
\* besides is of a device in its grace, or gone or back hidden with nobody told,
\* or an entry under the user id.
THEOREM RostersCorrect == Spec => []RostersAgree
<1>1. ASSUME RosterInv PROVE RostersAgree
  <2>. SUFFICES ASSUME phase = "up", NEW u \in Users \ removed, NEW v \in Viewers(u)
       PROVE  ListAgrees(v, u) /\ RowAgrees(v, u)
    BY DEF RostersAgree
  <2>1. TypeOK /\ v \in Conns /\ told[v] \in [Keys -> Shown]
    BY <1>1 DEF RosterInv, IndexInv, TypeOK, Viewers, Audience
  <2>2. ASSUME NEW d \in DevicesOf(u)
        PROVE  d \in Devices /\ UserOf[d] = u /\ Seen(v, d) /\ told[v][d] \in Shown
               /\ (SignInSettled(d) /\ OnShow(d) => stage[sessionSockets[d]] = "joined")
    <3>1. d \in Devices /\ UserOf[d] = u
      BY DEF DevicesOf
    <3>2. Seen(v, d) /\ told[v][d] \in Shown
      BY <1>1, <2>1, <3>1, KeyOfDevice DEF RosterInv, AllSeen
    <3>3. OnShow(d) => sessionSockets[d] \in Conns
      BY <2>1, <3>1 DEF OnShow, TypeOK
    <3>4. QED
      BY <3>1, <3>2, <3>3 DEF SignInSettled
  <2>3. ListAgrees(v, u)
    <3>. SUFFICES ASSUME NEW d \in DevicesOf(u), SignInSettled(d) PROVE told[v][d] \in MayShow(d)
      BY DEF ListAgrees
    <3>1. Seen(v, d) /\ told[v][d] \in Shown /\ (OnShow(d) => stage[sessionSockets[d]] = "joined")
      BY <2>2
    <3>2. QED
      BY <3>1 DEF Seen, Excused, MayShow
  <2>4. RowAgrees(v, u)
    <3>. SUFFICES ASSUME \A d \in DevicesOf(u) : SignInSettled(d)
         PROVE  /\ (\E d \in DevicesOf(u) : OnShow(d)) => u \in listed[v]
                /\ u \in listed[v] => told[v][u] # "absent" \/ \E d \in DevicesOf(u) : Excused(d)
      BY DEF RowAgrees, Excused
    <3>1. ASSUME NEW d \in DevicesOf(u), OnShow(d) PROVE u \in listed[v]
      BY <2>2, <3>1 DEF Seen
    <3>2. ASSUME u \in listed[v]
          PROVE  told[v][u] # "absent" \/ \E d \in DevicesOf(u) : Excused(d)
      <4>1. PICK k \in KeysOf(u) : told[v][k] # "absent"
        BY <1>1, <2>1, <3>2 DEF RosterInv, Backed, Entry
      <4>2. CASE k \in Users
        BY <4>1, <4>2 DEF KeysOf, OwnerOf
      <4>3. CASE k \notin Users
        <5>1. k \in DevicesOf(u)
          BY <4>3 DEF KeysOf, OwnerOf, Keys, DevicesOf
        <5>2. QED
          BY <2>2, <3>2, <4>1, <5>1 DEF Seen
      <4>4. QED
        BY <4>2, <4>3
    <3>3. QED
      BY <3>1, <3>2
  <2>5. QED
    BY <2>3, <2>4
<1>2. Spec => []RosterInv
  BY RosterInit, RosterStep, PTL DEF Spec
<1>3. QED
  BY <1>1, <1>2, PTL
=============================================================================
