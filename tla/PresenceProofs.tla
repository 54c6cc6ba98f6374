--------------------------- MODULE PresenceProofs ---------------------------
(* Connections implements Presence, and a connection that was let go is    *)
(* never signed in again: for every number of sockets, users and devices.  *)
EXTENDS ConnectionsProofs

-----------------------------------------------------------------------------
(* A connection let go stays let go.                                       *)

\* Only the connection handler registers a socket, under a number never used,
\* and only an admission binds one, after isLive looked it up.
LEMMA StaysOutStep ==
  ASSUME IndexInv, [Next]_vars
  PROVE  StaysOut
<1>. USE ConnectionsAssumption
<1>0. TypeOK /\ IndexAgrees
  BY DEF IndexInv
<1>. SUFFICES ASSUME NEW c \in Conns, c \notin sessions, c <= opened
     PROVE  /\ c \notin sessions' /\ sid'[c] = sid[c]
            /\ \A d \in Devices : sessionSockets'[d] = c => sessionSockets[d] = c
  BY DEF StaysOut
<1>1. ASSUME NEW a \in Addresses, connection(a)
      PROVE  c \notin sessions' /\ UNCHANGED <<sid, sessionSockets>>
  BY <1>0, <1>1 DEF connection, TypeOK
<1>2. ASSUME NEW R, Release(R)
      PROVE  /\ c \notin sessions'
             /\ \A d \in Devices : sessionSockets'[d] = c => sessionSockets[d] = c
  BY <1>0, <1>2 DEF Release, Unbind
<1>3. ASSUME NEW b \in Conns, closeEvent(b) \/ checkLiveness(b)
      PROVE  Release({b}) /\ UNCHANGED sid
  BY <1>3 DEF closeEvent, checkLiveness, handleDisconnect
<1>4. ASSUME NEW b \in Conns, admitted(b)
      PROVE  /\ c \notin sessions' /\ sid'[c] = sid[c]
             /\ \A d \in Devices : sessionSockets'[d] = c => sessionSockets[d] = c
  <2>1. b # c
    BY <1>4 DEF admitted, isLive
  <2>2. sessions' = sessions \ Stale(b) /\ sid' = [sid EXCEPT ![b] = claim[b]]
        /\ sessionSockets' = [Unbind(Stale(b)) EXCEPT ![claim[b]] = b]
    BY <1>4 DEF admitted
  <2>3. QED
    BY <1>0, <2>1, <2>2 DEF TypeOK, Unbind
<1>5. ASSUME NEW d \in Devices, disconnectBot(d)
      PROVE  Release({sessionSockets[d]} \ {None}) /\ UNCHANGED sid
  BY <1>5 DEF disconnectBot
<1>6. ASSUME NEW u \in Users, kicked(u)
      PROVE  Release(sessionsOfUser(u)) /\ UNCHANGED sid
  BY <1>6 DEF kicked
<1>7. ASSUME \/ \E b \in Conns : \/ PeerCloses(b) \/ authDeadline(b)
                                 \/ \E d \in Devices : answerChallenge(b, d)
                                 \/ probed(b) \/ refused(b) \/ welcomed(b) \/ joined(b)
                                 \/ \E hide \in BOOLEAN : setVisibility(b, hide)
                                 \/ logout(b)
                                 \/ \E u \in Users : kick(b, u)
             \/ \E d \in Devices : graceExpires(d) \/ toggleOffline(d)
             \/ close \/ closeTimers \/ closeTransport \/ UNCHANGED vars
      PROVE  UNCHANGED <<sessions, sid, sessionSockets>>
  BY <1>7 DEF PeerCloses, authDeadline, answerChallenge, probed, refused, welcomed, joined,
              setVisibility, logout, kick, graceExpires, toggleOffline, close, closeTimers,
              closeTransport, vars
<1>8. QED
  BY <1>1, <1>2, <1>3, <1>4, <1>5, <1>6, <1>7 DEF Next, Handlers, stopped

\* A replaced, kicked, revoked or lost connection is never registered, bound or
\* signed in under another session id again, whatever sign-in of it was pending.
THEOREM LetGoForever == Spec => NeverReadmitted
<1>1. IndexInv /\ [Next]_vars => [StaysOut]_vars
  BY StaysOutStep
<1>2. QED
  BY <1>1, IndexInvHolds, PTL DEF Spec, NeverReadmitted

-----------------------------------------------------------------------------
(* The refinement.                                                         *)

\* IndexInv says which device a socket is bound to; the mapping of `leaving`
\* and `gone` also needs that only signed-in connections said goodbye, and that
\* a kick deletes the record before it takes the devices down.
PresenceInv == /\ IndexInv
               /\ \A c \in loggedOut : sid[c] # None
               /\ kicking \subseteq removed

\* The steps that no device's presence shows.
Unseen == UNCHANGED <<sessionSockets, reconnectTimers, loggedOut, removed, kicking, phase>>

\* Each step of the server is one of these.
LEMMA StepKinds ==
  ASSUME [Next]_vars
  PROVE  \/ Unseen /\ UNCHANGED sid
         \/ \E c \in Conns : \/ closeEvent(c) \/ checkLiveness(c) \/ admitted(c) \/ logout(c)
                             \/ \E u \in Users : kick(c, u)
         \/ \E d \in Devices : graceExpires(d) \/ disconnectBot(d)
         \/ \E u \in Users : kicked(u)
         \/ close \/ closeTimers \/ closeTransport
<1>1. ASSUME \E a \in Addresses : connection(a) PROVE Unseen /\ UNCHANGED sid
  BY <1>1 DEF connection, Unseen, flagVars, kickVars
<1>2. ASSUME NEW c \in Conns, \/ PeerCloses(c) \/ authDeadline(c)
                              \/ \E d \in Devices : answerChallenge(c, d)
                              \/ probed(c) \/ refused(c) \/ welcomed(c) \/ joined(c)
                              \/ \E hide \in BOOLEAN : setVisibility(c, hide)
      PROVE  Unseen /\ UNCHANGED sid
  BY <1>2 DEF PeerCloses, authDeadline, answerChallenge, probed, refused, welcomed, joined,
              setVisibility, Unseen, flagVars, kickVars
<1>3. ASSUME NEW d \in Devices, toggleOffline(d) PROVE Unseen /\ UNCHANGED sid
  BY <1>3 DEF toggleOffline, Unseen, flagVars, kickVars
<1>4. ASSUME UNCHANGED vars PROVE Unseen /\ UNCHANGED sid
  BY <1>4 DEF vars, Unseen, flagVars, kickVars
<1>5. QED
  BY <1>1, <1>2, <1>3, <1>4 DEF Next, Handlers, stopped

LEMMA PresenceInvStep ==
  ASSUME PresenceInv, [Next]_vars
  PROVE  PresenceInv'
<1>. USE ConnectionsAssumption
<1>. DEFINE Extra == (\A c \in loggedOut : sid[c] # None) /\ kicking \subseteq removed
<1>1. IndexInv' /\ TypeOK /\ SigningIn /\ Extra
  BY IndexStep DEF PresenceInv, IndexInv
<1>2. ASSUME Unseen, UNCHANGED sid PROVE Extra'
  BY <1>1, <1>2 DEF Unseen
<1>3. ASSUME NEW c \in Conns, closeEvent(c) \/ checkLiveness(c) PROVE Extra'
  BY <1>1, <1>3 DEF closeEvent, checkLiveness, flagVars, kickVars
<1>4. ASSUME NEW c \in Conns, admitted(c) PROVE Extra'
  <2>1. claim[c] # None /\ sid' = [sid EXCEPT ![c] = claim[c]]
        /\ UNCHANGED <<loggedOut, removed, kicking>>
    BY <1>1, <1>4 DEF admitted, SigningIn, kickVars
  <2>2. QED
    BY <1>1, <2>1 DEF TypeOK
<1>5. ASSUME NEW c \in Conns, logout(c) PROVE Extra'
  BY <1>1, <1>5 DEF logout, FromApp, kickVars
<1>6. ASSUME NEW c \in Conns, NEW u \in Users, kick(c, u) PROVE Extra'
  BY <1>1, <1>6 DEF kick, flagVars
<1>7. ASSUME NEW d \in Devices, graceExpires(d) \/ disconnectBot(d) PROVE Extra'
  BY <1>1, <1>7 DEF graceExpires, disconnectBot, flagVars, kickVars
<1>8. ASSUME NEW u \in Users, kicked(u) PROVE Extra'
  BY <1>1, <1>8 DEF kicked
<1>9. ASSUME close \/ closeTimers \/ closeTransport PROVE Extra'
  BY <1>1, <1>9 DEF close, closeTimers, closeTransport, flagVars, kickVars
<1>10. Extra'
  BY <1>2, <1>3, <1>4, <1>5, <1>6, <1>7, <1>8, <1>9, StepKinds
<1>11. QED
  BY <1>1, <1>10 DEF PresenceInv

LEMMA PresenceInvHolds == Spec => []PresenceInv
<1>1. Init => PresenceInv
  BY IndexInit DEF Init, PresenceInv
<1>2. PresenceInv /\ [Next]_vars => PresenceInv'
  BY PresenceInvStep
<1>3. QED
  BY <1>1, <1>2, PTL DEF Spec

-----------------------------------------------------------------------------
\* What Presence sees of a state.
leavingDevices == {d \in Devices : sessionSockets[d] \in loggedOut}
goneUsers == removed \ kicking

\* What one device does is a step of Presence.
LEMMA DeviceStep ==
  ASSUME NEW d \in Devices,
         P!SignIn(d) \/ P!Goodbye(d) \/ P!Drop(d) \/ P!Leave(d) \/ P!Expire(d)
  PROVE  P!Next
BY DEF P!Next

\* The presence of one device changed, and no other.
LEMMA StatusExcept ==
  ASSUME NEW d \in Devices, NEW s,
         \A e \in Devices : status'[e] = IF e = d THEN s ELSE status[e]
  PROVE  status' = [status EXCEPT ![d] = s]
<1>1. status = [e \in Devices |-> status[e]] /\ status' = [e \in Devices |-> status'[e]]
  BY DEF status
<1>2. [status EXCEPT ![d] = s] = [e \in Devices |-> IF e = d THEN s ELSE status[e]]
  BY <1>1
<1>3. QED
  BY <1>1, <1>2

\* A connection is let go that was bound to its device or to none.
LEMMA DisconnectImplements ==
  ASSUME PresenceInv, NEW c \in Conns, handleDisconnect(c),
         UNCHANGED <<loggedOut, removed, kicking, phase>>
  PROVE  [P!Next]_(P!pvars)
<1>. USE ConnectionsAssumption
<1>0. /\ TypeOK /\ IndexAgrees /\ NoGraceWhileBound /\ BotsLeaveAtOnce
      /\ sessionSockets' = Unbind({c})
  BY DEF PresenceInv, IndexInv, handleDisconnect, Release
<1>1. CASE c \in sessions /\ c \notin replaced /\ sid[c] # None
  <2>0. PICK d \in Devices : d = sid[c]
    BY <1>0, <1>1 DEF TypeOK
  <2>1. sessionSockets[d] = c /\ reconnectTimers[d] = "none" /\ c # None
    BY <1>0, <1>1, <2>0 DEF IndexAgrees, NoGraceWhileBound
  <2>2. \A e \in Devices : sessionSockets[e] = c => e = d
    BY <1>0, <1>1, <2>0 DEF IndexAgrees
  <2>3. sessionSockets' = [sessionSockets EXCEPT ![d] = None]
    BY <1>0, <2>1, <2>2 DEF Unbind, TypeOK
  <2>4. status[d] = "online"
    BY <2>1 DEF status
  <2>5. None \notin loggedOut
    BY <1>0 DEF TypeOK
  <2>6. leavingDevices' = leavingDevices \ {d}
    BY <1>0, <2>1, <2>3, <2>5 DEF leavingDevices, TypeOK
  <2>7. CASE Lost(c) /\ ~LeavesAtOnce(c)
    <3>1. reconnectTimers' = [reconnectTimers EXCEPT ![d] = wasInvisible(c)]
          /\ wasInvisible(c) # "none"
      BY <2>0, <2>7 DEF handleDisconnect, wasInvisible
    <3>2. status' = [status EXCEPT ![d] = "reconnecting"]
      BY <1>0, <2>1, <2>3, <3>1 DEF status, TypeOK
    <3>3. d \notin Bots /\ d \notin leavingDevices /\ phase = "up"
      BY <2>0, <2>1, <2>7 DEF Lost, LeavesAtOnce, leavingDevices
    <3>4. P!Drop(d)
      BY <2>4, <2>6, <3>2, <3>3 DEF P!Drop, leavingDevices
    <3>5. QED
      BY <3>4, DeviceStep
  <2>8. CASE ~(Lost(c) /\ ~LeavesAtOnce(c))
    <3>1. reconnectTimers' = reconnectTimers
      BY <2>8 DEF handleDisconnect
    <3>2. status' = [status EXCEPT ![d] = "offline"]
      BY <1>0, <2>1, <2>3, <3>1 DEF status, TypeOK
    <3>3. d \in Bots \cup leavingDevices \/ phase # "up"
      BY <1>1, <2>0, <2>1, <2>8 DEF Lost, LeavesAtOnce, leavingDevices
    <3>4. P!Leave(d)
      BY <2>4, <2>6, <3>2, <3>3 DEF P!Leave, leavingDevices
    <3>5. QED
      BY <3>4, DeviceStep
  <2>9. QED
    BY <2>7, <2>8
<1>2. CASE ~(c \in sessions /\ c \notin replaced /\ sid[c] # None)
  <2>1. \A d \in Devices : sessionSockets[d] # c
    BY <1>0, <1>2 DEF IndexAgrees
  <2>2. sessionSockets' = sessionSockets
    BY <1>0, <2>1 DEF Unbind, TypeOK
  <2>3. reconnectTimers' = reconnectTimers
    BY <1>2 DEF handleDisconnect, Lost
  <2>4. QED
    BY <2>2, <2>3 DEF P!pvars, status
<1>3. QED
  BY <1>1, <1>2

\* An admission brings its device online, whatever older connection it replaces.
LEMMA AdmissionImplements ==
  ASSUME PresenceInv, NEW c \in Conns, admitted(c)
  PROVE  P!Next
<1>. USE ConnectionsAssumption
<1>0. TypeOK /\ IndexAgrees /\ BotsLeaveAtOnce /\ (\A b \in loggedOut : sid[b] # None)
      /\ None \notin loggedOut
  BY DEF PresenceInv, IndexInv, TypeOK
<1>1. PICK d \in Devices : d = claim[c]
  BY DEF PresenceInv, IndexInv, SigningIn, admitted
<1>2. c \notin loggedOut /\ c # None /\ phase = "up"
  BY <1>0 DEF PresenceInv, IndexInv, SigningIn, admitted, isLive
<1>3. \A e \in Devices : sessionSockets[e] \in Stale(c) => e = d
  BY <1>0, <1>1 DEF Stale, IndexAgrees, TypeOK
<1>4. sessionSockets' = [sessionSockets EXCEPT ![d] = c]
  <2>1. sessionSockets' = [Unbind(Stale(c)) EXCEPT ![d] = c]
    BY <1>1 DEF admitted
  <2>2. QED
    BY <1>0, <1>3, <2>1 DEF Unbind, TypeOK
<1>5. UNCHANGED <<loggedOut, removed, kicking, phase>>
  BY DEF admitted, kickVars
<1>6. \A e \in Devices \ {d} : reconnectTimers'[e] = reconnectTimers[e]
  BY <1>0, <1>1 DEF admitted, TypeOK
<1>7. status' = [status EXCEPT ![d] = "online"]
  BY <1>0, <1>2, <1>4, <1>6 DEF status, TypeOK
<1>8. leavingDevices' = leavingDevices \ {d}
  BY <1>0, <1>2, <1>4, <1>5 DEF leavingDevices, TypeOK
<1>9. P!SignIn(d)
  BY <1>2, <1>5, <1>7, <1>8 DEF P!SignIn, leavingDevices
<1>10. QED
  BY <1>9, DeviceStep

\* closeSessionsOfUser removes every device of the person in one step.
LEMMA KickImplements ==
  ASSUME PresenceInv, NEW u \in Users, kicked(u)
  PROVE  P!Next
<1>. USE ConnectionsAssumption
<1>0. TypeOK /\ IndexAgrees /\ kicking \subseteq removed /\ None \notin loggedOut
  BY DEF PresenceInv, IndexInv, TypeOK
<1>1. /\ u \in kicking /\ kicking' = kicking \ {u} /\ reconnectTimers' = ClearGraces(u)
      /\ sessionSockets' = Unbind(sessionsOfUser(u))
      /\ UNCHANGED <<loggedOut, removed, phase>>
  BY DEF kicked, Release
<1>2. \A d \in Devices : sessionSockets[d] \in sessionsOfUser(u)
                           <=> sessionSockets[d] # None /\ UserOf[d] = u
  BY <1>0 DEF IndexAgrees, TypeOK, sessionsOfUser, userOf
<1>3. \A d \in Devices : /\ UserOf[d] = u => sessionSockets'[d] = None /\ reconnectTimers'[d] = "none"
                         /\ UserOf[d] # u => /\ sessionSockets'[d] = sessionSockets[d]
                                             /\ reconnectTimers'[d] = reconnectTimers[d]
  BY <1>1, <1>2 DEF Unbind, ClearGraces
<1>4. status' = [d \in Devices |-> IF d \in P!DevicesOf(u) THEN "offline" ELSE status[d]]
  BY <1>3 DEF status, P!DevicesOf
<1>5. leavingDevices' = leavingDevices \ P!DevicesOf(u)
  BY <1>0, <1>1, <1>3 DEF leavingDevices, P!DevicesOf
<1>6. u \notin goneUsers /\ goneUsers' = goneUsers \cup {u}
  BY <1>0, <1>1 DEF goneUsers
<1>7. P!Remove(u)
  BY <1>1, <1>4, <1>5, <1>6 DEF P!Remove, leavingDevices, goneUsers
<1>8. QED
  BY <1>7 DEF P!Next

\* Every step of the server is a step of Presence, or one it does not see.
LEMMA StepImplements ==
  ASSUME PresenceInv, [Next]_vars
  PROVE  [P!Next]_(P!pvars)
<1>. USE ConnectionsAssumption
<1>0. /\ TypeOK /\ IndexAgrees /\ NoGraceWhileBound /\ BotsLeaveAtOnce
      /\ kicking \subseteq removed /\ None \notin loggedOut
  BY DEF PresenceInv, IndexInv, TypeOK
<1>1. ASSUME Unseen PROVE UNCHANGED P!pvars
  BY <1>1 DEF Unseen, P!pvars, status
<1>2. ASSUME NEW c \in Conns, closeEvent(c) \/ checkLiveness(c)
      PROVE  [P!Next]_(P!pvars)
  <2>1. handleDisconnect(c) /\ UNCHANGED <<loggedOut, removed, kicking, phase>>
    BY <1>2 DEF closeEvent, checkLiveness, flagVars, kickVars
  <2>2. QED
    BY <2>1, DisconnectImplements
<1>3. ASSUME NEW c \in Conns, logout(c) PROVE P!Next
  <2>1. PICK d \in Devices : d = sid[c]
    BY <1>0, <1>3 DEF logout, FromApp, TypeOK
  <2>2. sessionSockets[d] = c /\ phase = "up" /\ c # None
    BY <1>0, <1>3, <2>1 DEF logout, FromApp, mayHandle, IndexAgrees
  <2>3. \A e \in Devices : sessionSockets[e] = c => e = d
    BY <1>0, <2>1 DEF IndexAgrees
  <2>4. loggedOut' = loggedOut \cup {c}
        /\ UNCHANGED <<sessionSockets, reconnectTimers, removed, kicking, phase>>
    BY <1>3 DEF logout, kickVars
  <2>5. leavingDevices' = leavingDevices \cup {d}
    BY <2>2, <2>3, <2>4 DEF leavingDevices
  <2>6. status[d] = "online" /\ status' = status
    BY <2>2, <2>4 DEF status
  <2>7. P!Goodbye(d)
    BY <2>2, <2>4, <2>5, <2>6 DEF P!Goodbye, leavingDevices
  <2>8. QED
    BY <2>7, DeviceStep
<1>4. ASSUME NEW c \in Conns, NEW u \in Users, kick(c, u) PROVE UNCHANGED P!pvars
  <2>1. UNCHANGED <<sessionSockets, reconnectTimers, loggedOut, phase>>
    BY <1>4 DEF kick, flagVars
  <2>2. goneUsers' = goneUsers
    BY <1>4 DEF kick, goneUsers
  <2>3. QED
    BY <2>1, <2>2 DEF P!pvars, status, goneUsers
<1>5. ASSUME NEW d \in Devices, graceExpires(d) PROVE P!Next
  <2>1. /\ reconnectTimers[d] # "none" /\ sessionSockets[d] = None
        /\ reconnectTimers' = [reconnectTimers EXCEPT ![d] = "none"]
        /\ UNCHANGED <<sessionSockets, loggedOut, removed, kicking, phase>>
    BY <1>0, <1>5 DEF graceExpires, NoGraceWhileBound, flagVars, kickVars
  <2>2. status[d] = "reconnecting" /\ status' = [status EXCEPT ![d] = "offline"]
    <3>1. status[d] = "reconnecting"
      BY <2>1 DEF status
    <3>2. ASSUME NEW e \in Devices PROVE status'[e] = IF e = d THEN "offline" ELSE status[e]
      <4>1. reconnectTimers'[e] = IF e = d THEN "none" ELSE reconnectTimers[e]
        BY <1>0, <2>1 DEF TypeOK
      <4>2. QED
        BY <2>1, <4>1 DEF status
    <3>3. QED
      BY <3>1, <3>2, StatusExcept
  <2>3. P!Expire(d)
    BY <2>1, <2>2 DEF P!Expire
  <2>4. QED
    BY <2>3, DeviceStep
<1>6. ASSUME NEW d \in Devices, disconnectBot(d) PROVE P!Next
  <2>1. /\ d \in Bots /\ sessionSockets[d] # None
        /\ sessionSockets' = Unbind({sessionSockets[d]} \ {None})
        /\ UNCHANGED <<reconnectTimers, loggedOut, removed, kicking, phase>>
    BY <1>6 DEF disconnectBot, Release, flagVars, kickVars
  <2>2. \A e \in Devices : sessionSockets[e] = sessionSockets[d] => e = d
    BY <1>0, <2>1 DEF IndexAgrees, TypeOK
  <2>3. sessionSockets' = [sessionSockets EXCEPT ![d] = None]
    BY <1>0, <2>1, <2>2 DEF Unbind, TypeOK
  <2>4. status[d] = "online" /\ status' = [status EXCEPT ![d] = "offline"]
    <3>1. status[d] = "online"
      BY <2>1 DEF status
    <3>2. reconnectTimers[d] = "none"
      BY <1>0, <2>1 DEF BotsLeaveAtOnce
    <3>3. ASSUME NEW e \in Devices PROVE status'[e] = IF e = d THEN "offline" ELSE status[e]
      <4>1. sessionSockets'[e] = IF e = d THEN None ELSE sessionSockets[e]
        BY <2>1, <2>2 DEF Unbind
      <4>2. reconnectTimers'[e] = reconnectTimers[e]
        BY <2>1
      <4>3. QED
        BY <3>2, <4>1, <4>2 DEF status
    <3>4. QED
      BY <3>1, <3>3, StatusExcept
  <2>5. leavingDevices' = leavingDevices \ {d}
    <3>1. ASSUME NEW e \in Devices PROVE sessionSockets'[e] = IF e = d THEN None ELSE sessionSockets[e]
      BY <2>1, <2>2 DEF Unbind
    <3>2. None \notin loggedOut
      BY <1>0 DEF TypeOK
    <3>3. QED
      BY <2>1, <3>1, <3>2 DEF leavingDevices
  <2>6. P!Leave(d)
    BY <2>1, <2>4, <2>5 DEF P!Leave, leavingDevices
  <2>7. QED
    BY <2>6, DeviceStep
<1>7. ASSUME close PROVE P!Stop
  BY <1>7 DEF close, P!Stop, status, flagVars, kickVars
<1>8. ASSUME closeTimers PROVE P!ClearGraces
  <2>1. /\ phase # "up" /\ phase' # "up"
        /\ \A d \in Devices : reconnectTimers'[d] = "none"
        /\ UNCHANGED <<sessionSockets, loggedOut, removed, kicking>>
    BY <1>8 DEF closeTimers, flagVars, kickVars
  <2>2. status' = [d \in Devices |-> IF status[d] = "reconnecting" THEN "offline" ELSE status[d]]
    BY <2>1 DEF status
  <2>3. QED
    BY <2>1, <2>2 DEF P!ClearGraces
<1>9. ASSUME closeTransport PROVE UNCHANGED P!pvars
  BY <1>9 DEF closeTransport, P!pvars, status, flagVars, kickVars
<1>10. ASSUME NEW c \in Conns, admitted(c) PROVE P!Next
  BY <1>10, AdmissionImplements
<1>11. ASSUME NEW u \in Users, kicked(u) PROVE P!Next
  BY <1>11, KickImplements
<1>12. P!Stop \/ P!ClearGraces => P!Next
  BY DEF P!Next
<1>13. QED
  BY <1>1, <1>2, <1>3, <1>4, <1>5, <1>6, <1>7, <1>8, <1>9, <1>10, <1>11, <1>12, StepKinds

\* The registry implements Presence: whatever the sockets, timers, replacements,
\* kicks and the shutdown do, each device follows what Presence promises.
THEOREM Refinement == Spec => ImplementsPresence
<1>1. Init => P!Init
  BY ConnectionsAssumption DEF Init, P!Init, status
<1>2. PresenceInv /\ [Next]_vars => [P!Next]_(P!pvars)
  BY StepImplements
<1>3. QED
  BY <1>1, <1>2, PresenceInvHolds, PTL DEF Spec, P!Spec, ImplementsPresence
=============================================================================
