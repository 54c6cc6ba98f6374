---------------------------- MODULE SignInProofs ----------------------------
(* Theorems about SignIn, for every number of sockets, keys and attempts,  *)
(* and every cap.                                                          *)
EXTENDS SignIn, FiniteSetTheorems, TLAPS

-----------------------------------------------------------------------------
(* The inductive invariant.                                                *)

\* A session is live and its connection no longer signs in, so what it was
\* admitted with stays what it is.
SessionsSettled == \A c \in sessions : c \in live /\ stage[c] = "idle" /\ request[c] \in Requests

\* A handler knows what it works on from its first await.
Asked == \A c \in Conns : stage[c] \notin {"idle", "probing"} => request[c] \in Requests

\* Who has to sign the server key is a member, and so is who was found to be
\* one or passed enroll: a sign-in only ever adds rows.
Enrolled == /\ keyRequired \subseteq members
            /\ \A c \in Conns : stage[c] \in {"weighing", "enrolling"} /\ userRecord[c] =>
                                 key(c) \in members
            /\ \A c \in Conns : stage[c] \in {"granting", "admitting"} => key(c) \in members

Counted == /\ IsFiniteSet(sessions) /\ IsFiniteSet(members)
           /\ \A c \in Conns : IsFiniteSet(onlineMap[c])

\* Of the people a sign-in saw, who is not a session any more is gone for good.
SeenAreSettled == \A c \in Conns : \A b \in onlineMap[c] : b \in sessions \/ b \notin live

\* A device has one session, however sign-ins cross.
OneEach == \A b, c \in sessions : sameSession(b, c) => b = c

\* Whoever passed enroll goes on fitting in with the people it saw.
Passed == \A c \in Conns : c \in sessions \/ stage[c] \in {"granting", "admitting"} =>
                            ~TooManyDevices(c) /\ ~NicknameTaken(c)

\* A cached probe lets each sign-in run alone.
OneAtATime == \A b, c \in Conns : stage[b] \notin Waiting /\ stage[c] \notin Waiting => b = c

\* What a sign-in that runs alone read some awaits ago is still the case.
StillTrue(c) ==
  /\ stage[c] \in {"rechecking", "weighing", "enrolling", "granting", "admitting"} =>
       onlineMap[c] = sessions
  /\ stage[c] \in {"reading", "rechecking", "weighing", "enrolling", "granting"} =>
       ownerSeen[c] = ownerUserId
  /\ stage[c] \in {"weighing", "enrolling"} => (userRecord[c] <=> key(c) \in members)
  /\ stage[c] = "enrolling" => (refusal[c] <=> MustBind(c) \/ Full(c))
  /\ stage[c] \in {"granting", "admitting"} /\ ~request[c].bound => key(c) \notin keyRequired

Alone == OneAtATime /\ \A c \in Conns : StillTrue(c)

\* The limits, of sign-ins that run alone.
Limits == ~overlap => SessionCap /\ NicknamesUnique /\ MemberCap

\* The caps are not inductive: they are checked against a snapshot.  Whoever is in
\* it stays what it was or is gone for good, and alone nothing moved between the
\* snapshot and the admission.
SignInInv ==
  /\ TypeOK /\ NoChallengeLeft /\ SessionsSettled /\ Asked /\ Enrolled /\ Counted
  /\ SeenAreSettled /\ OneEach /\ Passed
  /\ ~overlap => Alone
  /\ Limits

-----------------------------------------------------------------------------
(* What several steps have in common.                                      *)

\* A request names a key and how it signs.
LEMMA RequestType ==
  ASSUME NEW r \in Requests
  PROVE  r.key \in Keys /\ r.bound \in BOOLEAN /\ r # None
BY SignInAssumption DEF ConnectPayloads

\* What a sign-in compared itself with stays what it was, as long as the requests
\* of sessions and of connections that are gone do.
LEMMA PassedStays ==
  ASSUME SeenAreSettled, NEW c \in Conns, UNCHANGED overlap,
         onlineMap'[c] = onlineMap[c], request'[c] = request[c],
         \A b \in Conns : b \in sessions \/ b \notin live => request'[b] = request[b],
         onlineMap[c] \subseteq Conns
  PROVE  TooManyDevices(c)' = TooManyDevices(c) /\ NicknameTaken(c)' = NicknameTaken(c)
<1>1. \A b \in onlineMap[c] : request'[b] = request[b]
  BY DEF SeenAreSettled
<1>2. {b \in onlineMap'[c] : key(b)' = key(c)' /\ ~sameSession(b, c)'}
        = {b \in onlineMap[c] : key(b) = key(c) /\ ~sameSession(b, c)}
  BY <1>1 DEF key, sameSession
<1>3. QED
  BY <1>1, <1>2 DEF TooManyDevices, NicknameTaken, key

\* The caps speak of the sessions, of what they were admitted with and of the
\* rows; a step that keeps those keeps them.
LEMMA CapsKept ==
  ASSUME TypeOK, Limits, Counted, SessionsSettled, SeenAreSettled, OneEach, Passed,
         UNCHANGED <<overlap, sessions, records>>, live' \subseteq live,
         \A c \in Conns : \/ onlineMap'[c] = onlineMap[c]
                          \/ /\ onlineMap'[c] = sessions /\ c \notin sessions
                             /\ stage'[c] \notin {"granting", "admitting"},
         \A c \in Conns : c \in sessions \/ c \notin live => request'[c] = request[c],
         \A c \in Conns : stage'[c] \in {"granting", "admitting"} =>
                           stage[c] \in {"granting", "admitting"} /\ request'[c] = request[c]
  PROVE  Limits' /\ Counted' /\ SeenAreSettled' /\ OneEach' /\ Passed'
<1>0. sessions \subseteq Conns /\ \A c \in sessions : request'[c] = request[c]
  BY DEF TypeOK
<1>1. members' = members
  BY DEF members
<1>2. \A k \in Keys : {c \in sessions' : request'[c].key = k} = {c \in sessions : request[c].key = k}
  BY <1>0
<1>3. SessionCap => SessionCap'
  BY <1>2 DEF SessionCap, key
<1>4. NicknamesUnique => NicknamesUnique'
  BY <1>0 DEF NicknamesUnique, key
<1>5. Limits' /\ Counted'
  BY <1>1, <1>3, <1>4 DEF Limits, Counted, MemberCap
<1>6. SeenAreSettled'
  BY DEF SeenAreSettled
<1>7. OneEach'
  BY <1>0 DEF OneEach, sameSession, key
<1>8. ASSUME NEW c \in Conns, c \in sessions \/ stage'[c] \in {"granting", "admitting"}
      PROVE  ~TooManyDevices(c)' /\ ~NicknameTaken(c)'
  <2>1. /\ request'[c] = request[c] /\ onlineMap'[c] = onlineMap[c]
        /\ onlineMap[c] \subseteq Conns
    BY <1>8 DEF TypeOK
  <2>2. ~TooManyDevices(c) /\ ~NicknameTaken(c)
    BY <1>8 DEF Passed
  <2>3. QED
    BY <2>1, <2>2, PassedStays
<1>9. QED
  BY <1>5, <1>6, <1>7, <1>8 DEF Passed

\* While every handler waits outside the process, no sign-in is half way.
LEMMA NobodyHalfWay ==
  ASSUME \A c \in Conns : stage'[c] \in Waiting
  PROVE  Alone'
BY DEF Alone, OneAtATime, StillTrue, Waiting

\* A handler that goes back to waiting was the only one half way.
LEMMA Free ==
  ASSUME TypeOK, LoopFree, NEW c \in Conns, NEW to \in Waiting, stage' = [stage EXCEPT ![c] = to]
  PROVE  Alone'
<1>1. \A b \in Conns : stage'[b] \in Waiting
  BY DEF LoopFree, TypeOK
<1>2. QED
  BY <1>1, NobodyHalfWay

\* The others are waiting while c goes on by itself.
LEMMA GoesOnAlone ==
  ASSUME TypeOK, Alone \/ LoopFree, NEW c \in Conns, stage[c] \notin Waiting \/ LoopFree,
         NEW to \in Stages, stage' = [stage EXCEPT ![c] = to], StillTrue(c)'
  PROVE  Alone'
<1>1. \A b \in Conns \ {c} : stage[b] \in Waiting /\ stage'[b] \in Waiting
  BY DEF Alone, OneAtATime, LoopFree, TypeOK
<1>2. OneAtATime'
  BY <1>1 DEF OneAtATime
<1>3. ASSUME NEW b \in Conns PROVE StillTrue(b)'
  <2>1. CASE b = c
    BY <2>1
  <2>2. CASE b # c
    BY <1>1, <2>2 DEF StillTrue, Waiting
  <2>3. QED
    BY <2>1, <2>2
<1>4. QED
  BY <1>2, <1>3 DEF Alone

\* A handler that is in the middle of its work has not been admitted, so a
\* session never changes under it.
LEMMA NotYetAdmitted ==
  ASSUME SessionsSettled, NEW c \in Conns, stage[c] # "idle"
  PROVE  c \notin sessions
BY DEF SessionsSettled

\* Members are the keys that have a row.
LEMMA MembersType ==
  ASSUME TypeOK
  PROVE  members \subseteq Keys /\ \A k \in Keys : k \notin members => records[k] = 0
BY DEF TypeOK, members

-----------------------------------------------------------------------------
(* AUTH_CONNECT and the challenge.                                         *)

\* A challenge is asked for: the derivation of the password begins.
LEMMA CreateStep ==
  ASSUME SignInInv, NEW c \in Conns, NEW r \in Requests, createChallenge(c, r)
  PROVE  SignInInv'
<1>. USE DEF SignInInv
<1>1. /\ LoopFree /\ c \in live /\ c \notin sessions /\ connects[c] > 0
      /\ stage' = [stage EXCEPT ![c] = "hashing"] /\ attempts' = attempts \cup {c}
      /\ pendingChallenges' = [pendingChallenges EXCEPT ![c] = None]
      /\ request' = [request EXCEPT ![c] = r] /\ connects' = [connects EXCEPT ![c] = @ - 1]
      /\ UNCHANGED <<live, sessions, localVars, serverVars>>
  BY DEF createChallenge, Step
<1>2. TypeOK'
  <2>1. connects' \in [Conns -> Nat]
    BY <1>1 DEF TypeOK
  <2>2. QED
    BY <1>1, <2>1 DEF TypeOK, Stages, localVars, serverVars
<1>3. NoChallengeLeft' /\ SessionsSettled' /\ Asked'
  BY <1>1 DEF NoChallengeLeft, SessionsSettled, Asked, TypeOK
<1>4. Enrolled'
  BY <1>1 DEF Enrolled, key, members, LoopFree, Waiting, TypeOK, serverVars, localVars
<1>5. Alone'
  BY <1>1, Free DEF Waiting
<1>6. Limits' /\ Counted' /\ SeenAreSettled' /\ OneEach' /\ Passed'
  BY <1>1, CapsKept DEF TypeOK, localVars, serverVars
<1>7. QED
  BY <1>2, <1>3, <1>4, <1>5, <1>6

\* The challenge is stored if the attempt is still the connection's current one.
LEMMA SentStep ==
  ASSUME SignInInv, NEW c \in Conns, challengeSent(c)
  PROVE  SignInInv'
<1>. USE DEF SignInInv
<1>1. /\ LoopFree /\ stage[c] = "hashing" /\ stage' = [stage EXCEPT ![c] = "idle"]
      /\ pendingChallenges' = IF isCurrent(c) /\ request[c].right
           THEN [pendingChallenges EXCEPT ![c] = request[c]] ELSE pendingChallenges
      /\ UNCHANGED <<live, attempts, request, sessions, localVars, serverVars, connects>>
  BY DEF challengeSent, Step
<1>2. request[c] \in Requests
  BY <1>1 DEF Asked
<1>3. TypeOK'
  BY <1>1, <1>2 DEF TypeOK, Stages, localVars, serverVars
<1>4. NoChallengeLeft' /\ SessionsSettled' /\ Asked'
  BY <1>1 DEF NoChallengeLeft, SessionsSettled, Asked, isCurrent, TypeOK
<1>5. Enrolled'
  BY <1>1 DEF Enrolled, key, members, TypeOK, serverVars, localVars
<1>6. Alone'
  BY <1>1, Free DEF Waiting
<1>7. Limits' /\ Counted' /\ SeenAreSettled' /\ OneEach' /\ Passed'
  BY <1>1, CapsKept DEF localVars, serverVars
<1>8. QED
  BY <1>3, <1>4, <1>5, <1>6, <1>7

\* The timer removes a challenge.
LEMMA ExpiresStep ==
  ASSUME SignInInv, NEW c \in Conns, challengeExpires(c)
  PROVE  SignInInv'
<1>. USE DEF SignInInv
<1>1. /\ LoopFree /\ clearChallenge({c})
      /\ UNCHANGED <<live, stage, request, sessions, localVars, serverVars, connects>>
  BY DEF challengeExpires
<1>2. TypeOK'
  BY <1>1 DEF TypeOK, clearChallenge, localVars, serverVars
<1>3. NoChallengeLeft' /\ SessionsSettled' /\ Asked'
  BY <1>1 DEF NoChallengeLeft, SessionsSettled, Asked, clearChallenge
<1>4. Enrolled'
  BY <1>1 DEF Enrolled, key, members, serverVars, localVars
<1>5. Alone'
  BY <1>1, NobodyHalfWay DEF LoopFree
<1>6. Limits' /\ Counted' /\ SeenAreSettled' /\ OneEach' /\ Passed'
  BY <1>1, CapsKept DEF localVars, serverVars
<1>7. QED
  BY <1>2, <1>3, <1>4, <1>5, <1>6

\* An answer uses the challenge up and waits for the probe.
LEMMA AnswerStep ==
  ASSUME SignInInv, NEW c \in Conns, answerChallenge(c)
  PROVE  SignInInv'
<1>. USE DEF SignInInv
<1>1. /\ LoopFree /\ c \notin sessions /\ stage' = [stage EXCEPT ![c] = "probing"]
      /\ UNCHANGED <<live, attempts, pendingChallenges, request, sessions, localVars,
                     serverVars, connects>>
  BY DEF answerChallenge, Step
<1>2. TypeOK'
  BY <1>1 DEF TypeOK, Stages, localVars, serverVars
<1>3. NoChallengeLeft' /\ SessionsSettled' /\ Asked'
  BY <1>1 DEF NoChallengeLeft, SessionsSettled, Asked, TypeOK
<1>4. Enrolled'
  BY <1>1 DEF Enrolled, key, members, TypeOK, serverVars, localVars
<1>5. Alone'
  BY <1>1, Free DEF Waiting
<1>6. Limits' /\ Counted' /\ SeenAreSettled' /\ OneEach' /\ Passed'
  BY <1>1, CapsKept DEF localVars, serverVars
<1>7. QED
  BY <1>2, <1>3, <1>4, <1>5, <1>6

\* A connection that goes takes its challenge and its session along.
LEMMA ReleaseStep ==
  ASSUME SignInInv, NEW c \in Conns, release(c)
  PROVE  SignInInv'
<1>. USE DEF SignInInv
<1>1. /\ LoopFree /\ live' = live \ {c} /\ sessions' = sessions \ {c} /\ clearChallenge({c})
      /\ UNCHANGED <<stage, request, localVars, serverVars, connects>>
  BY DEF release
<1>2. TypeOK'
  BY <1>1 DEF TypeOK, clearChallenge, localVars, serverVars
<1>3. NoChallengeLeft' /\ SessionsSettled' /\ Asked'
  BY <1>1 DEF NoChallengeLeft, SessionsSettled, Asked, clearChallenge
<1>4. Enrolled' /\ members' = members
  BY <1>1 DEF Enrolled, key, members, serverVars, localVars
<1>5. Alone'
  BY <1>1, NobodyHalfWay DEF LoopFree
<1>6. Counted'
  BY <1>1, <1>4, FS_Subset DEF Counted, localVars
<1>7. SessionCap => SessionCap'
  <2>. SUFFICES ASSUME SessionCap, NEW k \in Keys
       PROVE  Cardinality({b \in sessions' : request'[b].key = k}) <= MaxSessions
    BY DEF SessionCap, key
  <2>. DEFINE S == {b \in sessions : request[b].key = k}
              T == {b \in sessions' : request'[b].key = k}
  <2>1. T \subseteq S /\ IsFiniteSet(S)
    BY <1>1, FS_Subset DEF Counted
  <2>2. /\ IsFiniteSet(T) /\ Cardinality(T) <= Cardinality(S)
        /\ Cardinality(S) \in Nat /\ Cardinality(T) \in Nat
    BY <2>1, FS_Subset, FS_CardinalityType
  <2>3. Cardinality(S) <= MaxSessions
    BY DEF SessionCap, key
  <2>4. QED
    BY <2>2, <2>3, SignInAssumption
<1>8. NicknamesUnique => NicknamesUnique'
  BY <1>1 DEF NicknamesUnique, key
<1>9. Limits'
  BY <1>1, <1>4, <1>7, <1>8 DEF Limits, MemberCap, localVars
<1>10. SeenAreSettled' /\ OneEach'
  BY <1>1 DEF SeenAreSettled, OneEach, sameSession, key, localVars
<1>11. Passed'
  BY <1>1, PassedStays DEF Passed, localVars, TypeOK
<1>12. QED
  BY <1>2, <1>3, <1>4, <1>5, <1>6, <1>9, <1>10, <1>11

-----------------------------------------------------------------------------
(* The handler, await by await.                                            *)

\* The answer is checked against the challenge it was for.
LEMMA VerifiedStep ==
  ASSUME SignInInv, NEW c \in Conns, NEW valid \in BOOLEAN, verified(c, valid)
  PROVE  SignInInv'
<1>. USE DEF SignInInv
<1>. DEFINE proceeds == c \in live /\ pendingChallenges[c] # None /\ valid
            to == IF proceeds THEN "reading" ELSE "idle"
<1>1. /\ ~overlap => LoopFree
      /\ stage[c] = "probing" /\ stage' = [stage EXCEPT ![c] = to]
      /\ IF c \in live /\ pendingChallenges[c] # None
           THEN clearChallenge({c}) ELSE UNCHANGED <<attempts, pendingChallenges>>
      /\ request' = [request EXCEPT ![c] = IF proceeds THEN pendingChallenges[c] ELSE @]
      /\ ownerSeen' = [ownerSeen EXCEPT ![c] = IF proceeds THEN ownerUserId ELSE @]
      /\ UNCHANGED <<overlap, live, sessions, onlineMap, userRecord, refusal, serverVars, connects>>
  BY DEF verified, Step
<1>2. c \notin sessions
  BY <1>1, NotYetAdmitted
<1>3. proceeds => pendingChallenges[c] \in Requests
  BY DEF TypeOK
<1>4. TypeOK'
  <2>1. request' \in [Conns -> Requests \cup {None}]
    BY <1>1 DEF TypeOK
  <2>2. ownerSeen' \in [Conns -> Keys \cup {None}]
    BY <1>1 DEF TypeOK
  <2>3. attempts' \subseteq Conns /\ pendingChallenges' \in [Conns -> Requests \cup {None}]
    BY <1>1 DEF TypeOK, clearChallenge
  <2>4. stage' \in [Conns -> Stages]
    BY <1>1 DEF TypeOK, Stages
  <2>5. QED
    BY <1>1, <2>1, <2>2, <2>3, <2>4 DEF TypeOK, serverVars
<1>5. NoChallengeLeft'
  BY <1>1 DEF NoChallengeLeft, clearChallenge
<1>6. SessionsSettled' /\ Asked'
  BY <1>1, <1>2, <1>3 DEF SessionsSettled, Asked, TypeOK
<1>7. Enrolled'
  BY <1>1 DEF Enrolled, key, members, TypeOK, serverVars, localVars
<1>8. ~overlap => Alone'
  <2>. SUFFICES ASSUME ~overlap PROVE Alone'
    OBVIOUS
  <2>1. LoopFree
    BY <1>1
  <2>2. to \in Stages /\ stage'[c] = to
    BY <1>1 DEF Stages, TypeOK
  <2>3. to = "reading" => ownerSeen'[c] = ownerUserId'
    BY <1>1 DEF TypeOK, serverVars
  <2>4. StillTrue(c)'
    BY <2>2, <2>3 DEF StillTrue
  <2>5. QED
    BY <1>1, <2>1, <2>2, <2>4, GoesOnAlone
<1>9. Limits' /\ Counted' /\ SeenAreSettled' /\ OneEach' /\ Passed'
  BY <1>1, <1>2, CapsKept DEF TypeOK, serverVars
<1>10. QED
  BY <1>1, <1>4, <1>5, <1>6, <1>7, <1>8, <1>9

\* A step of the handler that only reads: it changes its own stage and what
\* it remembers.
LEMMA ReadStep ==
  ASSUME SignInInv, NEW c \in Conns, stage[c] \notin Waiting,
         NEW to \in {"rechecking", "weighing", "enrolling"}, stage' = [stage EXCEPT ![c] = to],
         UNCHANGED <<overlap, live, attempts, pendingChallenges, request, sessions, ownerSeen,
                     serverVars, connects>>,
         onlineMap' \in [Conns -> SUBSET Conns],
         onlineMap'[c] \in {onlineMap[c], sessions}, \A b \in Conns \ {c} : onlineMap'[b] = onlineMap[b],
         userRecord' \in [Conns -> BOOLEAN], refusal' \in [Conns -> BOOLEAN],
         to \in {"weighing", "enrolling"} /\ userRecord'[c] => key(c) \in members,
         \A b \in Conns \ {c} : userRecord'[b] = userRecord[b],
         Alone => StillTrue(c)'
  PROVE  SignInInv'
<1>. USE DEF SignInInv
<1>1. stage[c] # "idle" /\ stage[c] # "probing"
  BY DEF Waiting
<1>2. TypeOK'
  BY DEF TypeOK, Stages, serverVars
<1>3. NoChallengeLeft' /\ SessionsSettled' /\ Asked'
  BY <1>1 DEF NoChallengeLeft, SessionsSettled, Asked, TypeOK
<1>4. Enrolled'
  BY DEF Enrolled, key, members, TypeOK, serverVars
<1>5. ~overlap => Alone'
  BY GoesOnAlone DEF Stages
<1>6. Limits' /\ Counted' /\ SeenAreSettled' /\ OneEach' /\ Passed'
  <2>1. c \notin sessions /\ \A b \in Conns : stage'[b] \in {"granting", "admitting"} => stage[b] = stage'[b]
    BY <1>1 DEF SessionsSettled, TypeOK
  <2>2. \A b \in Conns : \/ onlineMap'[b] = onlineMap[b]
                          \/ /\ onlineMap'[b] = sessions /\ b \notin sessions
                             /\ stage'[b] \notin {"granting", "admitting"}
    BY <2>1 DEF TypeOK
  <2>3. QED
    BY <2>1, <2>2, CapsKept DEF serverVars
<1>7. QED
  BY <1>2, <1>3, <1>4, <1>5, <1>6

\* The sessions are read: from here on a handler works with a copy.
LEMMA SnapshotStep ==
  ASSUME SignInInv, NEW c \in Conns, snapshot(c)
  PROVE  SignInInv'
<1>. USE DEF SignInInv
<1>. DEFINE to == IF key(c) \in members THEN "weighing" ELSE "rechecking"
<1>1. /\ stage[c] = "reading" /\ stage' = [stage EXCEPT ![c] = to]
      /\ onlineMap' = [onlineMap EXCEPT ![c] = sessions]
      /\ userRecord' = [userRecord EXCEPT ![c] = key(c) \in members]
      /\ UNCHANGED <<overlap, live, attempts, pendingChallenges, request, sessions, refusal,
                     ownerSeen, serverVars, connects>>
  BY DEF snapshot, Step
<1>2. onlineMap' \in [Conns -> SUBSET Conns] /\ userRecord' \in [Conns -> BOOLEAN]
  BY <1>1 DEF TypeOK
<1>3. ASSUME Alone PROVE StillTrue(c)'
  <2>1. /\ stage'[c] \in {"weighing", "rechecking"} /\ onlineMap'[c] = sessions
        /\ (userRecord'[c] <=> key(c) \in members) /\ ownerSeen'[c] = ownerUserId
    BY <1>1, <1>3 DEF TypeOK, Alone, StillTrue
  <2>2. QED
    BY <1>1, <2>1 DEF StillTrue, key, members, serverVars
<1>4. stage[c] \notin Waiting /\ to \in {"rechecking", "weighing", "enrolling"}
  BY <1>1 DEF Waiting
<1>5. /\ userRecord'[c] => key(c) \in members
      /\ \A b \in Conns \ {c} : userRecord'[b] = userRecord[b]
  BY <1>1 DEF TypeOK
<1>6. QED
  BY <1>1, <1>2, <1>3, <1>4, <1>5, ReadStep DEF TypeOK

\* Whether the key has a row is read.
LEMMA RecheckStep ==
  ASSUME SignInInv, NEW c \in Conns, recheck(c)
  PROVE  SignInInv'
<1>. USE DEF SignInInv
<1>1. /\ stage[c] = "rechecking" /\ stage' = [stage EXCEPT ![c] = "weighing"]
      /\ userRecord' = [userRecord EXCEPT ![c] = key(c) \in members]
      /\ UNCHANGED <<overlap, live, attempts, pendingChallenges, request, sessions, onlineMap,
                     refusal, ownerSeen, serverVars, connects>>
  BY DEF recheck, Step
<1>2. userRecord' \in [Conns -> BOOLEAN]
  BY <1>1 DEF TypeOK
<1>3. ASSUME Alone PROVE StillTrue(c)'
  <2>1. /\ stage'[c] = "weighing" /\ onlineMap'[c] = sessions
        /\ (userRecord'[c] <=> key(c) \in members) /\ ownerSeen'[c] = ownerUserId
    BY <1>1, <1>3 DEF TypeOK, Alone, StillTrue
  <2>2. QED
    BY <1>1, <2>1 DEF StillTrue, key, members, serverVars
<1>4. stage[c] \notin Waiting
  BY <1>1 DEF Waiting
<1>5. /\ userRecord'[c] => key(c) \in members
      /\ \A b \in Conns \ {c} : userRecord'[b] = userRecord[b]
  BY <1>1 DEF TypeOK
<1>6. QED
  BY <1>1, <1>2, <1>3, <1>4, <1>5, ReadStep DEF TypeOK

\* A missing key signature, or a full server, is a refusal to come.
LEMMA WeighStep ==
  ASSUME SignInInv, NEW c \in Conns, weigh(c)
  PROVE  SignInInv'
<1>. USE DEF SignInInv
<1>1. /\ stage[c] = "weighing" /\ stage' = [stage EXCEPT ![c] = "enrolling"]
      /\ refusal' = [refusal EXCEPT ![c] = MustBind(c) \/ Full(c)]
      /\ UNCHANGED <<overlap, live, attempts, pendingChallenges, request, sessions, onlineMap,
                     userRecord, ownerSeen, serverVars, connects>>
  BY DEF weigh, Step
<1>2. refusal' \in [Conns -> BOOLEAN]
  BY <1>1 DEF TypeOK
<1>3. ASSUME Alone PROVE StillTrue(c)'
  <2>1. /\ stage'[c] = "enrolling" /\ onlineMap'[c] = sessions
        /\ (userRecord[c] <=> key(c) \in members) /\ ownerSeen'[c] = ownerUserId
        /\ (refusal'[c] <=> MustBind(c) \/ Full(c))
    BY <1>1, <1>3 DEF TypeOK, Alone, StillTrue
  <2>2. MustBind(c)' = MustBind(c) /\ Full(c)' = Full(c)
    BY <1>1 DEF MustBind, Full, key, members, serverVars
  <2>3. QED
    BY <1>1, <2>1, <2>2 DEF StillTrue, key, members, serverVars
<1>4. stage[c] \notin Waiting
  BY <1>1 DEF Waiting
<1>5. userRecord[c] => key(c) \in members
  BY <1>1 DEF Enrolled
<1>6. QED
  BY <1>1, <1>2, <1>3, <1>4, <1>5, ReadStep DEF TypeOK

\* A member's row is created, if the client id has none and the caps that were
\* read say yes.
LEMMA EnrollStep ==
  ASSUME SignInInv, NEW c \in Conns, enroll(c)
  PROVE  SignInInv'
<1>. USE DEF SignInInv
<1>. DEFINE no == refusal[c] \/ TooManyDevices(c) \/ NicknameTaken(c) \/ Conflicts(c)
<1>1. /\ stage[c] = "enrolling" /\ stage' = [stage EXCEPT ![c] = IF no THEN "idle" ELSE "granting"]
      /\ records' = IF no \/ userRecord[c] THEN records ELSE [records EXCEPT ![key(c)] = @ + 1]
      /\ UNCHANGED <<live, attempts, pendingChallenges, request, sessions, localVars,
                     keyRequired, ownerUserId, admins, connects>>
  BY DEF enroll, Step
<1>2. key(c) \in Keys /\ c \notin sessions
  BY <1>1, RequestType, NotYetAdmitted DEF Asked, key
<1>3. ~no /\ ~userRecord[c] => key(c) \notin members /\ records[key(c)] = 0
  BY <1>2, MembersType DEF Conflicts
<1>4. records' \in [Keys -> 0..1]
  BY <1>1, <1>2, <1>3 DEF TypeOK
<1>5. TypeOK'
  BY <1>1, <1>4 DEF TypeOK, Stages, localVars
<1>6. members' = IF no \/ userRecord[c] THEN members ELSE members \cup {key(c)}
  BY <1>1, <1>2, <1>3 DEF members, TypeOK
<1>7. NoChallengeLeft' /\ SessionsSettled' /\ Asked'
  BY <1>1, <1>2 DEF NoChallengeLeft, SessionsSettled, Asked, TypeOK
<1>8. Enrolled'
  <2>1. keyRequired' \subseteq members'
    BY <1>1, <1>6 DEF Enrolled
  <2>2. ASSUME NEW b \in Conns PROVE
          /\ stage'[b] \in {"weighing", "enrolling"} /\ userRecord'[b] => key(b)' \in members'
          /\ stage'[b] \in {"granting", "admitting"} => key(b)' \in members'
    <3>1. CASE b # c
      BY <1>1, <1>6, <3>1 DEF Enrolled, key, TypeOK, localVars
    <3>2. CASE b = c
      BY <1>1, <1>6, <3>2 DEF Enrolled, key, TypeOK
    <3>3. QED
      BY <3>1, <3>2
  <2>3. QED
    BY <2>1, <2>2 DEF Enrolled
<1>9. ~overlap' => Alone'
  <2>. SUFFICES ASSUME ~overlap PROVE Alone'
    BY <1>1 DEF localVars
  <2>1. Alone /\ StillTrue(c)
    BY DEF Alone
  <2>2. stage[c] \notin Waiting
    BY <1>1 DEF Waiting
  <2>3. CASE no
    BY <1>1, <2>1, <2>2, <2>3, GoesOnAlone DEF Stages, StillTrue, TypeOK
  <2>4. CASE ~no
    <3>2. ~request[c].bound => key(c) \notin keyRequired
      <4>1. CASE userRecord[c]
        BY <1>1, <2>1, <2>4, <4>1 DEF StillTrue, MustBind
      <4>2. CASE ~userRecord[c]
        BY <1>3, <2>4, <4>2 DEF Enrolled
      <4>3. QED
        BY <4>1, <4>2
    <3>3. stage'[c] = "granting" /\ onlineMap'[c] = sessions' /\ ownerSeen'[c] = ownerUserId'
      BY <1>1, <2>1, <2>4 DEF StillTrue, TypeOK, localVars
    <3>4. StillTrue(c)'
      BY <1>1, <3>2, <3>3 DEF StillTrue, key
    <3>5. QED
      BY <1>1, <2>1, <2>2, <2>4, <3>4, GoesOnAlone DEF Stages
  <2>5. QED
    BY <2>3, <2>4
<1>10. Counted'
  BY <1>1, <1>6, FS_AddElement DEF Counted, localVars
<1>11. Limits'
  <2>1. SessionCap => SessionCap'
    BY <1>1 DEF SessionCap, key
  <2>2. NicknamesUnique => NicknamesUnique'
    BY <1>1 DEF NicknamesUnique, key
  <2>3. ~overlap /\ MemberCap => MemberCap'
    <3>. SUFFICES ASSUME ~overlap, MemberCap, MaxUsers > 0, ~no, ~userRecord[c]
         PROVE  Cardinality(members') <= MaxUsers
      BY <1>6 DEF MemberCap
    <3>1. StillTrue(c)
      BY DEF Alone
    <3>2. ~(Cardinality(members) >= MaxUsers)
      BY <1>1, <3>1 DEF StillTrue, Full
    <3>3. Cardinality(members') = Cardinality(members) + 1 /\ Cardinality(members) \in Nat
      BY <1>3, <1>6, FS_AddElement, FS_CardinalityType DEF Counted
    <3>4. QED
      BY <3>2, <3>3, SignInAssumption
  <2>4. QED
    BY <1>1, <2>1, <2>2, <2>3 DEF Limits, localVars
<1>12. SeenAreSettled' /\ OneEach'
  BY <1>1 DEF SeenAreSettled, OneEach, sameSession, key, localVars
<1>13. Passed'
  <2>. SUFFICES ASSUME NEW b \in Conns, b \in sessions \/ stage'[b] \in {"granting", "admitting"}
                PROVE  ~TooManyDevices(b)' /\ ~NicknameTaken(b)'
    BY <1>1 DEF Passed
  <2>1. ~TooManyDevices(b) /\ ~NicknameTaken(b)
    BY <1>1 DEF Passed, TypeOK
  <2>2. QED
    BY <1>1, <2>1, PassedStays DEF TypeOK, localVars
<1>14. QED
  BY <1>5, <1>7, <1>8, <1>9, <1>10, <1>11, <1>12, <1>13

\* The mark of the key, and the owner if nobody is.
LEMMA GrantStep ==
  ASSUME SignInInv, NEW c \in Conns, grant(c)
  PROVE  SignInInv'
<1>. USE DEF SignInInv
<1>1. /\ stage[c] = "granting" /\ stage' = [stage EXCEPT ![c] = "admitting"]
      /\ keyRequired' = IF request[c].bound THEN keyRequired \cup {key(c)} ELSE keyRequired
      /\ ownerUserId' = IF First(c) THEN key(c) ELSE ownerUserId
      /\ admins' = IF First(c) THEN admins \cup {key(c)} ELSE admins
      /\ UNCHANGED <<live, attempts, pendingChallenges, request, sessions, localVars, records,
                     connects>>
  BY DEF grant, Step
<1>2. key(c) \in Keys /\ key(c) \in members /\ c \notin sessions
  BY <1>1, RequestType, NotYetAdmitted DEF Asked, Enrolled, key
<1>3. TypeOK'
  BY <1>1, <1>2 DEF TypeOK, Stages, localVars
<1>4. NoChallengeLeft' /\ SessionsSettled' /\ Asked'
  BY <1>1, <1>2 DEF NoChallengeLeft, SessionsSettled, Asked, TypeOK
<1>5. Enrolled'
  BY <1>1, <1>2 DEF Enrolled, key, members, TypeOK, localVars
<1>6. ~overlap' => Alone'
  <2>. SUFFICES ASSUME ~overlap PROVE Alone'
    BY <1>1 DEF localVars
  <2>1. Alone /\ StillTrue(c) /\ stage[c] \notin Waiting
    BY <1>1 DEF Alone, Waiting
  <2>3. stage'[c] = "admitting" /\ onlineMap'[c] = sessions'
        /\ (~request'[c].bound => key(c)' \notin keyRequired')
    BY <1>1, <2>1 DEF StillTrue, TypeOK, localVars, key
  <2>4. StillTrue(c)'
    BY <2>3 DEF StillTrue
  <2>5. QED
    BY <1>1, <2>1, <2>4, GoesOnAlone DEF Stages
<1>7. Limits' /\ Counted' /\ SeenAreSettled' /\ OneEach' /\ Passed'
  BY <1>1, CapsKept DEF localVars
<1>8. QED
  BY <1>3, <1>4, <1>5, <1>6, <1>7

\* The newcomer counts for one, beside the devices the snapshot had; it has
\* its device's place if there was one.
LEMMA AdmitStep ==
  ASSUME SignInInv, NEW c \in Conns, admit(c)
  PROVE  SignInInv'
<1>. USE DEF SignInInv
<1>. DEFINE old == {b \in sessions : sameSession(b, c)}
<1>1. /\ stage[c] = "admitting" /\ stage' = [stage EXCEPT ![c] = "idle"]
      /\ IF c \in live
           THEN /\ sessions' = (sessions \ old) \cup {c} /\ live' = live \ old
                /\ clearChallenge(old)
           ELSE UNCHANGED <<sessions, live, attempts, pendingChallenges>>
      /\ UNCHANGED <<request, localVars, serverVars, connects>>
  BY DEF admit, Step
<1>2. request[c] \in Requests /\ key(c) \in Keys /\ c \notin sessions
  BY <1>1, RequestType, NotYetAdmitted DEF Asked, key
<1>3. TypeOK'
  BY <1>1 DEF TypeOK, Stages, clearChallenge, localVars, serverVars
<1>4. NoChallengeLeft'
  BY <1>1 DEF NoChallengeLeft, clearChallenge
<1>5. SessionsSettled' /\ Asked'
  BY <1>1, <1>2 DEF SessionsSettled, Asked, TypeOK
<1>6. members' = members /\ Enrolled'
  BY <1>1 DEF Enrolled, key, members, TypeOK, serverVars, localVars
<1>7. ~overlap' => Alone'
  <2>. SUFFICES ASSUME ~overlap PROVE Alone'
    BY <1>1 DEF localVars
  <2>1. Alone /\ stage[c] \notin Waiting
    BY <1>1 DEF Waiting
  <2>2. StillTrue(c)'
    BY <1>1 DEF StillTrue, TypeOK
  <2>3. QED
    BY <1>1, <2>1, <2>2, GoesOnAlone DEF Stages
<1>8. Counted'
  <2>1. IsFiniteSet(sessions \ old) /\ IsFiniteSet(members)
    BY FS_Subset DEF Counted
  <2>2. IsFiniteSet((sessions \ old) \cup {c})
    BY <2>1, FS_AddElement
  <2>3. QED
    BY <1>1, <1>6, <2>1, <2>2 DEF Counted, localVars
<1>9. ASSUME c \in live, ~overlap PROVE Limits'
  <2>1. /\ onlineMap[c] = sessions /\ ~TooManyDevices(c) /\ ~NicknameTaken(c)
        /\ SessionCap /\ NicknamesUnique /\ MemberCap
    BY <1>1, <1>9 DEF Alone, StillTrue, Passed, Limits
  <2>2. SessionCap'
    <3>. SUFFICES ASSUME NEW k \in Keys
         PROVE  Cardinality({b \in sessions' : request'[b].key = k}) <= MaxSessions
      BY DEF SessionCap, key
    <3>. DEFINE S == {b \in sessions : request[b].key = k}
                T == {b \in sessions' : request'[b].key = k}
                U == {b \in sessions : key(b) = key(c) /\ ~sameSession(b, c)}
    <3>1. IsFiniteSet(S) /\ IsFiniteSet(U)
      BY FS_Subset DEF Counted
    <3>2. CASE k # key(c)
      <4>1. T \subseteq S
        BY <1>1, <1>9, <3>2 DEF key
      <4>2. /\ IsFiniteSet(T) /\ Cardinality(T) <= Cardinality(S)
            /\ Cardinality(S) \in Nat /\ Cardinality(T) \in Nat
        BY <3>1, <4>1, FS_Subset, FS_CardinalityType
      <4>3. Cardinality(S) <= MaxSessions
        BY <2>1 DEF SessionCap, key
      <4>4. QED
        BY <4>2, <4>3, SignInAssumption
    <3>3. CASE k = key(c)
      <4>1. T = U \cup {c} /\ c \notin U
        BY <1>1, <1>2, <1>9, <3>3 DEF key, sameSession
      <4>2. Cardinality(T) = Cardinality(U) + 1 /\ Cardinality(U) \in Nat
        BY <3>1, <4>1, FS_AddElement, FS_CardinalityType
      <4>3. ~(Cardinality(U) >= MaxSessions)
        BY <2>1 DEF TooManyDevices
      <4>4. QED
        BY <4>2, <4>3, SignInAssumption
    <3>4. QED
      BY <3>2, <3>3
  <2>3. NicknamesUnique'
    <3>. SUFFICES ASSUME NEW a \in sessions', NEW b \in sessions',
                         request[a].nickname = request[b].nickname
         PROVE  key(a) = key(b)
      BY <1>1 DEF NicknamesUnique, key
    <3>1. (a \in sessions \/ a = c) /\ (b \in sessions \/ b = c)
      BY <1>1, <1>9
    <3>2. QED
      BY <2>1, <3>1 DEF NicknamesUnique, NicknameTaken
  <2>4. QED
    BY <1>6, <2>1, <2>2, <2>3 DEF Limits, MemberCap
<1>10. ASSUME c \notin live PROVE Limits' /\ SeenAreSettled' /\ OneEach' /\ Passed'
  BY <1>1, <1>10, CapsKept DEF TypeOK, serverVars, localVars
<1>11. ASSUME overlap PROVE Limits'
  BY <1>1, <1>11 DEF Limits, localVars
<1>12. ASSUME c \in live PROVE SeenAreSettled' /\ OneEach'
  <2>1. SeenAreSettled'
    BY <1>1, <1>12 DEF SeenAreSettled, localVars
  <2>2. OneEach'
    BY <1>1, <1>12 DEF OneEach, sameSession, key
  <2>3. QED
    BY <2>1, <2>2
<1>13. Passed'
  <2>. SUFFICES ASSUME NEW b \in Conns, b \in sessions' \/ stage'[b] \in {"granting", "admitting"}
                PROVE  ~TooManyDevices(b)' /\ ~NicknameTaken(b)'
    BY DEF Passed
  <2>1. ~TooManyDevices(b) /\ ~NicknameTaken(b)
    BY <1>1 DEF Passed, TypeOK
  <2>2. QED
    BY <1>1, <2>1, PassedStays DEF TypeOK, localVars
<1>14. QED
  BY <1>3, <1>4, <1>5, <1>6, <1>7, <1>8, <1>9, <1>10, <1>11, <1>12, <1>13

-----------------------------------------------------------------------------
(* The theorems.                                                           *)

\* It holds before anybody connects.
LEMMA SignInInit == Init => SignInInv
<1>. SUFFICES ASSUME Init PROVE SignInInv
  OBVIOUS
<1>1. TypeOK
  BY SignInAssumption DEF Init, TypeOK, Stages
<1>2. NoChallengeLeft /\ SessionsSettled /\ Asked
  BY DEF Init, NoChallengeLeft, SessionsSettled, Asked
<1>3. members = {}
  BY DEF Init, members
<1>4. Enrolled
  BY DEF Init, Enrolled
<1>5. Counted
  BY <1>3, FS_EmptySet DEF Init, Counted
<1>6. Alone
  BY DEF Init, Alone, OneAtATime, StillTrue, Waiting
<1>7. Limits
  <2>1. Cardinality({}) = 0
    BY FS_EmptySet
  <2>2. ASSUME NEW k \in Keys PROVE {c \in sessions : key(c) = k} = {}
    BY DEF Init
  <2>3. SessionCap
    <3>. SUFFICES ASSUME NEW k \in Keys
         PROVE  Cardinality({c \in sessions : key(c) = k}) <= MaxSessions
      BY DEF SessionCap
    <3>1. Cardinality({c \in sessions : key(c) = k}) = 0
      BY <2>1, <2>2
    <3>2. QED
      BY <3>1, SignInAssumption
  <2>4. NicknamesUnique
    BY DEF Init, NicknamesUnique
  <2>5. MemberCap
    BY <1>3, <2>1, SignInAssumption DEF MemberCap
  <2>6. QED
    BY <2>3, <2>4, <2>5 DEF Limits
<1>8. SeenAreSettled /\ OneEach /\ Passed
  BY DEF Init, SeenAreSettled, OneEach, Passed
<1>9. QED
  BY <1>1, <1>2, <1>4, <1>5, <1>6, <1>7, <1>8 DEF SignInInv

\* Every step keeps it.
LEMMA SignInStep ==
  ASSUME SignInInv, [Next]_vars
  PROVE  SignInInv'
<1>1. ASSUME NEW c \in Conns, Handlers(c) PROVE SignInInv'
  BY <1>1, VerifiedStep, SnapshotStep, RecheckStep, WeighStep, EnrollStep, GrantStep, AdmitStep
  DEF Handlers
<1>2. CASE UNCHANGED vars
  <2>1. TypeOK' /\ NoChallengeLeft' /\ SessionsSettled' /\ Asked'
    <3>1. TypeOK'
      BY <1>2 DEF SignInInv, vars, localVars, serverVars, TypeOK
    <3>2. QED
      BY <1>2, <3>1 DEF SignInInv, vars, NoChallengeLeft, SessionsSettled, Asked
  <2>2. Enrolled' /\ Limits' /\ Counted' /\ SeenAreSettled' /\ OneEach' /\ Passed'
    BY <1>2, CapsKept DEF SignInInv, vars, localVars, serverVars, Enrolled, key, members
  <2>3. Alone => Alone'
    BY <1>2 DEF vars, localVars, serverVars, Alone, OneAtATime, StillTrue, TooManyDevices,
       NicknameTaken, MustBind, Full, sameSession, key, members
  <2>4. QED
    BY <1>2, <2>1, <2>2, <2>3 DEF SignInInv, vars, localVars
<1>3. QED
  BY <1>1, <1>2, CreateStep, SentStep, ExpiresStep, AnswerStep, ReleaseStep DEF Next

\* So it always holds.
LEMMA SignInInvHolds == Spec => []SignInInv
BY SignInInit, SignInStep, PTL DEF Spec

\* Every step keeps the types; above all an identity has at most one row,
\* however sign-ins cross, because the UNIQUE client id refuses a second one.
THEOREM SignInTypes == Spec => []TypeOK
<1>1. SignInInv => TypeOK
  BY DEF SignInInv
<1>2. QED
  BY <1>1, SignInInvHolds, PTL

\* No challenge outlives its connection.
THEOREM ChallengesEndWithConnection == Spec => []NoChallengeLeft
<1>1. SignInInv => NoChallengeLeft
  BY DEF SignInInv
<1>2. QED
  BY <1>1, SignInInvHolds, PTL

\* However sign-ins cross, whoever is admitted fits in beside the people it saw
\* who are still there: the devices of its own it counted were fewer than the cap,
\* and none of them can have become somebody else's since.
LEMMA FitsIn ==
  ASSUME SignInInv
  PROVE  FitsBesideSeen
<1>. SUFFICES ASSUME NEW c \in sessions
     PROVE  LET seen == onlineMap[c] \cap sessions
            IN  /\ Cardinality({b \in seen \cup {c} : key(b) = key(c)}) <= MaxSessions
                /\ \A b \in seen : request[b].nickname = request[c].nickname => key(b) = key(c)
  BY DEF FitsBesideSeen
<1>. DEFINE seen == onlineMap[c] \cap sessions
            S == {b \in seen \cup {c} : key(b) = key(c)}
            U == {b \in onlineMap[c] : key(b) = key(c) /\ ~sameSession(b, c)}
<1>1. c \in Conns /\ ~TooManyDevices(c) /\ ~NicknameTaken(c) /\ IsFiniteSet(onlineMap[c])
  BY DEF SignInInv, TypeOK, Passed, Counted
<1>2. IsFiniteSet(U) /\ c \notin U
  BY <1>1, FS_Subset DEF sameSession
<1>3. /\ IsFiniteSet(U \cup {c}) /\ Cardinality(U \cup {c}) = Cardinality(U) + 1
      /\ Cardinality(U) \in Nat
  BY <1>2, FS_AddElement, FS_CardinalityType
<1>4. S \subseteq U \cup {c}
  BY DEF SignInInv, OneEach
<1>5. Cardinality(S) <= Cardinality(U \cup {c}) /\ Cardinality(S) \in Nat
  BY <1>3, <1>4, FS_Subset, FS_CardinalityType
<1>6. ~(Cardinality(U) >= MaxSessions)
  BY <1>1 DEF TooManyDevices
<1>7. Cardinality(S) <= MaxSessions
  BY <1>3, <1>5, <1>6, SignInAssumption
<1>8. QED
  BY <1>1, <1>7 DEF NicknameTaken

\* No sign-in passes the cap of its own devices, or a nickname that is taken, as
\* far as it could see, whatever overlaps; alone none passes them at all, nor the
\* cap of members.
THEOREM CapsHold == Spec => []Caps
<1>1. SignInInv => Caps
  BY FitsIn DEF SignInInv, Limits, Caps
<1>2. QED
  BY <1>1, SignInInvHolds, PTL

\* Whoever may still take over from an owner was on its way before: rivals only
\* leave, and who takes over is one no more.
LEMMA RivalsLeave ==
  ASSUME SignInInv, NEW c \in Conns, ownerUserId # None, Handlers(c)
  PROVE  Rivals' \subseteq Rivals /\ (Rivals' = Rivals => UNCHANGED <<ownerUserId, admins>>)
<1>. stage \in [Conns -> Stages] /\ ownerSeen \in [Conns -> Keys \cup {None}]
  BY DEF SignInInv, TypeOK
<1>1. ASSUME NEW valid \in BOOLEAN, verified(c, valid)
      PROVE  Rivals' \subseteq Rivals /\ UNCHANGED <<ownerUserId, admins>>
  BY <1>1 DEF verified, Step, Rivals, serverVars
<1>2. ASSUME snapshot(c) \/ recheck(c) \/ weigh(c)
      PROVE  Rivals' \subseteq Rivals /\ UNCHANGED <<ownerUserId, admins>>
  BY <1>2 DEF snapshot, recheck, weigh, Step, Rivals, serverVars
<1>3. ASSUME enroll(c) \/ admit(c)
      PROVE  Rivals' \subseteq Rivals /\ UNCHANGED <<ownerUserId, admins>>
  BY <1>3 DEF enroll, admit, Step, Rivals, serverVars, localVars
<1>4. ASSUME grant(c)
      PROVE  /\ Rivals' \subseteq Rivals
             /\ First(c) => c \in Rivals /\ c \notin Rivals'
             /\ ~First(c) => UNCHANGED <<ownerUserId, admins>>
  BY <1>4 DEF grant, Step, First, Rivals, localVars
<1>5. QED
  BY <1>1, <1>2, <1>3, <1>4 DEF Handlers

\* Once there is an owner, only sign-ins that overlapped with the one that made it
\* can take over, each of them once; alone nobody can.
THEOREM OwnerSettles == Spec => OwnerKept
<1>1. ASSUME SignInInv, Next, ownerUserId # None
      PROVE  Rivals' \subseteq Rivals /\ (Rivals' = Rivals => UNCHANGED <<ownerUserId, admins>>)
  <2>1. PICK c \in Conns : \/ \E r \in Requests : createChallenge(c, r)
                          \/ challengeSent(c) \/ challengeExpires(c) \/ answerChallenge(c)
                          \/ Handlers(c) \/ release(c)
    BY <1>1 DEF Next
  <2>2. ASSUME ~Handlers(c) PROVE Rivals' \subseteq Rivals /\ UNCHANGED <<ownerUserId, admins>>
    BY <1>1, <2>1, <2>2 DEF createChallenge, challengeSent, challengeExpires, answerChallenge, release,
       Step, Rivals, SignInInv, TypeOK, serverVars, localVars
  <2>3. QED
    BY <1>1, <2>2, RivalsLeave
<1>2. ASSUME SignInInv, ownerUserId # None, ~overlap PROVE Rivals = {}
  BY <1>2 DEF SignInInv, Alone, StillTrue, Rivals
<1>3. SignInInv /\ [Next]_vars =>
        [ownerUserId # None => /\ Rivals' \subseteq Rivals
                               /\ Rivals' = Rivals => UNCHANGED <<ownerUserId, admins>>
                               /\ ~overlap => Rivals = {}]_vars
  BY <1>1, <1>2
<1>4. QED
  BY <1>3, SignInInvHolds, PTL DEF Spec, OwnerKept

\* Nobody whose key was required is admitted for a bare nonce.
THEOREM NobodyDowngrades == Spec => NoDowngrade
<1>1. ASSUME SignInInv, [Next]_vars, ~overlap, NEW c \in sessions' \ sessions, ~request[c].bound
      PROVE  key(c) \notin keyRequired
  <2>1. ASSUME NEW b \in Conns, admit(b) PROVE key(c) \notin keyRequired
    <3>1. c = b /\ stage[b] = "admitting"
      BY <1>1, <2>1 DEF admit, Step
    <3>2. QED
      BY <1>1, <3>1 DEF SignInInv, Alone, StillTrue, TypeOK
  <2>2. QED
    BY <1>1, <2>1
    DEF Next, Handlers, createChallenge, challengeSent, challengeExpires, answerChallenge, verified,
        snapshot, recheck, weigh, enroll, grant, release, vars
<1>2. SignInInv /\ [Next]_vars =>
        [~overlap => \A c \in sessions' \ sessions : ~request[c].bound => key(c) \notin keyRequired]_vars
  BY <1>1
<1>3. QED
  BY <1>2, SignInInvHolds, PTL DEF Spec, NoDowngrade
=============================================================================
