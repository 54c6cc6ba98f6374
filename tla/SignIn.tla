------------------------------ MODULE SignIn ------------------------------
(***************************************************************************)
(* How a person is identified and admitted: AuthService.ts, called from    *)
(* AuthHandler.authenticate and answerChallenge.                           *)
(*                                                                         *)
(* One action is the code between two awaits.  The password derivation and *)
(* the TURN probe really wait; every other await is on the database, which *)
(* is in memory, so it yields only to other sign-ins that are ready.  Two  *)
(* are ready at once when both waited for the same run of the probe        *)
(* (overlap); a probe that is cached lets each sign-in run alone.  What a  *)
(* bot does instead, and what everyone is told, is in Connections.         *)
(***************************************************************************)
EXTENDS Naturals, FiniteSets

CONSTANTS
  Conns,          \* sockets
  Keys,           \* public keys, one per identity (clientId is derived from it)
  Requests,       \* what AUTH_CONNECT asks for: see ConnectPayloads
  Devices,        \* device ids
  Nicknames,      \* nicknames, equal when they differ only in case
  MaxSessions,    \* LIMITS.MAX_SESSIONS_PER_USER
  MaxUsers,       \* server.maxUsers, 0 for no limit
  MaxConnects,    \* bound: how many times AUTH_CONNECT is sent on each socket, with
                  \* sign-ins that overlap and without
  None            \* undefined

\* `right` is whether the password is the server's, `bound` whether the app
\* signs the nonce together with the server key (server-key-auth).
ConnectPayloads == [key : Keys, device : Devices, nickname : Nicknames,
                    bound : BOOLEAN, right : BOOLEAN]

ASSUME SignInAssumption ==
  /\ Requests \subseteq ConnectPayloads /\ None \notin Requests /\ None \notin Keys
  /\ MaxSessions \in Nat \ {0} /\ MaxUsers \in Nat
  /\ MaxConnects \in [BOOLEAN -> [Conns -> Nat]]

VARIABLES
  overlap,            \* do several sign-ins wait for one run of the probe?
  live,               \* the connections isLive() says yes to
  attempts,           \* the sockets with an attempt that was not cleared
  pendingChallenges,  \* what each challenge sent is for
  stage,              \* the await at which a handler of the connection is suspended
  request,            \* what the handler is working on, and what an admitted connection is
  sessions,           \* signed-in connections
  onlineMap,          \* the sessions a sign-in saw, read once
  userRecord,         \* did it find the record of its member?
  refusal,            \* what it read about server key and capacity says no
  ownerSeen,          \* server.ownerUserId as it was read
  records,            \* how many rows `users` has for each key
  keyRequired,        \* server_key_required
  ownerUserId,        \* the owner
  admins,             \* who was given the Admin role for being first
  connects            \* AUTH_CONNECTs left on each socket

serverVars == <<records, keyRequired, ownerUserId, admins>>
localVars  == <<overlap, onlineMap, userRecord, refusal, ownerSeen>>
vars == <<live, attempts, pendingChallenges, stage, request, sessions, localVars,
          serverVars, connects>>

Stages == {"idle", "hashing", "probing", "reading", "rechecking", "weighing", "enrolling",
           "granting", "admitting"}

\* The stages in which the handler waits for something outside the process.
Waiting == {"idle", "hashing", "probing"}

Init ==
  /\ overlap \in BOOLEAN /\ attempts = {}
  /\ live = {c \in Conns : MaxConnects[overlap][c] > 0}
  /\ pendingChallenges = [c \in Conns |-> None]
  /\ stage = [c \in Conns |-> "idle"]
  /\ request = [c \in Conns |-> None]
  /\ sessions = {}
  /\ onlineMap = [c \in Conns |-> {}]
  /\ userRecord = [c \in Conns |-> FALSE]
  /\ refusal = [c \in Conns |-> FALSE]
  /\ ownerSeen = [c \in Conns |-> None]
  /\ records = [k \in Keys |-> 0]
  /\ keyRequired = {} /\ ownerUserId = None /\ admins = {}
  /\ connects = MaxConnects[overlap]

-----------------------------------------------------------------------------
\* No handler is ready to go on: the event loop turns to sockets and timers.
LoopFree == \A c \in Conns : stage[c] \in Waiting

Step(c, from, to) == stage[c] = from /\ stage' = [stage EXCEPT ![c] = to]

\* clearChallenge for the sockets of R.
clearChallenge(R) ==
  /\ attempts' = attempts \ R
  /\ pendingChallenges' = [c \in Conns |-> IF c \in R THEN None ELSE pendingChallenges[c]]

key(c) == request[c].key
sameSession(b, c) == key(b) = key(c) /\ request[b].device = request[c].device
members == {k \in Keys : records[k] > 0}

-----------------------------------------------------------------------------
(* AUTH_CONNECT: createChallenge.                                          *)

\* A new attempt replaces any earlier one of the socket.
createChallenge(c, r) ==
  /\ LoopFree /\ c \in live \ sessions /\ connects[c] > 0
  /\ Step(c, "idle", "hashing")
  /\ attempts' = attempts \cup {c}
  /\ pendingChallenges' = [pendingChallenges EXCEPT ![c] = None]
  /\ request' = [request EXCEPT ![c] = r]
  /\ connects' = [connects EXCEPT ![c] = @ - 1]
  /\ UNCHANGED <<live, sessions, localVars, serverVars>>

\* A challenge stored without asking again whether the attempt is current.
AlwaysCurrent(c) == TRUE

isCurrent(c) == c \in attempts /\ c \in live

\* The password was derived: a right one gets a challenge, if the attempt is
\* still the socket's and the socket is open.
challengeSent(c) ==
  /\ LoopFree /\ Step(c, "hashing", "idle")
  /\ pendingChallenges' = IF isCurrent(c) /\ request[c].right
       THEN [pendingChallenges EXCEPT ![c] = request[c]] ELSE pendingChallenges
  /\ UNCHANGED <<live, attempts, request, sessions, localVars, serverVars, connects>>

\* A timer that forgets the attempt and keeps its challenge.
ForgetsAttempt(c) ==
  /\ LoopFree /\ pendingChallenges[c] # None
  /\ attempts' = attempts \ {c}
  /\ UNCHANGED <<live, pendingChallenges, stage, request, sessions, localVars, serverVars,
                 connects>>

\* The 30 s timer of a challenge nobody answered.
challengeExpires(c) ==
  /\ LoopFree /\ pendingChallenges[c] # None
  /\ clearChallenge({c})
  /\ UNCHANGED <<live, stage, request, sessions, localVars, serverVars, connects>>

-----------------------------------------------------------------------------
(* AUTH_CHALLENGE_RESPONSE: verifyChallengeResponse, finishAuthentication. *)

answerChallenge(c) ==
  /\ LoopFree /\ c \in live \ sessions
  /\ Step(c, "idle", "probing")
  /\ UNCHANGED <<live, attempts, pendingChallenges, request, sessions, localVars,
                 serverVars, connects>>

\* The probe answered.  A challenge that is gone or badly signed is refused;
\* a valid one is used up, and the server record is read.
verified(c, valid) ==
  LET proceeds == c \in live /\ pendingChallenges[c] # None /\ valid
  IN  /\ ~overlap => LoopFree
      /\ Step(c, "probing", IF proceeds THEN "reading" ELSE "idle")
      /\ IF c \in live /\ pendingChallenges[c] # None
           THEN clearChallenge({c}) ELSE UNCHANGED <<attempts, pendingChallenges>>
      /\ request' = [request EXCEPT ![c] = IF proceeds THEN pendingChallenges[c] ELSE @]
      /\ ownerSeen' = [ownerSeen EXCEPT ![c] = IF proceeds THEN ownerUserId ELSE @]
      /\ UNCHANGED <<overlap, live, sessions, onlineMap, userRecord, refusal, serverVars, connects>>

\* The people online are read, and the record of this one looked up by key.
snapshot(c) ==
  /\ Step(c, "reading", IF key(c) \in members THEN "weighing" ELSE "rechecking")
  /\ onlineMap' = [onlineMap EXCEPT ![c] = sessions]
  /\ userRecord' = [userRecord EXCEPT ![c] = key(c) \in members]
  /\ UNCHANGED <<overlap, live, attempts, pendingChallenges, request, sessions, refusal, ownerSeen,
                 serverVars, connects>>

\* A record that was not found by key is looked up by client id.
recheck(c) ==
  /\ Step(c, "rechecking", "weighing")
  /\ userRecord' = [userRecord EXCEPT ![c] = key(c) \in members]
  /\ UNCHANGED <<overlap, live, attempts, pendingChallenges, request, sessions, onlineMap, refusal,
                 ownerSeen, serverVars, connects>>

\* A check that forgets the key.
AnyNonce(c) == FALSE

\* requiresServerKey of a member, or the capacity for a new one, is read.
MustBind(c) == userRecord[c] /\ ~request[c].bound /\ key(c) \in keyRequired
Full(c) == ~userRecord[c] /\ MaxUsers > 0 /\ Cardinality(members) >= MaxUsers
weigh(c) ==
  /\ Step(c, "weighing", "enrolling")
  /\ refusal' = [refusal EXCEPT ![c] = MustBind(c) \/ Full(c)]
  /\ UNCHANGED <<overlap, live, attempts, pendingChallenges, request, sessions, onlineMap, userRecord,
                 ownerSeen, serverVars, connects>>

\* A cap that refuses one device too late.
OneDeviceLate(c) == Cardinality({b \in onlineMap[c] : key(b) = key(c)}) > MaxSessions

\* The caps and the nickname are checked against the snapshot.
TooManyDevices(c) ==
  Cardinality({b \in onlineMap[c] : key(b) = key(c) /\ ~sameSession(b, c)}) >= MaxSessions
NicknameTaken(c) ==
  \E b \in onlineMap[c] : key(b) # key(c) /\ request[b].nickname = request[c].nickname

\* client_id is UNIQUE: the row of a member somebody else just created is refused.
NeverConflicts(c) == FALSE
Conflicts(c) == ~userRecord[c] /\ key(c) \in members

enroll(c) ==
  LET refused == refusal[c] \/ TooManyDevices(c) \/ NicknameTaken(c) \/ Conflicts(c)
  IN  /\ Step(c, "enrolling", IF refused THEN "idle" ELSE "granting")
      /\ records' = IF refused \/ userRecord[c] THEN records
                    ELSE [records EXCEPT ![key(c)] = @ + 1]
      /\ UNCHANGED <<live, attempts, pendingChallenges, request, sessions, localVars,
                     keyRequired, ownerUserId, admins, connects>>

\* The server key is required from now on, and whoever came when there was no
\* owner becomes it.  Awaits in between are merged: no sign-in tells them apart.
NeverFirst(c) == TRUE
First(c) == ownerSeen[c] = None
grant(c) ==
  /\ Step(c, "granting", "admitting")
  /\ keyRequired' = IF request[c].bound THEN keyRequired \cup {key(c)} ELSE keyRequired
  /\ ownerUserId' = IF First(c) THEN key(c) ELSE ownerUserId
  /\ admins' = IF First(c) THEN admins \cup {key(c)} ELSE admins
  /\ UNCHANGED <<live, attempts, pendingChallenges, request, sessions, localVars, records,
                 connects>>

\* The connection becomes its device's, which lets the older one go.
admit(c) ==
  LET old == {b \in sessions : sameSession(b, c)}
  IN  /\ Step(c, "admitting", "idle")
      /\ IF c \in live
           THEN /\ sessions' = (sessions \ old) \cup {c}
                /\ live' = live \ old
                /\ clearChallenge(old)
           ELSE UNCHANGED <<sessions, live, attempts, pendingChallenges>>
      /\ UNCHANGED <<request, localVars, serverVars, connects>>

\* releaseConnection: the socket closed, or the server let the connection go.
release(c) ==
  /\ LoopFree /\ c \in live
  /\ live' = live \ {c}
  /\ sessions' = sessions \ {c}
  /\ clearChallenge({c})
  /\ UNCHANGED <<stage, request, localVars, serverVars, connects>>

Handlers(c) == \/ (\E valid \in BOOLEAN : verified(c, valid)) \/ snapshot(c) \/ recheck(c)
               \/ weigh(c) \/ enroll(c) \/ grant(c) \/ admit(c)

Next == \E c \in Conns : \/ \E r \in Requests : createChallenge(c, r)
                         \/ challengeSent(c) \/ challengeExpires(c) \/ answerChallenge(c)
                         \/ Handlers(c) \/ release(c)

\* What the event loop owes: a suspended handler resumes, a timer fires.
Fairness == \A c \in Conns : WF_vars(Handlers(c)) /\ SF_vars(challengeExpires(c))

Spec == Init /\ [][Next]_vars
FairSpec == Spec /\ Fairness

-----------------------------------------------------------------------------
(* Correctness.                                                            *)

\* Among the rest, an identity has at most one row, however sign-ins cross.
TypeOK ==
  /\ overlap \in BOOLEAN /\ live \subseteq Conns /\ attempts \subseteq Conns /\ sessions \subseteq Conns
  /\ pendingChallenges \in [Conns -> Requests \cup {None}]
  /\ stage \in [Conns -> Stages]
  /\ request \in [Conns -> Requests \cup {None}]
  /\ onlineMap \in [Conns -> SUBSET Conns]
  /\ userRecord \in [Conns -> BOOLEAN] /\ refusal \in [Conns -> BOOLEAN]
  /\ ownerSeen \in [Conns -> Keys \cup {None}]
  /\ records \in [Keys -> 0..1]
  /\ keyRequired \subseteq Keys /\ admins \subseteq Keys
  /\ ownerUserId \in Keys \cup {None}
  /\ connects \in [Conns -> Nat]

\* A challenge never outlives its connection: a password derived after the
\* socket went leaves nothing behind for the maps to keep for ever.
NoChallengeLeft == \A c \in Conns : pendingChallenges[c] # None => c \in live

\* Sign-ins that overlap do not see each other.  Beside the people it saw who are
\* still there, whoever is admitted has a place for its device and its nickname to
\* itself.
FitsBesideSeen ==
  \A c \in sessions :
    LET seen == onlineMap[c] \cap sessions
    IN  /\ Cardinality({b \in seen \cup {c} : key(b) = key(c)}) <= MaxSessions
        /\ \A b \in seen : request[b].nickname = request[c].nickname => key(b) = key(c)

\* The limits themselves are claimed of sign-ins that run alone, as two that
\* overlap break them.

\* "Up to a cap of 3 simultaneous sessions per identity."
SessionCap == \A k \in Keys : Cardinality({c \in sessions : key(c) = k}) <= MaxSessions

\* "Nicknames are unique per server": among the people online.
NicknamesUnique == \A b, c \in sessions :
                     request[b].nickname = request[c].nickname => key(b) = key(c)

\* "Maximum registered members."
MemberCap == MaxUsers > 0 => Cardinality(members) <= MaxUsers

\* The limits a sign-in checks against what it read some awaits earlier, and what
\* of them no overlap can break.
Caps ==
  /\ FitsBesideSeen
  /\ ~overlap => SessionCap /\ NicknamesUnique /\ MemberCap

\* The sign-ins on their way that saw a server without an owner.
Rivals ==
  {c \in Conns : /\ stage[c] \in {"reading", "rechecking", "weighing", "enrolling", "granting"}
                 /\ ownerSeen[c] = None}

\* Once there is an owner, only the sign-ins that overlapped with the one that
\* made it can take over, each of them once and none that comes later; alone there
\* is none.  Until they have ended, being the first member made owner is not final.
OwnerKept ==
  [][ownerUserId # None =>
       /\ Rivals' \subseteq Rivals
       /\ Rivals' = Rivals => UNCHANGED <<ownerUserId, admins>>
       /\ ~overlap => Rivals = {}]_vars

\* A member who once signed in bound to this server's key is refused with the
\* bare nonce.
NoDowngrade == [][~overlap => \A c \in sessions' \ sessions : ~request[c].bound => key(c) \notin keyRequired]_vars

\* A challenge ends: it is answered, it expires, or its connection goes.
ChallengeEnds == \A c \in Conns : pendingChallenges[c] # None ~> pendingChallenges[c] = None
=============================================================================
