-------------------------- MODULE ServerLifecycle --------------------------
(***************************************************************************)
(* One data directory over the life of several processes: the servers that *)
(* run on it one after the other (server.ts, started by index.ts or, for   *)
(* the hosted ones, by the desktop app's hostedServerLifecycle.ts), the    *)
(* command line that edits it while no server runs (context.ts), and what  *)
(* they share, the file server.db and the marker server.lock.              *)
(*                                                                         *)
(* A process may die at any step.  A write of the file and the release of  *)
(* a resource may fail, MaxFailures times in a behaviour.                  *)
(***************************************************************************)
EXTENDS Integers, ResourceScope

CONSTANTS
  Servers,       \* server processes; each runs once
  Hosted,        \* the ones the desktop app hosts
  Commands,      \* runs of the command line that change the database
  MaxWrites,     \* bound: changes made by members
  MaxFailures,   \* bound: failed writes and releases
  None           \* no lock

ASSUME LifecycleAssumption ==
  /\ Hosted \subseteq Servers /\ Servers \cap Commands = {}
  /\ MaxWrites \in Nat /\ MaxFailures \in Nat
  /\ None \notin Servers
  /\ (1..MaxWrites) \cap (Servers \union Commands) = {}

\* A change is named by who made it: a server that finds no identity creates
\* its own, a command makes its edit, and members' changes are numbered.
Change == Servers \union Commands \union 1..MaxWrites

INSTANCE SqlJsDriver

\* The releases that matter here, in the order server.ts defers them.
Database == 1
Listener == 2
Turn == 3
StartupTasks == 4
WebSockets == 5
Places == 1..5

Phases == {"off", "opening", "setup", "seeded", "serving", "failing",
           "stopping", "unstopped", "stopped", "dead"}

VARIABLES
  file,        \* server.db
  lock,        \* the server that server.lock names
  db,          \* the connection of each process
  phase,       \* where each server is between create() and the end of stop()
  start,       \* startPromise: "listening", "announcing", "up" or "failed"
  startup,     \* startupTasks
  turn,        \* the TURN relay runs
  scope,       \* resources
  done,        \* commands: "ready", "open", "edited", "saved" or "refused"
  committed,   \* what was ever committed
  writes,      \* how many changes members made
  failures     \* how many writes and releases have failed

vars == <<file, lock, db, phase, start, startup, turn, scope, done, committed, writes, failures>>
process == <<start, startup, turn, scope>>

Init ==
  /\ file = [exists |-> FALSE, rows |-> {}]
  /\ lock = None
  /\ db = [p \in Servers \union Commands |-> unopened]
  /\ phase = [s \in Servers |-> "off"]
  /\ start = [s \in Servers |-> "none"]
  /\ startup = [s \in Servers |-> "none"]
  /\ turn = [s \in Servers |-> FALSE]
  /\ scope = [s \in Servers |-> emptyScope]
  /\ done = [c \in Commands |-> "ready"]
  /\ committed = {} /\ writes = 0 /\ failures = 0

-----------------------------------------------------------------------------
(* The file and the marker *)

Alive(s) == phase[s] \notin {"off", "stopped", "dead"}

\* findLiveServerLock: a marker left by a process that died says nothing.
Answers == lock # None /\ phase[lock] = "serving"                  \* mutant
LiveLock == lock # None /\ Alive(lock)

\* acquireServerLock always takes over, and its release removes only its own.
acquired(s) == s
freed(s) == IF lock = s THEN None ELSE lock

fails == failures < MaxFailures /\ failures' = failures + 1

\* What flushToDisk leaves in the file: nothing to do, or writeSnapshot
\* replaces it at once.
writtenIfDue(c) == IF c.saveTimer THEN [exists |-> TRUE, rows |-> c.rows] ELSE file  \* mutant
written(c) == IF c.dirty \/ ~file.exists THEN [exists |-> TRUE, rows |-> c.rows] ELSE file

-----------------------------------------------------------------------------
(* MonkyServer.create *)

\* PM2 and the desktop app run one server on a data directory at a time.
Launch(s) ==
  /\ phase[s] = "off" /\ \A t \in Servers : ~Alive(t)
  /\ lock' = acquired(s)
  /\ phase' = [phase EXCEPT ![s] = "opening"]
  /\ scope' = [scope EXCEPT ![s] = defer(@, {Database})]
  /\ UNCHANGED <<file, db, start, startup, turn, done, committed, writes, failures>>

OpenDatabase(s) ==
  /\ phase[s] = "opening"
  /\ file' = [file EXCEPT !.exists = TRUE]
  /\ db' = [db EXCEPT ![s] = beginAsync(opened(file.rows))]
  /\ phase' = [phase EXCEPT ![s] = "setup"]
  /\ UNCHANGED <<lock, process, done, committed, writes, failures>>

\* The initial write or a migration fails, and resources.fail() cleans up.
OpenFails(s) ==
  /\ phase[s] = "opening" /\ fails
  /\ phase' = [phase EXCEPT ![s] = "failing"]
  /\ scope' = [scope EXCEPT ![s] = close(@)]
  /\ UNCHANGED <<file, lock, db, start, startup, turn, done, committed, writes>>

\* createResources, inside the transaction: ServerIdentity.load.
SetUp(s) ==
  /\ phase[s] = "setup"
  /\ db' = [db EXCEPT ![s] = IF @.rows \cap Servers = {} THEN recordWrite(@, s) ELSE @]
  /\ phase' = [phase EXCEPT ![s] = "seeded"]
  /\ UNCHANGED <<file, lock, process, done, committed, writes, failures>>

\* createResources fails half way: the transaction rolls back, and what was
\* deferred until then is released.
SetUpFails(s) ==
  /\ phase[s] \in {"setup", "seeded"} /\ fails
  /\ db' = [db EXCEPT ![s] = endAsync(@, FALSE)]
  /\ \E last \in Places : scope' = [scope EXCEPT ![s] = close(defer(@, 1..last))]
  /\ phase' = [phase EXCEPT ![s] = "failing"]
  /\ UNCHANGED <<file, lock, start, startup, turn, done, committed, writes>>

\* Mutant: what the setup wrote waits for the debounce like any change.
ServeUnsaved(s) ==
  /\ phase[s] = "seeded"
  /\ db' = [db EXCEPT ![s] = endAsync(@, TRUE)]
  /\ committed' = committed \union db[s].rows
  /\ phase' = [phase EXCEPT ![s] = "serving"]
  /\ start' = [start EXCEPT ![s] = "listening"]
  /\ scope' = [scope EXCEPT ![s] = defer(@, Places)]
  /\ UNCHANGED <<file, lock, startup, turn, done, writes, failures>>

\* The commit and the flush of #821, which ends create(); the caller goes on
\* with start() at once.
Serve(s) ==
  /\ phase[s] = "seeded"
  /\ LET ended == endAsync(db[s], TRUE) IN
       /\ committed' = committed \union ended.rows
       /\ \/ /\ db' = [db EXCEPT ![s] = flushed(ended)]
             /\ file' = written(ended)
             /\ phase' = [phase EXCEPT ![s] = "serving"]
             /\ start' = [start EXCEPT ![s] = "listening"]
             /\ scope' = [scope EXCEPT ![s] = defer(@, Places)]
             /\ UNCHANGED failures
          \/ /\ fails
             /\ db' = [db EXCEPT ![s] = unflushed(ended)]
             /\ phase' = [phase EXCEPT ![s] = "failing"]
             /\ scope' = [scope EXCEPT ![s] = close(defer(@, Places))]
             /\ UNCHANGED <<file, start>>
  /\ UNCHANGED <<lock, startup, turn, done, writes>>

-----------------------------------------------------------------------------
(* start(), the members, the save timer *)

\* start() rejects.  main() of index.ts exits the process on it, even while a
\* stop is under way; the desktop app stops the server instead.
Rejected(s) ==
  /\ start' = [start EXCEPT ![s] = "failed"]
  /\ phase' = [phase EXCEPT ![s] = IF s \in Hosted THEN @ ELSE "dead"]

\* listenHttpServer settles.
Listening(s) ==
  /\ phase[s] \in {"serving", "stopping"} /\ start[s] = "listening"
  /\ \/ /\ phase[s] = "serving"
        /\ start' = [start EXCEPT ![s] = "announcing"]
        /\ startup' = [startup EXCEPT ![s] = "running"]
        /\ UNCHANGED <<phase, failures>>
     \/ /\ phase[s] = "stopping" /\ Rejected(s) /\ UNCHANGED <<startup, failures>>
     \/ /\ fails /\ Rejected(s) /\ UNCHANGED startup
  /\ UNCHANGED <<file, lock, db, turn, scope, done, committed, writes>>

\* lanBroadcaster.start settles, well or not.
Announced(s) ==
  /\ phase[s] \in {"serving", "stopping"} /\ start[s] = "announcing"
  /\ IF phase[s] = "stopping"
     THEN Rejected(s)
     ELSE start' = [start EXCEPT ![s] = "up"] /\ UNCHANGED phase
  /\ UNCHANGED <<file, lock, db, startup, turn, scope, done, committed, writes, failures>>

\* startTurnIfEnabled and the reconciliation of attachments end.
StartupEnds(s) ==
  /\ Alive(s) /\ startup[s] = "running"
  /\ startup' = [startup EXCEPT ![s] = "settled"]
  /\ \E runs \in BOOLEAN : turn' = [turn EXCEPT ![s] = runs]
  /\ UNCHANGED <<file, lock, db, phase, start, scope, done, committed, writes, failures>>

\* A member changes something, from the moment the port listens until the
\* WebSocket server, the first to be released, has ended its pending work.
MemberWrites(s) ==
  /\ writes < MaxWrites
  /\ phase[s] \in {"serving", "stopping"} /\ start[s] \in {"announcing", "up"}
  /\ phase[s] = "stopping" => scope[s].todo = Places
  /\ writes' = writes + 1
  /\ db' = [db EXCEPT ![s] = recordWrite(@, writes + 1)]
  /\ committed' = committed \union {writes + 1}
  /\ UNCHANGED <<file, lock, phase, process, done, failures>>

\* The debounce ends.  A write that fails is logged.
SaveTimer(p) ==
  /\ db[p].saveTimer /\ (p \in Servers => Alive(p))
  /\ \/ db' = [db EXCEPT ![p] = flushed(@)] /\ file' = written(db[p]) /\ UNCHANGED failures
     \/ db' = [db EXCEPT ![p] = unflushed(@)] /\ fails /\ UNCHANGED file
  /\ UNCHANGED <<lock, phase, process, done, committed, writes>>

-----------------------------------------------------------------------------
(* stop() and the pass over the resources *)

\* A signal for a server of its own; the desktop app serialises its starts
\* and stops, and stops a server whose start failed.  A stop that failed may
\* be asked for again.
Stop(s) ==
  /\ \/ phase[s] = "serving" /\ (s \in Hosted => start[s] \in {"up", "failed"})
     \/ phase[s] = "unstopped" /\ s \in Hosted
  /\ phase' = [phase EXCEPT ![s] = "stopping"]
  /\ scope' = [scope EXCEPT ![s] = close(@)]
  /\ UNCHANGED <<file, lock, db, start, startup, turn, done, committed, writes, failures>>

\* waitForStartupTasks
OnlyTasks(s) == startup[s] = "settled"                             \* mutant
Settled(s) == startup[s] # "running" /\ start[s] \notin {"listening", "announcing"}

\* The pass goes on, or it was the last release and its promise settles.
PassEnds(s) ==
  phase' = [phase EXCEPT ![s] =
    IF scope'[s].closing THEN @
    ELSE IF @ = "failing" THEN "dead"
    ELSE IF scope'[s].refused = {} THEN "stopped" ELSE "unstopped"]

\* One release ends well.  The database is saved, unless the setup never
\* completed, and the marker goes after it.
Release(s) ==
  /\ phase[s] \in {"failing", "stopping"}
  /\ \E e \in scope[s].todo :
       /\ IsNext(scope[s], e)
       /\ e = StartupTasks => Settled(s)
       /\ scope' = [scope EXCEPT ![s] = released(@, e)]
       /\ turn' = IF e = Turn THEN [turn EXCEPT ![s] = FALSE] ELSE turn
       /\ IF e = Database
          THEN /\ lock' = freed(s)
               /\ IF phase[s] = "stopping" /\ db[s].open
                  THEN db' = [db EXCEPT ![s] = closed(flushed(@))] /\ file' = written(db[s])
                  ELSE db' = [db EXCEPT ![s] = closed(@)] /\ UNCHANGED file
          ELSE UNCHANGED <<lock, db, file>>
       /\ PassEnds(s)
  /\ UNCHANGED <<start, startup, done, committed, writes, failures>>

\* One release fails, and the pass goes on with the others.  Closing a
\* database without saving it, and waiting for settled promises, cannot fail.
ReleaseFails(s) ==
  /\ phase[s] \in {"failing", "stopping"} /\ fails
  /\ \E e \in scope[s].todo \ {StartupTasks} :
       /\ IsNext(scope[s], e)
       /\ e = Database => phase[s] = "stopping" /\ (db[s].dirty \/ ~file.exists)
       /\ scope' = [scope EXCEPT ![s] = refused(@, e)]
       /\ db' = IF e = Database THEN [db EXCEPT ![s] = unflushed(@)] ELSE db
       /\ PassEnds(s)
  /\ UNCHANGED <<file, lock, start, startup, turn, done, committed, writes>>

\* The process ends: it crashes or is killed, or index.ts exits after a stop
\* that failed.
Dies(s) ==
  /\ Alive(s)
  /\ phase' = [phase EXCEPT ![s] = "dead"]
  /\ UNCHANGED <<file, lock, db, process, done, committed, writes, failures>>

-----------------------------------------------------------------------------
(* withWritableContext *)

CommandOpens(c) ==
  /\ done[c] = "ready" /\ file.exists /\ ~LiveLock
  /\ db' = [db EXCEPT ![c] = beginAsync(opened(file.rows))]
  /\ done' = [done EXCEPT ![c] = "open"]
  /\ UNCHANGED <<file, lock, phase, process, committed, writes, failures>>

CommandEdits(c) ==
  /\ done[c] = "open"
  /\ db' = [db EXCEPT ![c] = recordWrite(@, c)]
  /\ done' = [done EXCEPT ![c] = "edited"]
  /\ UNCHANGED <<file, lock, phase, process, committed, writes, failures>>

\* The command fails, finds a server when it is about to save, or cannot save.
CommandRefused(c) ==
  /\ done[c] \in {"open", "edited"}
  /\ db' = [db EXCEPT ![c] = closed(endAsync(@, FALSE))]
  /\ done' = [done EXCEPT ![c] = "refused"]
  /\ UNCHANGED <<file, lock, phase, process, committed, writes, failures>>

\* The second check and the save are one stretch of code without an await.
CommandSaves(c) ==
  /\ done[c] = "edited" /\ ~LiveLock
  /\ LET ended == endAsync(db[c], TRUE) IN
       /\ db' = [db EXCEPT ![c] = closed(flushed(ended))]
       /\ committed' = committed \union ended.rows
       /\ file' = written(ended)
  /\ done' = [done EXCEPT ![c] = "saved"]
  /\ UNCHANGED <<lock, phase, process, writes, failures>>

Next ==
  \/ \E s \in Servers :
       \/ Launch(s) \/ OpenDatabase(s) \/ OpenFails(s)
       \/ SetUp(s) \/ SetUpFails(s) \/ Serve(s)
       \/ Listening(s) \/ Announced(s) \/ StartupEnds(s)
       \/ MemberWrites(s)
       \/ Stop(s) \/ Release(s) \/ ReleaseFails(s) \/ Dies(s)
  \/ \E p \in Servers \union Commands : SaveTimer(p)
  \/ \E c \in Commands :
       CommandOpens(c) \/ CommandEdits(c) \/ CommandRefused(c) \/ CommandSaves(c)

Spec == Init /\ [][Next]_vars

\* What a server waits for ends: the bind, the LAN socket, the startup tasks,
\* and each release, which has a deadline of its own.
Fairness ==
  \A s \in Servers :
    /\ WF_vars(Listening(s)) /\ WF_vars(Announced(s)) /\ WF_vars(StartupEnds(s))
    /\ WF_vars(Release(s))

FairSpec == Spec /\ Fairness

-----------------------------------------------------------------------------
(* Properties *)

\* The types; a save is never due on a database that is closed, nor during
\* a transaction that awaits.
TypeOK ==
  /\ file \in [exists: BOOLEAN, rows: SUBSET Change]
  /\ lock \in Servers \union {None}
  /\ db \in [Servers \union Commands -> Connections]
  /\ \A p \in Servers \union Commands : db[p].saveTimer => db[p].open /\ ~db[p].inTransaction
  /\ phase \in [Servers -> Phases]
  /\ start \in [Servers -> {"none", "listening", "announcing", "up", "failed"}]
  /\ startup \in [Servers -> {"none", "running", "settled"}]
  /\ turn \in [Servers -> BOOLEAN]
  /\ scope \in [Servers -> Scopes(Places)]
  /\ done \in [Commands -> {"ready", "open", "edited", "saved", "refused"}]
  /\ committed \subseteq Change
  /\ writes \in 0..MaxWrites /\ failures \in 0..MaxFailures

\* While a server has its database open, the marker names it and the command
\* line sees the directory as taken (server.ts:279).
LockCoversUse == \A s \in Servers : Alive(s) /\ db[s].open => lock = s

\* The file never holds what was not committed: nothing of a setup or of a
\* command that failed, or that still awaits, although the save timer runs
\* and an export takes whatever is in memory.
FileIsCommitted == file.rows \subseteq committed

\* The identity that a server shows its members is in the file before it
\* listens, and stays there while it runs (#821).
IdentityOnFile ==
  \A s \in Servers :
    phase[s] \in {"serving", "stopping"} /\ db[s].open =>
      db[s].rows \cap Servers \subseteq file.rows /\ db[s].rows \cap Servers # {}

\* Startup work never outlives the database and the relay it uses.
StartupSettled ==
  \A s \in Servers : Alive(s) /\ startup[s] = "running" => db[s].open /\ Turn \in scope[s].entries

\* After a stop that failed, only what refused is left, and the database is
\* open exactly when it is what could not be saved, with its marker kept.
UnstoppedKeepsTheRest ==
  \A s \in Servers : phase[s] = "unstopped" =>
    /\ scope[s].entries = scope[s].refused
    /\ db[s].open <=> Database \in scope[s].entries
    /\ turn[s] => Turn \in scope[s].entries

\* What a run uses it holds: the marker and the database, the relay while it
\* starts, and after a stop that failed nothing but what would not go.
HeldWhileUsed == LockCoversUse /\ StartupSettled /\ UnstoppedKeepsTheRest

\* A server that stops closes its database only once the file has all that
\* its members did, and a stop that reports success, the first or a later
\* one, leaves neither the relay, nor the database, nor the marker behind.
StoppedIsSaved ==
  [][\A s \in Servers :
       /\ phase[s] = "stopping" /\ db[s].open /\ ~db'[s].open => db[s].rows \subseteq file'.rows
       /\ phase[s] # "stopped" /\ phase'[s] = "stopped" => ~db'[s].open /\ lock' # s /\ ~turn'[s]]_vars

\* A command never replaces the file of a server that has it in memory.
NoSaveOverServer ==
  [][\A c \in Commands : done[c] # "saved" /\ done'[c] = "saved" =>
       \A s \in Servers : ~(Alive(s) /\ db[s].open)]_vars

\* What the file holds is never lost (context.ts:155).  It does not hold: a
\* command saves the copy it read, over what a server run saved since.
SavedStays == [][file.rows \subseteq file'.rows]_vars

\* A stop ends, whatever the start was waiting for.
StopEnds == \A s \in Servers : phase[s] = "stopping" ~> phase[s] \in {"stopped", "unstopped", "dead"}
=============================================================================
