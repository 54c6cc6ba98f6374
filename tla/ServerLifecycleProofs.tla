----------------------- MODULE ServerLifecycleProofs -----------------------
(* Theorems about ServerLifecycle, for every number of servers, commands,  *)
(* members' changes and failures.                                          *)
EXTENDS ServerLifecycle, TLAPS

-----------------------------------------------------------------------------
(* The inductive invariant.                                                *)

\* At most one server runs on the directory (Launch), so whatever a running
\* server relies on, no other server can change.
OneServer == \A s, t \in Servers : Alive(s) /\ Alive(t) => s = t

\* A transaction can always be taken back to what was committed, and outside
\* one a process holds nothing else: any export is safe then.
RowsKnown ==
  \A p \in Servers \union Commands :
    /\ db[p].base \subseteq committed
    /\ ~db[p].inTransaction => db[p].rows \subseteq committed

\* A command saves by itself or not at all, from inside its transaction.
CommandState ==
  \A c \in Commands :
    /\ ~db[c].saveTimer
    /\ done[c] \in {"open", "edited"} => db[c].open /\ db[c].inTransaction

\* A server that runs is in a transaction exactly while it is set up, and is
\* marked by the lock until it closes its database.
DatabaseState(s) ==
  /\ phase[s] \in {"opening", "setup", "seeded", "serving"} => lock = s
  /\ Alive(s) /\ db[s].open => lock = s
  /\ phase[s] \in {"setup", "seeded"} => db[s].open /\ db[s].inTransaction /\ db[s].dirty
  /\ phase[s] = "seeded" => db[s].rows \cap Servers # {}
  /\ phase[s] = "serving" => db[s].open
  /\ phase[s] \in {"serving", "stopping", "unstopped"} => ~db[s].inTransaction
  /\ phase[s] \in {"stopping", "unstopped"} =>
       /\ db[s].open <=> Database \in scope[s].entries
       /\ ~db[s].open => lock # s

\* Once it serves, its identity is in the file, and so is all it holds unless
\* the connection is dirty.
FileState(s) ==
  phase[s] \in {"serving", "stopping", "unstopped"} /\ db[s].open =>
    /\ db[s].rows \cap Servers \subseteq file.rows /\ db[s].rows \cap Servers # {}
    /\ ~db[s].dirty => db[s].rows \subseteq file.rows

\* The scope has these entries, and no pass runs.
Deferred(sc, E) == sc.entries = E /\ ~sc.closing

\* The scope has the entries of the phase; while a pass runs, an entry is
\* still to be tried or was refused; startup work precedes the release of
\* what it uses, because the pass waits for it.
ScopeState(s) ==
  /\ phase[s] = "off" => Deferred(scope[s], {}) /\ startup[s] = "none"
  /\ phase[s] \in {"opening", "setup", "seeded"} => Deferred(scope[s], {Database})
  /\ phase[s] = "serving" => Deferred(scope[s], Places)
  /\ phase[s] = "stopping" =>
       /\ scope[s].entries = scope[s].todo \union scope[s].refused
       /\ scope[s].todo \cap scope[s].refused = {}
  /\ phase[s] = "unstopped" => Deferred(scope[s], scope[s].refused)
  /\ phase[s] \in {"stopping", "unstopped"} /\ turn[s] => Turn \in scope[s].entries
  /\ startup[s] = "running" =>
       /\ phase[s] \in {"serving", "stopping", "dead"}
       /\ phase[s] = "stopping" => 1..4 \subseteq scope[s].todo

ServerState(s) == DatabaseState(s) /\ FileState(s) /\ ScopeState(s)

\* None of the properties is inductive by itself: the file stays committed
\* because a connection outside a transaction is, the identity stays on it
\* because nobody else writes it, and nobody else does because the lock is
\* kept exactly as long as the scope still has the database.
LifecycleInv ==
  /\ TypeOK /\ OneServer /\ FileIsCommitted /\ RowsKnown /\ CommandState
  /\ \A s \in Servers : ServerState(s)

-----------------------------------------------------------------------------
(* What the operations on a connection and on a scope do to their fields.  *)

\* Identities, what commands add and what members write are different rows.
LEMMA ChangeKinds ==
  /\ Servers \subseteq Change /\ Commands \subseteq Change /\ 1..MaxWrites \subseteq Change
  /\ Servers \cap Commands = {} /\ Servers \cap (1..MaxWrites) = {}
BY LifecycleAssumption DEF Change

\* A connection that just opened is inside a transaction that may be taken
\* back to what the file had.
LEMMA OpenedFields ==
  ASSUME NEW r \in SUBSET Change
  PROVE  LET d == beginAsync(opened(r)) IN
         /\ d \in Connections
         /\ d.open /\ d.dirty /\ d.inTransaction /\ ~d.saveTimer
         /\ d.rows = r /\ d.base = r
<1>1. /\ opened(r) \in Connections
      /\ opened(r).open /\ opened(r).dirty /\ opened(r).rows = r
  BY DEF opened, unopened, Connections
<1>2. QED
  BY <1>1 DEF beginAsync, Connections

\* Only outside a transaction does a write make a save due.
LEMMA RecordFields ==
  ASSUME NEW c \in Connections, NEW x \in Change
  PROVE  LET d == recordWrite(c, x) IN
         /\ d \in Connections
         /\ d.open = c.open /\ d.rows = c.rows \union {x} /\ d.base = c.base
         /\ d.inTransaction = c.inTransaction
         /\ c.inTransaction => d.dirty = c.dirty /\ d.saveTimer = c.saveTimer
         /\ ~c.inTransaction => d.dirty /\ d.saveTimer
BY DEF recordWrite, Connections

\* A transaction ends with all its rows or with those it began with.
LEMMA EndFields ==
  ASSUME NEW c \in Connections, NEW commits \in BOOLEAN
  PROVE  LET d == endAsync(c, commits) IN
         /\ d \in Connections
         /\ d.open = c.open /\ d.base = {} /\ ~d.inTransaction
         /\ d.rows = IF commits THEN c.rows ELSE c.base
         /\ c.dirty => d.dirty
         /\ d.saveTimer = d.dirty
BY DEF endAsync, Connections

\* flush() saves: nothing is dirty and no save is due.
LEMMA FlushFields ==
  ASSUME NEW c \in Connections
  PROVE  /\ flushed(c) \in Connections
         /\ flushed(c).open = c.open /\ flushed(c).rows = c.rows /\ flushed(c).base = c.base
         /\ flushed(c).inTransaction = c.inTransaction
         /\ ~flushed(c).dirty /\ ~flushed(c).saveTimer
BY DEF flushed, Connections

\* A save that fails keeps the connection dirty, with no save due.
LEMMA UnflushFields ==
  ASSUME NEW c \in Connections
  PROVE  /\ unflushed(c) \in Connections
         /\ unflushed(c).open = c.open /\ unflushed(c).rows = c.rows /\ unflushed(c).base = c.base
         /\ unflushed(c).inTransaction = c.inTransaction
         /\ unflushed(c).dirty = c.dirty /\ ~unflushed(c).saveTimer
BY DEF unflushed, Connections

\* close() ends the debounce timer with the connection.
LEMMA CloseFields ==
  ASSUME NEW c \in Connections
  PROVE  /\ closed(c) \in Connections
         /\ ~closed(c).open /\ closed(c).rows = c.rows /\ closed(c).base = c.base
         /\ closed(c).inTransaction = c.inTransaction
         /\ ~closed(c).saveTimer
BY DEF closed, Connections

\* Whatever flushToDisk does, the file holds afterwards what a clean or a
\* written connection holds.
LEMMA WrittenFields ==
  ASSUME NEW c \in Connections, file \in [exists: BOOLEAN, rows: SUBSET Change]
  PROVE  /\ written(c) \in [exists: BOOLEAN, rows: SUBSET Change]
         /\ written(c) = file \/ written(c).rows = c.rows
         /\ c.dirty => written(c).rows = c.rows
BY DEF written, Connections

\* defer() only adds releases.
LEMMA DeferFields ==
  ASSUME NEW sc \in Scopes(Places), NEW E \in SUBSET Places
  PROVE  /\ defer(sc, E) \in Scopes(Places)
         /\ defer(sc, E).entries = sc.entries \union E /\ defer(sc, E).closing = sc.closing
BY DEF defer, Scopes

\* A pass of close() starts with all there is to release.
LEMMA PassBegins ==
  ASSUME NEW sc \in Scopes(Places)
  PROVE  /\ close(sc) \in Scopes(Places)
         /\ close(sc).entries = sc.entries
         /\ ~sc.closing => close(sc).todo = sc.entries /\ close(sc).refused = {}
BY DEF close, Scopes

\* A release that works removes its entry; one that fails keeps it for the next stop.
LEMMA PassTries ==
  ASSUME NEW sc \in Scopes(Places), NEW e \in Places
  PROVE  /\ released(sc, e) \in Scopes(Places) /\ refused(sc, e) \in Scopes(Places)
         /\ released(sc, e).entries = sc.entries \ {e} /\ refused(sc, e).entries = sc.entries
         /\ released(sc, e).refused = sc.refused /\ refused(sc, e).refused = sc.refused \union {e}
         /\ released(sc, e).todo = sc.todo \ {e} /\ refused(sc, e).todo = sc.todo \ {e}
         /\ released(sc, e).closing <=> sc.todo # {e}
         /\ refused(sc, e).closing <=> sc.todo # {e}
<1>1. /\ tried(sc, e) \in Scopes(Places) /\ tried(sc, e).entries = sc.entries
      /\ tried(sc, e).todo = sc.todo \ {e} /\ tried(sc, e).refused = sc.refused
      /\ tried(sc, e).closing <=> sc.todo # {e}
  BY DEF tried, Scopes
<1>2. QED
  BY <1>1 DEF released, refused, Scopes

-----------------------------------------------------------------------------
(* Steps of a server.                                                      *)

\* A step of s leaves the other processes alone.
OnlyServer(s) ==
  /\ \A t \in Servers \ {s} : phase'[t] = phase[t] /\ scope'[t] = scope[t] /\ startup'[t] = startup[t]
  /\ \A p \in (Servers \union Commands) \ {s} : db'[p] = db[p]
  /\ UNCHANGED done /\ committed \subseteq committed'

\* What a step of s has to show: no other server runs, so nothing that it
\* changes matters to them.
LEMMA ServerStep ==
  ASSUME LifecycleInv, NEW s \in Servers, \A t \in Servers \ {s} : ~Alive(t), OnlyServer(s),
         TypeOK', file'.rows \subseteq committed',
         db'[s].base \subseteq committed',
         ~db'[s].inTransaction => db'[s].rows \subseteq committed',
         ServerState(s)'
  PROVE  LifecycleInv'
<1>. USE ChangeKinds DEF LifecycleInv, OnlyServer
<1>1. \A t \in Servers \ {s} : ~Alive(t)'
  BY DEF Alive
<1>2. OneServer'
  BY <1>1 DEF OneServer
<1>3. RowsKnown'
  BY DEF RowsKnown
<1>4. CommandState'
  BY DEF CommandState
<1>5. ASSUME NEW t \in Servers \ {s} PROVE ServerState(t)'
  <2>1. phase[t] \notin {"opening", "setup", "seeded", "serving", "failing", "stopping", "unstopped"}
    BY DEF Alive, TypeOK, Phases
  <2>2. phase'[t] = phase[t] /\ scope'[t] = scope[t] /\ startup'[t] = startup[t] /\ ServerState(t)
    OBVIOUS
  <2>3. DatabaseState(t)' /\ FileState(t)'
    BY <1>1, <2>1, <2>2 DEF DatabaseState, FileState
  <2>4. ScopeState(t)'
    BY <2>1, <2>2 DEF ServerState, ScopeState, Deferred
  <2>5. QED
    BY <2>3, <2>4 DEF ServerState
<1>6. QED
  BY <1>2, <1>3, <1>4, <1>5 DEF FileIsCommitted

\* While a server runs, it is the only one.
LEMMA AliveAlone ==
  ASSUME LifecycleInv, NEW s \in Servers, Alive(s)
  PROVE  \A t \in Servers \ {s} : ~Alive(t)
BY DEF LifecycleInv, OneServer

\* A server that begins has nothing yet but the directory.
LEMMA LaunchStep ==
  ASSUME LifecycleInv, NEW s \in Servers, Launch(s)
  PROVE  LifecycleInv'
<1>. USE DEF LifecycleInv
<1>1. Deferred(scope[s], {}) /\ startup[s] = "none" /\ phase[s] = "off"
  BY DEF Launch, ServerState, ScopeState
<1>2. Deferred(scope[s], {Database})' /\ scope'[s] \in Scopes(Places)
  <2>1. scope'[s] = defer(scope[s], {Database}) /\ scope[s] \in Scopes(Places)
    BY DEF Launch, TypeOK
  <2>2. QED
    BY <1>1, <2>1, DeferFields DEF Deferred, Places, Database
<1>3. TypeOK'
  BY <1>2 DEF Launch, TypeOK, acquired, Phases
<1>4. OnlyServer(s)
  BY DEF Launch, OnlyServer, TypeOK
<1>5. phase'[s] = "opening" /\ lock' = s /\ startup'[s] = "none" /\ db'[s] = db[s]
  BY <1>1 DEF Launch, TypeOK, acquired
<1>6. ServerState(s)'
  BY <1>2, <1>5 DEF ServerState, DatabaseState, FileState, ScopeState, Alive, Deferred
<1>7. \A t \in Servers \ {s} : ~Alive(t)
  BY DEF Launch
<1>8. QED
  BY <1>3, <1>4, <1>6, <1>7, ServerStep DEF Launch, FileIsCommitted, RowsKnown

\* What is opened is what the file has: the marker is written with it.
LEMMA OpenDatabaseStep ==
  ASSUME LifecycleInv, NEW s \in Servers, OpenDatabase(s)
  PROVE  LifecycleInv'
<1>. USE DEF LifecycleInv
<1>1. Alive(s) /\ phase[s] = "opening" /\ file.rows \subseteq Change /\ lock = s
  BY DEF OpenDatabase, Alive, TypeOK, ServerState, DatabaseState
<1>2. /\ db'[s] = beginAsync(opened(file.rows)) /\ phase'[s] = "setup" /\ file'.rows = file.rows
      /\ UNCHANGED <<lock, startup, scope, committed>>
  BY DEF OpenDatabase, TypeOK, process
<1>3. TypeOK'
  <2>1. file' \in [exists: BOOLEAN, rows: SUBSET Change]
    BY DEF OpenDatabase, TypeOK
  <2>2. db' \in [Servers \union Commands -> Connections]
    BY <1>1, OpenedFields DEF OpenDatabase, TypeOK
  <2>3. \A p \in Servers \union Commands : db'[p].saveTimer => db'[p].open /\ ~db'[p].inTransaction
    BY <1>1, OpenedFields DEF OpenDatabase, TypeOK
  <2>4. QED
    BY <2>1, <2>2, <2>3 DEF OpenDatabase, TypeOK, Phases, process
<1>4. OnlyServer(s)
  BY DEF OpenDatabase, OnlyServer, TypeOK, process
<1>5. ServerState(s)'
  BY <1>1, <1>2, OpenedFields DEF ServerState, DatabaseState, FileState, ScopeState, Alive, Deferred
<1>6. file'.rows \subseteq committed' /\ db'[s].base \subseteq committed' /\ db'[s].inTransaction
  BY <1>1, <1>2, OpenedFields DEF FileIsCommitted
<1>7. QED
  BY <1>1, <1>3, <1>4, <1>5, <1>6, AliveAlone, ServerStep

\* What fails is within its bound.
LEMMA FailsType ==
  ASSUME TypeOK, fails
  PROVE  failures' \in 0..MaxFailures
BY LifecycleAssumption DEF fails, TypeOK

\* An open that fails begins to release what it had taken.
LEMMA OpenFailsStep ==
  ASSUME LifecycleInv, NEW s \in Servers, OpenFails(s)
  PROVE  LifecycleInv'
<1>. USE DEF LifecycleInv
<1>1. Alive(s) /\ phase[s] = "opening" /\ ServerState(s)
  BY DEF OpenFails, Alive
<1>2. phase'[s] = "failing" /\ UNCHANGED <<file, lock, db, startup, committed>>
  BY DEF OpenFails, TypeOK
<1>3. TypeOK'
  <2>1. close(scope[s]) \in Scopes(Places)
    BY PassBegins DEF TypeOK
  <2>2. QED
    BY <2>1, FailsType DEF OpenFails, TypeOK, Phases
<1>4. OnlyServer(s)
  BY DEF OpenFails, OnlyServer, TypeOK
<1>5. ServerState(s)'
  BY <1>1, <1>2 DEF ServerState, DatabaseState, FileState, ScopeState, Alive
<1>6. QED
  BY <1>1, <1>2, <1>3, <1>4, <1>5, AliveAlone, ServerStep DEF FileIsCommitted, RowsKnown

\* A step that only touches its own connection and keeps it sound.
LEMMA ConnectionTypes ==
  ASSUME TypeOK, NEW p \in Servers \union Commands, NEW d \in Connections,
         d.saveTimer => d.open /\ ~d.inTransaction,
         db' = [db EXCEPT ![p] = d]
  PROVE  /\ db' \in [Servers \union Commands -> Connections]
         /\ \A q \in Servers \union Commands : db'[q].saveTimer => db'[q].open /\ ~db'[q].inTransaction
         /\ db'[p] = d
BY DEF TypeOK

\* The identity is made inside a transaction that still awaits.
LEMMA SetUpStep ==
  ASSUME LifecycleInv, NEW s \in Servers, SetUp(s)
  PROVE  LifecycleInv'
<1>. USE DEF LifecycleInv
<1>. DEFINE d == IF db[s].rows \cap Servers = {} THEN recordWrite(db[s], s) ELSE db[s]
<1>1. /\ Alive(s) /\ phase[s] = "setup" /\ ServerState(s) /\ db[s] \in Connections
      /\ db[s].open /\ db[s].inTransaction /\ db[s].dirty
  BY DEF SetUp, Alive, TypeOK, ServerState, DatabaseState
<1>2. /\ d \in Connections /\ d.rows \cap Servers # {} /\ d.base = db[s].base
      /\ d.open /\ d.inTransaction /\ d.dirty /\ d.saveTimer = db[s].saveTimer
  BY <1>1, RecordFields, ChangeKinds
<1>3. db' = [db EXCEPT ![s] = d]
  BY DEF SetUp
<1>4. db'[s] = d /\ phase'[s] = "seeded" /\ UNCHANGED <<file, lock, scope, startup, committed>>
  BY <1>3 DEF SetUp, TypeOK, process
<1>5. TypeOK'
  <2>1. d.saveTimer => d.open /\ ~d.inTransaction
    BY <1>1, <1>2 DEF TypeOK
  <2>2. QED
    BY <1>2, <1>3, <2>1, ConnectionTypes DEF SetUp, TypeOK, Phases, process
<1>6. OnlyServer(s)
  BY DEF SetUp, OnlyServer, TypeOK, process
<1>7. ServerState(s)'
  BY <1>1, <1>2, <1>4 DEF ServerState, DatabaseState, FileState, ScopeState, Alive
<1>8. QED
  BY <1>1, <1>2, <1>4, <1>5, <1>6, <1>7, AliveAlone, ServerStep DEF FileIsCommitted, RowsKnown

\* A setup that fails rolls its rows back before anything is released.
LEMMA SetUpFailsStep ==
  ASSUME LifecycleInv, NEW s \in Servers, SetUpFails(s)
  PROVE  LifecycleInv'
<1>. USE DEF LifecycleInv
<1>. DEFINE d == endAsync(db[s], FALSE)
<1>1. /\ Alive(s) /\ phase[s] \in {"setup", "seeded"} /\ ServerState(s) /\ db[s] \in Connections
      /\ db[s].open /\ lock = s
  BY DEF SetUpFails, Alive, TypeOK, ServerState, DatabaseState
<1>2. d \in Connections /\ d.open /\ ~d.inTransaction /\ d.base = {} /\ d.rows = db[s].base
  BY <1>1, EndFields
<1>3. db' = [db EXCEPT ![s] = d]
  BY DEF SetUpFails
<1>4. db'[s] = d /\ phase'[s] = "failing" /\ UNCHANGED <<file, lock, startup, committed>>
  BY <1>3 DEF SetUpFails, TypeOK
<1>5. scope' \in [Servers -> Scopes(Places)]
  <2>1. PICK last \in Places : scope' = [scope EXCEPT ![s] = close(defer(@, 1..last))]
    BY DEF SetUpFails
  <2>2. 1..last \in SUBSET Places /\ scope[s] \in Scopes(Places)
    BY DEF Places, TypeOK
  <2>3. close(defer(scope[s], 1..last)) \in Scopes(Places)
    BY <2>2, DeferFields, PassBegins
  <2>4. QED
    BY <2>1, <2>3 DEF TypeOK
<1>6. TypeOK'
  <2>1. failures' \in 0..MaxFailures
    BY FailsType DEF SetUpFails
  <2>2. /\ db' \in [Servers \union Commands -> Connections]
        /\ \A q \in Servers \union Commands : db'[q].saveTimer => db'[q].open /\ ~db'[q].inTransaction
    BY <1>2, <1>3, ConnectionTypes
  <2>3. QED
    BY <1>5, <2>1, <2>2 DEF SetUpFails, TypeOK, Phases
<1>7. OnlyServer(s)
  BY DEF SetUpFails, OnlyServer, TypeOK
<1>8. ServerState(s)'
  BY <1>1, <1>2, <1>4 DEF ServerState, DatabaseState, FileState, ScopeState, Alive
<1>9. QED
  BY <1>1, <1>2, <1>4, <1>6, <1>7, <1>8, AliveAlone, ServerStep DEF FileIsCommitted, RowsKnown

\* The commit ends the transaction with rows that are all committed now, and
\* the file is written with them, because the connection is dirty.
LEMMA ServeStep ==
  ASSUME LifecycleInv, NEW s \in Servers, Serve(s)
  PROVE  LifecycleInv'
<1>. USE DEF LifecycleInv
<1>. DEFINE ended == endAsync(db[s], TRUE)
<1>1. /\ Alive(s) /\ phase[s] = "seeded" /\ ServerState(s) /\ db[s] \in Connections
      /\ db[s].open /\ db[s].dirty /\ lock = s /\ db[s].rows \cap Servers # {}
      /\ Deferred(scope[s], {Database}) /\ scope[s] \in Scopes(Places)
  BY DEF Serve, Alive, TypeOK, ServerState, DatabaseState, ScopeState
<1>2. /\ ended \in Connections /\ ended.open /\ ~ended.inTransaction /\ ended.base = {}
      /\ ended.rows = db[s].rows /\ ended.dirty
  BY <1>1, EndFields
<1>3. committed' = committed \union ended.rows /\ UNCHANGED <<lock, startup, turn, done, writes>>
  BY DEF Serve
<1>4. defer(scope[s], Places) \in Scopes(Places) /\ Deferred(defer(scope[s], Places), Places)
  <2>1. {Database} \union Places = Places
    BY DEF Database, Places
  <2>2. Places \in SUBSET Places
    OBVIOUS
  <2>3. QED
    BY <1>1, <2>1, <2>2, DeferFields DEF Deferred
<1>5. CASE /\ db' = [db EXCEPT ![s] = flushed(ended)]
           /\ file' = written(ended)
           /\ phase' = [phase EXCEPT ![s] = "serving"]
           /\ start' = [start EXCEPT ![s] = "listening"]
           /\ scope' = [scope EXCEPT ![s] = defer(@, Places)]
           /\ UNCHANGED failures
  <2>1. /\ flushed(ended) \in Connections /\ flushed(ended).open /\ ~flushed(ended).inTransaction
        /\ flushed(ended).rows = db[s].rows /\ ~flushed(ended).saveTimer
        /\ flushed(ended).base = {}
    BY <1>1, <1>2, FlushFields
  <2>2. file' \in [exists: BOOLEAN, rows: SUBSET Change] /\ file'.rows = db[s].rows
    BY <1>2, <1>5, WrittenFields DEF TypeOK
  <2>3. TypeOK'
    BY <1>1, <1>2, <1>3, <1>4, <1>5, <2>1, <2>2, ConnectionTypes DEF TypeOK, Phases, Connections
  <2>4. OnlyServer(s)
    BY <1>3, <1>5 DEF OnlyServer, TypeOK
  <2>5. /\ db'[s] = flushed(ended) /\ phase'[s] = "serving"
        /\ scope'[s] = defer(scope[s], Places)
    BY <1>5 DEF TypeOK
  <2>6. ServerState(s)'
    BY <1>1, <1>3, <1>4, <2>1, <2>2, <2>5
    DEF ServerState, DatabaseState, FileState, ScopeState, Alive, Deferred
  <2>7. QED
    BY <1>1, <1>2, <1>3, <2>1, <2>2, <2>3, <2>4, <2>5, <2>6, AliveAlone, ServerStep
<1>6. CASE /\ fails
           /\ db' = [db EXCEPT ![s] = unflushed(ended)]
           /\ phase' = [phase EXCEPT ![s] = "failing"]
           /\ scope' = [scope EXCEPT ![s] = close(defer(@, Places))]
           /\ UNCHANGED <<file, start>>
  <2>1. /\ unflushed(ended) \in Connections /\ unflushed(ended).open
        /\ ~unflushed(ended).inTransaction /\ unflushed(ended).rows = db[s].rows
        /\ ~unflushed(ended).saveTimer /\ unflushed(ended).base = {}
    BY <1>1, <1>2, UnflushFields
  <2>2. close(defer(scope[s], Places)) \in Scopes(Places)
    BY <1>4, PassBegins
  <2>3. TypeOK'
    <3>1. failures' \in 0..MaxFailures
      BY <1>6, FailsType
    <3>2. /\ db' \in [Servers \union Commands -> Connections]
          /\ \A q \in Servers \union Commands : db'[q].saveTimer => db'[q].open /\ ~db'[q].inTransaction
      BY <1>6, <2>1, ConnectionTypes
    <3>3. committed' \subseteq Change
      BY <1>1, <1>2, <1>3 DEF TypeOK, Connections
    <3>4. QED
      BY <1>3, <1>6, <2>2, <3>1, <3>2, <3>3 DEF TypeOK, Phases
  <2>4. OnlyServer(s)
    BY <1>3, <1>6 DEF OnlyServer, TypeOK
  <2>5. db'[s] = unflushed(ended) /\ phase'[s] = "failing"
    BY <1>6 DEF TypeOK
  <2>6. ServerState(s)'
    BY <1>1, <1>3, <2>1, <2>5
    DEF ServerState, DatabaseState, FileState, ScopeState, Alive
  <2>7. file'.rows \subseteq committed'
    BY <1>3, <1>6 DEF FileIsCommitted
  <2>8. QED
    BY <1>1, <1>2, <1>3, <2>1, <2>3, <2>4, <2>5, <2>6, <2>7, AliveAlone, ServerStep
<1>7. QED
  BY <1>5, <1>6 DEF Serve

\* Nothing is asked of a server that is dead but that its connection was sound.
LEMMA DeadStep ==
  ASSUME LifecycleInv, NEW s \in Servers, Alive(s), phase' = [phase EXCEPT ![s] = "dead"],
         UNCHANGED <<file, db, committed, done, scope, startup>>, TypeOK'
  PROVE  LifecycleInv'
<1>. USE DEF LifecycleInv
<1>1. phase'[s] = "dead" /\ OnlyServer(s)
  BY DEF TypeOK, OnlyServer
<1>2. ServerState(s)'
  BY <1>1 DEF ServerState, DatabaseState, FileState, ScopeState, Alive
<1>3. QED
  BY <1>1, <1>2, AliveAlone, ServerStep DEF FileIsCommitted, RowsKnown

\* What happens beside the database and the scope, while the phase stays.
LEMMA SamePhaseStep ==
  ASSUME LifecycleInv, NEW s \in Servers, Alive(s),
         UNCHANGED <<file, lock, db, phase, scope, done, committed>>,
         \A t \in Servers \ {s} : startup'[t] = startup[t], TypeOK', ScopeState(s)'
  PROVE  LifecycleInv'
<1>. USE DEF LifecycleInv
<1>1. OnlyServer(s)
  BY DEF OnlyServer
<1>2. DatabaseState(s)' /\ FileState(s)'
  BY DEF ServerState, DatabaseState, FileState, Alive
<1>3. QED
  BY <1>1, <1>2, AliveAlone, ServerStep DEF ServerState, FileIsCommitted, RowsKnown

\* Each step of start() defers the release of what it began.
LEMMA StartStep ==
  ASSUME LifecycleInv, NEW s \in Servers, Listening(s) \/ Announced(s)
  PROVE  LifecycleInv'
<1>. USE DEF LifecycleInv
<1>1. Alive(s) /\ phase[s] \in {"serving", "stopping"} /\ ServerState(s)
  BY DEF Listening, Announced, Alive
<1>2. UNCHANGED <<file, lock, db, turn, scope, done, committed, writes>>
  BY DEF Listening, Announced
<1>3. failures' \in 0..MaxFailures
  BY FailsType DEF Listening, Announced, TypeOK
<1>4. CASE Rejected(s) /\ UNCHANGED startup
  <2>1. TypeOK'
    BY <1>2, <1>3, <1>4 DEF Rejected, TypeOK, Phases
  <2>2. CASE s \in Hosted
    <3>1. UNCHANGED phase
      BY <1>4, <2>2 DEF Rejected, TypeOK
    <3>2. ScopeState(s)'
      BY <1>1, <1>2, <1>4, <3>1 DEF ServerState, ScopeState, Deferred
    <3>3. QED
      BY <1>1, <1>2, <1>4, <2>1, <3>1, <3>2, SamePhaseStep
  <2>3. CASE s \notin Hosted
    BY <1>1, <1>2, <1>4, <2>1, <2>3, DeadStep DEF Rejected
  <2>4. QED
    BY <2>2, <2>3
<1>5. CASE /\ phase[s] = "serving" /\ startup' = [startup EXCEPT ![s] = "running"]
           /\ start' = [start EXCEPT ![s] = "announcing"]
           /\ UNCHANGED phase
  <2>1. TypeOK'
    BY <1>2, <1>3, <1>5 DEF TypeOK
  <2>2. ScopeState(s)'
    BY <1>1, <1>2, <1>5 DEF ServerState, ScopeState, Deferred
  <2>3. QED
    BY <1>1, <1>2, <1>5, <2>1, <2>2, SamePhaseStep DEF TypeOK
<1>6. CASE start' = [start EXCEPT ![s] = "up"] /\ UNCHANGED <<phase, startup>>
  <2>1. TypeOK'
    BY <1>2, <1>3, <1>6 DEF TypeOK
  <2>2. ScopeState(s)'
    BY <1>1, <1>2, <1>6 DEF ServerState, ScopeState, Deferred
  <2>3. QED
    BY <1>1, <1>2, <1>6, <2>1, <2>2, SamePhaseStep
<1>7. QED
  BY <1>4, <1>5, <1>6 DEF Listening, Announced

\* Startup work may end late, while a stop waits for it.
LEMMA StartupEndsStep ==
  ASSUME LifecycleInv, NEW s \in Servers, StartupEnds(s)
  PROVE  LifecycleInv'
<1>. USE DEF LifecycleInv
<1>1. Alive(s) /\ ServerState(s) /\ startup[s] = "running"
  BY DEF StartupEnds
<1>2. startup'[s] = "settled" /\ UNCHANGED <<file, lock, db, phase, scope, done, committed>>
  BY DEF StartupEnds, TypeOK
<1>3. TypeOK'
  BY DEF StartupEnds, TypeOK
<1>4. phase[s] = "stopping" => Turn \in scope[s].entries
  BY <1>1 DEF ServerState, ScopeState, Turn
<1>5. ScopeState(s)'
  BY <1>1, <1>2, <1>4 DEF ServerState, ScopeState, Deferred, Alive
<1>6. QED
  BY <1>1, <1>2, <1>3, <1>5, SamePhaseStep DEF StartupEnds, TypeOK

\* A change of a member is committed at once and saved later.
LEMMA MemberWritesStep ==
  ASSUME LifecycleInv, NEW s \in Servers, MemberWrites(s)
  PROVE  LifecycleInv'
<1>. USE DEF LifecycleInv
<1>. DEFINE x == writes + 1  d == recordWrite(db[s], x)
<1>1. Alive(s) /\ phase[s] \in {"serving", "stopping"} /\ ServerState(s) /\ db[s] \in Connections
  BY DEF MemberWrites, Alive, TypeOK
<1>2. x \in 1..MaxWrites /\ x \in Change /\ x \notin Servers
  BY ChangeKinds, LifecycleAssumption DEF MemberWrites, TypeOK
<1>3. db[s].open
  <2>1. phase[s] = "stopping" => Database \in scope[s].entries
    BY <1>1 DEF MemberWrites, ServerState, ScopeState, Database, Places
  <2>2. QED
    BY <1>1, <2>1 DEF ServerState, DatabaseState
<1>4. ~db[s].inTransaction /\ lock = s
  BY <1>1, <1>3 DEF ServerState, DatabaseState
<1>5. /\ d \in Connections /\ d.open /\ d.dirty /\ d.saveTimer /\ ~d.inTransaction
      /\ d.rows = db[s].rows \union {x} /\ d.base = db[s].base
  BY <1>1, <1>2, <1>3, <1>4, RecordFields
<1>6. db' = [db EXCEPT ![s] = d] /\ committed' = committed \union {x}
  BY DEF MemberWrites
<1>7. UNCHANGED <<file, lock, phase, scope, startup, turn, done>> /\ db'[s] = d
  BY <1>6 DEF MemberWrites, process, TypeOK
<1>8. TypeOK'
  BY <1>2, <1>5, <1>6, ConnectionTypes DEF MemberWrites, TypeOK, process
<1>9. OnlyServer(s)
  BY <1>6, <1>7 DEF OnlyServer, TypeOK
<1>10. d.rows \cap Servers = db[s].rows \cap Servers
  BY <1>2, <1>5
<1>11. ServerState(s)'
  <2>1. DatabaseState(s)' /\ ScopeState(s)'
    BY <1>1, <1>3, <1>5, <1>7 DEF ServerState, DatabaseState, ScopeState, Deferred, Alive
  <2>2. FileState(s)'
    BY <1>1, <1>3, <1>5, <1>7, <1>10 DEF ServerState, FileState
  <2>3. QED
    BY <2>1, <2>2 DEF ServerState
<1>12. d.base \subseteq committed' /\ d.rows \subseteq committed' /\ file'.rows \subseteq committed'
  BY <1>4, <1>5, <1>6, <1>7 DEF RowsKnown, FileIsCommitted
<1>13. QED
  BY <1>1, <1>7, <1>8, <1>9, <1>11, <1>12, AliveAlone, ServerStep

\* The save timer runs outside a transaction only, so what it exports is
\* committed, and a clean connection has all it holds in the file.
LEMMA SaveTimerStep ==
  ASSUME LifecycleInv, NEW p \in Servers \union Commands, SaveTimer(p)
  PROVE  LifecycleInv'
<1>. USE DEF LifecycleInv
<1>1. p \in Servers /\ Alive(p) /\ ServerState(p)
  BY DEF SaveTimer, CommandState
<1>2. /\ db[p] \in Connections /\ db[p].open /\ ~db[p].inTransaction
      /\ db[p].rows \subseteq committed /\ db[p].base \subseteq committed
  BY DEF SaveTimer, TypeOK, RowsKnown
<1>3. UNCHANGED <<lock, phase, start, startup, turn, scope, done, committed, writes>>
  BY DEF SaveTimer, process
<1>4. ASSUME NEW d \in Connections, d.open, ~d.inTransaction, ~d.saveTimer,
             d.rows = db[p].rows, d.base = db[p].base, db' = [db EXCEPT ![p] = d],
             phase[p] \in {"serving", "stopping", "unstopped"} /\ ~d.dirty => d.rows \subseteq file'.rows,
             file' \in [exists: BOOLEAN, rows: SUBSET Change],
             file' = file \/ file'.rows = db[p].rows,
             failures' \in 0..MaxFailures
      PROVE  LifecycleInv'
  <2>1. db'[p] = d
    BY <1>1, <1>4 DEF TypeOK
  <2>2. TypeOK'
    BY <1>3, <1>4, ConnectionTypes DEF TypeOK
  <2>3. OnlyServer(p)
    BY <1>1, <1>3, <1>4 DEF OnlyServer, TypeOK
  <2>4. DatabaseState(p)' /\ ScopeState(p)'
    <3>1. DatabaseState(p)'
      <4>1. phase[p] \notin {"setup", "seeded"}
        BY <1>1, <1>2 DEF ServerState, DatabaseState
      <4>2. QED
        BY <1>1, <1>2, <1>3, <1>4, <2>1, <4>1 DEF ServerState, DatabaseState, Alive
    <3>2. ScopeState(p)'
      BY <1>1, <1>3 DEF ServerState, ScopeState, Deferred
    <3>3. QED
      BY <3>1, <3>2
  <2>5. FileState(p)'
    BY <1>1, <1>2, <1>3, <1>4, <2>1 DEF ServerState, FileState
  <2>6. file'.rows \subseteq committed'
    BY <1>2, <1>3, <1>4 DEF FileIsCommitted
  <2>7. QED
    BY <1>1, <1>2, <1>3, <1>4, <2>1, <2>2, <2>3, <2>4, <2>5, <2>6, AliveAlone, ServerStep
    DEF ServerState
<1>5. CASE db' = [db EXCEPT ![p] = flushed(@)] /\ file' = written(db[p]) /\ UNCHANGED failures
  <2>1. phase[p] \in {"serving", "stopping", "unstopped"} => db[p].rows \subseteq file'.rows
    BY <1>1, <1>2, <1>5, WrittenFields DEF ServerState, FileState, TypeOK
  <2>2. file' \in [exists: BOOLEAN, rows: SUBSET Change] /\ (file' = file \/ file'.rows = db[p].rows)
    BY <1>2, <1>5, WrittenFields DEF TypeOK
  <2>3. failures' \in 0..MaxFailures
    BY <1>5 DEF TypeOK
  <2>4. /\ flushed(db[p]) \in Connections /\ flushed(db[p]).open /\ ~flushed(db[p]).inTransaction
        /\ ~flushed(db[p]).saveTimer /\ flushed(db[p]).rows = db[p].rows
        /\ flushed(db[p]).base = db[p].base
    BY <1>2, FlushFields
  <2>5. QED
    BY <1>4, <1>5, <2>1, <2>2, <2>3, <2>4
<1>6. CASE db' = [db EXCEPT ![p] = unflushed(@)] /\ fails /\ UNCHANGED file
  <2>1. /\ unflushed(db[p]) \in Connections /\ unflushed(db[p]).open
        /\ ~unflushed(db[p]).inTransaction /\ unflushed(db[p]).dirty = db[p].dirty
        /\ ~unflushed(db[p]).saveTimer /\ unflushed(db[p]).rows = db[p].rows
        /\ unflushed(db[p]).base = db[p].base
    BY <1>2, UnflushFields
  <2>2. phase[p] \in {"serving", "stopping", "unstopped"} /\ ~unflushed(db[p]).dirty
          => unflushed(db[p]).rows \subseteq file'.rows
    BY <1>1, <1>2, <1>6, <2>1 DEF ServerState, FileState
  <2>3. failures' \in 0..MaxFailures /\ file' \in [exists: BOOLEAN, rows: SUBSET Change]
    BY <1>6, FailsType DEF TypeOK
  <2>4. QED
    BY <1>4, <1>6, <2>1, <2>2, <2>3
<1>7. QED
  BY <1>5, <1>6 DEF SaveTimer

\* stop() begins a pass over all that is deferred.
LEMMA StopStep ==
  ASSUME LifecycleInv, NEW s \in Servers, Stop(s)
  PROVE  LifecycleInv'
<1>. USE DEF LifecycleInv
<1>1. Alive(s) /\ phase[s] \in {"serving", "unstopped"} /\ ServerState(s)
  BY DEF Stop, Alive
<1>2. scope[s] \in Scopes(Places) /\ ~scope[s].closing
  BY <1>1 DEF TypeOK, ServerState, ScopeState, Deferred
<1>3. /\ scope'[s] = close(scope[s]) /\ phase'[s] = "stopping"
      /\ UNCHANGED <<file, lock, db, startup, turn, done, committed>>
  BY DEF Stop, TypeOK
<1>4. /\ scope'[s] \in Scopes(Places) /\ scope'[s].entries = scope[s].entries
      /\ scope'[s].todo = scope[s].entries /\ scope'[s].refused = {}
  BY <1>2, <1>3, PassBegins
<1>5. TypeOK'
  BY <1>3, <1>4 DEF Stop, TypeOK, Phases
<1>6. OnlyServer(s)
  BY DEF Stop, OnlyServer, TypeOK
<1>7. ServerState(s)'
  <2>1. phase[s] = "serving" => scope[s].entries = Places
    BY <1>1 DEF ServerState, ScopeState, Deferred
  <2>2. DatabaseState(s)'
    BY <1>1, <1>3, <1>4, <2>1
    DEF ServerState, DatabaseState, Alive, Places, Database
  <2>3. FileState(s)'
    BY <1>1, <1>3 DEF ServerState, FileState
  <2>4. startup[s] = "running" => 1..4 \subseteq scope'[s].todo
    BY <1>1, <1>4, <2>1 DEF ServerState, ScopeState, Places
  <2>5. turn[s] => Turn \in scope'[s].entries
    BY <1>1, <1>4, <2>1 DEF ServerState, ScopeState, Places, Turn
  <2>6. ScopeState(s)'
    BY <1>1, <1>3, <1>4, <2>4, <2>5 DEF ScopeState
  <2>7. QED
    BY <2>2, <2>3, <2>6 DEF ServerState
<1>8. QED
  BY <1>1, <1>3, <1>5, <1>6, <1>7, AliveAlone, ServerStep DEF FileIsCommitted, RowsKnown

\* A server that dies leaves its lock and its file as they are.
LEMMA DiesStep ==
  ASSUME LifecycleInv, NEW s \in Servers, Dies(s)
  PROVE  LifecycleInv'
<1>1. TypeOK'
  BY DEF LifecycleInv, Dies, TypeOK, Phases, process
<1>2. QED
  BY <1>1, DeadStep DEF Dies, process

-----------------------------------------------------------------------------
(* The pass over the resources.                                            *)

\* What one entry of the pass does to the scope and to the phase, whether its
\* release ended well (r is "released") or not.  An entry is tried after all
\* those deferred later, so startup work has settled when what it uses goes.
LEMMA PassStep ==
  ASSUME LifecycleInv, NEW s \in Servers, phase[s] \in {"failing", "stopping"},
         NEW e \in Places, IsNext(scope[s], e), PassEnds(s), UNCHANGED startup,
         NEW well \in BOOLEAN,
         scope' = [scope EXCEPT ![s] = IF well THEN released(@, e) ELSE refused(@, e)],
         e = StartupTasks => well /\ Settled(s),
         turn'[s] => turn[s] /\ ~(well /\ e = Turn)
  PROVE  /\ phase' \in [Servers -> Phases] /\ scope' \in [Servers -> Scopes(Places)]
         /\ \A t \in Servers \ {s} : phase'[t] = phase[t] /\ scope'[t] = scope[t]
         /\ phase[s] = "failing" => phase'[s] \in {"failing", "dead"}
         /\ phase[s] = "stopping" => phase'[s] \in {"stopping", "stopped", "unstopped"}
         /\ scope'[s].entries = IF well THEN scope[s].entries \ {e} ELSE scope[s].entries
         /\ phase'[s] = "stopped" => scope'[s].entries = {}
         /\ ScopeState(s)'
<1>. USE DEF LifecycleInv
<1>. DEFINE sc == scope[s]
<1>1. /\ sc \in Scopes(Places) /\ e \in sc.todo /\ \A f \in sc.todo : f <= e
      /\ sc.todo \subseteq Places
  BY DEF TypeOK, IsNext, Scopes
<1>2. ScopeState(s)
  BY DEF ServerState
<1>3. scope'[s] = IF well THEN released(sc, e) ELSE refused(sc, e)
  BY DEF TypeOK
<1>4. /\ scope'[s] \in Scopes(Places)
      /\ scope'[s].entries = IF well THEN sc.entries \ {e} ELSE sc.entries
      /\ scope'[s].refused = IF well THEN sc.refused ELSE sc.refused \union {e}
      /\ scope'[s].todo = sc.todo \ {e}
      /\ scope'[s].closing <=> sc.todo # {e}
  <2>1. /\ released(sc, e) \in Scopes(Places) /\ refused(sc, e) \in Scopes(Places)
        /\ released(sc, e).entries = sc.entries \ {e} /\ refused(sc, e).entries = sc.entries
        /\ released(sc, e).refused = sc.refused /\ refused(sc, e).refused = sc.refused \union {e}
        /\ released(sc, e).todo = sc.todo \ {e} /\ refused(sc, e).todo = sc.todo \ {e}
        /\ released(sc, e).closing <=> sc.todo # {e}
        /\ refused(sc, e).closing <=> sc.todo # {e}
    BY <1>1, PassTries
  <2>2. \/ scope'[s] = released(sc, e) /\ well
        \/ scope'[s] = refused(sc, e) /\ ~well
    BY <1>3
  <2>3. QED
    BY <2>1, <2>2
<1>5. phase'[s] = IF sc.todo # {e} THEN phase[s]
                  ELSE IF phase[s] = "failing" THEN "dead"
                  ELSE IF scope'[s].refused = {} THEN "stopped" ELSE "unstopped"
  BY <1>4 DEF PassEnds, TypeOK
<1>6. phase' \in [Servers -> Phases] /\ \A t \in Servers \ {s} : phase'[t] = phase[t]
  BY <1>4, <1>5 DEF PassEnds, TypeOK, Phases
<1>7. scope' \in [Servers -> Scopes(Places)] /\ \A t \in Servers \ {s} : scope'[t] = scope[t]
  BY <1>3, <1>4 DEF TypeOK
<1>8. ASSUME phase[s] = "stopping"
      PROVE  /\ scope'[s].entries = scope'[s].todo \union scope'[s].refused
             /\ scope'[s].todo \cap scope'[s].refused = {}
  <2>1. sc.entries = sc.todo \union sc.refused /\ sc.todo \cap sc.refused = {}
    BY <1>2, <1>8 DEF ScopeState
  <2>2. QED
    BY <1>1, <1>4, <2>1
<1>9. sc.todo = {e} => scope'[s].todo = {}
  BY <1>4
<1>10. startup[s] = "running" => phase[s] = "stopping" /\ 1..4 \subseteq scope'[s].todo
  <2>. SUFFICES ASSUME startup[s] = "running"
       PROVE  phase[s] = "stopping" /\ 1..4 \subseteq scope'[s].todo
    OBVIOUS
  <2>1. phase[s] = "stopping" /\ 1..4 \subseteq sc.todo
    BY <1>2 DEF ScopeState
  <2>2. e # StartupTasks
    BY DEF Settled
  <2>3. e > 4
    BY <1>1, <2>1, <2>2 DEF Places, StartupTasks
  <2>4. QED
    BY <1>4, <2>1, <2>3
<1>11. phase[s] = "stopping" /\ turn'[s] => Turn \in scope'[s].entries
  BY <1>2, <1>4 DEF ScopeState
<1>12. phase'[s] = "unstopped" => scope'[s].entries = scope'[s].refused /\ ~scope'[s].closing
  BY <1>4, <1>5, <1>8, <1>9
<1>13. phase'[s] = "stopped" => scope'[s].entries = {}
  BY <1>5, <1>8, <1>9
<1>14. startup'[s] = "running" => phase'[s] = "stopping" /\ 1..4 \subseteq scope'[s].todo
  BY <1>5, <1>9, <1>10
<1>15. ScopeState(s)'
  BY <1>5, <1>8, <1>11, <1>12, <1>14 DEF ScopeState, Deferred
<1>16. QED
  BY <1>4, <1>5, <1>6, <1>7, <1>13, <1>15

\* Each release that works: the database saves before it closes and the lock goes with it.
LEMMA ReleaseStep ==
  ASSUME LifecycleInv, NEW s \in Servers, Release(s)
  PROVE  LifecycleInv'
<1>. USE DEF LifecycleInv
<1>1. Alive(s) /\ phase[s] \in {"failing", "stopping"} /\ ServerState(s)
  BY DEF Release, Alive
<1>2. PICK e \in scope[s].todo :
        /\ IsNext(scope[s], e)
        /\ e = StartupTasks => Settled(s)
        /\ scope' = [scope EXCEPT ![s] = released(@, e)]
        /\ turn' = IF e = Turn THEN [turn EXCEPT ![s] = FALSE] ELSE turn
        /\ IF e = Database
           THEN /\ lock' = freed(s)
                /\ IF phase[s] = "stopping" /\ db[s].open
                   THEN db' = [db EXCEPT ![s] = closed(flushed(@))] /\ file' = written(db[s])
                   ELSE db' = [db EXCEPT ![s] = closed(@)] /\ UNCHANGED file
           ELSE UNCHANGED <<lock, db, file>>
        /\ PassEnds(s)
  BY DEF Release
<1>3. e \in Places /\ db[s] \in Connections
  BY DEF TypeOK, Scopes
<1>4. UNCHANGED <<start, startup, done, committed, writes, failures>>
  BY DEF Release
<1>5. /\ phase' \in [Servers -> Phases] /\ scope' \in [Servers -> Scopes(Places)]
      /\ \A t \in Servers \ {s} : phase'[t] = phase[t] /\ scope'[t] = scope[t]
      /\ phase[s] = "failing" => phase'[s] \in {"failing", "dead"}
      /\ phase[s] = "stopping" => phase'[s] \in {"stopping", "stopped", "unstopped"}
      /\ scope'[s].entries = scope[s].entries \ {e}
      /\ ScopeState(s)'
  <2>1. turn'[s] => turn[s] /\ e # Turn
    BY <1>2 DEF TypeOK
  <2>2. QED
    BY <1>1, <1>2, <1>3, <1>4, <2>1, PassStep
<1>6. turn' \in [Servers -> BOOLEAN]
  BY <1>2 DEF TypeOK
<1>7. CASE e # Database
  <2>1. UNCHANGED <<lock, db, file>>
    BY <1>2, <1>7
  <2>2. TypeOK'
    BY <1>4, <1>5, <1>6, <2>1 DEF TypeOK
  <2>3. OnlyServer(s)
    BY <1>4, <1>5, <2>1 DEF OnlyServer
  <2>4. DatabaseState(s)' /\ FileState(s)'
    BY <1>1, <1>5, <1>7, <2>1 DEF ServerState, DatabaseState, FileState, Alive
  <2>5. QED
    BY <1>1, <1>4, <1>5, <2>1, <2>2, <2>3, <2>4, AliveAlone, ServerStep
    DEF ServerState, FileIsCommitted, RowsKnown
<1>8. CASE e = Database
  <2>1. PICK d \in Connections :
          /\ db' = [db EXCEPT ![s] = d]
          /\ ~d.open /\ ~d.saveTimer /\ d.rows = db[s].rows /\ d.base = db[s].base
          /\ d.inTransaction = db[s].inTransaction
    BY <1>2, <1>3, <1>8, FlushFields, CloseFields
  <2>2. db'[s] = d
    BY <2>1 DEF TypeOK
  <2>3. /\ file' \in [exists: BOOLEAN, rows: SUBSET Change]
        /\ file' = file \/ (phase[s] = "stopping" /\ file'.rows = db[s].rows)
    BY <1>2, <1>3, <1>8, WrittenFields DEF TypeOK
  <2>4. lock' \in Servers \union {None} /\ lock' # s
    BY <1>2, <1>8, LifecycleAssumption DEF freed, TypeOK
  <2>5. TypeOK'
    BY <1>4, <1>5, <1>6, <2>1, <2>3, <2>4, ConnectionTypes DEF TypeOK
  <2>6. OnlyServer(s)
    BY <1>4, <1>5, <2>1 DEF OnlyServer, TypeOK
  <2>7. DatabaseState(s)' /\ FileState(s)'
    BY <1>1, <1>5, <1>8, <2>1, <2>2, <2>4 DEF ServerState, DatabaseState, FileState, Alive
  <2>8. file'.rows \subseteq committed'
    BY <1>1, <1>4, <2>3 DEF ServerState, DatabaseState, FileIsCommitted, RowsKnown
  <2>9. d.base \subseteq committed' /\ (~d.inTransaction => d.rows \subseteq committed')
    BY <1>4, <2>1 DEF RowsKnown
  <2>10. QED
    BY <1>1, <1>5, <2>2, <2>5, <2>6, <2>7, <2>8, <2>9, AliveAlone, ServerStep DEF ServerState
<1>9. QED
  BY <1>7, <1>8

\* A release that fails leaves what it would have released.
LEMMA ReleaseFailsStep ==
  ASSUME LifecycleInv, NEW s \in Servers, ReleaseFails(s)
  PROVE  LifecycleInv'
<1>. USE DEF LifecycleInv
<1>1. Alive(s) /\ phase[s] \in {"failing", "stopping"} /\ ServerState(s)
  BY DEF ReleaseFails, Alive
<1>2. PICK e \in scope[s].todo \ {StartupTasks} :
        /\ IsNext(scope[s], e)
        /\ e = Database => phase[s] = "stopping" /\ (db[s].dirty \/ ~file.exists)
        /\ scope' = [scope EXCEPT ![s] = refused(@, e)]
        /\ db' = IF e = Database THEN [db EXCEPT ![s] = unflushed(@)] ELSE db
        /\ PassEnds(s)
  BY DEF ReleaseFails
<1>3. e \in Places /\ db[s] \in Connections
  BY DEF TypeOK, Scopes
<1>4. UNCHANGED <<file, lock, start, startup, turn, done, committed, writes>>
  BY DEF ReleaseFails
<1>5. /\ phase' \in [Servers -> Phases] /\ scope' \in [Servers -> Scopes(Places)]
      /\ \A t \in Servers \ {s} : phase'[t] = phase[t] /\ scope'[t] = scope[t]
      /\ phase[s] = "failing" => phase'[s] \in {"failing", "dead"}
      /\ phase[s] = "stopping" => phase'[s] \in {"stopping", "stopped", "unstopped"}
      /\ scope'[s].entries = scope[s].entries
      /\ ScopeState(s)'
  BY <1>1, <1>2, <1>3, <1>4, PassStep
<1>6. failures' \in 0..MaxFailures
  BY FailsType DEF ReleaseFails
<1>7. PICK d \in Connections :
        /\ db' = [db EXCEPT ![s] = d]
        /\ d.open = db[s].open /\ (d.saveTimer => db[s].saveTimer) /\ d.dirty = db[s].dirty
        /\ d.rows = db[s].rows /\ d.base = db[s].base /\ d.inTransaction = db[s].inTransaction
  <2>1. CASE e = Database
    BY <1>2, <1>3, <2>1, UnflushFields
  <2>2. CASE e # Database
    <3>1. db' = [db EXCEPT ![s] = db[s]]
      BY <1>2, <2>2 DEF TypeOK
    <3>2. QED
      BY <1>3, <3>1
  <2>3. QED
    BY <2>1, <2>2
<1>8. db'[s] = d
  BY <1>7 DEF TypeOK
<1>9. TypeOK'
  <2>1. d.saveTimer => d.open /\ ~d.inTransaction
    BY <1>7 DEF TypeOK
  <2>2. QED
    BY <1>4, <1>5, <1>6, <1>7, <2>1, ConnectionTypes DEF TypeOK
<1>10. OnlyServer(s)
  BY <1>4, <1>5, <1>7 DEF OnlyServer, TypeOK
<1>11. DatabaseState(s)'
  BY <1>1, <1>4, <1>5, <1>7, <1>8 DEF ServerState, DatabaseState, Alive
<1>12. FileState(s)'
  BY <1>1, <1>4, <1>5, <1>7, <1>8 DEF ServerState, FileState
<1>13. /\ d.base \subseteq committed' /\ (~d.inTransaction => d.rows \subseteq committed')
       /\ file'.rows \subseteq committed'
  BY <1>4, <1>7 DEF RowsKnown, FileIsCommitted
<1>14. QED
  BY <1>1, <1>5, <1>8, <1>9, <1>10, <1>11, <1>12, <1>13, AliveAlone, ServerStep DEF ServerState

-----------------------------------------------------------------------------
(* Steps of a command.                                                     *)

\* A command changes what a running server relies on only when it saves, and
\* then no server has the database open: its lock would be a live one.
LEMMA CommandStep ==
  ASSUME LifecycleInv, NEW c \in Commands, NEW d \in Connections,
         db' = [db EXCEPT ![c] = d], ~d.saveTimer,
         UNCHANGED <<lock, phase, process, writes, failures>>,
         done' \in [Commands -> {"ready", "open", "edited", "saved", "refused"}],
         \A b \in Commands \ {c} : done'[b] = done[b],
         done'[c] \in {"open", "edited"} => d.open /\ d.inTransaction,
         committed \subseteq committed', committed' \subseteq Change,
         d.base \subseteq committed', ~d.inTransaction => d.rows \subseteq committed',
         file' \in [exists: BOOLEAN, rows: SUBSET Change],
         file'.rows \subseteq committed', file' = file \/ ~LiveLock
  PROVE  LifecycleInv'
<1>. USE DEF LifecycleInv
<1>1. TypeOK'
  BY ConnectionTypes DEF TypeOK, process
<1>2. OneServer'
  BY DEF OneServer, Alive
<1>3. RowsKnown'
  BY DEF RowsKnown, TypeOK
<1>4. CommandState'
  BY DEF CommandState, TypeOK
<1>5. ASSUME NEW s \in Servers PROVE ServerState(s)'
  <2>1. db'[s] = db[s] /\ ServerState(s)
    BY ChangeKinds DEF TypeOK
  <2>2. DatabaseState(s)' /\ ScopeState(s)'
    BY <2>1 DEF ServerState, DatabaseState, ScopeState, Deferred, Alive, process
  <2>3. Alive(s) /\ db[s].open => file' = file
    BY <2>1, LifecycleAssumption DEF ServerState, DatabaseState, LiveLock
  <2>4. FileState(s)'
    BY <2>1, <2>3 DEF ServerState, FileState, Alive
  <2>5. QED
    BY <2>2, <2>4 DEF ServerState
<1>6. QED
  BY <1>1, <1>2, <1>3, <1>4, <1>5 DEF FileIsCommitted

\* Commands touch the file only with what is committed, and never under a server.
LEMMA CommandsKeepInv ==
  ASSUME LifecycleInv, NEW c \in Commands,
         CommandOpens(c) \/ CommandEdits(c) \/ CommandRefused(c) \/ CommandSaves(c)
  PROVE  LifecycleInv'
<1>. USE DEF LifecycleInv
<1>1. db[c] \in Connections /\ file.rows \subseteq Change /\ committed \subseteq Change /\ c \in Change
  BY ChangeKinds DEF TypeOK
<1>2. CASE CommandOpens(c)
  <2>. DEFINE d == beginAsync(opened(file.rows))
  <2>1. d \in Connections /\ d.open /\ d.inTransaction /\ ~d.saveTimer /\ d.base = file.rows
    BY <1>1, OpenedFields
  <2>2. /\ db' = [db EXCEPT ![c] = d] /\ done' = [done EXCEPT ![c] = "open"]
        /\ UNCHANGED <<file, lock, phase, process, committed, writes, failures>>
    BY <1>2 DEF CommandOpens
  <2>3. QED
    BY <1>1, <2>1, <2>2, CommandStep DEF TypeOK, FileIsCommitted
<1>3. CASE CommandEdits(c)
  <2>. DEFINE d == recordWrite(db[c], c)
  <2>1. db[c].open /\ db[c].inTransaction /\ ~db[c].saveTimer
    BY <1>3 DEF CommandEdits, CommandState
  <2>2. d \in Connections /\ d.open /\ d.inTransaction /\ ~d.saveTimer /\ d.base = db[c].base
    BY <1>1, <2>1, RecordFields
  <2>3. /\ db' = [db EXCEPT ![c] = d] /\ done' = [done EXCEPT ![c] = "edited"]
        /\ UNCHANGED <<file, lock, phase, process, committed, writes, failures>>
    BY <1>3 DEF CommandEdits
  <2>4. QED
    BY <1>1, <2>2, <2>3, CommandStep DEF TypeOK, FileIsCommitted, RowsKnown
<1>4. CASE CommandRefused(c)
  <2>. DEFINE d == closed(endAsync(db[c], FALSE))
  <2>1. endAsync(db[c], FALSE) \in Connections /\ endAsync(db[c], FALSE).base = {}
        /\ endAsync(db[c], FALSE).rows = db[c].base
    BY <1>1, EndFields
  <2>2. d \in Connections /\ ~d.saveTimer /\ d.base = {} /\ d.rows = db[c].base
    BY <2>1, CloseFields
  <2>3. /\ db' = [db EXCEPT ![c] = d] /\ done' = [done EXCEPT ![c] = "refused"]
        /\ UNCHANGED <<file, lock, phase, process, committed, writes, failures>>
    BY <1>4 DEF CommandRefused
  <2>4. QED
    BY <1>1, <2>2, <2>3, CommandStep DEF TypeOK, FileIsCommitted, RowsKnown
<1>5. CASE CommandSaves(c)
  <2>. DEFINE ended == endAsync(db[c], TRUE)  d == closed(flushed(ended))
  <2>1. ended \in Connections /\ ended.base = {}
    BY <1>1, EndFields
  <2>2. d \in Connections /\ ~d.saveTimer /\ d.base = {} /\ d.rows = ended.rows
    BY <2>1, FlushFields, CloseFields
  <2>3. /\ db' = [db EXCEPT ![c] = d] /\ done' = [done EXCEPT ![c] = "saved"]
        /\ committed' = committed \union ended.rows /\ file' = written(ended) /\ ~LiveLock
        /\ UNCHANGED <<lock, phase, process, writes, failures>>
    BY <1>5 DEF CommandSaves
  <2>4. /\ file' \in [exists: BOOLEAN, rows: SUBSET Change]
        /\ file'.rows = file.rows \/ file'.rows = ended.rows
    BY <2>1, <2>3, WrittenFields DEF TypeOK
  <2>5. file'.rows \subseteq committed' /\ committed' \subseteq Change
    BY <1>1, <2>1, <2>3, <2>4 DEF FileIsCommitted, Connections
  <2>6. done' \in [Commands -> {"ready", "open", "edited", "saved", "refused"}]
    BY <2>3 DEF TypeOK
  <2>7. QED
    BY <2>2, <2>3, <2>4, <2>5, <2>6, CommandStep DEF TypeOK
<1>6. QED
  BY <1>2, <1>3, <1>4, <1>5

-----------------------------------------------------------------------------
(* The theorems.                                                           *)

\* It holds when nothing runs.
LEMMA LifecycleInit == Init => LifecycleInv
<1>. SUFFICES ASSUME Init PROVE LifecycleInv
  OBVIOUS
<1>1. unopened \in Connections /\ ~unopened.saveTimer /\ ~unopened.inTransaction
      /\ unopened.rows = {} /\ unopened.base = {} /\ ~unopened.open
  BY DEF unopened, Connections
<1>2. emptyScope \in Scopes(Places) /\ emptyScope.entries = {} /\ ~emptyScope.closing
  BY DEF emptyScope, Scopes
<1>3. TypeOK
  BY <1>1, <1>2, LifecycleAssumption DEF Init, TypeOK, Phases
<1>4. OneServer /\ FileIsCommitted /\ RowsKnown /\ CommandState
  BY <1>1 DEF Init, OneServer, Alive, FileIsCommitted, RowsKnown, CommandState
<1>5. \A s \in Servers : ServerState(s)
  BY <1>1, <1>2 DEF Init, ServerState, DatabaseState, FileState, ScopeState, Deferred, Alive
<1>6. QED
  BY <1>3, <1>4, <1>5 DEF LifecycleInv

\* Every step keeps it.
LEMMA LifecycleStep ==
  ASSUME LifecycleInv, [Next]_vars
  PROVE  LifecycleInv'
<1>1. ASSUME NEW s \in Servers, \/ Launch(s) \/ OpenDatabase(s) \/ OpenFails(s)
                                \/ SetUp(s) \/ SetUpFails(s) \/ Serve(s)
      PROVE  LifecycleInv'
  BY <1>1, LaunchStep, OpenDatabaseStep, OpenFailsStep, SetUpStep, SetUpFailsStep, ServeStep
<1>2. ASSUME NEW s \in Servers, Listening(s) \/ Announced(s) \/ StartupEnds(s) \/ MemberWrites(s)
      PROVE  LifecycleInv'
  BY <1>2, StartStep, StartupEndsStep, MemberWritesStep
<1>3. ASSUME NEW s \in Servers, Stop(s) \/ Release(s) \/ ReleaseFails(s) \/ Dies(s)
      PROVE  LifecycleInv'
  BY <1>3, StopStep, ReleaseStep, ReleaseFailsStep, DiesStep
<1>4. CASE UNCHANGED vars
  BY <1>4 DEF vars, process, LifecycleInv, TypeOK, OneServer, FileIsCommitted, RowsKnown, CommandState,
     ServerState, DatabaseState, FileState, ScopeState, Deferred, Alive
<1>5. QED
  BY <1>1, <1>2, <1>3, <1>4, SaveTimerStep, CommandsKeepInv DEF Next

\* So it always holds.
LEMMA LifecycleInvHolds == Spec => []LifecycleInv
BY LifecycleInit, LifecycleStep, PTL DEF Spec

\* Every step keeps the types: above all, a save is never due on a database
\* that is closed, nor during a transaction that awaits.
THEOREM LifecycleTypes == Spec => []TypeOK
<1>1. LifecycleInv => TypeOK
  BY DEF LifecycleInv
<1>2. QED
  BY <1>1, LifecycleInvHolds, PTL

\* No export ever takes what was not committed: nothing of a setup or of a
\* command that failed, or that still awaits, is in server.db.
THEOREM FileCorrect == Spec => []FileIsCommitted
<1>1. LifecycleInv => FileIsCommitted
  BY DEF LifecycleInv
<1>2. QED
  BY <1>1, LifecycleInvHolds, PTL

\* The identity that a server shows is in the file from before it listens
\* until it has closed its database.
THEOREM IdentityCorrect == Spec => []IdentityOnFile
<1>1. LifecycleInv => IdentityOnFile
  BY DEF LifecycleInv, ServerState, FileState, IdentityOnFile
<1>2. QED
  BY <1>1, LifecycleInvHolds, PTL

\* The lock covers the database, startup work what it uses, and a stop that
\* failed leaves nothing but what would not go.
THEOREM HeldCorrect == Spec => []HeldWhileUsed
<1>1. ASSUME LifecycleInv PROVE HeldWhileUsed
  <2>1. LockCoversUse
    BY <1>1 DEF LifecycleInv, ServerState, DatabaseState, LockCoversUse
  <2>2. StartupSettled
    <3>. SUFFICES ASSUME NEW s \in Servers, Alive(s), startup[s] = "running"
         PROVE  db[s].open /\ Turn \in scope[s].entries
      BY DEF StartupSettled
    <3>1. DatabaseState(s) /\ ScopeState(s) /\ scope[s] \in Scopes(Places)
      BY <1>1 DEF LifecycleInv, ServerState, TypeOK
    <3>2. CASE phase[s] = "serving"
      BY <3>1, <3>2 DEF DatabaseState, ScopeState, Deferred, Turn, Places
    <3>3. CASE phase[s] = "stopping"
      <4>1. 1..4 \subseteq scope[s].entries
        BY <3>1, <3>3 DEF ScopeState
      <4>2. QED
        BY <3>1, <3>3, <4>1 DEF DatabaseState, Turn, Database
    <3>4. QED
      BY <3>1, <3>2, <3>3 DEF ScopeState, Alive
  <2>3. UnstoppedKeepsTheRest
    BY <1>1 DEF LifecycleInv, ServerState, DatabaseState, ScopeState, Deferred, UnstoppedKeepsTheRest
  <2>4. QED
    BY <2>1, <2>2, <2>3 DEF HeldWhileUsed
<1>2. QED
  BY <1>1, LifecycleInvHolds, PTL

\* A command that saves never replaces the file under a server that has it
\* in memory, which would put its own copy back over it.
THEOREM NoSaveCorrect == Spec => NoSaveOverServer
<1>. DEFINE A == \A c \in Commands : done[c] # "saved" /\ done'[c] = "saved" =>
                   \A s \in Servers : ~(Alive(s) /\ db[s].open)
<1>1. ASSUME LifecycleInv, [Next]_vars PROVE [A]_vars
  <2>. SUFFICES ASSUME NEW c \in Commands, done[c] # "saved", done'[c] = "saved", Next,
                       NEW s \in Servers, Alive(s), db[s].open
       PROVE  FALSE
    BY <1>1 DEF vars
  <2>1. CommandSaves(c)
    <3>1. PICK b \in Commands : CommandOpens(b) \/ CommandEdits(b) \/ CommandRefused(b) \/ CommandSaves(b)
      BY DEF Next, Launch, OpenDatabase, OpenFails, SetUp, SetUpFails, Serve, Listening, Announced,
         StartupEnds, MemberWrites, Stop, Release, ReleaseFails, Dies, SaveTimer
    <3>2. QED
      BY <1>1, <3>1 DEF CommandOpens, CommandEdits, CommandRefused, CommandSaves, LifecycleInv, TypeOK
  <2>2. lock = s
    BY <1>1 DEF LifecycleInv, ServerState, DatabaseState
  <2>3. QED
    BY <2>1, <2>2, LifecycleAssumption DEF CommandSaves, LiveLock
<1>2. QED
  BY <1>1, LifecycleInvHolds, PTL DEF Spec, NoSaveOverServer

-----------------------------------------------------------------------------
(* What a stop leaves.                                                     *)

\* The effect of a step on server s that StoppedIsSaved is about.
LeavesWell(s) ==
  /\ phase[s] = "stopping" /\ db[s].open /\ ~db'[s].open => db[s].rows \subseteq file'.rows
  /\ phase[s] # "stopped" /\ phase'[s] = "stopped" => ~db'[s].open /\ lock' # s /\ ~turn'[s]

\* The database closes only saved, and a stop ends only with everything released.
LEMMA ReleaseLeavesWell ==
  ASSUME LifecycleInv, NEW s \in Servers, Release(s)
  PROVE  LeavesWell(s)
<1>. USE DEF LifecycleInv
<1>1. phase[s] \in {"failing", "stopping"} /\ DatabaseState(s) /\ FileState(s) /\ ScopeState(s)
  BY DEF Release, ServerState
<1>2. PICK e \in scope[s].todo :
        /\ IsNext(scope[s], e)
        /\ e = StartupTasks => Settled(s)
        /\ scope' = [scope EXCEPT ![s] = released(@, e)]
        /\ turn' = IF e = Turn THEN [turn EXCEPT ![s] = FALSE] ELSE turn
        /\ IF e = Database
           THEN /\ lock' = freed(s)
                /\ IF phase[s] = "stopping" /\ db[s].open
                   THEN db' = [db EXCEPT ![s] = closed(flushed(@))] /\ file' = written(db[s])
                   ELSE db' = [db EXCEPT ![s] = closed(@)] /\ UNCHANGED file
           ELSE UNCHANGED <<lock, db, file>>
        /\ PassEnds(s)
  BY DEF Release
<1>3. e \in Places /\ db[s] \in Connections
  BY DEF TypeOK, Scopes
<1>4. turn'[s] => turn[s] /\ e # Turn
  BY <1>2 DEF TypeOK
<1>5. /\ phase[s] = "failing" => phase'[s] \in {"failing", "dead"}
      /\ phase'[s] = "stopped" => scope[s].entries \ {e} = {}
  <2>1. UNCHANGED startup
    BY DEF Release
  <2>2. QED
    BY <1>1, <1>2, <1>3, <1>4, <2>1, PassStep
<1>6. e = Database => ~db'[s].open /\ lock' # s
  <2>. SUFFICES ASSUME e = Database PROVE ~db'[s].open /\ lock' # s
    OBVIOUS
  <2>1. lock' = freed(s) /\ (db'[s] = closed(flushed(db[s])) \/ db'[s] = closed(db[s]))
    BY <1>2 DEF TypeOK
  <2>2. lock' # s
    BY <2>1, LifecycleAssumption DEF freed
  <2>3. QED
    BY <1>3, <2>1, <2>2, FlushFields, CloseFields
<1>7. phase[s] = "stopping" /\ db[s].open /\ ~db'[s].open => db[s].rows \subseteq file'.rows
  <2>. SUFFICES ASSUME phase[s] = "stopping", db[s].open, ~db'[s].open
       PROVE  db[s].rows \subseteq file'.rows
    OBVIOUS
  <2>1. e = Database /\ file' = written(db[s])
    BY <1>2
  <2>2. QED
    BY <1>1, <1>3, <2>1, WrittenFields DEF FileState, TypeOK
<1>8. ASSUME phase[s] # "stopped", phase'[s] = "stopped"
      PROVE  ~db'[s].open /\ lock' # s /\ ~turn'[s]
  <2>1. phase[s] = "stopping" /\ scope[s].entries \ {e} = {}
    BY <1>1, <1>5, <1>8
  <2>2. ~turn'[s]
    BY <1>1, <1>4, <2>1 DEF ScopeState
  <2>3. e # Database => UNCHANGED <<lock, db>> /\ Database \notin scope[s].entries
    BY <1>2, <2>1
  <2>4. QED
    BY <1>1, <1>6, <2>1, <2>2, <2>3 DEF DatabaseState
<1>9. QED
  BY <1>7, <1>8 DEF LeavesWell

\* A pass that ends with a refused release does not end as "stopped".
LEMMA ReleaseFailsLeavesWell ==
  ASSUME LifecycleInv, NEW s \in Servers, ReleaseFails(s)
  PROVE  LeavesWell(s)
<1>. USE DEF LifecycleInv
<1>1. phase[s] \in {"failing", "stopping"} /\ ScopeState(s)
  BY DEF ReleaseFails, ServerState
<1>2. PICK e \in scope[s].todo \ {StartupTasks} :
        /\ IsNext(scope[s], e)
        /\ scope' = [scope EXCEPT ![s] = refused(@, e)]
        /\ db' = IF e = Database THEN [db EXCEPT ![s] = unflushed(@)] ELSE db
        /\ PassEnds(s)
  BY DEF ReleaseFails
<1>3. e \in Places /\ db[s] \in Connections
  BY DEF TypeOK, Scopes
<1>4. /\ phase[s] = "failing" => phase'[s] \in {"failing", "dead"}
      /\ phase'[s] = "stopped" => scope[s].entries = {}
  <2>1. UNCHANGED <<startup, turn>>
    BY DEF ReleaseFails
  <2>2. QED
    BY <1>1, <1>2, <1>3, <2>1, PassStep
<1>5. phase'[s] # "stopped"
  BY <1>1, <1>2, <1>4 DEF ScopeState
<1>6. db'[s].open = db[s].open
  BY <1>2, <1>3, UnflushFields DEF TypeOK
<1>7. QED
  BY <1>5, <1>6 DEF LeavesWell

\* No other step closes a database that is being released, nor ends a stop.
LEMMA OthersLeaveWell ==
  ASSUME LifecycleInv, NEW s \in Servers, [Next]_vars, ~Release(s), ~ReleaseFails(s)
  PROVE  LeavesWell(s)
<1>. USE DEF LifecycleInv
<1>1. ASSUME UNCHANGED <<db, phase>> PROVE LeavesWell(s)
  BY <1>1 DEF LeavesWell
<1>2. ASSUME NEW t \in Servers, phase'[t] # "stopped",
             \A u \in Servers \ {t} : phase'[u] = phase[u],
             \A u \in Servers \ {t} : db'[u] = db[u],
             phase[t] # "stopping" \/ db'[t].open = db[t].open
      PROVE  LeavesWell(s)
  BY <1>2 DEF LeavesWell
<1>3. ASSUME NEW t \in Servers, Launch(t) \/ OpenFails(t) \/ Stop(t) \/ Dies(t) \/ Listening(t) \/ Announced(t)
      PROVE  LeavesWell(s)
  <2>1. UNCHANGED db
    BY <1>3 DEF Launch, OpenFails, Stop, Dies, Listening, Announced
  <2>2. \/ UNCHANGED phase
        \/ \E to \in {"opening", "failing", "stopping", "dead"} : phase' = [phase EXCEPT ![t] = to]
    BY <1>3 DEF Launch, OpenFails, Stop, Dies, Listening, Announced, Rejected, TypeOK
  <2>3. QED
    BY <1>1, <2>1, <2>2 DEF LeavesWell, TypeOK
<1>4. ASSUME NEW t \in Servers, OpenDatabase(t) \/ SetUp(t) \/ SetUpFails(t) \/ Serve(t)
      PROVE  LeavesWell(s)
  <2>1. phase[t] \in {"opening", "setup", "seeded"}
    BY <1>4 DEF OpenDatabase, SetUp, SetUpFails, Serve
  <2>2. \E to \in {"setup", "seeded", "serving", "failing"} : phase' = [phase EXCEPT ![t] = to]
    BY <1>4 DEF OpenDatabase, SetUp, SetUpFails, Serve
  <2>3. \A u \in Servers \ {t} : db'[u] = db[u]
    BY <1>4 DEF OpenDatabase, SetUp, SetUpFails, Serve, TypeOK
  <2>4. QED
    BY <1>2, <2>1, <2>2, <2>3 DEF TypeOK
<1>5. ASSUME NEW t \in Servers, StartupEnds(t) PROVE LeavesWell(s)
  BY <1>1, <1>5 DEF StartupEnds
<1>6. ASSUME NEW t \in Servers, MemberWrites(t) PROVE LeavesWell(s)
  <2>1. UNCHANGED phase /\ db' = [db EXCEPT ![t] = recordWrite(@, writes + 1)] /\ writes + 1 \in Change
    BY <1>6, ChangeKinds, LifecycleAssumption DEF MemberWrites, TypeOK
  <2>2. db'[t].open = db[t].open
    BY <2>1, RecordFields DEF TypeOK
  <2>3. \A u \in Servers \ {t} : db'[u] = db[u]
    BY <2>1 DEF TypeOK
  <2>4. QED
    BY <2>1, <2>2, <2>3 DEF LeavesWell
<1>7. ASSUME NEW p \in Servers \union Commands, SaveTimer(p) PROVE LeavesWell(s)
  <2>1. UNCHANGED phase /\ (db' = [db EXCEPT ![p] = flushed(@)] \/ db' = [db EXCEPT ![p] = unflushed(@)])
    BY <1>7 DEF SaveTimer
  <2>2. db'[s].open = db[s].open
    BY <2>1, FlushFields, UnflushFields DEF TypeOK
  <2>3. QED
    BY <2>1, <2>2 DEF LeavesWell
<1>8. ASSUME NEW t \in Servers, t # s, Release(t) \/ ReleaseFails(t) PROVE LeavesWell(s)
  <2>1. phase'[s] = phase[s]
    BY <1>8 DEF Release, ReleaseFails, PassEnds, TypeOK
  <2>2. db'[s] = db[s]
    BY <1>8 DEF Release, ReleaseFails, TypeOK
  <2>3. QED
    BY <2>1, <2>2 DEF LeavesWell
<1>9. ASSUME NEW c \in Commands,
             CommandOpens(c) \/ CommandEdits(c) \/ CommandRefused(c) \/ CommandSaves(c)
      PROVE  LeavesWell(s)
  <2>1. UNCHANGED phase /\ db'[s] = db[s]
    BY <1>9, ChangeKinds DEF CommandOpens, CommandEdits, CommandRefused, CommandSaves, TypeOK
  <2>2. QED
    BY <2>1 DEF LeavesWell
<1>10. CASE UNCHANGED vars
  BY <1>1, <1>10 DEF vars
<1>11. QED
  BY <1>3, <1>4, <1>5, <1>6, <1>7, <1>8, <1>9, <1>10 DEF Next

\* A server that stops closes its database only once the file holds all that
\* its members did, and a stop that reports success leaves neither the
\* relay, nor the database, nor the lock behind.
THEOREM StopCorrect == Spec => StoppedIsSaved
<1>1. ASSUME LifecycleInv, [Next]_vars PROVE \A s \in Servers : LeavesWell(s)
  BY <1>1, ReleaseLeavesWell, ReleaseFailsLeavesWell, OthersLeaveWell
<1>2. QED
  BY <1>1, LifecycleInvHolds, PTL DEF Spec, StoppedIsSaved, LeavesWell
=============================================================================
