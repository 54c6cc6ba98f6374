---------------------------- MODULE SqlJsDriver ----------------------------
(***************************************************************************)
(* SqliteWrapper.ts: a database that lives in the memory of one process    *)
(* and reaches its file by an export of the whole, some seconds after a    *)
(* change, when asked to, or when it is closed.                            *)
(*                                                                         *)
(* A connection is a record.  Rows are changes: "rows" is the set of the   *)
(* changes it holds, "base" what it held when its transaction began.  An   *)
(* export takes all the rows, and in sql.js it also ends the transaction   *)
(* that is open: nothing may export while a transaction awaits.            *)
(***************************************************************************)
CONSTANT Change

Connections == [open: BOOLEAN, rows: SUBSET Change, base: SUBSET Change,
                dirty: BOOLEAN, saveTimer: BOOLEAN, inTransaction: BOOLEAN, transactionWrote: BOOLEAN]

unopened == [open |-> FALSE, rows |-> {}, base |-> {},
             dirty |-> FALSE, saveTimer |-> FALSE, inTransaction |-> FALSE, transactionWrote |-> FALSE]

\* create() and runMigrations(), which always executes a statement and so
\* always leaves the connection dirty, with a save on its way.
opened(rows) == [unopened EXCEPT !.open = TRUE, !.rows = rows, !.dirty = TRUE, !.saveTimer = TRUE]

recordWrite(db, change) ==
  IF db.inTransaction
  THEN [db EXCEPT !.rows = @ \union {change}, !.transactionWrote = TRUE]
  ELSE [db EXCEPT !.rows = @ \union {change}, !.dirty = TRUE, !.saveTimer = TRUE]

\* Mutant: a save that is due may come while the transaction awaits.
beginWithTimer(db) ==
  [db EXCEPT !.inTransaction = TRUE, !.transactionWrote = FALSE, !.base = db.rows]

\* transactionAsync() up to its await: it takes back the save that is due.
beginAsync(db) ==
  [db EXCEPT !.saveTimer = FALSE, !.inTransaction = TRUE, !.transactionWrote = FALSE, !.base = db.rows]

\* What transactionAsync() does after its await, COMMIT or ROLLBACK.
endAsync(db, commits) ==
  LET dirty == db.dirty \/ (commits /\ db.transactionWrote)
  IN  [db EXCEPT !.rows = IF commits THEN @ ELSE db.base, !.base = {},
                 !.inTransaction = FALSE, !.transactionWrote = FALSE,
                 !.dirty = dirty, !.saveTimer = dirty]

\* flushToDisk(), when the write succeeds and when it fails.
flushed(db)   == [db EXCEPT !.dirty = FALSE, !.saveTimer = FALSE]
unflushed(db) == [db EXCEPT !.saveTimer = FALSE]

\* close(), once the last flush succeeded or with discardChanges.
closed(db) == [db EXCEPT !.open = FALSE, !.saveTimer = FALSE]
=============================================================================
