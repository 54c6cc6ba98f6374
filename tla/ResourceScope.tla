--------------------------- MODULE ResourceScope ---------------------------
(***************************************************************************)
(* ServerResourceScope.ts: the releases a server defers while it is being  *)
(* built and runs, last first, when it closes or when its setup fails.     *)
(*                                                                         *)
(* A scope is a record.  An entry is its place in the order of deferral,   *)
(* "todo" is what the running pass has still to try, and "refused" what    *)
(* failed in that pass.  A refused entry stays in the scope, so the next   *)
(* close tries it again, and only it.                                      *)
(***************************************************************************)
EXTENDS Integers

emptyScope == [entries |-> {}, closing |-> FALSE, todo |-> {}, refused |-> {}]

Scopes(Places) == [entries: SUBSET Places, closing: BOOLEAN, todo: SUBSET Places, refused: SUBSET Places]

defer(scope, places) == [scope EXCEPT !.entries = @ \union places]

\* close(): a caller that comes while a pass runs shares it.
close(scope) ==
  IF scope.closing THEN scope
                   ELSE [scope EXCEPT !.closing = TRUE, !.todo = scope.entries, !.refused = {}]

\* The entry whose turn it is: the last one deferred.
IsNext(scope, e) == scope.closing /\ e \in scope.todo /\ \A f \in scope.todo : f <= e

\* `closing` becomes null once the pass has settled.
tried(scope, e) == [scope EXCEPT !.todo = @ \ {e}, !.closing = scope.todo # {e}]

\* Mutant: the first failure ends the pass.
refusedAll(scope, e) == [scope EXCEPT !.todo = {}, !.closing = FALSE, !.refused = {e}]

released(scope, e) == [tried(scope, e) EXCEPT !.entries = @ \ {e}]
refused(scope, e)  == [tried(scope, e) EXCEPT !.refused = @ \union {e}]
=============================================================================
