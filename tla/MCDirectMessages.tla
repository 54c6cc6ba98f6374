-------------------------- MODULE MCDirectMessages --------------------------
(* Small instances of DirectMessages.                                      *)
EXTENDS DirectMessages

CONSTANTS a1, a2, b1, m1

\* Every device does everything, or one sends and the other changes it.
All == [a \in Mine |-> Doings]
InTurn == [a \in Mine |-> IF a = a1 THEN {"send"} ELSE {"edit", "delete"}]
=============================================================================
