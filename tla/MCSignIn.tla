------------------------------ MODULE MCSignIn ------------------------------
(* Small instances of SignIn.                                              *)
EXTENDS SignIn, TLC

CONSTANTS k1, k2, k3, d1, d2, d3, n1, n2

Ask(k, d, n, b, p) == [key |-> k, device |-> d, nickname |-> n, bound |-> b, right |-> p]

\* One person with two devices, one of which signs the bare nonce; another who
\* takes the same nickname, or has the password wrong; and one too many.
Several == {Ask(k1, d1, n1, TRUE, TRUE), Ask(k1, d2, n1, FALSE, TRUE),
            Ask(k2, d1, n1, TRUE, TRUE), Ask(k2, d1, n2, TRUE, FALSE),
            Ask(k3, d1, n2, TRUE, TRUE)}
\* Alone, three sockets try once; two of them overlap, and one tries again.
Tries == [o \in BOOLEAN |-> [c \in Conns |-> IF o THEN (IF c = 3 THEN 0 ELSE 3 - c) ELSE 1]]
=============================================================================
