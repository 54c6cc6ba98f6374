--------------------------- MODULE MCConnections ---------------------------
(* Small instances of Connections.                                         *)
EXTENDS Connections, TLC

CONSTANTS u1, u2, bot, d1, d2, d3, b1, home, lan

\* One person with a device each, seen by another.
TwoUserOf == (d1 :> u1) @@ (d2 :> u2)
\* A person with two devices, seen by another.
ThreeUserOf == (d1 :> u1) @@ (d2 :> u1) @@ (d3 :> u2)
SameUser == Permutations({d1, d2})
\* Two people and a bot.
AllUserOf == TwoUserOf @@ (b1 :> bot)
=============================================================================
