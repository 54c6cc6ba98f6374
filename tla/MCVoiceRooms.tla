---- MODULE MCVoiceRooms ----
EXTENDS VoiceRooms, TLC
CONSTANTS alice, bob, a1, b1, lobby, den
MCUserOf == (a1 :> alice) @@ (b1 :> bob)
Symmetry == Permutations({lobby, den})
====
