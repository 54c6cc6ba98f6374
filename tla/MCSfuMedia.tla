----------------------------- MODULE MCSfuMedia -----------------------------
(* One session that sends and one that receives, two rooms. *)
EXTENDS SfuMedia, TLC

CONSTANTS ana, bia, lobby, den

RoomsAlike == Permutations(Rooms)

=============================================================================
