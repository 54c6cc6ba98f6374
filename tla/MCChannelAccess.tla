-------------------------- MODULE MCChannelAccess --------------------------
(* Two people, one channel; requests of either kind, a message. *)
EXTENDS ChannelAccess, TLC

CONSTANTS ana, bia, general, e1, r1, r2, m1

Alike == Permutations(RoleEdits)

=============================================================================
