------------------------- MODULE MCServerLifecycle -------------------------
(* A server of its own, one hosted by the desktop app and a command line.  *)
EXTENDS ServerLifecycle, TLC

CONSTANTS s1, s2, c1
MCServers == {s1, s2}
MCHosted == {s2}
MCCommands == {c1}
=============================================================================
