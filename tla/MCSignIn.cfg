\* Three sign-ins one at a time, or two that waited for the same run of the probe.
SPECIFICATION FairSpec
CONSTANTS
  k1 = k1  k2 = k2  k3 = k3  d1 = d1  d2 = d2  d3 = d3  n1 = n1  n2 = n2
  Conns = {1, 2, 3}
  Keys = {k1, k2, k3}
  Devices = {d1, d2, d3}
  Nicknames = {n1, n2}
  Requests <- Several
  MaxSessions = 1
  MaxUsers = 2
  MaxConnects <- Tries
  None = None
INVARIANTS TypeOK NoChallengeLeft Caps
PROPERTIES ChallengeEnds OwnerKept NoDowngrade
CHECK_DEADLOCK FALSE
