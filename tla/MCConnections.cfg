\* A person with two devices who hide and show, seen by another, three sockets.
SPECIFICATION Spec
CONSTANTS
  MaxConns = 3
  u1 = u1  u2 = u2  bot = bot  d1 = d1  d2 = d2  d3 = d3  b1 = b1  home = home  lan = lan
  Users = {u1, u2}
  Devices = {d1, d2, d3}
  UserOf <- ThreeUserOf
  Bots = {}
  Kickable = {}
  Addresses = {home}
  Counted = {home}
  MaxPerAddress = 3
  MaxAnonymous = 1
  Hiders = {u1}
  MayClose = FALSE
  OfflineToggle = FALSE
  None = None
SYMMETRY SameUser
INVARIANTS IndexAgrees NoGraceWhileBound RostersAgree
PROPERTIES NeverReadmitted
CHECK_DEADLOCK FALSE
