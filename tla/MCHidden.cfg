\* The choice to appear offline changes while the app is disconnected.
SPECIFICATION Spec
CONSTANTS
  MaxConns = 3
  u1 = u1  u2 = u2  bot = bot  d1 = d1  d2 = d2  d3 = d3  b1 = b1  home = home  lan = lan
  Users = {u1, u2}
  Devices = {d1, d2}
  UserOf <- TwoUserOf
  Bots = {}
  Kickable = {}
  Addresses = {home}
  Counted = {home}
  MaxPerAddress = 3
  MaxAnonymous = 3
  Hiders = {}
  MayClose = FALSE
  OfflineToggle = TRUE
  None = None
INVARIANTS HiddenNotShown
CHECK_DEADLOCK FALSE
