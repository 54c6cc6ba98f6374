\* A person who may be kicked, a crowded server, and a shutdown at any time.
SPECIFICATION Spec
CONSTANTS
  MaxConns = 3
  u1 = u1  u2 = u2  bot = bot  d1 = d1  d2 = d2  d3 = d3  b1 = b1  home = home  lan = lan
  Users = {u1, u2}
  Devices = {d1, d2}
  UserOf <- TwoUserOf
  Bots = {}
  Kickable = {u1}
  Addresses = {home}
  Counted = {home}
  MaxPerAddress = 3
  MaxAnonymous = 2
  Hiders = {}
  MayClose = TRUE
  OfflineToggle = FALSE
  None = None
INVARIANTS CleanShutdown AnonymousBounded
PROPERTIES ImplementsPresence
