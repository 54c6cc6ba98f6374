\* What must eventually happen; two people who hide while disconnected, and a bot, at the cap of an address.
SPECIFICATION FairSpec
CONSTANTS
  MaxConns = 2
  u1 = u1  u2 = u2  bot = bot  d1 = d1  d2 = d2  d3 = d3  b1 = b1  home = home  lan = lan
  Users = {u1, u2, bot}
  Devices = {d1, d2, b1}
  UserOf <- AllUserOf
  Bots = {b1}
  Kickable = {}
  Addresses = {home}
  Counted = {home}
  MaxPerAddress = 1
  MaxAnonymous = 2
  Hiders = {}
  MayClose = FALSE
  OfflineToggle = TRUE
  None = None
PROPERTIES ReconnectingEnds AnonymousEnds
CHECK_DEADLOCK FALSE
