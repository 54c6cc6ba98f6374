\* One edit of the channel, two of the role, a message while people sign in.
SPECIFICATION Spec
CONSTANTS
  ana = ana
  bia = bia
  general = general
  e1 = e1
  r1 = r1
  r2 = r2
  m1 = m1
  None = None
  Users = {ana, bia}
  Channels = {general}
  ChannelEdits = {e1}
  RoleEdits = {r1, r2}
  Posts = {m1}
  Present = {ana}
  Apart = TRUE
SYMMETRY Alike
INVARIANTS VersionsComeBack ToldAsItIs
PROPERTIES OnlyReadersHear SavedWithLeave
CHECK_DEADLOCK FALSE
