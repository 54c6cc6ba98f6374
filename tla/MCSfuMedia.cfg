SPECIFICATION Spec
CONSTANTS
  ana = ana
  bia = bia
  lobby = lobby
  den = den
  None = None
  Sessions = {ana, bia}
  Publishers = {ana}
  Rooms = {lobby, den}
  Ids = {1, 2, 3, 4}
  MaxRequests = 2
  MaxFaults = 1
SYMMETRY RoomsAlike
INVARIANTS OneRouter NothingLeaks MediaFollowsRoom MutesSettle HearsOnlyLive NobodyUnheard
CHECK_DEADLOCK FALSE
