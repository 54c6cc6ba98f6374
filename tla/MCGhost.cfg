SPECIFICATION Spec
CONSTANTS
  alice = alice
  bob = bob
  a1 = a1
  b1 = b1
  lobby = lobby
  den = den
  None = None
  Users = {alice, bob}
  Sessions = {a1, b1}
  Rooms = {lobby, den}
  Governed = {bob}
  Speakers = {b1}
  UserOf <- MCUserOf
  MaxWaiting = 1
INVARIANT NoGhosts
