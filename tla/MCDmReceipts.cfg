\* A friend whose device writes late and crashes; messages may expire.
SPECIFICATION Spec
CONSTANTS
  a1 = a1  a2 = a2  b1 = b1  m1 = m1
  Texts = {1, 2}
  None = None
  Mine = {a1}
  Theirs = {b1}
  Msgs = {m1}
  Can <- All
  FirstTexts = {1, 2}
  MaxClock = 1
  Slow = {b1}
  Crashing = {b1}
  MaxCrashes = 1
  MayExpire = TRUE
INVARIANTS ReceiptIsTrue PendingIsQueued FriendsSeeTheSame
PROPERTIES DeleteIsFinal
CHECK_DEADLOCK FALSE
