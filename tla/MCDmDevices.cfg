\* One device sends, another edits and deletes; they exchange history.
SPECIFICATION Spec
CONSTANTS
  a1 = a1  a2 = a2  b1 = b1  m1 = m1
  Texts = {1, 2}
  None = None
  Mine = {a1, a2}
  Theirs = {b1}
  Msgs = {m1}
  Can <- InTurn
  FirstTexts = {2}
  MaxClock = 1
  Slow = {}
  Crashing = {}
  MaxCrashes = 0
  MayExpire = FALSE
INVARIANTS VersionTellsText FriendsSeeTheSame
CHECK_DEADLOCK FALSE
