CONSTANTS
  s1 = s1  s2 = s2  c1 = c1  None = None
  Servers <- MCServers
  Hosted <- MCHosted
  Commands <- MCCommands
  MaxWrites = 1
  MaxFailures = 1
SPECIFICATION FairSpec
INVARIANTS FileIsCommitted IdentityOnFile HeldWhileUsed
PROPERTIES StoppedIsSaved NoSaveOverServer StopEnds
CHECK_DEADLOCK FALSE
