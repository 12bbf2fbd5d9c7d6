SPECIFICATION FairSpec
CONSTANTS
  Accounts = {"a"}
  N = 3
  Runs = {p}
  LockObjects = {l1,l2}
  MaxLocks = 2
  StartsWith <- OwnKeys
  Overlaps <- QrMayOverlap
  NoLock = NoLock
  NoSession = NoSession
INVARIANT AccountIsExclusive
PROPERTIES LocksFollowLogins AccountBecomesFree
CHECK_DEADLOCK FALSE
