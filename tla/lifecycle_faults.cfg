SPECIFICATION FairSpec
CONSTANTS
  Users = {u1, u2}
  Clients = {c1, c2, c3}
  Locks = {l1, l2}
  Variants = {v1}
  MaxRetries = 2
  Faults = {"fatal", "cancel", "close"}
  Reserve = 1
  NoUser = NoUser
  NoClient = NoClient
  NoLock = NoLock
INVARIANT HeldOnlyByLifecycleOp
PROPERTY CallsComplete
