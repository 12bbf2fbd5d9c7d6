SPECIFICATION SharingSpec
CONSTANTS
  Users = {s1,m}
  SignRuns = {s1}
  Monitors = {m}
  MangaWorkers = {}
  StatusChecks = {}
  Kind <- KindOf
  Clients = {c1,c2,c3}
  Locks = {l1,l2}
  Variants = {"updates", "noUpdates"}
  MaxRetries = 2
  Faults = {"close"}
  Reserve = 4
  NoUser = NoUser
  NoClient = NoClient
  NoLock = NoLock
SYMMETRY Symmetry
INVARIANT SharedClient
