SPECIFICATION SharingSpec
CONSTANTS
  Users = {s1,m,g,q}
  SignRuns = {s1}
  Monitors = {m}
  MangaWorkers = {g}
  StatusChecks = {q}
  Kind <- KindOf
  Clients = {c1,c2,c3,c4}
  Locks = {l1,l2}
  Variants = {"updates", "noUpdates"}
  MaxRetries = 2
  Faults = {"fatal","cancel","close"}
  Reserve = 1
  NoUser = NoUser
  NoClient = NoClient
  NoLock = NoLock
SYMMETRY Symmetry
PROPERTIES OrderlySharing ConnectionFollowsUsers
CONSTRAINT Bounded
