SPECIFICATION ServicesSpec
CONSTANTS
  Slots = 3
  Days = 2
  Plans <- AtNoonOrInAWindow
  Occasions <- WhatHappensToTheTask
  MaxOccasions = 2
  Nodes = {n1, n2}
  MaxUpdates = 2
  MaxSaves = 1
  Troubles <- WhatHappensToTheBot
  MaxTroubles = 2
  NoNode = NoNode
  Accounts = {a, b}
  Contended = {a}
  MaxMessages = 1
  MaxEdits = 1
  Upsets <- WhatHappensToTheMonitor
  MaxUpsets = 1
  Users = {u1, u2, u3}
  Clients = {c1, c2}
  Locks = {l1, l2}
  Variants = {"updates", "noUpdates"}
  MaxRetries = 2
  Faults = {"fatal"}
  Reserve = 1
  NoUser = NoUser
  NoClient = NoClient
  NoLock = NoLock
INVARIANTS DaysAreKept OnlyOwnerPolls UpdatesAreKept HitsAreExact
INVARIANTS StartStopSerialized RefsCountUsers
PROPERTIES BotServes RulesAreServed
PROPERTIES ImplementsSharedConnection NeverStoppedUnderUser
CHECK_DEADLOCK FALSE
