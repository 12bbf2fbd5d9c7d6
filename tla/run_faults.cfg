SPECIFICATION Spec
CONSTANTS
  Runs = {r1,r2,s}
  Scheduled = {s}
  CancelAt = {"created","checking","waiting","running","settling","fetching","notifying"}
  Renames = TRUE
  NoRun = NoRun
SYMMETRY Symmetry
INVARIANTS OneRunPerTask StatusMatchesHistory
CHECK_DEADLOCK FALSE
