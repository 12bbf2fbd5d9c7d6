SPECIFICATION FairSpec
CONSTANTS
  Runs = {r1,r2}
  Scheduled = {}
  CancelAt = {"fetching"}
  Renames = FALSE
  NoRun = NoRun
PROPERTIES TaskIsReleased
CHECK_DEADLOCK FALSE
