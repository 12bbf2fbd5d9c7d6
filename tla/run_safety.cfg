SPECIFICATION TasksSpec
CONSTANTS
  Runs = {r1,r2,r3,s}
  Scheduled = {s}
  CancelAt = {"checking","waiting","running","settling"}
  Renames = FALSE
  NoRun = NoRun
  Scripts <- ScriptsOfTheChat
  Histories <- SuccessOfYesterday
  Lookback = 2
  MaxAttempts = 2
  MaxBotPosts = 1
  MaxBotEdits = 1
  Conditions <- HowTheBotIs
INVARIANTS ScriptIsFollowed ActiveMeansExecuting StatusTellsTheRun CancelledLeavesNoHistory
PROPERTIES RunsEnd HelpfulBotSucceeds
CHECK_DEADLOCK FALSE
