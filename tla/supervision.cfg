SPECIFICATION SupervisionSpec
CONSTANTS
  MaxJobs = 3
  MaxHistory = 2
  ListLimit = 2
  Batch = 2
  MaxRestarts = 1
  WriteFaults = {"later", "unlink"}
  Scenarios <- OneFileMayFail
  MaxRequests = 4
  MaxWorkers = 4
  Circumstances <- WhatHolds
INVARIANTS OneListedCheck ActiveIsRunning SwitchIsObeyed
PROPERTIES OutcomeStands JobSettles OnMeansServed
CHECK_DEADLOCK FALSE
