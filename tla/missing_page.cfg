SPECIFICATION PublishingSpec
CONSTANTS
  MaxPosts = 2
  Backfill = 1
  Window = 2
  RetryLimit = 2
  MaxJobs = 4
  Disturbances <- WhatHappensTogether
  MaxDisturbances = 2
  LookupFails = FALSE
  MaxPages = 3
  Videos = {2}
  BatchSize = 2
  MaxAttempts = 2
  Conditions <- TwoAtOnceOrMishaps
  GalleryPages = 3
  FlushEvery = 2
  Weathers <- MissingPages
INVARIANT NothingLeftOut
CHECK_DEADLOCK FALSE
