CONSTANTS
  Collections = {c1, c2}
  Cleaners = {k1, k2}
  Times = {0, 1}
  retention = 1
  batchSize = 1
  MaxNow = 2
  MaxFailures = 1
  None = None
SPECIFICATION FairSpec
INVARIANTS DuplicatesAreRecognised
PROPERTIES NothingYoungIsLost CleanupIsThorough WhatExpiresGoes
