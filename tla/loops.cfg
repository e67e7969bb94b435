SPECIFICATION FairSpec
CONSTANTS
  Ranges <- SmallRanges
  Divisions <- AllDivisions
  ThreadCount = 2
  MaxJobs = 4
  Durations <- ShortWaits
  MaxTime = 1
INVARIANTS
  IndexOnce
  GetMeansDone
  FuturesTellTruth
  RangesPartitioned
  IndexTypesHold
PROPERTIES
  AnswersHonest
  GetComesBack
CHECK_DEADLOCK FALSE
