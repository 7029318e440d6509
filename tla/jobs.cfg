SPECIFICATION FairSpec
CONSTANTS
  BackJobs = {b1}
  WalkJobs = {w1}
  Polled = {b1}
  Workers = {p, q}
  Headers <- MCHeaders
  MaxFaults = 1
  MaxDups = 1
  NoJob = NoJob
INVARIANTS TypeOK RunsWithinPushes ResultMatchesStatus WindowsHonest StrandedOnlyByFault AnswerHolds
PROPERTIES CompletedIsFinal JobsSettle
CHECK_DEADLOCK FALSE
