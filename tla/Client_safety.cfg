CONSTANTS
  Accounts = {owner}
  Authority = owner
  NoWorker = none
  PageCapacity = 1
  RetryLimits <- LimitTwo
  StartDelays <- DelayZero
  RetryDelays <- DelayZero
  MaxJobs = 2
  Requests <- AllKinds
  MaxTypeLength = 1
  MaxPayload = 1
  MaxSubmissions = 2
  ChunkSize = 1

SPECIFICATION FairClientSpec

INVARIANTS
  ClientTypeOK
  ResultIsItsJob
  OneJobPerSubmission
  SnapshotInOrder

PROPERTY SubmissionEnds

CHECK_DEADLOCK FALSE
