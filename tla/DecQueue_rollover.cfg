\* Pages of one: every job grows the list, head and tail move, and a retry may
\* find no page with room.
CONSTANTS
  Accounts = {owner, w1}
  Authority = owner
  NoWorker = none
  PageCapacity = 1
  RetryLimits <- LimitsZeroTwo
  StartDelays <- DelaysZeroOne
  RetryDelays <- DelayOne
  MaxJobs = 2

SPECIFICATION Spec

INVARIANTS
  ListWellFormed
  FreshJobsReachable

PROPERTY HeadNeverRewinds
