CONSTANTS
  Accounts = {owner, w1}
  Authority = owner
  NoWorker = none
  PageCapacity = 1
  RetryLimits <- LimitTwo
  StartDelays <- DelayZero
  RetryDelays <- DelayZero
  MaxJobs = 2
  Workers = {owner, w1}
  MaxSends = 2
  PagesRead <- FirstPage
  BadJobs <- BadFirst

SPECIFICATION PoolSpec

INVARIANTS
  PoolTypeOK
  ExecutionsClaimed
  VerdictIsTrue

PROPERTY AbandonedStays

CHECK_DEADLOCK FALSE
