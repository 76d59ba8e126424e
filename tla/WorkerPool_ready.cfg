CONSTANTS
  Accounts = {owner, w1}
  Authority = owner
  NoWorker = none
  PageCapacity = 1
  RetryLimits <- LimitTwo
  StartDelays <- DelayZero
  RetryDelays <- DelayZero
  MaxJobs = 1
  Workers = {owner, w1}
  MaxSends = 1
  PagesRead <- NoPage
  BadJobs <- BadFirst

SPECIFICATION PoolSpec

INVARIANT ReadyJobsAreSeen

CHECK_DEADLOCK FALSE
