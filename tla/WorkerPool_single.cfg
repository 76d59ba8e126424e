CONSTANTS
  Accounts = {owner, w1}
  Authority = owner
  NoWorker = none
  PageCapacity = 1
  RetryLimits <- LimitThree
  StartDelays <- DelayZero
  RetryDelays <- DelayZero
  MaxJobs = 2
  Workers = {owner, w1}
  MaxSends = 1
  PagesRead <- FirstPage
  BadJobs <- BadFirst

SPECIFICATION FairPoolSpec

INVARIANT ExecutesWhatItHolds

PROPERTY PassEnds

CHECK_DEADLOCK FALSE
