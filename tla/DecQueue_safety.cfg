\* Pages of two: swap_remove has an entry to move, and a retry can fill a page.
CONSTANTS
  Accounts = {owner, w1}
  Authority = owner
  NoWorker = none
  PageCapacity = 2
  RetryLimits <- LimitsZeroTwo
  StartDelays <- DelaysZeroOne
  RetryDelays <- DelayOne
  MaxJobs = 3

SPECIFICATION Spec

INVARIANTS
  TypeOK
  IndexExact
  CountersExact
  RetryBudget

PROPERTIES
  LockHeld
  ImplementsPool
