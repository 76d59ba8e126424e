\* Looks for a counterexample to a claim of the sources.
CONSTANTS
  Accounts = {owner, w1}
  Authority = owner
  NoWorker = none
  PageCapacity = 1
  RetryLimits <- LimitTwo
  StartDelays <- DelayZero
  RetryDelays <- DelayOne
  MaxJobs = 2

SPECIFICATION Spec

INVARIANT WalkFindsPending
