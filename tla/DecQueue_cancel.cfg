\* Looks for a counterexample to a claim of the sources.
CONSTANTS
  Accounts = {owner, w1}
  Authority = owner
  NoWorker = none
  PageCapacity = 2
  RetryLimits <- LimitTwo
  StartDelays <- DelayZero
  RetryDelays <- DelayOne
  MaxJobs = 3

SPECIFICATION Spec

INVARIANT OnlyTerminalCannotBeCancelled
