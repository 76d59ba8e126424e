CONSTANTS
  Clusters = {"devnet", "localnet"}
  Queues = {q1}
  NoQueue = noQueue
  Nobody = nobody
  Slots = {1, 2}
  MaxViews = 2
  MaxChanges = 1
  FormOverlaps = FALSE

SPECIFICATION FairSpec

INVARIANTS
  TypeOK
  LoadingIsBusy
  CancellingIsBusy
  ActiveIsWatched

PROPERTIES
  Converges
  SpinnersStop

CHECK_DEADLOCK FALSE
