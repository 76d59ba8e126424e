CONSTANTS
  Percentile = 75
  MinFee = 2
  MaxFee = 8
  MaxAttempts = 4
  BaseDelay = 800
  Jitter = 20
  Multiplier = 2
  Bits = 12
  Fees <- SmallFees
  MaxSlots = 4
  Draws <- ThreeDraws
  Times <- SomeTimes
  Delays <- SomeDelays
  Instants <- SomeInstants
  Pauses <- SomePauses

SPECIFICATION Spec

INVARIANTS
  BidIsPercentile
  WaitBounded
  DueIsExact
  DelayKept

CHECK_DEADLOCK FALSE
