\* The default of four attempts.
CONSTANT MaxAttempts = 4

SPECIFICATION FairSpec

INVARIANTS
  TypeOK
  ResultIsTrue
  TipsAreEarned

PROPERTIES
  ImplementsDelivery
  SendEnds

CHECK_DEADLOCK FALSE
