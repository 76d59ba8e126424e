CONSTANTS
  Wallets = {1, 2, 3}
  NoWallet = noWallet
  Keys = {k1, k2}
  NoKey = noKey
  MaxCalls = 3

SPECIFICATION FairSpec

INVARIANTS
  TypeOK
  ConnectingIsBusy
  ShownIsSelected
  SelectionHeld

PROPERTY ConnectEnds

CHECK_DEADLOCK FALSE
