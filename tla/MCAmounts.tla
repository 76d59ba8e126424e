------------------------------ MODULE MCAmounts ------------------------------
(* Constants of the instance of Amounts that TLC checks: the defaults of     *)
(* defaultHybridFeeConfig with small fees, and integers of 12 bits, as wide  *)
(* as the largest shift needs.                                               *)
EXTENDS Amounts

ThreeDraws   == {-100, 0, 100}
SmallFees    == {0, 1, 4, 6, 10}
SomeTimes    == {0, 1, 1000, 2047}
SomeDelays   == {-2048, -3, 0, 1, 2, 3, 7, 500, 2047}
SomeInstants == {1, 999, 1000, 5500, 7999}
SomePauses   == {0, 1, 500, 999, 1000, 1001, 2999, 5000}
=============================================================================
