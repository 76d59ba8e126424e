----------------------------- MODULE MCDecQueue -----------------------------
(* Constants of the small instances of DecQueue that TLC checks.             *)
EXTENDS DecQueueClaims

\* 0: the one attempt a queue without retries makes; 2: one retry.
LimitsZeroTwo == {0, 2}
LimitTwo      == {2}

\* 0: ready at once; 1: scheduled one second ahead.
DelaysZeroOne == {0, 1}
DelayZero     == {0}
DelayOne      == {1}
=============================================================================
