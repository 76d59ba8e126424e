---------------------------- MODULE MCWorkerPool ----------------------------
(* Constants of the small instances of WorkerPool that TLC checks.           *)
EXTENDS WorkerPool

LimitTwo   == {2}
LimitThree == {3}
DelayZero  == {0}

FirstPage == {0}
NoPage    == {}

BadFirst == {0}
=============================================================================
