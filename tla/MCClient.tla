------------------------------ MODULE MCClient ------------------------------
(* Constants of the small instance of Client that TLC checks.                *)
EXTENDS Client

LimitTwo  == {2}
DelayZero == {0}

Plain == [connected |-> TRUE, chars |-> 1, bytes |-> 1, payload |-> 1, delay |-> 0]

\* One that is fine, one character of two bytes, too much payload and no wallet, a
\* negative delay.
AllKinds == {Plain, [Plain EXCEPT !.bytes = 2],
             [Plain EXCEPT !.connected = FALSE, !.payload = 2], [Plain EXCEPT !.delay = -1]}
=============================================================================
