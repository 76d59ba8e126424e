------------------------------ MODULE Delivery ------------------------------
(***************************************************************************)
(* What a caller may rely on when it sends an instruction through the fee  *)
(* strategy: success is reported only for an instruction that took effect, *)
(* and one the program accepts once takes effect at most once.  An error   *)
(* promises nothing: the instruction may have taken effect before it, and  *)
(* may still do so after it.                                               *)
(***************************************************************************)
EXTENDS Naturals

VARIABLES
  once,     \* the program's guards accept the instruction at most once
  effects,  \* how often it took effect
  verdict   \* what the caller is told: "none" yet, "success" or "error"

Init == once \in BOOLEAN /\ effects = 0 /\ verdict = "none"

TakeEffect ==
  /\ once => effects = 0
  /\ effects' = effects + 1
  /\ UNCHANGED <<once, verdict>>

Report(v) ==
  /\ verdict = "none"
  /\ v = "success" => effects > 0
  /\ verdict' = v
  /\ UNCHANGED <<once, effects>>

Next == TakeEffect \/ \E v \in {"success", "error"} : Report(v)

Spec == Init /\ [][Next]_<<once, effects, verdict>>
=============================================================================
