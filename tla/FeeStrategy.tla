---------------------------- MODULE FeeStrategy -----------------------------
(***************************************************************************)
(* HybridFeeStrategy.send (client/fee-strategy.ts): one instruction, sent  *)
(* as a plain transaction or in a Jito bundle with a tip, again and again  *)
(* until an attempt is confirmed or all attempts are used up.              *)
(*                                                                         *)
(* What is sent travels: it lands or expires at a time of its own, also    *)
(* after the sender has given it up.  An attempt signs a new blockhash, so *)
(* the ledger takes two attempts for two different transactions; only the  *)
(* program's own guards can refuse the second.  Fees, jitter and the       *)
(* length of delays decide nothing here and are left out.                  *)
(***************************************************************************)
EXTENDS Integers, FiniteSets

CONSTANT MaxAttempts  \* config.retry.maxAttempts

ASSUME MaxAttemptsAssumption == MaxAttempts \in Nat \ {0}

VARIABLES
  config,   \* how this send was called; never changes
  attempt,  \* the loop variable of send
  phase,    \* where send stands
  flight,   \* transactions and bundles that may still land
  applied,  \* the attempts whose program transaction took effect
  tips      \* Jito tips paid, in units of the configured tip

vars == <<config, attempt, phase, flight, applied, tips>>

\* jitoTipLamports: 0 disables the tip but not the bundle.
\* once: the program accepts the instruction once, because claim, complete and
\* fail change the status their guards ask for.  FALSE when other transactions
\* move the job meanwhile, so that a second copy finds it as the first one did,
\* and for the empty list that claimWithStrategy sends on the compressed path.
Config == [mode : {"standard", "jito", "auto"}, jitoTipLamports : {0, 1},
           skipJitoTipOnLowPriorityRetry : BOOLEAN,
           isHighPriority : BOOLEAN, once : BOOLEAN]

Phases == {"sending", "confirming", "backoff", "returned", "threw"}

\* The transactions that land together or not at all.
Parcels == [attempt : 1..MaxAttempts,
            txs : {{"program"}, {"tip", "program"}, {"tip"}}]

Init ==
  /\ config \in Config
  /\ attempt = 1
  /\ phase = "sending"
  /\ flight = {} /\ applied = {} /\ tips = 0

\* Does attempt number a go to Jito?
UseJito(a) ==
  LET isJitoAttempt == config.mode = "jito" \/ (config.mode = "auto" /\ a = 1)
      skipJitoForPriority == /\ config.skipJitoTipOnLowPriorityRetry
                             /\ ~config.isHighPriority /\ a > 1
  IN  isJitoAttempt /\ ~skipJitoForPriority

-----------------------------------------------------------------------------
\* The catch block: try again after a pause, or give up.
CatchForever ==
  phase' = "backoff"

Catch ==
  phase' = IF attempt < MaxAttempts THEN "backoff" ELSE "threw"

\* Nothing was sent: no blockhash, the preflight simulation failed, or the block
\* engine turned the bundle away.  (A request that arrived and whose answer was
\* lost is a send followed by ConfirmFails.)
SendFails ==
  /\ phase = "sending"
  /\ Catch
  /\ UNCHANGED <<config, attempt, flight, applied, tips>>

SendStandard ==
  /\ phase = "sending" /\ ~UseJito(attempt)
  /\ flight' = flight \cup {[attempt |-> attempt, txs |-> {"program"}]}
  /\ phase' = "confirming"
  /\ UNCHANGED <<config, attempt, applied, tips>>

\* Variant: the tip goes out on its own instead of in the bundle.
SendJitoApart ==
  /\ phase = "sending" /\ UseJito(attempt)
  /\ flight' = flight \cup {[attempt |-> attempt, txs |-> {"tip"}],
                            [attempt |-> attempt, txs |-> {"program"}]}
  /\ phase' = "confirming"
  /\ UNCHANGED <<config, attempt, applied, tips>>

\* One bundle of two transactions: the tip and the program's.
SendJito ==
  /\ phase = "sending" /\ UseJito(attempt)
  /\ flight' = flight \cup {[attempt |-> attempt, txs |-> {"tip", "program"}]}
  /\ phase' = "confirming"
  /\ UNCHANGED <<config, attempt, applied, tips>>

\* sendAndConfirmTransaction resolves, or a poll sees the bundle confirmed.
Confirm ==
  /\ phase = "confirming"
  /\ attempt \in applied
  /\ phase' = "returned"
  /\ UNCHANGED <<config, attempt, flight, applied, tips>>

\* sendAndConfirmTransaction rejects, a request of the poll loop rejects, or a
\* poll reports that the bundle failed: whatever became of what was sent.
ConfirmFails ==
  /\ phase = "confirming"
  /\ Catch
  /\ UNCHANGED <<config, attempt, flight, applied, tips>>

\* Variant: an unconfirmed bundle is taken for landed.
PollDeadlineReturns ==
  /\ phase = "confirming" /\ UseJito(attempt)
  /\ phase' = "returned"
  /\ UNCHANGED <<config, attempt, flight, applied, tips>>

\* confirmJitoBundle after maxPollMs: lastValidBlockHeight is not looked at.
PollDeadline ==
  /\ phase = "confirming" /\ UseJito(attempt)
  /\ Catch
  /\ UNCHANGED <<config, attempt, flight, applied, tips>>

\* Variant: the loop forgets to count.
RetrySameAttempt ==
  /\ phase = "backoff"
  /\ phase' = "sending"
  /\ UNCHANGED <<config, attempt, flight, applied, tips>>

RetryAfterDelay ==
  /\ phase = "backoff"
  /\ attempt' = attempt + 1
  /\ phase' = "sending"
  /\ UNCHANGED <<config, flight, applied, tips>>

-----------------------------------------------------------------------------
(* The network and the ledger.                                              *)

Accepted(p) == ("program" \in p.txs /\ config.once) => applied = {}

\* A parcel lands whole; one with a transaction the program refuses changes
\* nothing (a bundle is not included, a plain transaction fails).
Land(p) ==
  /\ flight' = flight \ {p}
  /\ IF Accepted(p)
     THEN /\ applied' = IF "program" \in p.txs THEN applied \cup {p.attempt} ELSE applied
          /\ tips' = IF "tip" \in p.txs THEN tips + config.jitoTipLamports ELSE tips
     ELSE UNCHANGED <<applied, tips>>
  /\ UNCHANGED <<config, attempt, phase>>

Expire(p) ==
  /\ flight' = flight \ {p}
  /\ UNCHANGED <<config, attempt, phase, applied, tips>>

-----------------------------------------------------------------------------
Sender == SendFails \/ SendStandard \/ SendJito \/ Confirm \/ ConfirmFails
            \/ PollDeadline \/ RetryAfterDelay

Next == Sender \/ \E p \in flight : Land(p) \/ Expire(p)

Spec == Init /\ [][Next]_vars

(* Every request and every sleep ends.                                      *)
FairSpec == Spec /\ WF_vars(Sender)

-----------------------------------------------------------------------------
Done == phase \in {"returned", "threw"}

\* SendResult.jitoTipPaid of a send that returned.
JitoTipPaid == UseJito(attempt)

TypeOK ==
  /\ config \in Config
  /\ attempt \in 1..MaxAttempts
  /\ phase \in Phases
  /\ flight \subseteq Parcels
  /\ applied \subseteq 1..MaxAttempts
  /\ tips \in 0..MaxAttempts

(* A result names the attempt that took effect, and for an instruction the   *)
(* program accepts once it says truthfully whether the tip was paid,         *)
(* although earlier attempts may have landed behind the sender's back        *)
(* (fee-strategy.ts:577-583).                                                *)
ResultIsTrue ==
  phase = "returned" =>
    /\ attempt \in applied
    /\ (config.once /\ config.jitoTipLamports > 0) => (JitoTipPaid <=> tips > 0)

(* A tip is paid only together with an instruction that takes effect: at     *)
(* most once for an instruction the program accepts once, however many       *)
(* bundles were sent; at most once in mode "auto", never in mode "standard"  *)
(* (fee-strategy.ts:315-346, 518-525).                                       *)
TipsAreEarned ==
  /\ tips <= Cardinality(applied)
  /\ (config.once \/ config.mode = "auto") => tips <= 1
  /\ config.mode = "standard" => tips = 0

\* How many steps a send can still take.
StepsLeft ==
  CASE phase = "sending" -> 3 * (MaxAttempts - attempt) + 3
    [] phase = "confirming" -> 3 * (MaxAttempts - attempt) + 2
    [] phase = "backoff" -> 3 * (MaxAttempts - attempt) + 1
    [] Done -> 0

(* Whatever moves a send leaves it fewer steps, and what it returned or      *)
(* threw is final; the network never moves it (fee-strategy.ts:492-604).     *)
SendAdvances ==
  [][<<attempt, phase>>' = <<attempt, phase>> \/ StepsLeft' \in 0..(StepsLeft - 1)]_vars

(* send always returns or throws, whatever the network does.                 *)
SendEnds == <>Done

(* What the caller has been told.                                           *)
Verdict == IF phase = "returned" THEN "success"
           ELSE IF phase = "threw" THEN "error" ELSE "none"

Deliver == INSTANCE Delivery WITH
  once <- config.once, effects <- Cardinality(applied), verdict <- Verdict

(* send implements the promise its callers rely on.                          *)
ImplementsDelivery == Deliver!Spec

=============================================================================
