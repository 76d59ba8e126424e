------------------------------ MODULE Amounts ------------------------------
(***************************************************************************)
(* The numbers the system computes: the bid and the pauses of a send       *)
(* (client/fee-strategy.ts), the time of the next attempt of a failed job  *)
(* (fail_job in program/src/lib.rs) and of a delayed one                   *)
(* (buildExecuteAfter in shared/decqueue-core.ts).  They share nothing, so *)
(* a behaviour is about one of the three.                                  *)
(*                                                                         *)
(* Integers of the program are Bits wide; the amounts of the client are    *)
(* small enough to be exact in a JavaScript number, except where one is    *)
(* divided by 100.                                                         *)
(***************************************************************************)
EXTENDS Integers, FiniteSets, Functions

CONSTANTS
  Percentile,     \* priorityFeePercentile
  MinFee, MaxFee, \* minPriorityFeeMicroLamports, maxPriorityFeeMicroLamports
  MaxAttempts,    \* retry.maxAttempts
  BaseDelay,      \* retry.baseDelayMs
  Jitter,         \* retry.jitterFactor, in percent
  Multiplier,     \* retry.backoffMultiplier
  Bits,           \* width of i64
  Fees,           \* fees that slots report
  MaxSlots,       \* bound: slots reported, 150 on the network
  Draws,          \* bound: Math.random() * 2 - 1, in percent
  Times,          \* bound: unix times of the ledger
  Delays,         \* bound: retry_after_secs, seconds
  Instants,       \* bound: Date.now(), milliseconds
  Pauses          \* bound: delays asked for, milliseconds

ASSUME PercentileAssumption == Percentile \in 0..100
ASSUME FeesAssumption ==
  Fees \subseteq Nat /\ MinFee \in Nat /\ MaxFee \in Nat /\ MinFee <= MaxFee
ASSUME RetryAssumption ==
  /\ MaxAttempts \in Nat \ {0} /\ BaseDelay \in Nat \ {0}
  /\ Jitter \in 0..100 /\ Multiplier \in Nat \ {0} /\ Draws \subseteq -100..100
\* The program has 64; no job is attempted more often than 10 times (lib.rs:87).
ASSUME BitsAssumption == Bits \in Nat /\ Bits >= 10
ASSUME BoundsAssumption == MaxSlots \in Nat /\ Instants \cup Pauses \subseteq Nat

VARIABLES
  who,      \* whose numbers this behaviour is about
  slots,    \* fees reported for the accounts, 0 for a slot without one
  bid,      \* micro-lamports per compute unit of this attempt
  attempt,  \* of the send
  waited,   \* all pauses before it, milliseconds
  job,      \* attempts made, and when it was last delayed and for how long
  due       \* execute_after

vars == <<who, slots, bid, attempt, waited, job, due>>

NoBid == -1

Init ==
  /\ who \in {"sender", "program", "producer"}
  /\ slots = <<>> /\ bid = NoBid /\ attempt = 1 /\ waited = 0
  /\ job = [attempts |-> 0, at |-> 0, after |-> 0] /\ due = 0

-----------------------------------------------------------------------------
(* The bid.                                                                 *)

\* Slots without a fee are left out.
Paid(reported) == {i \in DOMAIN reported : reported[i] > 0}

\* Variant: Array.prototype.sort without a comparison leaves the order of text.
SortedUnsorted(reported) ==
  CHOOSE order \in Bijection(1..Cardinality(Paid(reported)), Paid(reported)) : TRUE

\* The slots with a fee from the lowest fee to the highest.
Sorted(reported) ==
  LET n == Cardinality(Paid(reported))
  IN  CHOOSE order \in Bijection(1..n, Paid(reported)) :
        \A i, j \in 1..n : i <= j => reported[order[i]] <= reported[order[j]]

\* Indices from 0 into n fees: percentile / 100 is rounded, so that a product that should
\* be whole may come out just below.
Positions(n) == {(Percentile * (n - 1)) \div 100, (Percentile * (n - 1) - 1) \div 100} \cap Nat

Clamp(fee) ==
  LET capped == IF fee > MaxFee THEN MaxFee ELSE fee
  IN  IF capped < MinFee THEN MinFee ELSE capped

\* What getDynamicPriorityFee may return; a request that fails reports nothing.
DynamicPriorityFees(reported) ==
  IF Paid(reported) = {} THEN {MinFee}
  ELSE {Clamp(reported[Sorted(reported)[1 + k]]) : k \in Positions(Cardinality(Paid(reported)))}

Reports == UNION {[1..n -> Fees] : n \in 0..MaxSlots}

Bid ==
  /\ who = "sender" /\ bid = NoBid
  /\ \E reported \in Reports : slots' = reported /\ bid' \in DynamicPriorityFees(reported)
  /\ UNCHANGED <<who, attempt, waited, job, due>>

-----------------------------------------------------------------------------
(* The pauses of send.                                                      *)

\* b to the power of n.
Power(b) == LET p[n \in Nat] == IF n = 0 THEN 1 ELSE b * p[n - 1] IN p

\* Variant: the first pause is twice as long as it should be.
BackoffDelayLate(a, draw) ==
  LET base == BaseDelay * Power(Multiplier)[a]
  IN  base + (base * Jitter * draw + 5000) \div 10000

\* backoffDelayMs, rounded to whole milliseconds: a is the attempt that failed.
BackoffDelay(a, draw) ==
  LET base  == BaseDelay * Power(Multiplier)[a - 1]
      exact == base + (base * Jitter * draw + 5000) \div 10000
  IN  IF exact < 0 THEN 0 ELSE exact

\* The next attempt of send asks for the fees again.
Pause ==
  /\ who = "sender" /\ bid # NoBid /\ attempt < MaxAttempts
  /\ \E draw \in Draws : waited' = waited + BackoffDelay(attempt, draw)
  /\ attempt' = attempt + 1
  /\ bid' = NoBid /\ slots' = <<>>
  /\ UNCHANGED <<who, job, due>>

-----------------------------------------------------------------------------
(* The next attempt of a job.                                               *)

MaxInt == Power(2)[Bits - 1] - 1
MinInt == -Power(2)[Bits - 1]
Wrap(n) == ((n - MinInt) % Power(2)[Bits]) + MinInt

ASSUME IntegersAssumption == Times \subseteq 0..MaxInt /\ Delays \subseteq MinInt..MaxInt

\* 1i64.checked_shl(n).unwrap_or(i64::MAX)
Shl(n) == IF n < Bits THEN Wrap(Power(2)[n]) ELSE MaxInt

\* saturating_mul
SatMul(m, n) ==
  IF m * n > MaxInt THEN MaxInt ELSE IF m * n < MinInt THEN MinInt ELSE m * n

\* Variant: the delay grows by as much as it is, not to twice as much.
RetryAtLinear(now, after, attempts) == Wrap(now + SatMul(after, attempts))

\* The sum is not checked: it wraps.  (In a build with overflow checks it panics, and
\* the instruction changes nothing.)
RetryAt(now, after, attempts) == Wrap(now + SatMul(after, Shl(attempts - 1)))

\* fail_job while attempts remain: max_retries is at most 10.
RetryJob ==
  /\ who = "program" /\ job.attempts < 9
  /\ \E now \in Times, after \in Delays :
       LET failed == [attempts |-> job.attempts + 1, at |-> now, after |-> after]
       IN  /\ job' = failed
           /\ due' = RetryAt(now, after, failed.attempts)
  /\ UNCHANGED <<who, slots, bid, attempt, waited>>

-----------------------------------------------------------------------------
(* The time of a delayed job.                                               *)

\* Variant: seconds are rounded up.
ExecuteAfterRoundedUp(now, pause) ==
  IF pause = 0 THEN 0 ELSE (now + 999) \div 1000 + (pause + 999) \div 1000

\* 0 stands for the ledger's now.
ExecuteAfter(now, pause) ==
  IF pause = 0 THEN 0 ELSE now \div 1000 + pause \div 1000

DelayJob ==
  /\ who = "producer" /\ job.at = 0
  /\ \E now \in Instants, pause \in Pauses :
       /\ job' = [attempts |-> 0, at |-> now, after |-> pause]
       /\ due' = ExecuteAfter(now, pause)
  /\ UNCHANGED <<who, slots, bid, attempt, waited>>

-----------------------------------------------------------------------------
Next == Bid \/ Pause \/ RetryJob \/ DelayJob

Spec == Init /\ [][Next]_vars

-----------------------------------------------------------------------------
(* The bid is the priorityFeePercentile-th of the fees that were paid, kept  *)
(* between floor and cap: of the slots with a fee, at most so many percent   *)
(* lie below it and, but for one, at most the other percent above it,        *)
(* whatever the order they are reported in (fee-strategy.ts:210-251).        *)
BidIsPercentile ==
  bid # NoBid =>
    LET n     == Cardinality(Paid(slots))
        lower == Cardinality({i \in Paid(slots) : slots[i] < bid})
        upper == Cardinality({i \in Paid(slots) : slots[i] > bid})
    IN  /\ bid \in MinFee..MaxFee
        /\ n = 0 => bid = MinFee
        /\ n > 0 /\ bid > MinFee => 100 * lower <= Percentile * (n - 1)
        /\ n > 0 /\ bid < MaxFee => 100 * upper <= (100 - Percentile) * (n - 1) + 100

\* k pauses without jitter: the sum of a geometric series.
Planned(k) ==
  IF Multiplier = 1 THEN BaseDelay * k
  ELSE BaseDelay * ((Power(Multiplier)[k] - 1) \div (Multiplier - 1))

(* All pauses of a send together are those of an exponential backoff, but    *)
(* for the jitter and half a millisecond of rounding each, and there is one  *)
(* less than there are attempts: a worker gives a job up in bounded time     *)
(* (fee-strategy.ts:444-451, 501-598).                                       *)
WaitBounded ==
  LET k == attempt - 1
  IN  /\ k < MaxAttempts
      /\ 100 * waited <= (100 + Jitter) * Planned(k) + 50 * k
      /\ 100 * waited >= (100 - Jitter) * Planned(k) - 50 * k

(* A retried job is due when the delay, doubled with every attempt, has      *)
(* passed since it failed, wherever that time is an i64: neither the shift   *)
(* nor the product is ever the first to overflow.  Beyond, the sum wraps and *)
(* the job is due at once, however much was saturated before it, and so it   *)
(* is with a negative delay (lib.rs:418-429).                                *)
DueIsExact ==
  who = "program" /\ job.attempts > 0 =>
    LET exact == job.at + job.after * Power(2)[job.attempts - 1]
    IN  /\ job.after >= 0 /\ exact <= MaxInt => due = exact
        /\ job.at > 0 /\ exact > MaxInt => due < job.at
        /\ job.after < 0 => due < job.at

(* A delayed job is never due later than the producer asked, and less than   *)
(* two seconds earlier, by the producer's clock (decqueue-core.ts:97-107).   *)
DelayKept ==
  who = "producer" /\ due > 0 =>
    /\ 1000 * due <= job.at + job.after
    /\ job.at + job.after - 1000 * due < 2000
=============================================================================
