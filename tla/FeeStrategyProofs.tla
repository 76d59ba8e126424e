------------------------- MODULE FeeStrategyProofs --------------------------
(***************************************************************************)
(* FeeStrategy for any number of attempts: the result of a send is true,   *)
(* tips are earned, and send implements Delivery.                          *)
(***************************************************************************)
EXTENDS FeeStrategy, FiniteSetTheorems, TLAPS

USE MaxAttemptsAssumption

(* The applied attempts that went to Jito.                                  *)
JitoApplied == {a \in applied : UseJito(a)}

Types ==
  /\ config \in Config
  /\ attempt \in 1..MaxAttempts
  /\ phase \in Phases
  /\ flight \subseteq Parcels
  /\ applied \subseteq 1..attempt

(* Each attempt is sent once, as UseJito says, and lands at most once.      *)
SentOnce ==
  /\ \A p \in flight :
       /\ p.attempt <= attempt
       /\ p.attempt \notin applied
       /\ p.txs = IF UseJito(p.attempt) THEN {"tip", "program"} ELSE {"program"}
  /\ phase = "sending" =>
       attempt \notin applied /\ \A p \in flight : p.attempt # attempt

Stages ==
  /\ phase = "backoff" => attempt < MaxAttempts
  /\ phase = "returned" => attempt \in applied

Once == config.once => \A a, b \in applied : a = b

TipsCounted == tips = config.jitoTipLamports * Cardinality(JitoApplied)

IInv == Types /\ SentOnce /\ Stages /\ Once /\ TipsCounted

(* The sets that are counted are finite.                                    *)
LEMMA AppliedFinite ==
  ASSUME Types
  PROVE  /\ IsFiniteSet(applied) /\ IsFiniteSet(JitoApplied)
         /\ Cardinality(applied) \in Nat /\ Cardinality(JitoApplied) \in Nat
         /\ Cardinality(JitoApplied) <= Cardinality(applied)
         /\ Cardinality(applied) <= MaxAttempts
<1>1. IsFiniteSet(1..MaxAttempts) /\ Cardinality(1..MaxAttempts) = MaxAttempts
  BY FS_Interval
<1>2. applied \subseteq 1..MaxAttempts
  BY DEF Types
<1>3. IsFiniteSet(applied) /\ Cardinality(applied) <= MaxAttempts
  BY <1>1, <1>2, FS_Subset
<1>4. JitoApplied \subseteq applied
  BY DEF JitoApplied
<1>5. IsFiniteSet(JitoApplied) /\ Cardinality(JitoApplied) <= Cardinality(applied)
  BY <1>3, <1>4, FS_Subset
<1> QED
  BY <1>3, <1>5, FS_CardinalityType

LEMMA InitInv == Init => IInv
<1> SUFFICES ASSUME Init PROVE IInv
  OBVIOUS
<1>1. JitoApplied = {} /\ Cardinality({}) = 0
  BY FS_EmptySet DEF Init, JitoApplied
<1>2. config.jitoTipLamports \in {0, 1}
  BY DEF Init, Config
<1>3. TipsCounted
  BY <1>1, <1>2 DEF Init, TipsCounted
<1> QED
  BY <1>3 DEF Init, IInv, Types, Phases, SentOnce, Stages, Once

(* The sender changes neither what was applied nor what was paid.           *)
LEMMA SenderInv == IInv /\ Sender => IInv'
<1> SUFFICES ASSUME IInv, Sender PROVE IInv'
  OBVIOUS
<1> USE DEF IInv
<1>1. UNCHANGED <<config, applied, tips>>
  BY DEF Sender, SendFails, SendStandard, SendJito, Confirm, ConfirmFails,
         PollDeadline, RetryAfterDelay
<1>2. \A a : UseJito(a)' <=> UseJito(a)
  BY <1>1 DEF UseJito
<1>3. JitoApplied' = JitoApplied
  BY <1>1, <1>2 DEF JitoApplied
<1>4. Once' /\ TipsCounted'
  BY <1>1, <1>3 DEF Once, TipsCounted
<1>5. CASE SendFails \/ ConfirmFails \/ PollDeadline
  <2>1. phase' \in {"backoff", "threw"} /\ (phase' = "backoff" => attempt < MaxAttempts)
        /\ UNCHANGED <<attempt, flight>>
    BY <1>5 DEF SendFails, ConfirmFails, PollDeadline, Catch, Types
  <2> QED
    BY <1>1, <1>2, <1>4, <2>1 DEF Types, Phases, SentOnce, Stages
<1>6. CASE SendStandard
  <2>1. [attempt |-> attempt, txs |-> {"program"}] \in Parcels
    BY DEF Parcels, Types
  <2> QED
    BY <1>1, <1>2, <1>4, <1>6, <2>1 DEF SendStandard, Types, Phases, SentOnce, Stages
<1>7. CASE SendJito
  <2> DEFINE bundle == [attempt |-> attempt, txs |-> {"tip", "program"}]
  <2>1. bundle \in Parcels /\ bundle.attempt = attempt /\ bundle.txs = {"tip", "program"}
    BY DEF Parcels, Types
  <2>2. /\ flight' = flight \cup {bundle} /\ phase' = "confirming"
        /\ phase = "sending" /\ UseJito(attempt) /\ attempt' = attempt
    BY <1>7 DEF SendJito
  <2> HIDE DEF bundle
  <2>3. Types' /\ Stages'
    BY <1>1, <2>1, <2>2 DEF Types, Phases, Stages
  <2>4. SentOnce'
    BY <1>1, <1>2, <2>1, <2>2 DEF SentOnce, Types
  <2> QED
    BY <1>4, <2>3, <2>4
<1>8. CASE Confirm
  BY <1>1, <1>2, <1>4, <1>8 DEF Confirm, Types, Phases, SentOnce, Stages
<1>9. CASE RetryAfterDelay
  <2>1. attempt' = attempt + 1 /\ attempt' \in 1..MaxAttempts /\ phase' = "sending"
        /\ UNCHANGED flight
    BY <1>9 DEF RetryAfterDelay, Types, Stages
  <2>2. Types' /\ Stages'
    BY <1>1, <2>1 DEF Types, Phases, Stages
  <2>3. \A p \in flight : p.attempt \in 1..MaxAttempts
    BY DEF Types, Parcels
  <2>4. SentOnce'
    BY <1>1, <1>2, <2>1, <2>3 DEF SentOnce, Types
  <2> QED
    BY <1>4, <2>2, <2>4
<1> QED
  BY <1>5, <1>6, <1>7, <1>8, <1>9 DEF Sender

LEMMA ExpireInv == ASSUME IInv, NEW p \in flight, Expire(p) PROVE IInv'
<1>1. UNCHANGED <<config, attempt, phase, applied, tips>> /\ flight' = flight \ {p}
  BY DEF Expire
<1>2. \A a : UseJito(a)' <=> UseJito(a)
  BY <1>1 DEF UseJito
<1>3. JitoApplied' = JitoApplied
  BY <1>1, <1>2 DEF JitoApplied
<1> QED
  BY <1>1, <1>2, <1>3 DEF IInv, Types, SentOnce, Stages, Once, TipsCounted

(* Landing: an accepted parcel adds its attempt, and its tip if it has one. *)
LEMMA LandInv == ASSUME IInv, NEW p \in flight, Land(p) PROVE IInv'
<1> USE DEF IInv
<1>1. UNCHANGED <<config, attempt, phase>> /\ flight' = flight \ {p}
  BY DEF Land
<1>2. \A a : UseJito(a)' <=> UseJito(a)
  BY <1>1 DEF UseJito
<1>3. /\ p.attempt \in 1..attempt /\ p.attempt \notin applied /\ "program" \in p.txs
      /\ "tip" \in p.txs <=> UseJito(p.attempt)
  BY DEF Types, Parcels, SentOnce
<1>4. \A q \in flight \ {p} : q.attempt # p.attempt
  <2> SUFFICES ASSUME NEW q \in flight, q.attempt = p.attempt PROVE q = p
    OBVIOUS
  <2>1. q.txs = p.txs
    BY DEF SentOnce
  <2>2. q \in Parcels /\ p \in Parcels
    BY DEF Types
  <2> QED
    BY <2>1, <2>2 DEF Parcels
<1>5. CASE ~Accepted(p)
  <2>1. UNCHANGED <<applied, tips>>
    BY <1>5 DEF Land
  <2>2. JitoApplied' = JitoApplied
    BY <1>2, <2>1 DEF JitoApplied
  <2> QED
    BY <1>1, <1>2, <2>1, <2>2 DEF Types, SentOnce, Stages, Once, TipsCounted
<1>6. CASE Accepted(p)
  <2>1. /\ applied' = applied \cup {p.attempt}
        /\ tips' = IF UseJito(p.attempt) THEN tips + config.jitoTipLamports ELSE tips
    BY <1>3, <1>6 DEF Land
  <2>2. Types' /\ Stages'
    BY <1>1, <1>3, <2>1 DEF Types, Stages
  <2>3. phase = "sending" => p.attempt # attempt
    BY DEF SentOnce
  <2>4. SentOnce'
    BY <1>1, <1>2, <1>3, <1>4, <2>1, <2>3 DEF SentOnce
  <2>5. Once'
    BY <1>1, <1>3, <1>6, <2>1 DEF Once, Accepted
  <2>6. config.jitoTipLamports \in {0, 1}
    BY DEF Types, Config
  <2>7. IsFiniteSet(JitoApplied) /\ Cardinality(JitoApplied) \in Nat
    BY AppliedFinite
  <2>8. TipsCounted'
    <3>1. CASE UseJito(p.attempt)
      <4>1. JitoApplied' = JitoApplied \cup {p.attempt} /\ p.attempt \notin JitoApplied
        BY <1>2, <1>3, <2>1, <3>1 DEF JitoApplied
      <4>2. Cardinality(JitoApplied') = Cardinality(JitoApplied) + 1
        BY <2>7, <4>1, FS_AddElement
      <4> QED
        BY <1>1, <2>1, <2>6, <2>7, <3>1, <4>2 DEF TipsCounted
    <3>2. CASE ~UseJito(p.attempt)
      <4>1. JitoApplied' = JitoApplied
        BY <1>2, <2>1, <3>2 DEF JitoApplied
      <4> QED
        BY <1>1, <2>1, <3>2, <4>1 DEF TipsCounted
    <3> QED
      BY <3>1, <3>2
  <2> QED
    BY <2>2, <2>4, <2>5, <2>8
<1> QED
  BY <1>5, <1>6

LEMMA NextInv == IInv /\ [Next]_vars => IInv'
<1> SUFFICES ASSUME IInv, [Next]_vars PROVE IInv'
  OBVIOUS
<1>1. CASE UNCHANGED vars
  BY <1>1 DEF vars, IInv, Types, SentOnce, Stages, Once, TipsCounted, JitoApplied, UseJito
<1> QED
  BY <1>1, SenderInv, LandInv, ExpireInv DEF Next

LEMMA AlwaysInv == Spec => []IInv
BY InitInv, NextInv, PTL DEF Spec

-----------------------------------------------------------------------------
(* A result names the attempt that took effect and says truthfully whether   *)
(* the tip was paid, for every number of attempts.                           *)
THEOREM ResultAlwaysTrue == Spec => []ResultIsTrue
<1>1. ASSUME IInv PROVE ResultIsTrue
  <2> SUFFICES ASSUME phase = "returned" PROVE
        /\ attempt \in applied
        /\ (config.once /\ config.jitoTipLamports > 0) => (JitoTipPaid <=> tips > 0)
    BY DEF ResultIsTrue
  <2>1. attempt \in applied
    BY <1>1 DEF IInv, Stages
  <2>2. ASSUME config.once, config.jitoTipLamports > 0 PROVE JitoTipPaid <=> tips > 0
    <3>1. applied = {attempt}
      BY <1>1, <2>1, <2>2 DEF IInv, Once
    <3>2. JitoApplied = IF UseJito(attempt) THEN {attempt} ELSE {}
      BY <3>1 DEF JitoApplied
    <3>3. Cardinality({attempt}) = 1 /\ Cardinality({}) = 0
      BY FS_EmptySet, FS_Singleton
    <3>4. config.jitoTipLamports \in {0, 1}
      BY <1>1 DEF IInv, Types, Config
    <3> QED
      BY <1>1, <2>2, <3>2, <3>3, <3>4 DEF IInv, TipsCounted, JitoTipPaid
  <2> QED
    BY <2>1, <2>2
<1> QED
  BY <1>1, AlwaysInv, PTL

(* No tip is paid for nothing: at most one for an instruction accepted once  *)
(* and in mode "auto", none in mode "standard".                              *)
THEOREM TipsAlwaysEarned == Spec => []TipsAreEarned
<1>1. ASSUME IInv PROVE TipsAreEarned
  <2>1. /\ Cardinality(applied) \in Nat /\ Cardinality(JitoApplied) \in Nat
        /\ Cardinality(JitoApplied) <= Cardinality(applied)
    BY <1>1, AppliedFinite DEF IInv
  <2>2. config.jitoTipLamports \in {0, 1}
    BY <1>1 DEF IInv, Types, Config
  <2>3. tips <= Cardinality(JitoApplied) /\ (Cardinality(JitoApplied) = 0 => tips = 0)
    BY <1>1, <2>1, <2>2 DEF IInv, TipsCounted
  <2>4. ASSUME config.once \/ config.mode = "auto" PROVE tips <= 1
    <3>1. \A a, b \in JitoApplied : a = b
      BY <1>1, <2>4 DEF IInv, Once, JitoApplied, UseJito
    <3>2. JitoApplied = {} \/ \E a : JitoApplied = {a}
      BY <3>1
    <3>3. Cardinality(JitoApplied) <= 1
      <4>1. CASE JitoApplied = {}
        BY <4>1, FS_EmptySet
      <4>2. CASE \E a : JitoApplied = {a}
        <5>1. PICK a : JitoApplied = {a}
          BY <4>2
        <5>2. Cardinality({a}) = 1
          BY FS_Singleton
        <5> QED
          BY <5>1, <5>2
      <4> QED
        BY <3>2, <4>1, <4>2
    <3>4. tips \in Nat
      BY <1>1, <2>1, <2>2 DEF IInv, TipsCounted
    <3> QED
      BY <2>1, <2>3, <3>3, <3>4
  <2>5. ASSUME config.mode = "standard" PROVE tips = 0
    <3>1. JitoApplied = {}
      BY <2>5 DEF JitoApplied, UseJito
    <3> QED
      BY <2>3, <3>1, FS_EmptySet
  <2>6. tips <= Cardinality(applied)
    <3>1. tips \in Nat
      BY <1>1, <2>1, <2>2 DEF IInv, TipsCounted
    <3> QED
      BY <2>1, <2>3, <3>1
  <2> QED
    BY <2>4, <2>5, <2>6 DEF TipsAreEarned
<1> QED
  BY <1>1, AlwaysInv, PTL

(* Types, and no more tips than attempts.                                    *)
THEOREM SendTypeCorrect == Spec => []TypeOK
<1>1. ASSUME IInv, TipsAreEarned PROVE TypeOK
  <2>1. /\ Cardinality(applied) \in Nat /\ Cardinality(JitoApplied) \in Nat
        /\ Cardinality(applied) <= MaxAttempts
    BY <1>1, AppliedFinite DEF IInv
  <2>2. config.jitoTipLamports \in {0, 1}
    BY <1>1 DEF IInv, Types, Config
  <2>3. tips \in Nat
    BY <1>1, <2>1, <2>2 DEF IInv, TipsCounted
  <2>4. tips \in 0..MaxAttempts
    BY <1>1, <2>1, <2>3 DEF TipsAreEarned
  <2> QED
    BY <1>1, <2>4 DEF IInv, Types, TypeOK
<1> QED
  BY <1>1, AlwaysInv, TipsAlwaysEarned, PTL

(* send implements the promise its callers rely on: success is reported only *)
(* for an instruction that took effect, and one that is accepted once takes  *)
(* effect at most once.                                                      *)
THEOREM SendImplementsDelivery == Spec => ImplementsDelivery
<1> DEFINE effects == Cardinality(applied)
<1>1. Init => Deliver!Init
  BY FS_EmptySet DEF Init, Deliver!Init, Config, Verdict
<1>2. ASSUME IInv, [Next]_vars
      PROVE  [Deliver!Next]_<<config.once, effects, Verdict>>
  <2>1. CASE UNCHANGED vars
    BY <2>1 DEF vars, Verdict
  <2>2. CASE Confirm
    <3>1. attempt \in applied /\ IsFiniteSet(applied) /\ Cardinality(applied) \in Nat
      BY <1>2, <2>2, AppliedFinite DEF IInv, Confirm
    <3>2. Cardinality(applied) > 0
      BY <3>1, FS_EmptySet
    <3>3. Verdict = "none" /\ Verdict' = "success" /\ UNCHANGED <<config.once, effects>>
      BY <2>2 DEF Confirm, Verdict
    <3>4. Deliver!Report("success")
      BY <3>2, <3>3 DEF Deliver!Report
    <3> QED
      BY <3>4 DEF Deliver!Next
  <2>3. CASE SendFails \/ ConfirmFails \/ PollDeadline
    <3>1. Verdict = "none" /\ Verdict' \in {"none", "error"}
          /\ UNCHANGED <<config.once, effects>>
      BY <2>3 DEF SendFails, ConfirmFails, PollDeadline, Catch, Verdict
    <3>2. Verdict' = "error" => Deliver!Report("error")
      BY <3>1 DEF Deliver!Report
    <3> QED
      BY <3>1, <3>2 DEF Deliver!Next
  <2>4. CASE SendStandard \/ SendJito \/ RetryAfterDelay
    BY <2>4 DEF SendStandard, SendJito, RetryAfterDelay, Verdict
  <2>5. ASSUME NEW p \in flight, Land(p)
        PROVE  [Deliver!Next]_<<config.once, effects, Verdict>>
    <3>1. "program" \in p.txs /\ p.attempt \notin applied
      BY <1>2 DEF IInv, SentOnce
    <3>2. UNCHANGED <<config.once, Verdict>>
      BY <2>5 DEF Land, Verdict
    <3>3. CASE Accepted(p)
      <4>1. applied' = applied \cup {p.attempt}
        BY <2>5, <3>1, <3>3 DEF Land
      <4>2. IsFiniteSet(applied) /\ Cardinality(applied) \in Nat
        BY <1>2, AppliedFinite DEF IInv
      <4>3. effects' = effects + 1
        BY <3>1, <4>1, <4>2, FS_AddElement
      <4>4. config.once => effects = 0
        BY <3>1, <3>3, FS_EmptySet DEF Accepted
      <4>5. Deliver!TakeEffect
        BY <3>2, <4>3, <4>4 DEF Deliver!TakeEffect
      <4> QED
        BY <4>5 DEF Deliver!Next
    <3>4. CASE ~Accepted(p)
      BY <2>5, <3>2, <3>4 DEF Land
    <3> QED
      BY <3>3, <3>4
  <2>6. ASSUME NEW p \in flight, Expire(p)
        PROVE  [Deliver!Next]_<<config.once, effects, Verdict>>
    BY <2>6 DEF Expire, Verdict
  <2> QED
    BY <1>2, <2>1, <2>2, <2>3, <2>4, <2>5, <2>6 DEF Next, Sender
<1> QED
  BY <1>1, <1>2, AlwaysInv, PTL DEF Spec, ImplementsDelivery, Deliver!Spec
(* Whatever moves a send leaves it fewer steps, three for each attempt, and  *)
(* what it returned or threw is final (fee-strategy.ts:492-604).  SendEnds   *)
(* is this and the fairness of the sender.                                   *)
THEOREM SendAlwaysAdvances == Spec => SendAdvances
<1> DEFINE Goal == <<attempt, phase>>' = <<attempt, phase>> \/ StepsLeft' \in 0..(StepsLeft - 1)
<1>1. IInv /\ [Next]_vars => [Goal]_vars
  <2> SUFFICES ASSUME IInv, Next PROVE Goal
    OBVIOUS
  <2>1. attempt \in 1..MaxAttempts /\ phase \in Phases
        /\ (phase = "backoff" => attempt < MaxAttempts)
    BY DEF IInv, Types, Stages
  <2> DEFINE left(n, k) == 3 * (MaxAttempts - n) + k
  <2>a. /\ phase = "sending" => StepsLeft = left(attempt, 3)
        /\ phase = "confirming" => StepsLeft = left(attempt, 2)
        /\ phase = "backoff" => StepsLeft = left(attempt, 1)
    BY DEF StepsLeft, Done
  <2>b. /\ phase' = "sending" => StepsLeft' = left(attempt', 3)
        /\ phase' = "confirming" => StepsLeft' = left(attempt', 2)
        /\ phase' = "backoff" => StepsLeft' = left(attempt', 1)
        /\ phase' \in {"returned", "threw"} => StepsLeft' = 0
    BY DEF StepsLeft, Done
  <2>c. /\ \A k, l \in 0..3 : l < k => left(attempt, l) \in 0..(left(attempt, k) - 1)
        /\ \A k \in 1..3 : 0 \in 0..(left(attempt, k) - 1)
        /\ attempt < MaxAttempts =>
             left(attempt + 1, 3) \in 0..(left(attempt, 1) - 1)
    BY <2>1
  <2> HIDE DEF left
  <2>2. CASE SendFails \/ ConfirmFails \/ PollDeadline
    <3>1. attempt' = attempt /\ phase \in {"sending", "confirming"}
          /\ phase' \in {"backoff", "threw"}
      BY <2>2 DEF SendFails, ConfirmFails, PollDeadline, Catch
    <3>2. QED
      BY <2>a, <2>b, <2>c, <3>1
  <2>3. CASE SendStandard \/ SendJito
    BY <2>a, <2>b, <2>c, <2>3 DEF SendStandard, SendJito
  <2>4. CASE Confirm
    BY <2>a, <2>b, <2>c, <2>4 DEF Confirm
  <2>5. CASE RetryAfterDelay
    BY <2>1, <2>a, <2>b, <2>c, <2>5 DEF RetryAfterDelay
  <2>6. ASSUME NEW p \in flight, Land(p) \/ Expire(p) PROVE Goal
    BY <2>6 DEF Land, Expire
  <2>7. QED
    BY <2>2, <2>3, <2>4, <2>5, <2>6 DEF Next, Sender
<1>2. QED
  BY <1>1, AlwaysInv, PTL DEF Spec, SendAdvances
=============================================================================
