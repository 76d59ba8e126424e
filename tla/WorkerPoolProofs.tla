-------------------------- MODULE WorkerPoolProofs --------------------------
(***************************************************************************)
(* What holds of WorkerPool for any finite set of workers, any number of   *)
(* attempts per send and every instance of the program below it.           *)
(***************************************************************************)
EXTENDS WorkerPool, JobPoolProofs

-----------------------------------------------------------------------------
(* What the steps of others and of a transaction do to the jobs.            *)

\* The actions of Others without what they leave alone.
LedgerStep ==
  \/ \E d \in StartDelays : EnqueueJob(d)
  \/ GrowIndex(Authority)
  \/ \E id \in DOMAIN jobs, s \in DOMAIN job_ids : CancelJob(Authority, id, s)
  \/ Tick

\* Others never move a claimed job on: a job they cancel was listed, so Pending.
LEMMA LedgerStepJobs ==
  ASSUME Shape, IndexExact, LedgerStep
  PROVE  /\ DOMAIN jobs \subseteq DOMAIN jobs'
         /\ \A id \in DOMAIN jobs :
              /\ jobs'[id].worker = jobs[id].worker
              /\ jobs'[id].attempts = jobs[id].attempts
              /\ \/ jobs'[id].status = jobs[id].status
                 \/ jobs[id].status = "Pending" /\ jobs'[id].status = "Cancelled"
         /\ \A id \in DOMAIN jobs' \ DOMAIN jobs :
              id \in JobIds /\ jobs'[id].status = "Pending" /\ jobs'[id].attempts = 0
<1> DEFINE Goal ==
      /\ DOMAIN jobs \subseteq DOMAIN jobs'
      /\ \A id \in DOMAIN jobs :
           /\ jobs'[id].worker = jobs[id].worker
           /\ jobs'[id].attempts = jobs[id].attempts
           /\ \/ jobs'[id].status = jobs[id].status
              \/ jobs[id].status = "Pending" /\ jobs'[id].status = "Cancelled"
      /\ \A id \in DOMAIN jobs' \ DOMAIN jobs :
           id \in JobIds /\ jobs'[id].status = "Pending" /\ jobs'[id].attempts = 0
<1>1. queue \in Queue /\ jobs \in [0..(queue.job_count - 1) -> Job]
  BY DEF Shape, TypeOK
<1>2. ASSUME NEW d \in StartDelays, EnqueueJob(d) PROVE Goal
  <2>1. queue.job_count \notin DOMAIN jobs /\ queue.job_count \in JobIds
    BY <1>1, <1>2, MaxJobsAssumption DEF Queue, EnqueueJob, JobIds
  <2>2. QED
    BY <1>2, <2>1 DEF EnqueueJob
<1>3. CASE GrowIndex(Authority)
  BY <1>3 DEF GrowIndex
<1>4. ASSUME NEW id \in DOMAIN jobs, NEW s \in DOMAIN job_ids, CancelJob(Authority, id, s)
      PROVE  Goal
  <2>1. jobs[id].status = "Pending"
    BY <1>4 DEF CancelJob, RemoveJob, Holds, IndexExact, ListedArePending
  <2>2. jobs' = [jobs EXCEPT ![id].status = "Cancelled"]
    BY <1>4 DEF CancelJob
  <2>3. QED
    BY <1>1, <2>1, <2>2 DEF Job
<1>5. CASE Tick
  BY <1>1, <1>5 DEF Tick, Job
<1>6. QED
  BY <1>2, <1>3, <1>4, <1>5 DEF LedgerStep

\* A transaction changes the one job it is about.
LEMMA EffectJobs ==
  ASSUME Shape, NEW tx \in Transaction, tx.id \in DOMAIN jobs, Effect(tx)
  PROVE  /\ DOMAIN jobs' = DOMAIN jobs
         /\ \A id \in DOMAIN jobs : id # tx.id => jobs'[id] = jobs[id]
         /\ tx.instruction = "claiming" =>
              /\ jobs[tx.id].status = "Pending"
              /\ jobs'[tx.id].status = "Processing" /\ jobs'[tx.id].worker = tx.worker
              /\ jobs'[tx.id].attempts = jobs[tx.id].attempts + 1
         /\ tx.instruction # "claiming" =>
              HeldBy(tx.worker, tx.id) /\ jobs'[tx.id].attempts = jobs[tx.id].attempts
         /\ tx.instruction = "completing" => jobs'[tx.id].status = "Completed"
         /\ tx.instruction = "failing" => jobs'[tx.id].status \in {"Pending", "Failed"}
<1>1. jobs \in [DOMAIN jobs -> Job] /\ tx.instruction \in Sending
  BY DEF Shape, TypeOK, Transaction
<1>2. CASE tx.instruction = "claiming"
  <2>1. ClaimJob(tx.worker, tx.id, 0)
    BY <1>2 DEF Effect
  <2>2. QED
    BY <1>1, <1>2, <2>1 DEF ClaimJob, Job
<1>3. CASE tx.instruction = "completing"
  <2>1. CompleteJob(tx.worker, tx.id)
    BY <1>3 DEF Effect
  <2>2. QED
    BY <1>1, <1>3, <2>1 DEF CompleteJob, Job
<1>4. CASE tx.instruction = "failing"
  <2>1. \/ \E d \in RetryDelays : RetryJob(tx.worker, tx.id, 0, d)
        \/ DeadLetterJob(tx.worker, tx.id)
    BY <1>4 DEF Effect
  <2>2. ASSUME NEW d \in RetryDelays, RetryJob(tx.worker, tx.id, 0, d)
        PROVE  /\ HeldBy(tx.worker, tx.id)
               /\ jobs' = [jobs EXCEPT ![tx.id].status = "Pending", ![tx.id].worker = NoWorker,
                             ![tx.id].wait = Backoff(d, jobs[tx.id].attempts)]
    BY <2>2 DEF RetryJob
  <2>3. ASSUME DeadLetterJob(tx.worker, tx.id)
        PROVE  HeldBy(tx.worker, tx.id) /\ jobs' = [jobs EXCEPT ![tx.id].status = "Failed"]
    BY <2>3 DEF DeadLetterJob
  <2> DEFINE Failing(status) ==
        /\ DOMAIN jobs' = DOMAIN jobs
        /\ \A id \in DOMAIN jobs : id # tx.id => jobs'[id] = jobs[id]
        /\ HeldBy(tx.worker, tx.id)
        /\ jobs'[tx.id].attempts = jobs[tx.id].attempts
        /\ jobs'[tx.id].status = status
  <2>4. ASSUME NEW d \in RetryDelays, RetryJob(tx.worker, tx.id, 0, d) PROVE Failing("Pending")
    <3> DEFINE delay == Backoff(d, jobs[tx.id].attempts)
               retried == [jobs[tx.id] EXCEPT !.status = "Pending", !.worker = NoWorker,
                                              !.wait = delay]
    <3>1. jobs' = [jobs EXCEPT ![tx.id] = retried]
      BY <2>2, <2>4
    <3> HIDE DEF delay
    <3>2. retried.status = "Pending" /\ retried.attempts = jobs[tx.id].attempts
      BY <1>1 DEF Job
    <3> HIDE DEF retried
    <3>3. QED
      BY <1>1, <2>2, <2>4, <3>1, <3>2
  <2>5. ASSUME DeadLetterJob(tx.worker, tx.id) PROVE Failing("Failed")
    BY <1>1, <2>3, <2>5 DEF Job
  <2>6. Failing("Pending") \/ Failing("Failed")
    BY <2>1, <2>4, <2>5
  <2>7. QED
    BY <1>4, <2>6
<1>5. QED
  BY <1>1, <1>2, <1>3, <1>4 DEF Sending

-----------------------------------------------------------------------------
(* A pool touches the ledger through the program's instructions only.       *)

\* What a worker or a transaction names is a job that exists.
InJobs ==
  /\ DOMAIN jobs \subseteq JobIds
  /\ \A w \in Workers : todo[w] \subseteq DOMAIN jobs
  /\ \A w \in Workers : pc[w] # "idle" => job[w] \in DOMAIN jobs
  /\ \A tx \in flight : tx.id \in DOMAIN jobs

Base == Shape /\ IndexExact /\ PoolTypeOK /\ InJobs

LEMMA WorkerLeavesLedger ==
  ASSUME NEW w \in Workers, Worker(w) \/ Crash(w)
  PROVE  UNCHANGED vars
BY DEF Worker, Crash, Poll, TakeUp, Submit, Confirmed, SendError, Execute

LEMMA OthersLedgerStep ==
  ASSUME Others
  PROVE  LedgerStep /\ UNCHANGED <<procVars, flight, executions>>
BY DEF Others, LedgerStep, EnqueueCall, GrowCall, CancelCall

LEMMA PoolStepMaps == Base /\ [PoolNext]_poolVars => [Next]_vars
<1> SUFFICES ASSUME Base, [PoolNext]_poolVars PROVE [Next]_vars
  OBVIOUS
<1>1. ASSUME NEW w \in Workers, Worker(w) \/ Crash(w) PROVE UNCHANGED vars
  BY <1>1, WorkerLeavesLedger
<1>2. ASSUME NEW tx \in flight, Land(tx) PROVE Next
  <2>1. /\ tx.worker \in Accounts /\ tx.id \in DOMAIN jobs
        /\ tx.instruction \in Sending /\ Effect(tx)
    BY <1>2, WorkersAssumption DEF Land, Base, PoolTypeOK, Transaction, InJobs
  <2>2. 0 \in DOMAIN job_ids
    BY DEF Base, Shape, TypeOK, QueueHead
  <2>3. CASE tx.instruction = "claiming"
    BY <2>1, <2>2, <2>3 DEF Effect, Next, Signed
  <2>4. CASE tx.instruction = "completing"
    BY <2>1, <2>4 DEF Effect, Next, Signed
  <2>5. CASE tx.instruction = "failing"
    <3>1. FailJob(tx.worker, tx.id)
      BY <2>1, <2>2, <2>5 DEF Effect, FailJob
    <3>2. QED
      BY <2>1, <3>1 DEF Next, Signed
  <2>6. QED
    BY <2>1, <2>3, <2>4, <2>5 DEF Sending
<1>3. ASSUME NEW tx \in flight, Drop(tx) PROVE UNCHANGED vars
  BY <1>3 DEF Drop
<1>4. CASE Others
  BY <1>4, AccountsAssumption, OthersLedgerStep DEF LedgerStep, Next, Signed
<1>5. CASE UNCHANGED poolVars
  BY <1>5 DEF poolVars
<1>6. QED
  BY <1>1, <1>2, <1>3, <1>4, <1>5 DEF PoolNext

LEMMA OrphanedType ==
  ASSUME NEW w \in Workers, flight \subseteq Transaction
  PROVE  Orphaned(w) \subseteq Transaction
BY DEF Orphaned, Transaction

LEMMA PoolInitBase == PoolInit => Base
<1> SUFFICES ASSUME PoolInit PROVE Base
  OBVIOUS
<1>0. Init
  BY DEF PoolInit
<1>1. Shape /\ IndexExact
  <2>1. IndexExact
    BY <1>0 DEF Init, InitializeQueue, IndexExact, ListedArePending, ListedOnce,
                PendingAreListed
  <2>2. QED
    BY <1>0, <2>1, InitShape
<1>2. DOMAIN jobs = {}
  BY DEF PoolInit, Init, InitializeQueue
<1>3. PoolTypeOK
  BY MaxSendsAssumption DEF PoolInit, PoolTypeOK, NoJob, Sending
<1>4. InJobs
  BY <1>2 DEF PoolInit, InJobs
<1>5. QED
  BY <1>1, <1>3, <1>4 DEF Base

LEMMA NextPoolTypeOK == Base /\ [PoolNext]_poolVars => PoolTypeOK'
<1> SUFFICES ASSUME Base, [PoolNext]_poolVars PROVE PoolTypeOK'
  OBVIOUS
<1>0. PoolTypeOK /\ InJobs /\ NoJob \notin JobIds
  BY DEF Base, NoJob, JobIds
<1> USE <1>0, MaxSendsAssumption
<1>1. ASSUME NEW w \in Workers, Poll(w) PROVE PoolTypeOK'
  BY <1>1 DEF Poll, PoolTypeOK
<1>2. ASSUME NEW w \in Workers, TakeUp(w) PROVE PoolTypeOK'
  BY <1>2 DEF TakeUp, BeginSend, PoolTypeOK, Sending
<1>3. ASSUME NEW w \in Workers, Submit(w) PROVE PoolTypeOK'
  <2>1. [instruction |-> pc[w], worker |-> w, id |-> job[w], latest |-> TRUE] \in Transaction
    BY <1>3 DEF Submit, PoolTypeOK, Transaction, Sending
  <2>2. QED
    BY <1>3, <2>1 DEF Submit, PoolTypeOK
<1>4. ASSUME NEW w \in Workers, Confirmed(w) PROVE PoolTypeOK'
  <2>1. job[w] \in JobIds
    BY <1>4 DEF Confirmed, PoolTypeOK, Sending
  <2>2. CASE pc[w] = "claiming"
    BY <1>4, <2>1, <2>2 DEF Confirmed, BeginExecution, PoolTypeOK
  <2>3. CASE pc[w] # "claiming"
    BY <1>4, <2>3 DEF Confirmed, Rest, PoolTypeOK
  <2>4. QED
    BY <2>2, <2>3
<1>5. ASSUME NEW w \in Workers, SendError(w) PROVE PoolTypeOK'
  <2>1. flight' \subseteq Transaction
    BY <1>5, OrphanedType DEF SendError, PoolTypeOK
  <2>2. CASE attempt[w] < MaxSends
    BY <1>5, <2>1, <2>2 DEF SendError, NextAttempt, PoolTypeOK
  <2>3. CASE ~(attempt[w] < MaxSends)
    BY <1>5, <2>1, <2>3 DEF SendError, Rest, PoolTypeOK
  <2>4. QED
    BY <2>2, <2>3
<1>6. ASSUME NEW w \in Workers, Execute(w) PROVE PoolTypeOK'
  BY <1>6 DEF Execute, BeginSend, PoolTypeOK, Sending
<1>7. ASSUME NEW w \in Workers, Crash(w) PROVE PoolTypeOK'
  BY <1>7, OrphanedType DEF Crash, Rest, PoolTypeOK
<1>8. ASSUME NEW tx \in flight, Land(tx) PROVE PoolTypeOK'
  BY <1>8 DEF Land, PoolTypeOK, Transaction
<1>9. ASSUME NEW tx \in flight, Drop(tx) PROVE PoolTypeOK'
  BY <1>9 DEF Drop, procVars, PoolTypeOK
<1>10. CASE Others
  BY <1>10 DEF Others, procVars, PoolTypeOK
<1>11. CASE UNCHANGED poolVars
  BY <1>11 DEF poolVars, procVars, PoolTypeOK
<1>12. QED
  BY <1>1, <1>2, <1>3, <1>4, <1>5, <1>6, <1>7, <1>8, <1>9, <1>10, <1>11
  DEF PoolNext, Worker

LEMMA JobsPersist ==
  ASSUME Base, [PoolNext]_poolVars
  PROVE  DOMAIN jobs \subseteq DOMAIN jobs' /\ DOMAIN jobs' \subseteq JobIds
<1> USE DEF Base
<1>0. DOMAIN jobs \subseteq JobIds
  BY DEF InJobs
<1>1. ASSUME NEW w \in Workers, Worker(w) \/ Crash(w) PROVE UNCHANGED jobs
  BY <1>1, WorkerLeavesLedger DEF vars
<1>2. ASSUME NEW tx \in flight, Land(tx) PROVE DOMAIN jobs' = DOMAIN jobs
  BY <1>2, EffectJobs DEF Land, PoolTypeOK, InJobs
<1>3. ASSUME NEW tx \in flight, Drop(tx) PROVE UNCHANGED jobs
  BY <1>3 DEF Drop, vars
<1>4. ASSUME Others PROVE DOMAIN jobs \subseteq DOMAIN jobs' /\ DOMAIN jobs' \subseteq JobIds
  BY <1>0, <1>4, OthersLedgerStep, LedgerStepJobs
<1>5. CASE UNCHANGED poolVars
  BY <1>0, <1>5 DEF poolVars, vars
<1>6. QED
  BY <1>0, <1>1, <1>2, <1>3, <1>4, <1>5 DEF PoolNext

LEMMA NextInJobs == Base /\ [PoolNext]_poolVars => InJobs'
<1> SUFFICES ASSUME Base, [PoolNext]_poolVars PROVE InJobs'
  OBVIOUS
<1>0. PoolTypeOK /\ InJobs /\ DOMAIN jobs \subseteq DOMAIN jobs' /\ DOMAIN jobs' \subseteq JobIds
  BY JobsPersist DEF Base
<1> USE <1>0 DEF InJobs, PoolTypeOK
<1>1. ASSUME NEW w \in Workers, Poll(w) PROVE InJobs'
  <2>1. \A id, s : s \in DOMAIN job_ids /\ Holds(job_ids[s], id) => id \in DOMAIN jobs
    BY DEF Base, IndexExact, ListedArePending, Holds
  <2>2. todo'[w] \subseteq DOMAIN jobs
    BY <1>1, <2>1 DEF Poll
  <2>3. QED
    BY <1>1, <2>2 DEF Poll
<1>2. ASSUME NEW w \in Workers, TakeUp(w) PROVE InJobs'
  BY <1>2 DEF TakeUp, BeginSend
<1>3. ASSUME NEW w \in Workers, Submit(w) PROVE InJobs'
  BY <1>3 DEF Submit, Sending
<1>4. ASSUME NEW w \in Workers, Confirmed(w) PROVE InJobs'
  BY <1>4 DEF Confirmed, BeginExecution, Rest, Sending
<1>5. ASSUME NEW w \in Workers, flight' = Orphaned(w) PROVE \A tx \in flight' : tx.id \in DOMAIN jobs
  BY <1>5 DEF Orphaned, Transaction
<1>6. ASSUME NEW w \in Workers, SendError(w) PROVE InJobs'
  BY <1>5, <1>6 DEF SendError, NextAttempt, Rest
<1>7. ASSUME NEW w \in Workers, Execute(w) PROVE InJobs'
  BY <1>7 DEF Execute, BeginSend
<1>8. ASSUME NEW w \in Workers, Crash(w) PROVE InJobs'
  BY <1>5, <1>8 DEF Crash, Rest
<1>9. ASSUME NEW tx \in flight, Land(tx) \/ Drop(tx) PROVE InJobs'
  BY <1>9 DEF Land, Drop, procVars
<1>10. CASE Others
  BY <1>10 DEF Others, procVars
<1>11. CASE UNCHANGED poolVars
  BY <1>11 DEF poolVars, procVars
<1>12. QED
  BY <1>1, <1>2, <1>3, <1>4, <1>6, <1>7, <1>8, <1>9, <1>10, <1>11 DEF PoolNext, Worker

LEMMA NextBase == Base /\ [PoolNext]_poolVars => Base'
BY PoolStepMaps, NextShape, NextIndexExact, NextPoolTypeOK, NextInJobs DEF Base

LEMMA PoolBase == PoolSpec => []Base
BY PoolInitBase, NextBase, PTL DEF PoolSpec

(* Workers that crash, give up on answers and leave transactions behind      *)
(* still only take the program's steps (client/worker.ts against lib.rs): all *)
(* that is proved of the program holds below any pool.                       *)
THEOREM PoolUsesProgram == PoolSpec => Spec
<1>1. PoolInit => Init
  BY DEF PoolInit
<1>2. QED
  BY <1>1, PoolBase, PoolStepMaps, PTL DEF PoolSpec, Spec

(* Below any pool, whatever is lost, doubled, late or forgotten in a crash,  *)
(* each job is held by one worker at a time, goes back or settles by its     *)
(* holder only, and settles for good (worker.ts:313-362, lib.rs:318-500).    *)
THEOREM WorkersImplementPool == PoolSpec => ImplementsPool
BY PoolUsesProgram, QueueImplementsPool, PTL

(* The variables of the worker processes always have their types: no send    *)
(* makes more than retry.maxAttempts attempts (worker.ts:313-362).           *)
THEOREM PoolTypeCorrect == PoolSpec => []PoolTypeOK
<1>1. Base => PoolTypeOK
  BY DEF Base
<1>2. QED
  BY <1>1, PoolBase, PTL

-----------------------------------------------------------------------------
(* Verdicts.                                                                *)

\* instruction reports what the execution of the job said.
Truthful(instruction, id) ==
  /\ executions[id] > 0
  /\ instruction = "completing" => id \notin BadJobs
  /\ instruction = "failing" => id \in BadJobs

\* Executions end up in reports that say what they said, and reports in verdicts.
ReportsTrue ==
  /\ \A w \in Workers :
       pc[w] \in {"executing", "completing", "failing"} => Truthful(pc[w], job[w])
  /\ \A tx \in flight : tx.instruction # "claiming" => Truthful(tx.instruction, tx.id)
  /\ VerdictIsTrue

LEMMA ExecutionsGrow ==
  ASSUME PoolTypeOK, [PoolNext]_poolVars
  PROVE  \A id \in JobIds : executions[id] > 0 => executions'[id] > 0
<1>1. ASSUME NEW w \in Workers, Confirmed(w)
      PROVE  \A id \in JobIds : executions[id] > 0 => executions'[id] > 0
  BY <1>1 DEF Confirmed, BeginExecution, PoolTypeOK
<1>2. ASSUME NEW w \in Workers, \/ Poll(w) \/ TakeUp(w) \/ Submit(w) \/ SendError(w)
                                \/ Execute(w) \/ Crash(w)
      PROVE  UNCHANGED executions
  BY <1>2 DEF Poll, TakeUp, Submit, SendError, Execute, Crash
<1>3. ASSUME NEW tx \in flight, Land(tx) \/ Drop(tx) PROVE UNCHANGED executions
  BY <1>3 DEF Land, Drop
<1>4. CASE Others
  BY <1>4 DEF Others
<1>5. CASE UNCHANGED poolVars
  BY <1>5 DEF poolVars
<1>6. QED
  BY <1>1, <1>2, <1>3, <1>4, <1>5 DEF PoolNext, Worker

LEMMA NextReportsTrue == Base /\ ReportsTrue /\ [PoolNext]_poolVars => ReportsTrue'
<1> SUFFICES ASSUME Base, ReportsTrue, [PoolNext]_poolVars PROVE ReportsTrue'
  OBVIOUS
<1>0. /\ PoolTypeOK /\ InJobs
      /\ \A id \in JobIds : executions[id] > 0 => executions'[id] > 0
  BY ExecutionsGrow DEF Base
<1>a. \A id \in JobIds : \A i : Truthful(i, id) => Truthful(i, id)'
  BY <1>0 DEF Truthful
<1> DEFINE Processes == \A w \in Workers :
              pc[w] \in {"executing", "completing", "failing"} => Truthful(pc[w], job[w])
           Flying == \A tx \in flight :
              tx.instruction # "claiming" => Truthful(tx.instruction, tx.id)
<1>b. Processes /\ Flying /\ VerdictIsTrue
  BY DEF ReportsTrue
<1>c. ASSUME UNCHANGED jobs PROVE VerdictIsTrue'
  <2>1. VerdictIsTrue' <=> \A id \in DOMAIN jobs :
          /\ jobs[id].status = "Completed" => id \notin BadJobs /\ executions'[id] > 0
          /\ jobs[id].status = "Failed" => id \in BadJobs /\ executions'[id] > 0
    BY <1>c DEF VerdictIsTrue
  <2>2. QED
    BY <1>0, <1>b, <2>1 DEF VerdictIsTrue, InJobs
<1>d. ASSUME NEW w \in Workers, Worker(w) \/ Crash(w) PROVE VerdictIsTrue'
  BY <1>c, <1>d, WorkerLeavesLedger DEF vars
<1>e. ASSUME flight' \subseteq flight PROVE Flying'
  BY <1>e, <1>0, <1>a, <1>b DEF InJobs
<1>f. ASSUME NEW w \in Workers, flight' = Orphaned(w) PROVE Flying'
  <2>1. \A tx \in flight' : \E old \in flight :
          tx.instruction = old.instruction /\ tx.id = old.id
    BY <1>f, <1>0 DEF Orphaned, PoolTypeOK, Transaction
  <2>2. QED
    BY <2>1, <1>0, <1>a, <1>b DEF InJobs
<1>g. ASSUME UNCHANGED <<pc, job>> PROVE Processes'
  BY <1>g, <1>0, <1>a, <1>b DEF InJobs
<1>1. ASSUME NEW w \in Workers, Poll(w) PROVE ReportsTrue'
  BY <1>1, <1>d, <1>e, <1>g DEF Poll, Worker, ReportsTrue
<1>2. ASSUME NEW w \in Workers, TakeUp(w) PROVE ReportsTrue'
  <2>1. Processes'
    BY <1>0, <1>a, <1>b, <1>2 DEF TakeUp, BeginSend, PoolTypeOK, InJobs
  <2>2. QED
    BY <2>1, <1>2, <1>d, <1>e DEF TakeUp, Worker, ReportsTrue
<1>3. ASSUME NEW w \in Workers, Submit(w) PROVE ReportsTrue'
  <2>1. Flying'
    BY <1>0, <1>a, <1>b, <1>3 DEF Submit, InJobs, Sending
  <2>2. QED
    BY <2>1, <1>3, <1>d, <1>g DEF Submit, Worker, ReportsTrue
<1>4. ASSUME NEW w \in Workers, Confirmed(w) PROVE ReportsTrue'
  <2>1. CASE pc[w] = "claiming"
    <3>1. job[w] \in JobIds /\ executions' = [executions EXCEPT ![job[w]] = @ + 1]
      BY <1>0, <1>4, <2>1 DEF Confirmed, BeginExecution, InJobs
    <3>2. Truthful("executing", job[w])'
      BY <1>0, <3>1, <1>4, <2>1 DEF Truthful, PoolTypeOK, Confirmed, BeginExecution
    <3>3. pc' = [pc EXCEPT ![w] = "executing"] /\ job' = job
      BY <1>4, <2>1 DEF Confirmed, BeginExecution
    <3>4. QED
      BY <3>2, <3>3, <1>0, <1>a, <1>b, <1>4, <1>d, <1>e
      DEF Confirmed, Worker, ReportsTrue, PoolTypeOK, InJobs
  <2>2. CASE pc[w] # "claiming"
    <3>1. Processes'
      BY <1>0, <1>a, <1>b, <1>4, <2>2 DEF Confirmed, Rest, PoolTypeOK, InJobs
    <3>2. QED
      BY <3>1, <1>4, <1>d, <1>e DEF Confirmed, Worker, ReportsTrue
  <2>3. QED
    BY <2>1, <2>2
<1>5. ASSUME NEW w \in Workers, SendError(w) PROVE ReportsTrue'
  <2>1. Processes'
    BY <1>0, <1>a, <1>b, <1>5 DEF SendError, NextAttempt, Rest, PoolTypeOK, InJobs
  <2>2. QED
    BY <2>1, <1>5, <1>d, <1>f DEF SendError, Worker, ReportsTrue
<1>6. ASSUME NEW w \in Workers, Execute(w) PROVE ReportsTrue'
  <2>1. Truthful(pc'[w], job[w])
    BY <1>0, <1>b, <1>6 DEF Execute, BeginSend, Truthful, PoolTypeOK
  <2>2. Processes'
    BY <2>1, <1>0, <1>a, <1>b, <1>6 DEF Execute, BeginSend, PoolTypeOK, InJobs
  <2>3. QED
    BY <2>2, <1>6, <1>d, <1>e DEF Execute, Worker, ReportsTrue
<1>7. ASSUME NEW w \in Workers, Crash(w) PROVE ReportsTrue'
  <2>1. Processes'
    BY <1>0, <1>a, <1>b, <1>7 DEF Crash, Rest, PoolTypeOK, InJobs
  <2>2. QED
    BY <2>1, <1>7, <1>d, <1>f DEF Crash, ReportsTrue
<1>8. ASSUME NEW tx \in flight, Land(tx) PROVE ReportsTrue'
  <2>1. tx \in Transaction /\ tx.id \in DOMAIN jobs /\ tx.id \in JobIds
    BY <1>0 DEF PoolTypeOK, InJobs
  <2>2. /\ DOMAIN jobs' = DOMAIN jobs
        /\ \A id \in DOMAIN jobs : id # tx.id => jobs'[id] = jobs[id]
        /\ tx.instruction = "claiming" => jobs'[tx.id].status = "Processing"
        /\ tx.instruction = "completing" => jobs'[tx.id].status = "Completed"
        /\ tx.instruction = "failing" => jobs'[tx.id].status \in {"Pending", "Failed"}
        /\ UNCHANGED executions
    BY <1>8, <2>1, EffectJobs DEF Land, Base
  <2>3. VerdictIsTrue'
    BY <2>1, <2>2, <1>b DEF VerdictIsTrue, Truthful, Transaction, Sending
  <2>4. QED
    BY <2>3, <1>8, <1>e, <1>g DEF Land, ReportsTrue
<1>9. ASSUME NEW tx \in flight, Drop(tx) PROVE ReportsTrue'
  BY <1>9, <1>c, <1>e, <1>g DEF Drop, procVars, vars, ReportsTrue
<1>10. CASE Others
  <2>1. LedgerStep /\ UNCHANGED <<pc, job, flight, executions>>
    BY <1>10, OthersLedgerStep DEF procVars
  <2>2. VerdictIsTrue'
    <3> USE <2>1, LedgerStepJobs DEF Base
    <3>1. /\ \A id \in DOMAIN jobs : \/ jobs'[id].status = jobs[id].status
                                     \/ jobs'[id].status = "Cancelled"
          /\ \A id \in DOMAIN jobs' \ DOMAIN jobs : jobs'[id].status = "Pending"
      OBVIOUS
    <3>2. QED
      BY <3>1, <1>b DEF VerdictIsTrue
  <2>3. QED
    BY <2>1, <2>2, <1>e, <1>g DEF ReportsTrue
<1>11. CASE UNCHANGED poolVars
  BY <1>11, <1>c, <1>e, <1>g DEF poolVars, procVars, vars, ReportsTrue
<1>12. QED
  BY <1>1, <1>2, <1>3, <1>4, <1>5, <1>6, <1>7, <1>8, <1>9, <1>10, <1>11
  DEF PoolNext, Worker

(* A settled job is Completed only if it was executed without error and      *)
(* dead-lettered only if it was executed with one, whenever the report that  *)
(* says so lands and whatever became of the worker (worker.ts:326-362).      *)
THEOREM VerdictAlwaysTrue == PoolSpec => []VerdictIsTrue
<1>1. PoolInit => ReportsTrue
  BY DEF PoolInit, Init, InitializeQueue, ReportsTrue, VerdictIsTrue
<1>2. ReportsTrue => VerdictIsTrue
  BY DEF ReportsTrue
<1>3. QED
  BY <1>1, <1>2, NextReportsTrue, PoolBase, PTL DEF PoolSpec

-----------------------------------------------------------------------------
(* Claims pay for executions.                                               *)

\* A transaction somebody waits for is the one its sender is in.
Awaited ==
  \A tx \in flight : tx.latest => /\ pc[tx.worker] = tx.instruction
                                  /\ job[tx.worker] = tx.id
                                  /\ answer[tx.worker] = "sent"

\* The workers that know of a claim of theirs and have not begun to execute.
Paid(id) == {w \in Workers : pc[w] = "claiming" /\ answer[w] = "effect" /\ job[w] = id}

ClaimsPay == \A id \in JobIds : executions[id] + Cardinality(Paid(id)) <= AttemptsOf[id]

LEMMA OrphanedAwaited ==
  ASSUME Base, NEW w \in Workers, Awaited, flight' = Orphaned(w)
  PROVE  \A tx \in flight' : tx.latest => tx \in flight /\ tx.worker # w
BY DEF Orphaned, Base, PoolTypeOK, Transaction

LEMMA NextAwaited == Base /\ Awaited /\ [PoolNext]_poolVars => Awaited'
<1> SUFFICES ASSUME Base, Awaited, [PoolNext]_poolVars PROVE Awaited'
  OBVIOUS
<1>0. PoolTypeOK
  BY DEF Base
<1> USE <1>0 DEF Awaited
<1>1. ASSUME NEW w \in Workers, Poll(w) PROVE Awaited'
  BY <1>1 DEF Poll
<1>2. ASSUME NEW w \in Workers, TakeUp(w) PROVE Awaited'
  BY <1>2 DEF TakeUp, BeginSend, PoolTypeOK, Transaction, Sending
<1>3. ASSUME NEW w \in Workers, Submit(w) PROVE Awaited'
  BY <1>3 DEF Submit, PoolTypeOK
<1>4. ASSUME NEW w \in Workers, Confirmed(w) PROVE Awaited'
  <2>1. answer[w] = "effect" /\ flight' = flight
    BY <1>4 DEF Confirmed
  <2>2. \A tx \in flight : tx.latest => tx.worker \in Workers \ {w}
    BY <2>1 DEF PoolTypeOK, Transaction
  <2>3. \A v \in Workers \ {w} : pc'[v] = pc[v] /\ job'[v] = job[v] /\ answer'[v] = answer[v]
    BY <1>4 DEF Confirmed, BeginExecution, Rest, PoolTypeOK
  <2>4. QED
    BY <2>1, <2>2, <2>3
<1>a. ASSUME NEW w \in Workers, flight' = Orphaned(w),
             \A v \in Workers \ {w} : pc'[v] = pc[v] /\ job'[v] = job[v] /\ answer'[v] = answer[v]
      PROVE  Awaited'
  <2>1. \A tx \in flight' : tx.latest => tx \in flight /\ tx.worker \in Workers \ {w}
    BY <1>a, OrphanedAwaited DEF PoolTypeOK, Transaction
  <2>2. QED
    BY <1>a, <2>1
<1>5. ASSUME NEW w \in Workers, SendError(w) PROVE Awaited'
  <2>1. \A v \in Workers \ {w} : pc'[v] = pc[v] /\ job'[v] = job[v] /\ answer'[v] = answer[v]
    BY <1>5 DEF SendError, NextAttempt, Rest, PoolTypeOK
  <2>2. QED
    BY <1>5, <1>a, <2>1 DEF SendError
<1>6. ASSUME NEW w \in Workers, Execute(w) PROVE Awaited'
  <2>1. pc[w] = "executing" /\ \A tx \in flight : tx.instruction # "executing"
    BY <1>6 DEF Execute, PoolTypeOK, Transaction, Sending
  <2>2. \A tx \in flight : tx.latest => tx.worker \in Workers \ {w}
    BY <2>1 DEF PoolTypeOK, Transaction
  <2>3. \A v \in Workers \ {w} : pc'[v] = pc[v] /\ job'[v] = job[v] /\ answer'[v] = answer[v]
    BY <1>6 DEF Execute, BeginSend, PoolTypeOK
  <2>4. flight' = flight
    BY <1>6 DEF Execute
  <2>5. QED
    BY <2>2, <2>3, <2>4
<1>7. ASSUME NEW w \in Workers, Crash(w) PROVE Awaited'
  <2>1. \A v \in Workers \ {w} : pc'[v] = pc[v] /\ job'[v] = job[v] /\ answer'[v] = answer[v]
    BY <1>7 DEF Crash, Rest, PoolTypeOK
  <2>2. QED
    BY <1>7, <1>a, <2>1 DEF Crash
<1>8. ASSUME NEW tx \in flight, Land(tx) PROVE Awaited'
  <2>1. ASSUME NEW other \in flight', other.latest
        PROVE  other.worker # tx.worker \/ ~tx.latest
    BY <1>8, <2>1 DEF Land, PoolTypeOK, Transaction
  <2>2. QED
    BY <1>8, <2>1 DEF Land, PoolTypeOK
<1>9. ASSUME NEW tx \in flight, Drop(tx) PROVE Awaited'
  BY <1>9 DEF Drop, procVars
<1>10. CASE Others
  BY <1>10 DEF Others, procVars
<1>11. CASE UNCHANGED poolVars
  BY <1>11 DEF poolVars, procVars
<1>12. QED
  BY <1>1, <1>2, <1>3, <1>4, <1>5, <1>6, <1>7, <1>8, <1>9, <1>10, <1>11
  DEF PoolNext, Worker

\* The cardinality of Paid is a number, and moves by one worker at a time.
LEMMA PaidCardinality ==
  ASSUME NEW id
  PROVE  /\ IsFiniteSet(Paid(id)) /\ Cardinality(Paid(id)) \in Nat
         /\ Paid(id)' \subseteq Paid(id) => Cardinality(Paid(id)') <= Cardinality(Paid(id))
         /\ \A w \in Paid(id) :
              Paid(id)' = Paid(id) \ {w} => Cardinality(Paid(id)') = Cardinality(Paid(id)) - 1
         /\ \A w : Paid(id)' \subseteq Paid(id) \cup {w} =>
              Cardinality(Paid(id)') <= Cardinality(Paid(id)) + 1
<1>1. IsFiniteSet(Paid(id)) /\ Cardinality(Paid(id)) \in Nat
  <2>1. IsFiniteSet(Workers) /\ Paid(id) \subseteq Workers
    BY WorkersAssumption DEF Paid
  <2>2. QED
    BY <2>1, FS_Subset, FS_CardinalityType
<1>2. Paid(id)' \subseteq Paid(id) => Cardinality(Paid(id)') <= Cardinality(Paid(id))
  BY <1>1, FS_Subset
<1>3. ASSUME NEW w \in Paid(id), Paid(id)' = Paid(id) \ {w}
      PROVE  Cardinality(Paid(id)') = Cardinality(Paid(id)) - 1
  BY <1>1, <1>3, FS_RemoveElement
<1>4. ASSUME NEW w, Paid(id)' \subseteq Paid(id) \cup {w}
      PROVE  Cardinality(Paid(id)') <= Cardinality(Paid(id)) + 1
  <2>1. /\ IsFiniteSet(Paid(id) \cup {w})
        /\ Cardinality(Paid(id) \cup {w}) \in Nat
        /\ Cardinality(Paid(id) \cup {w}) <= Cardinality(Paid(id)) + 1
    BY <1>1, FS_AddElement, FS_CardinalityType
  <2>2. Cardinality(Paid(id)') \in Nat /\ Cardinality(Paid(id)') <= Cardinality(Paid(id) \cup {w})
    BY <1>4, <2>1, FS_Subset, FS_CardinalityType
  <2>3. QED
    BY <1>1, <2>1, <2>2
<1>5. QED
  BY <1>1, <1>2, <1>3, <1>4

LEMMA AttemptsCount ==
  ASSUME Base
  PROVE  \A id \in JobIds : AttemptsOf[id] \in Nat
BY DEF Base, Shape, TypeOK, Job, AttemptsOf, Exists

LEMMA NextClaimsPay == Base /\ Awaited /\ ClaimsPay /\ [PoolNext]_poolVars => ClaimsPay'
<1> SUFFICES ASSUME Base, Awaited, ClaimsPay, [PoolNext]_poolVars, NEW id \in JobIds
             PROVE  (executions[id] + Cardinality(Paid(id)) <= AttemptsOf[id])'
  BY DEF ClaimsPay
<1> DEFINE Goal == (executions[id] + Cardinality(Paid(id)) <= AttemptsOf[id])'
<1>0. /\ PoolTypeOK /\ executions[id] \in Nat /\ AttemptsOf[id] \in Nat
      /\ Cardinality(Paid(id)) \in Nat
      /\ executions[id] + Cardinality(Paid(id)) <= AttemptsOf[id]
  BY AttemptsCount, PaidCardinality DEF Base, PoolTypeOK, ClaimsPay
<1>a. AttemptsOf'[id] \in Nat /\ Cardinality(Paid(id)') \in Nat
  <2>1. Base'
    BY NextBase
  <2>2. AttemptsOf'[id] \in Nat
    BY <2>1 DEF Base, Shape, TypeOK, Job, AttemptsOf, Exists
  <2>3. IsFiniteSet(Workers) /\ Paid(id)' \subseteq Workers
    BY WorkersAssumption DEF Paid
  <2>4. QED
    BY <2>2, <2>3, FS_Subset, FS_CardinalityType
<1>b. ASSUME UNCHANGED executions, AttemptsOf'[id] >= AttemptsOf[id],
             Paid(id)' \subseteq Paid(id)
      PROVE  Goal
  BY <1>0, <1>a, <1>b, PaidCardinality
<1>c. ASSUME NEW w \in Workers, Worker(w) \/ Crash(w) PROVE AttemptsOf'[id] = AttemptsOf[id]
  BY <1>c, WorkerLeavesLedger DEF vars, AttemptsOf, Exists
<1>1. ASSUME NEW w \in Workers, Poll(w) \/ TakeUp(w) \/ Submit(w) \/ SendError(w)
                                \/ Execute(w) \/ Crash(w)
      PROVE  Goal
  <2>1. UNCHANGED executions
    BY <1>1 DEF Poll, TakeUp, Submit, SendError, Execute, Crash
  <2>2. Paid(id)' \subseteq Paid(id)
    BY <1>0, <1>1 DEF Poll, TakeUp, Submit, SendError, Execute, Crash, BeginSend, Rest,
                      NextAttempt, PoolTypeOK, Paid
  <2>3. QED
    BY <1>0, <1>1, <1>b, <1>c, <2>1, <2>2 DEF Worker
<1>2. ASSUME NEW w \in Workers, Confirmed(w) PROVE Goal
  <2>1. CASE pc[w] = "claiming" /\ job[w] = id
    <3>1. w \in Paid(id) /\ Paid(id)' = Paid(id) \ {w}
      BY <1>0, <1>2, <2>1 DEF Confirmed, BeginExecution, Paid, PoolTypeOK
    <3>2. executions'[id] = executions[id] + 1
      BY <1>0, <1>2, <2>1 DEF Confirmed, BeginExecution, PoolTypeOK
    <3>3. Cardinality(Paid(id)') = Cardinality(Paid(id)) - 1
      BY <3>1, PaidCardinality
    <3>4. QED
      BY <1>0, <1>2, <1>c, <3>2, <3>3 DEF Worker
  <2>2. CASE ~(pc[w] = "claiming" /\ job[w] = id)
    <3>1. executions'[id] = executions[id] /\ Paid(id)' \subseteq Paid(id)
      BY <1>0, <1>2, <2>2 DEF Confirmed, BeginExecution, Rest, Paid, PoolTypeOK
    <3>2. QED
      BY <1>0, <1>2, <1>a, <1>c, <3>1, PaidCardinality DEF Worker
  <2>3. QED
    BY <2>1, <2>2
<1>3. ASSUME NEW tx \in flight, Land(tx) PROVE Goal
  <2>1. tx \in Transaction /\ tx.id \in DOMAIN jobs /\ tx.worker \in Workers
    BY <1>0 DEF PoolTypeOK, Base, InJobs, Transaction
  <2>2. /\ DOMAIN jobs' = DOMAIN jobs
        /\ \A i \in DOMAIN jobs : i # tx.id => jobs'[i] = jobs[i]
        /\ tx.instruction = "claiming" => jobs'[tx.id].attempts = jobs[tx.id].attempts + 1
        /\ tx.instruction # "claiming" => jobs'[tx.id].attempts = jobs[tx.id].attempts
        /\ UNCHANGED <<executions, pc, job>>
    BY <1>3, <2>1, EffectJobs DEF Land, Base
  <2>3. CASE tx.instruction = "claiming" /\ tx.id = id
    <3>1. AttemptsOf'[id] = AttemptsOf[id] + 1
      BY <2>1, <2>2, <2>3 DEF AttemptsOf, Exists
    <3>2. Paid(id)' \subseteq Paid(id) \cup {tx.worker}
      BY <1>0, <1>3, <2>2 DEF Land, Paid, PoolTypeOK
    <3>3. Cardinality(Paid(id)') <= Cardinality(Paid(id)) + 1
      BY <3>2, PaidCardinality
    <3>4. QED
      BY <1>0, <1>a, <2>2, <3>1, <3>3
  <2>4. CASE ~(tx.instruction = "claiming" /\ tx.id = id)
    <3>1. AttemptsOf'[id] = AttemptsOf[id]
      BY <2>1, <2>2, <2>4 DEF AttemptsOf, Exists
    <3>2. tx.latest => pc[tx.worker] = tx.instruction /\ job[tx.worker] = tx.id
      BY DEF Awaited
    <3>3. Paid(id)' \subseteq Paid(id)
      BY <1>0, <1>3, <2>2, <2>4, <3>2 DEF Land, Paid, PoolTypeOK
    <3>4. QED
      BY <1>0, <1>b, <2>2, <3>1, <3>3
  <2>5. QED
    BY <2>3, <2>4
<1>4. ASSUME NEW tx \in flight, Drop(tx) PROVE Goal
  BY <1>0, <1>4, <1>b DEF Drop, procVars, vars, Paid, AttemptsOf, Exists
<1>5. CASE Others
  <2>1. LedgerStep /\ UNCHANGED <<pc, job, answer, executions>>
    BY <1>5, OthersLedgerStep DEF procVars
  <2>2. AttemptsOf'[id] = AttemptsOf[id]
    BY <2>1, LedgerStepJobs DEF Base, AttemptsOf, Exists
  <2>3. QED
    BY <1>0, <1>b, <2>1, <2>2 DEF Paid
<1>6. CASE UNCHANGED poolVars
  BY <1>0, <1>6, <1>b DEF poolVars, procVars, vars, Paid, AttemptsOf, Exists
<1>7. QED
  BY <1>1, <1>2, <1>3, <1>4, <1>5, <1>6 DEF PoolNext, Worker

LEMMA PoolAwaited == PoolSpec => []Awaited
<1>1. PoolInit => Awaited
  BY DEF PoolInit, Awaited
<1>2. QED
  BY <1>1, NextAwaited, PoolBase, PTL DEF PoolSpec

(* No job is executed more often than the ledger counts attempts: a claim    *)
(* pays for one execution only, however answers are lost, transactions are   *)
(* late or workers crash (worker.ts:313-331).                                *)
THEOREM ExecutionsAlwaysClaimed == PoolSpec => []ExecutionsClaimed
<1>1. PoolInit => ClaimsPay
  <2>1. SUFFICES ASSUME PoolInit, NEW id \in JobIds
                 PROVE  executions[id] + Cardinality(Paid(id)) <= AttemptsOf[id]
    BY DEF ClaimsPay
  <2>2. Paid(id) = {} /\ executions[id] = 0
    BY <2>1 DEF PoolInit, Paid
  <2>3. AttemptsOf[id] = 0
    BY <2>1 DEF PoolInit, Init, InitializeQueue, AttemptsOf, Exists
  <2>4. QED
    BY <2>2, <2>3, FS_EmptySet
<1>2. Base /\ ClaimsPay => ExecutionsClaimed
  <2>1. SUFFICES ASSUME Base, ClaimsPay, NEW id \in JobIds
                 PROVE  executions[id] <= AttemptsOf[id]
    BY DEF ExecutionsClaimed
  <2>2. /\ executions[id] \in Nat /\ AttemptsOf[id] \in Nat
        /\ Cardinality(Paid(id)) \in Nat
        /\ executions[id] + Cardinality(Paid(id)) <= AttemptsOf[id]
    BY <2>1, AttemptsCount, PaidCardinality DEF Base, PoolTypeOK, ClaimsPay
  <2>3. QED
    BY <2>2
<1>3. QED
  BY <1>1, <1>2, NextClaimsPay, PoolBase, PoolAwaited, PTL DEF PoolSpec

-----------------------------------------------------------------------------
(* One attempt per send: a worker executes what it holds.                   *)

\* No report of w on job id is on its way.
Unreported(w, id) ==
  \A tx \in flight : tx.worker = w /\ tx.id = id => tx.instruction = "claiming"

\* From the answer to its claim until it sends its report, the job is w's.
Owner(w) ==
  \/ pc[w] = "executing"
  \/ pc[w] = "claiming" /\ answer[w] = "effect"
  \/ pc[w] \in {"completing", "failing"} /\ answer[w] = "none"

OwnersHold ==
  \A w \in Workers : Owner(w) => HeldBy(w, job[w]) /\ Unreported(w, job[w])

\* A report on its way is the only one, and whoever made it still holds the job.
ReportersHold ==
  \A tx \in flight : tx.instruction # "claiming" =>
    /\ HeldBy(tx.worker, tx.id)
    /\ \A other \in flight :
         /\ other.instruction # "claiming"
         /\ other.worker = tx.worker /\ other.id = tx.id
         => other = tx

AttemptsBegun == \A w \in Workers : pc[w] \in Sending => attempt[w] >= 1

Holding == AttemptsBegun /\ OwnersHold /\ ReportersHold

LEMMA NextAttemptsBegun ==
  Base /\ AttemptsBegun /\ [PoolNext]_poolVars => AttemptsBegun'
<1> SUFFICES ASSUME PoolTypeOK, AttemptsBegun, [PoolNext]_poolVars PROVE AttemptsBegun'
  BY DEF Base
<1> USE DEF AttemptsBegun
<1>1. ASSUME NEW w \in Workers, Poll(w) \/ Submit(w) PROVE AttemptsBegun'
  BY <1>1 DEF Poll, Submit
<1>2. ASSUME NEW w \in Workers, TakeUp(w) \/ Execute(w) PROVE AttemptsBegun'
  BY <1>2 DEF TakeUp, Execute, BeginSend, PoolTypeOK
<1>3. ASSUME NEW w \in Workers, Confirmed(w) \/ Crash(w) PROVE AttemptsBegun'
  BY <1>3 DEF Confirmed, Crash, BeginExecution, Rest, PoolTypeOK, Sending
<1>4. ASSUME NEW w \in Workers, SendError(w) PROVE AttemptsBegun'
  BY <1>4 DEF SendError, NextAttempt, Rest, PoolTypeOK, Sending
<1>5. ASSUME NEW tx \in flight, Land(tx) \/ Drop(tx) PROVE AttemptsBegun'
  BY <1>5 DEF Land, Drop, procVars
<1>6. CASE Others
  BY <1>6 DEF Others, procVars
<1>7. CASE UNCHANGED poolVars
  BY <1>7 DEF poolVars, procVars
<1>8. QED
  BY <1>1, <1>2, <1>3, <1>4, <1>5, <1>6, <1>7 DEF PoolNext, Worker

\* A worker that gives up owns nothing, and what it sent stays what it was.
LEMMA GivingUp ==
  ASSUME PoolTypeOK, Holding, NEW w \in Workers, flight' = Orphaned(w), UNCHANGED jobs,
         ~Owner(w)',
         \A v \in Workers \ {w} : pc'[v] = pc[v] /\ job'[v] = job[v] /\ answer'[v] = answer[v]
  PROVE  OwnersHold' /\ ReportersHold'
<1> DEFINE cut(tx) == IF tx.worker = w THEN [tx EXCEPT !.latest = FALSE] ELSE tx
<1>1. \A tx \in flight : /\ cut(tx).instruction = tx.instruction
                         /\ cut(tx).worker = tx.worker /\ cut(tx).id = tx.id
  BY DEF PoolTypeOK, Transaction
<1>2. flight' = {cut(tx) : tx \in flight}
  BY DEF Orphaned
<1> HIDE DEF cut
<1>3. OwnersHold'
  <2>1. SUFFICES ASSUME NEW v \in Workers, Owner(v)'
                 PROVE  (HeldBy(v, job[v]) /\ Unreported(v, job[v]))'
    BY DEF OwnersHold
  <2>2. v # w /\ Owner(v) /\ job'[v] = job[v]
    BY <2>1 DEF Owner
  <2>3. HeldBy(v, job[v]) /\ Unreported(v, job[v])
    BY <2>2 DEF Holding, OwnersHold
  <2>4. QED
    BY <1>1, <1>2, <2>2, <2>3 DEF HeldBy, Unreported
<1>4. ReportersHold'
  BY <1>1, <1>2 DEF Holding, ReportersHold, HeldBy
<1>5. QED
  BY <1>3, <1>4

LEMMA NextHolding ==
  ASSUME MaxSends = 1, Base, Awaited, Holding, [PoolNext]_poolVars
  PROVE  OwnersHold' /\ ReportersHold'
<1> DEFINE Goal == OwnersHold' /\ ReportersHold'
<1>0. PoolTypeOK /\ InJobs /\ AttemptsBegun /\ OwnersHold /\ ReportersHold
  BY DEF Base, Holding
<1>a. ASSUME UNCHANGED <<jobs, flight>>, NEW w \in Workers, job'[w] = job[w],
             Owner(w)' => Owner(w),
             \A v \in Workers \ {w} : pc'[v] = pc[v] /\ job'[v] = job[v] /\ answer'[v] = answer[v]
      PROVE  Goal
  BY <1>a, <1>0 DEF OwnersHold, ReportersHold, Owner, HeldBy, Unreported
<1>b. ASSUME UNCHANGED <<jobs, flight>>, NEW w \in Workers, ~Owner(w)',
             \A v \in Workers \ {w} : pc'[v] = pc[v] /\ job'[v] = job[v] /\ answer'[v] = answer[v]
      PROVE  Goal
  BY <1>b, <1>0 DEF OwnersHold, ReportersHold, Owner, HeldBy, Unreported
<1>c. ASSUME UNCHANGED <<jobs, pc, job, answer>>, flight' \subseteq flight PROVE Goal
  BY <1>c, <1>0 DEF OwnersHold, ReportersHold, Owner, HeldBy, Unreported
<1>1. ASSUME NEW w \in Workers, Poll(w) PROVE Goal
  BY <1>1, <1>c DEF Poll, vars
<1>2. ASSUME NEW w \in Workers, TakeUp(w) PROVE Goal
  <2>1. ~Owner(w)'
    BY <1>0, <1>2 DEF TakeUp, BeginSend, Owner, PoolTypeOK
  <2>2. \A v \in Workers \ {w} : pc'[v] = pc[v] /\ job'[v] = job[v] /\ answer'[v] = answer[v]
    BY <1>0, <1>2 DEF TakeUp, BeginSend, PoolTypeOK
  <2>3. QED
    BY <1>2, <1>b, <2>1, <2>2 DEF TakeUp, vars
<1>3. ASSUME NEW w \in Workers, Submit(w) PROVE Goal
  <2> DEFINE new == [instruction |-> pc[w], worker |-> w, id |-> job[w], latest |-> TRUE]
  <2>1. /\ flight' = flight \cup {new} /\ UNCHANGED <<jobs, pc, job>>
        /\ pc[w] \in Sending /\ answer[w] = "none"
        /\ \A v \in Workers : v # w => answer'[v] = answer[v]
        /\ answer'[w] = "sent"
    BY <1>0, <1>3 DEF Submit, vars, PoolTypeOK
  <2>2. CASE pc[w] = "claiming"
    BY <1>0, <2>1, <2>2 DEF OwnersHold, ReportersHold, Owner, HeldBy, Unreported
  <2>3. CASE pc[w] # "claiming"
    <3>1. HeldBy(w, job[w]) /\ Unreported(w, job[w])
      BY <1>0, <2>1, <2>3 DEF OwnersHold, Owner, Sending
    <3>2. \A v, id : HeldBy(v, id)' <=> HeldBy(v, id)
      BY <2>1 DEF HeldBy
    <3>3. ReportersHold'
      <4>1. new.worker = w /\ new.id = job[w]
        OBVIOUS
      <4>2. \A tx \in flight : tx.instruction # "claiming" =>
              ~(tx.worker = new.worker /\ tx.id = new.id)
        BY <3>1, <4>1 DEF Unreported
      <4>3. HeldBy(new.worker, new.id)
        BY <3>1, <4>1
      <4> HIDE DEF new
      <4>4. ASSUME NEW tx \in flight', tx.instruction # "claiming"
            PROVE  /\ HeldBy(tx.worker, tx.id)
                   /\ \A other \in flight' :
                        /\ other.instruction # "claiming"
                        /\ other.worker = tx.worker /\ other.id = tx.id
                        => other = tx
        <5>1. CASE tx = new
          BY <2>1, <4>2, <4>3, <5>1
        <5>2. CASE tx \in flight
          BY <1>0, <2>1, <4>2, <4>4, <5>2 DEF ReportersHold
        <5>3. QED
          BY <2>1, <4>4, <5>1, <5>2
      <4>5. QED
        BY <3>2, <4>4 DEF ReportersHold
    <3>4. OwnersHold'
      <4>1. SUFFICES ASSUME NEW v \in Workers, Owner(v)'
                     PROVE  HeldBy(v, job[v]) /\ Unreported(v, job[v])'
        BY <2>1, <3>2 DEF OwnersHold
      <4>2. v # w /\ Owner(v)
        BY <2>1, <2>3, <4>1 DEF Owner, Sending
      <4>3. HeldBy(v, job[v]) /\ Unreported(v, job[v])
        BY <1>0, <4>2 DEF OwnersHold
      <4>4. QED
        BY <2>1, <4>2, <4>3 DEF Unreported
    <3>5. QED
      BY <3>3, <3>4
  <2>4. QED
    BY <2>2, <2>3
<1>4. ASSUME NEW w \in Workers, Confirmed(w) PROVE Goal
  <2>1. \A v \in Workers \ {w} : pc'[v] = pc[v] /\ job'[v] = job[v] /\ answer'[v] = answer[v]
    BY <1>0, <1>4 DEF Confirmed, BeginExecution, Rest, PoolTypeOK
  <2>2. CASE pc[w] = "claiming"
    BY <1>4, <1>a, <2>1, <2>2 DEF Confirmed, BeginExecution, Owner, vars
  <2>3. CASE pc[w] # "claiming"
    <3>1. ~Owner(w)'
      BY <1>0, <1>4, <2>3 DEF Confirmed, Rest, Owner, PoolTypeOK
    <3>2. QED
      BY <1>4, <1>b, <2>1, <3>1 DEF Confirmed, vars
  <2>4. QED
    BY <2>2, <2>3
<1>5. ASSUME NEW w \in Workers, SendError(w) PROVE Goal
  <2>1. Rest(w)
    BY <1>0, <1>5 DEF SendError, AttemptsBegun, PoolTypeOK
  <2>2. \A v \in Workers \ {w} : pc'[v] = pc[v] /\ job'[v] = job[v] /\ answer'[v] = answer[v]
    BY <1>0, <2>1 DEF Rest, PoolTypeOK
  <2>3. ~Owner(w)'
    BY <1>0, <2>1 DEF Rest, Owner, PoolTypeOK
  <2>4. QED
    BY <1>0, <1>5, <2>2, <2>3, GivingUp DEF SendError, vars, Holding
<1>6. ASSUME NEW w \in Workers, Execute(w) PROVE Goal
  <2>1. \A v \in Workers \ {w} : pc'[v] = pc[v] /\ job'[v] = job[v] /\ answer'[v] = answer[v]
    BY <1>0, <1>6 DEF Execute, BeginSend, PoolTypeOK
  <2>2. QED
    BY <1>6, <1>a, <2>1 DEF Execute, Owner, vars
<1>7. ASSUME NEW w \in Workers, Crash(w) PROVE Goal
  <2>1. \A v \in Workers \ {w} : pc'[v] = pc[v] /\ job'[v] = job[v] /\ answer'[v] = answer[v]
    BY <1>0, <1>7 DEF Crash, Rest, PoolTypeOK
  <2>2. ~Owner(w)'
    BY <1>0, <1>7 DEF Crash, Rest, Owner, PoolTypeOK
  <2>3. QED
    BY <1>0, <1>7, <2>1, <2>2, GivingUp DEF Crash, vars, Holding
<1>8. ASSUME NEW tx \in flight, Land(tx) PROVE Goal
  <2>1. tx \in Transaction /\ tx.id \in DOMAIN jobs /\ tx.worker \in Workers
    BY <1>0 DEF PoolTypeOK, InJobs, Transaction
  <2>2. /\ \A id \in DOMAIN jobs : id # tx.id => jobs'[id] = jobs[id]
        /\ flight' = flight \ {tx} /\ UNCHANGED <<pc, job>>
        /\ tx.instruction = "claiming" =>
             jobs[tx.id].status = "Pending" /\ HeldBy(tx.worker, tx.id)'
    BY <1>8, <2>1, EffectJobs DEF Land, Base, HeldBy
  <2>3. \A v \in Workers, id \in DOMAIN jobs :
          HeldBy(v, id) /\ (id = tx.id => tx.instruction # "claiming" /\ v # tx.worker)
            => HeldBy(v, id)'
    <3>1. tx.instruction # "claiming" => HeldBy(tx.worker, tx.id)
      BY <1>0 DEF ReportersHold
    <3>2. QED
      BY <2>2, <3>1 DEF HeldBy
  <2>4. CASE tx.instruction = "claiming"
    <3>1. \A v \in Workers, id \in DOMAIN jobs : HeldBy(v, id) => HeldBy(v, id)'
      BY <2>2, <2>3, <2>4 DEF HeldBy
    <3>2. ReportersHold'
      BY <1>0, <2>2, <3>1 DEF ReportersHold, HeldBy, PoolTypeOK, InJobs, Transaction
    <3>3. ASSUME NEW v \in Workers, Owner(v)' PROVE (HeldBy(v, job[v]) /\ Unreported(v, job[v]))'
      <4>1. CASE Owner(v)
        <5>1. HeldBy(v, job[v]) /\ Unreported(v, job[v]) /\ job[v] \in DOMAIN jobs
          BY <1>0, <4>1 DEF OwnersHold, Owner, InJobs
        <5>2. QED
          BY <2>2, <3>1, <5>1 DEF Unreported, HeldBy
      <4>2. CASE ~Owner(v)
        <5>1. v = tx.worker /\ job[v] = tx.id
          BY <1>0, <1>8, <2>2, <3>3, <4>2 DEF Land, Owner, PoolTypeOK, Awaited
        <5>2. Unreported(v, job[v])
          BY <1>0, <2>2, <2>4, <5>1 DEF ReportersHold, Unreported, HeldBy
        <5>3. QED
          BY <2>2, <2>4, <5>1, <5>2 DEF Unreported, HeldBy
      <4>3. QED
        BY <4>1, <4>2
    <3>4. QED
      BY <3>2, <3>3 DEF OwnersHold
  <2>5. CASE tx.instruction # "claiming"
    <3>1. ReportersHold'
      <4>1. SUFFICES ASSUME NEW other \in flight, other # tx, other.instruction # "claiming"
                     PROVE  HeldBy(other.worker, other.id)'
        BY <1>0, <2>2 DEF ReportersHold
      <4>2. HeldBy(tx.worker, tx.id) /\ HeldBy(other.worker, other.id)
            /\ ~(other.worker = tx.worker /\ other.id = tx.id)
        BY <1>0, <2>5, <4>1 DEF ReportersHold
      <4>3. other.worker \in Workers /\ other.id \in DOMAIN jobs
        BY <1>0 DEF PoolTypeOK, Transaction, InJobs
      <4>4. QED
        BY <2>3, <2>5, <4>2, <4>3
    <3>2. ASSUME NEW v \in Workers, Owner(v)' PROVE (HeldBy(v, job[v]) /\ Unreported(v, job[v]))'
      <4>1. Owner(v)
        BY <1>0, <1>8, <2>2, <2>5, <3>2 DEF Land, Owner, PoolTypeOK, Awaited
      <4>2. HeldBy(v, job[v]) /\ Unreported(v, job[v]) /\ job[v] \in DOMAIN jobs
        BY <1>0, <4>1 DEF OwnersHold, Owner, InJobs
      <4>3. job[v] = tx.id => v # tx.worker
        BY <2>5, <4>2 DEF Unreported
      <4>4. HeldBy(v, job[v])' 
        BY <2>2, <2>3, <2>5, <4>2, <4>3 DEF HeldBy
      <4>5. QED
        BY <2>2, <4>2, <4>4 DEF Unreported
    <3>3. QED
      BY <3>1, <3>2 DEF OwnersHold
  <2>6. QED
    BY <2>4, <2>5
<1>9. ASSUME NEW tx \in flight, Drop(tx) PROVE Goal
  BY <1>9, <1>c DEF Drop, procVars, vars
<1>10. CASE Others
  <2>1. LedgerStep /\ UNCHANGED <<pc, job, answer, flight>>
    BY <1>10, OthersLedgerStep DEF procVars
  <2>2. \A v, id : id \in DOMAIN jobs /\ HeldBy(v, id) => HeldBy(v, id)'
    BY <2>1, LedgerStepJobs DEF Base, HeldBy
  <2>3. OwnersHold'
    <3>1. SUFFICES ASSUME NEW v \in Workers, Owner(v)
                   PROVE  HeldBy(v, job[v])' /\ Unreported(v, job[v])
      BY <2>1 DEF OwnersHold, Owner, Unreported, HeldBy
    <3>2. HeldBy(v, job[v]) /\ Unreported(v, job[v]) /\ job[v] \in DOMAIN jobs
      BY <1>0, <3>1 DEF OwnersHold, Owner, InJobs
    <3>3. QED
      BY <2>1, <2>2, <3>2 DEF HeldBy
  <2>4. ReportersHold'
    BY <1>0, <2>1, <2>2 DEF ReportersHold, InJobs, HeldBy
  <2>5. QED
    BY <2>3, <2>4
<1>11. CASE UNCHANGED poolVars
  BY <1>11, <1>c DEF poolVars, procVars, vars
<1>12. QED
  BY <1>1, <1>2, <1>3, <1>4, <1>5, <1>6, <1>7, <1>8, <1>9, <1>10, <1>11
  DEF PoolNext, Worker

(* With one attempt per send, a worker that executes a job holds its lock,   *)
(* through crashes and lost answers (worker.ts:313-362): no claim of its own *)
(* and no report left behind by an earlier run of it can take the job away.  *)
THEOREM ExecutesWhatItAlwaysHolds ==
  ASSUME MaxSends = 1
  PROVE  PoolSpec => []ExecutesWhatItHolds
<1>1. PoolInit => Holding
  BY DEF PoolInit, Holding, AttemptsBegun, OwnersHold, ReportersHold, Owner, Sending
<1>2. Base /\ Awaited /\ Holding /\ [PoolNext]_poolVars => Holding'
  BY NextAttemptsBegun, NextHolding DEF Holding
<1>3. Holding => ExecutesWhatItHolds
  BY DEF Holding, OwnersHold, Owner, ExecutesWhatItHolds
<1>4. QED
  BY <1>1, <1>2, <1>3, PoolBase, PoolAwaited, PTL DEF PoolSpec

(* With one attempt per send no two workers execute a job at the same time:  *)
(* the lock of claim_job, "for a specific worker" (lib.rs:316-317), is a     *)
(* lock on the execution as well.                                            *)
THEOREM ExecutedByOneAlways ==
  ASSUME MaxSends = 1
  PROVE  PoolSpec => []ExecutedByOne
<1>1. ExecutesWhatItHolds => ExecutedByOne
  <2>1. SUFFICES ASSUME ExecutesWhatItHolds, NEW id \in JobIds
                 PROVE  Cardinality(Executing(id)) <= 1
    BY DEF ExecutedByOne
  <2>2. \A v, w \in Executing(id) : v = w
    BY <2>1 DEF Executing, ExecutesWhatItHolds, HeldBy
  <2>3. CASE Executing(id) = {}
    BY <2>3, FS_EmptySet
  <2>4. CASE Executing(id) # {}
    <3>1. PICK w : Executing(id) = {w}
      BY <2>2, <2>4
    <3>2. QED
      BY <3>1, FS_Singleton
  <2>5. QED
    BY <2>3, <2>4
<1>2. QED
  BY <1>1, ExecutesWhatItAlwaysHolds, PTL

-----------------------------------------------------------------------------
(* What a worker has lost track of.                                         *)

\* A worker that lets go of its transactions is not on the track of more jobs.
LEMMA OrphanedReports ==
  ASSUME flight \subseteq Transaction, NEW v \in Workers, flight' = Orphaned(v),
         NEW tx \in flight'
  PROVE  \E old \in flight : /\ old.worker = tx.worker /\ old.id = tx.id
                            /\ old.instruction = tx.instruction
BY DEF Orphaned, Transaction

\* An abandoned job stays so unless its worker gets on its track or the job moves.
LEMMA AbandonedUnless ==
  ASSUME NEW w \in Workers, NEW id \in JobIds, Abandoned(w, id),
         id \in DOMAIN jobs', jobs'[id].status = jobs[id].status,
         jobs'[id].worker = jobs[id].worker, ~OnTrack(w, id)'
  PROVE  Abandoned(w, id)'
BY DEF Abandoned

LEMMA WorkerKeepsAbandoned ==
  ASSUME PoolTypeOK, NEW v \in Workers, Worker(v) \/ Crash(v),
         NEW w \in Workers, NEW id \in JobIds, Abandoned(w, id)
  PROVE  Abandoned(w, id)'
<1>1. UNCHANGED jobs
  BY WorkerLeavesLedger DEF vars
<1>2. ~OnTrack(w, id) /\ id # NoJob
  BY MaxJobsAssumption DEF Abandoned, JobIds, NoJob
<1> DEFINE Hand == job[w] = id /\ ( \/ pc[w] \in {"executing", "completing", "failing"}
                                  \/ answer[w] = "effect")
           Reports(tx) == tx.worker = w /\ tx.id = id /\ tx.instruction # "claiming"
<1>3. SUFFICES ~Hand' /\ \A tx \in flight' : ~Reports(tx)
  BY <1>1, AbandonedUnless DEF Abandoned, OnTrack
<1>4. ~Hand /\ \A tx \in flight : ~Reports(tx)
  BY <1>2 DEF OnTrack
<1>5. CASE Poll(v)
  BY <1>4, <1>5 DEF Poll
<1>6. CASE TakeUp(v)
  BY <1>4, <1>6 DEF TakeUp, BeginSend, PoolTypeOK
<1>7. CASE Submit(v)
  <2>1. ~Hand'
    BY <1>4, <1>7 DEF Submit, PoolTypeOK
  <2>2. ~Reports([instruction |-> pc[v], worker |-> v, id |-> job[v], latest |-> TRUE])
    BY <1>4, <1>7 DEF Submit, Sending
  <2>3. QED
    BY <1>4, <1>7, <2>1, <2>2 DEF Submit
<1>8. CASE Confirmed(v)
  BY <1>2, <1>4, <1>8 DEF Confirmed, BeginExecution, Rest, PoolTypeOK
<1>a. ASSUME flight' = Orphaned(v) PROVE \A tx \in flight' : ~Reports(tx)
  BY <1>4, <1>a, OrphanedReports DEF PoolTypeOK
<1>9. CASE SendError(v)
  <2>1. ~Hand'
    BY <1>2, <1>4, <1>9 DEF SendError, NextAttempt, Rest, PoolTypeOK
  <2>2. QED
    BY <1>9, <1>a, <2>1 DEF SendError
<1>10. CASE Execute(v)
  BY <1>4, <1>10 DEF Execute, BeginSend, PoolTypeOK
<1>11. CASE Crash(v)
  <2>1. ~Hand'
    BY <1>2, <1>4, <1>11 DEF Crash, Rest, PoolTypeOK
  <2>2. QED
    BY <1>11, <1>a, <2>1 DEF Crash
<1>12. QED
  BY <1>5, <1>6, <1>7, <1>8, <1>9, <1>10, <1>11 DEF Worker

LEMMA LandKeepsAbandoned ==
  ASSUME Base, Awaited, NEW tx \in flight, Land(tx),
         NEW w \in Workers, NEW id \in JobIds, Abandoned(w, id)
  PROVE  Abandoned(w, id)'
<1>1. /\ PoolTypeOK /\ Shape /\ tx \in Transaction /\ tx.id \in DOMAIN jobs
      /\ Effect(tx) /\ flight' \subseteq flight /\ UNCHANGED <<pc, job>>
  BY DEF Base, PoolTypeOK, InJobs, Land
<1>2. /\ jobs[id].status = "Processing" /\ jobs[id].worker = w
      /\ id \in DOMAIN jobs /\ ~OnTrack(w, id)
  BY DEF Abandoned
<1>3. tx.id # id
  <2>1. SUFFICES ASSUME tx.id = id PROVE FALSE
    OBVIOUS
  <2>2. tx.instruction # "claiming" /\ tx.worker = w
    BY <1>1, <1>2, <2>1, EffectJobs DEF HeldBy
  <2>3. QED
    BY <1>2, <2>1, <2>2 DEF OnTrack
<1>4. DOMAIN jobs' = DOMAIN jobs /\ jobs'[id] = jobs[id]
  BY <1>1, <1>2, <1>3, EffectJobs
<1>5. job[w] = id => answer'[w] = answer[w]
  BY <1>1, <1>3 DEF Land, Awaited, PoolTypeOK
<1>6. ~OnTrack(w, id)'
  BY <1>1, <1>2, <1>5 DEF OnTrack
<1>7. QED
  BY <1>2, <1>4, <1>6, AbandonedUnless

(* A job its worker has lost track of, by a lost answer, a report given up   *)
(* or a crash (worker.ts:313-362), stays Processing under that worker's name *)
(* for good: the worker cannot claim it again, nobody else may report it     *)
(* (lib.rs:368-371, 410-413), the authority cannot cancel it (lib.rs:483),   *)
(* and no late copy is about it.                                             *)
THEOREM AbandonedAlwaysStays == PoolSpec => AbandonedStays
<1>1. Base /\ Awaited /\ [PoolNext]_poolVars => [AbandonedStep]_poolVars
  <2> SUFFICES ASSUME Base, Awaited, PoolNext, NEW w \in Workers, NEW id \in JobIds,
                      Abandoned(w, id)
               PROVE  Abandoned(w, id)'
    BY DEF AbandonedStep
  <2>1. ASSUME NEW v \in Workers, Worker(v) \/ Crash(v) PROVE Abandoned(w, id)'
    BY <2>1, WorkerKeepsAbandoned DEF Base
  <2>2. ASSUME NEW tx \in flight, Land(tx) PROVE Abandoned(w, id)'
    BY <2>2, LandKeepsAbandoned
  <2>3. ASSUME NEW tx \in flight, Drop(tx) PROVE Abandoned(w, id)'
    BY <2>3 DEF Drop, procVars, vars, Abandoned, OnTrack
  <2>4. CASE Others
    <3>1. LedgerStep /\ UNCHANGED <<procVars, flight>>
      BY <2>4, OthersLedgerStep
    <3>2. /\ id \in DOMAIN jobs' /\ jobs'[id].status = jobs[id].status
          /\ jobs'[id].worker = jobs[id].worker
      BY <3>1, LedgerStepJobs DEF Base, Abandoned
    <3>3. ~OnTrack(w, id)'
      BY <3>1 DEF procVars, Abandoned, OnTrack
    <3>4. QED
      BY <3>2, <3>3, AbandonedUnless
  <2>5. QED
    BY <2>1, <2>2, <2>3, <2>4 DEF PoolNext
<1>2. QED
  BY <1>1, PoolBase, PoolAwaited, PTL DEF PoolSpec, AbandonedStays

-----------------------------------------------------------------------------
(* The pages a worker reads.                                                *)

(* A worker that reads every page there is sees every ready job              *)
(* (worker.ts:302): what the run claim_ready finds is a matter of the pages  *)
(* alone, not of what is on them.                                            *)
THEOREM ReadyJobsSeenOnTheirPages ==
  PoolSpec => [](DOMAIN job_ids \subseteq PagesRead => ReadyJobsAreSeen)
<1>1. IndexExact => (DOMAIN job_ids \subseteq PagesRead => ReadyJobsAreSeen)
  BY DEF IndexExact, PendingAreListed, ReadyJobsAreSeen
<1>2. QED
  BY <1>1, PoolUsesProgram, IndexAlwaysExact, PTL

\* No worker has anything to do, and no job was ever claimed.
NothingClaimed ==
  /\ \A w \in Workers : pc[w] = "idle" /\ todo[w] = {}
  /\ flight = {}
  /\ \A id \in DOMAIN jobs : jobs[id].attempts = 0 /\ jobs[id].status \in {"Pending", "Cancelled"}

(* Workers that read no page, as those of client/worker.ts do, whose         *)
(* getReadyJobIds asks for addresses the program never creates               *)
(* (index.ts:192-208), never claim a job: every job stays Pending until the  *)
(* authority cancels it.                                                     *)
THEOREM NothingEverClaimed ==
  ASSUME PagesRead = {}
  PROVE  PoolSpec => []NothingClaimed
<1>1. PoolInit => NothingClaimed
  BY DEF PoolInit, Init, InitializeQueue, NothingClaimed
<1>2. Base /\ NothingClaimed /\ [PoolNext]_poolVars => NothingClaimed'
  <2> SUFFICES ASSUME Base, NothingClaimed, [PoolNext]_poolVars PROVE NothingClaimed'
    OBVIOUS
  <2>0. PoolTypeOK /\ Shape /\ IndexExact
    BY DEF Base
  <2>1. ASSUME NEW w \in Workers, Worker(w) \/ Crash(w) PROVE Poll(w)
    BY <2>1 DEF NothingClaimed, Worker, Crash, TakeUp, Submit, Confirmed, SendError, Execute,
                Sending
  <2>2. ASSUME NEW w \in Workers, Poll(w) PROVE NothingClaimed'
    <3>1. todo' = todo
      <4>1. PagesRead \cap DOMAIN job_ids = {}
        OBVIOUS
      <4>2. PICK ids \in SUBSET {} : todo' = [todo EXCEPT ![w] = ids]
        BY <2>2, <4>1 DEF Poll
      <4>3. ids = {} /\ todo[w] = {}
        BY <2>2, <4>2 DEF Poll
      <4>4. QED
        BY <2>0, <4>2, <4>3 DEF PoolTypeOK
    <3>2. QED
      BY <2>2, <3>1 DEF Poll, NothingClaimed, vars
  <2>3. CASE Others
    BY <2>0, <2>3, OthersLedgerStep, LedgerStepJobs DEF NothingClaimed, procVars
  <2>4. CASE UNCHANGED poolVars
    BY <2>4 DEF NothingClaimed, poolVars, procVars, vars
  <2>5. QED
    BY <2>1, <2>2, <2>3, <2>4 DEF PoolNext, NothingClaimed
<1>3. QED
  BY <1>1, <1>2, PoolBase, PTL DEF PoolSpec

-----------------------------------------------------------------------------
(* Every pass advances.                                                     *)

\* The steps left of a pass are a number, and in the send and with the job alone too.
LeftCounted ==
  \A w \in Workers : /\ SendLeft(w) \in Nat /\ JobLeft(w) \in Nat /\ PassLeft(w) \in Nat
                      /\ IsFiniteSet(todo[w]) /\ Cardinality(todo[w]) \in Nat

LEMMA LeftIsCounted == PoolTypeOK => LeftCounted
<1> SUFFICES ASSUME PoolTypeOK, NEW w \in Workers
             PROVE  /\ SendLeft(w) \in Nat /\ JobLeft(w) \in Nat /\ PassLeft(w) \in Nat
                    /\ IsFiniteSet(todo[w]) /\ Cardinality(todo[w]) \in Nat
  BY DEF LeftCounted
<1>1. /\ pc[w] \in Sending \cup {"idle", "executing"}
      /\ attempt[w] \in Int /\ attempt[w] <= MaxSends /\ MaxSends \in Nat
      /\ answer[w] \in {"none", "sent", "effect"}
      /\ todo[w] \subseteq JobIds
  BY MaxSendsAssumption DEF PoolTypeOK
<1>2. IsFiniteSet(todo[w]) /\ Cardinality(todo[w]) \in Nat
  <2>1. IsFiniteSet(JobIds)
    BY MaxJobsAssumption, FS_Interval DEF JobIds
  <2>2. QED
    BY <1>1, <2>1, FS_Subset, FS_CardinalityType
<1>3. SendLeft(w) \in Nat
  BY <1>1 DEF SendLeft
<1>4. JobLeft(w) \in Nat
  BY <1>1, <1>3 DEF JobLeft, Sending
<1>5. PassLeft(w) \in Nat
  <2>1. \A m, n, k \in Nat : (6 * m + 2) * n + k \in Nat
    OBVIOUS
  <2>2. QED
    BY <1>1, <1>2, <1>4, <2>1 DEF PassLeft
<1>6. QED
  BY <1>2, <1>3, <1>4, <1>5

\* Fewer steps with the job in hand are fewer steps in the pass.
LEMMA JobSteps ==
  ASSUME LeftCounted, LeftCounted', NEW w \in Workers, todo'[w] = todo[w],
         JobLeft(w)' < JobLeft(w)
  PROVE  PassStep(w)
<1> DEFINE c == (6 * MaxSends + 2) * Cardinality(todo[w])
<1>1. /\ JobLeft(w) \in Nat /\ PassLeft(w) \in Nat
      /\ JobLeft(w)' \in Nat /\ PassLeft(w)' \in Nat
  BY DEF LeftCounted
<1>2. c \in Int
  <2>1. \A m, n \in Nat : (6 * m + 2) * n \in Int
    OBVIOUS
  <2>2. QED
    BY <2>1, MaxSendsAssumption DEF LeftCounted
<1>3. PassLeft(w) = c + JobLeft(w) /\ PassLeft(w)' = c + JobLeft(w)'
  BY DEF PassLeft
<1> HIDE DEF c
<1>4. QED
  BY <1>1, <1>2, <1>3 DEF PassStep

\* The steps of one worker leave the others where they stand.
LEMMA OthersStand ==
  ASSUME PoolTypeOK, NEW w \in Workers, Worker(w) \/ Crash(w), NEW v \in Workers \ {w}
  PROVE  PassStep(v)
<1>1. Standing(v)' = Standing(v)
  BY DEF Worker, Crash, Poll, TakeUp, Submit, Confirmed, SendError, Execute, BeginSend,
         BeginExecution, NextAttempt, Rest, Standing, PoolTypeOK
<1>2. QED
  BY <1>1 DEF PassStep

\* Whatever a worker does in a pass brings it nearer to the end of the pass.
LEMMA WorkerAdvances ==
  ASSUME PoolTypeOK, LeftCounted, LeftCounted', AttemptsBegun,
         NEW w \in Workers, Worker(w) \/ Crash(w)
  PROVE  PassStep(w)
<1>0. /\ pc \in [Workers -> Sending \cup {"idle", "executing"}]
      /\ todo \in [Workers -> SUBSET JobIds]
      /\ attempt \in [Workers -> 0..MaxSends]
      /\ answer \in [Workers -> {"none", "sent", "effect"}]
      /\ MaxSends \in Nat \ {0}
  BY MaxSendsAssumption DEF PoolTypeOK
<1>a. IsFiniteSet(todo[w]) /\ Cardinality(todo[w]) \in Nat /\ PassLeft(w)' \in Nat
  BY DEF LeftCounted
<1>1. CASE Poll(w)
  <2>1. Cardinality(todo[w]) = 0 /\ JobLeft(w) = 0
    BY <1>1, FS_EmptySet DEF Poll, JobLeft
  <2>2. PassLeft(w) = 0
    BY <1>0, <2>1 DEF PassLeft
  <2>3. QED
    BY <2>2 DEF PassStep
<1>2. CASE TakeUp(w)
  <2>1. PICK id \in todo[w] : todo' = [todo EXCEPT ![w] = @ \ {id}]
    BY <1>2 DEF TakeUp
  <2>2. Cardinality(todo[w])' = Cardinality(todo[w]) - 1
    BY <1>0, <1>a, <2>1, FS_RemoveElement
  <2>3. JobLeft(w) = 0 /\ JobLeft(w)' = 6 * MaxSends + 1
    BY <1>0, <1>2 DEF TakeUp, BeginSend, JobLeft, SendLeft
  <2>4. \A m, n \in Nat : (6 * m + 2) * (n - 1) + (6 * m + 1) = (6 * m + 2) * n - 1
    OBVIOUS
  <2>5. PassLeft(w)' = PassLeft(w) - 1
    BY <1>0, <1>a, <2>2, <2>3, <2>4 DEF PassLeft
  <2>6. PassLeft(w) \in Nat
    BY DEF LeftCounted
  <2>7. QED
    BY <1>a, <2>5, <2>6 DEF PassStep
<1>3. CASE Submit(w)
  <2>1. JobLeft(w)' < JobLeft(w)
    BY <1>0, <1>3 DEF Submit, JobLeft, SendLeft, Sending
  <2>2. QED
    BY <1>3, <2>1, JobSteps DEF Submit
<1>4. CASE Confirmed(w)
  <2>1. JobLeft(w)' < JobLeft(w)
    <3>1. CASE pc[w] = "claiming"
      BY <1>0, <1>4, <3>1 DEF Confirmed, BeginExecution, JobLeft, SendLeft
    <3>2. CASE pc[w] # "claiming"
      BY <1>0, <1>4, <3>2 DEF Confirmed, Rest, JobLeft, SendLeft, Sending
    <3>3. QED
      BY <3>1, <3>2
  <2>2. QED
    BY <1>4, <2>1, JobSteps DEF Confirmed
<1>5. CASE SendError(w)
  <2>1. JobLeft(w)' < JobLeft(w)
    <3>1. CASE attempt[w] < MaxSends
      BY <1>0, <1>5, <3>1 DEF SendError, NextAttempt, JobLeft, SendLeft, Sending
    <3>2. CASE ~(attempt[w] < MaxSends)
      BY <1>0, <1>5, <3>2 DEF SendError, Rest, JobLeft, SendLeft, Sending
    <3>3. QED
      BY <3>1, <3>2
  <2>2. QED
    BY <1>5, <2>1, JobSteps DEF SendError
<1>6. CASE Execute(w)
  <2>1. JobLeft(w)' < JobLeft(w)
    BY <1>0, <1>6 DEF Execute, BeginSend, JobLeft, SendLeft
  <2>2. QED
    BY <1>6, <2>1, JobSteps DEF Execute
<1>7. CASE Crash(w)
  <2>1. Cardinality(todo[w])' = 0 /\ JobLeft(w)' = 0
    BY <1>0, <1>7, FS_EmptySet DEF Crash, Rest, JobLeft
  <2>2. PassLeft(w)' = 0
    BY <1>0, <2>1 DEF PassLeft
  <2>3. QED
    BY <2>2 DEF PassStep, LeftCounted
<1>8. QED
  BY <1>1, <1>2, <1>3, <1>4, <1>5, <1>6, <1>7 DEF Worker

LEMMA StepAdvances ==
  Base /\ Base' /\ Awaited /\ AttemptsBegun /\ [PoolNext]_poolVars
    => [\A w \in Workers : PassStep(w)]_poolVars
<1> SUFFICES ASSUME Base, Base', Awaited, AttemptsBegun, PoolNext, NEW w \in Workers
             PROVE  PassStep(w)
  OBVIOUS
<1>0. PoolTypeOK /\ LeftCounted /\ LeftCounted'
  <2>1. PoolTypeOK' => LeftCounted'
    BY LeftIsCounted, PTL
  <2>2. QED
    BY <2>1, LeftIsCounted DEF Base
<1>1. ASSUME NEW v \in Workers, Worker(v) \/ Crash(v) PROVE PassStep(w)
  BY <1>0, <1>1, WorkerAdvances, OthersStand
<1>2. ASSUME NEW tx \in flight, Land(tx) PROVE PassStep(w)
  <2>1. CASE tx.latest /\ tx.worker = w
    <3>1. pc[w] \in Sending /\ answer[w] = "sent"
      BY <1>0, <2>1 DEF Awaited, PoolTypeOK, Transaction
    <3>2. JobLeft(w)' < JobLeft(w)
      BY <1>0, <1>2, <2>1, <3>1, MaxSendsAssumption
      DEF Land, PoolTypeOK, JobLeft, SendLeft, Sending
    <3>3. QED
      BY <1>0, <1>2, <3>2, JobSteps DEF Land
  <2>2. CASE ~(tx.latest /\ tx.worker = w)
    BY <1>0, <1>2, <2>2 DEF Land, PassStep, Standing, PoolTypeOK
  <2>3. QED
    BY <2>1, <2>2
<1>3. ASSUME NEW tx \in flight, Drop(tx) PROVE PassStep(w)
  BY <1>3 DEF Drop, procVars, PassStep, Standing
<1>4. CASE Others
  BY <1>4 DEF Others, procVars, PassStep, Standing
<1>5. QED
  BY <1>1, <1>2, <1>3, <1>4 DEF PoolNext

(* Whatever happens to a worker in a pass, by its own steps, by late answers *)
(* or by a crash, the pass has fewer steps left (worker.ts:287-362): no      *)
(* order of errors keeps it in one send or with one job.  PassEnds is this   *)
(* and the fairness of the workers.                                          *)
THEOREM PassAlwaysAdvances == PoolSpec => PassAdvances
<1>1. PoolInit => AttemptsBegun
  BY DEF PoolInit, AttemptsBegun, Sending
<1>2. QED
  BY <1>1, NextAttemptsBegun, StepAdvances, PoolBase, PoolAwaited, PTL DEF PoolSpec, PassAdvances

=============================================================================
