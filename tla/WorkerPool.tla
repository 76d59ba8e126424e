----------------------------- MODULE WorkerPool -----------------------------
(***************************************************************************)
(* Worker processes (client/worker.ts) against the queue on the ledger.    *)
(*                                                                         *)
(* A worker polls for ready jobs and works through the list it got: claim, *)
(* execute, complete or fail.  Claims and reports go through the fee       *)
(* strategy, whose contract is Delivery: success means that the instruction*)
(* took effect, an error means nothing, and every attempt may still land   *)
(* after the worker has moved on, or after it has crashed.  Each process   *)
(* signs with a key of its own.                                            *)
(***************************************************************************)
EXTENDS DecQueue

CONSTANTS
  Workers,    \* the keys of the worker processes
  MaxSends,   \* retry.maxAttempts of the fee strategy
  PagesRead,  \* the pages whose addresses getReadyJobIds reads
  BadJobs     \* jobs whose payload makes executeJob throw

ASSUME WorkersAssumption == Workers \subseteq Accounts /\ IsFiniteSet(Workers)
ASSUME MaxSendsAssumption == MaxSends \in Nat \ {0}
ASSUME PagesReadAssumption == PagesRead \subseteq Nat
ASSUME BadJobsAssumption == BadJobs \subseteq Nat

VARIABLES
  pc,         \* where each worker stands
  todo,       \* the jobs of this pass it has not taken up yet
  job,        \* the job in hand
  attempt,    \* the attempt of the send it is in
  answer,     \* that attempt: not sent, sent, or known to have taken effect
  flight,     \* transactions that may still land
  executions  \* how often the execution of each job was begun, by whomever

procVars == <<pc, todo, job, attempt, answer>>
poolVars == <<vars, procVars, flight, executions>>

NoJob == -1
Sending == {"claiming", "completing", "failing"}

\* latest: the attempt its sender still waits for.  Copies that nobody waits for
\* and that say the same count as one.
Transaction == [instruction : Sending, worker : Workers, id : JobIds, latest : BOOLEAN]

PoolInit ==
  /\ Init
  /\ pc = [w \in Workers |-> "idle"]
  /\ todo = [w \in Workers |-> {}]
  /\ job = [w \in Workers |-> NoJob]
  /\ attempt = [w \in Workers |-> 0]
  /\ answer = [w \in Workers |-> "none"]
  /\ flight = {}
  /\ executions = [id \in JobIds |-> 0]

-----------------------------------------------------------------------------
(* The worker.                                                              *)

\* The fetch may fail for any job, and the local clock judges whether one is
\* ready, so any of the listed jobs may be missing from the list.
Poll(w) ==
  /\ pc[w] = "idle" /\ todo[w] = {}
  /\ \E ids \in SUBSET {id \in JobIds : \E s \in PagesRead \cap DOMAIN job_ids :
                                           Holds(job_ids[s], id)} :
       todo' = [todo EXCEPT ![w] = ids]
  /\ UNCHANGED <<vars, pc, job, attempt, answer, flight, executions>>

BeginSend(w, instruction) ==
  /\ pc' = [pc EXCEPT ![w] = instruction]
  /\ attempt' = [attempt EXCEPT ![w] = 1]
  /\ answer' = [answer EXCEPT ![w] = "none"]

\* The next job of the pass; priorities are arbitrary, so any is the first.
TakeUp(w) ==
  /\ pc[w] = "idle"
  /\ \E id \in todo[w] : /\ job' = [job EXCEPT ![w] = id]
                         /\ todo' = [todo EXCEPT ![w] = @ \ {id}]
  /\ BeginSend(w, "claiming")
  /\ UNCHANGED <<vars, flight, executions>>

Submit(w) ==
  /\ pc[w] \in Sending /\ answer[w] = "none"
  /\ flight' = flight \cup {[instruction |-> pc[w], worker |-> w, id |-> job[w],
                             latest |-> TRUE]}
  /\ answer' = [answer EXCEPT ![w] = "sent"]
  /\ UNCHANGED <<vars, pc, todo, job, attempt, executions>>

\* What w sent and does not wait for any more.
Orphaned(w) ==
  {IF tx.worker = w THEN [tx EXCEPT !.latest = FALSE] ELSE tx : tx \in flight}

Rest(w) ==
  /\ pc' = [pc EXCEPT ![w] = "idle"]
  /\ job' = [job EXCEPT ![w] = NoJob]
  /\ attempt' = [attempt EXCEPT ![w] = 0]
  /\ answer' = [answer EXCEPT ![w] = "none"]

BeginExecution(w) ==
  /\ pc' = [pc EXCEPT ![w] = "executing"]
  /\ executions' = [executions EXCEPT ![job[w]] = @ + 1]
  /\ UNCHANGED <<job, attempt, answer>>

\* send returns: what was claimed is executed, after a report the job is done with.
Confirmed(w) ==
  /\ pc[w] \in Sending /\ answer[w] = "effect"
  /\ IF pc[w] = "claiming" THEN BeginExecution(w)
     ELSE Rest(w) /\ UNCHANGED executions
  /\ UNCHANGED <<vars, todo, flight>>

NextAttempt(w) ==
  /\ attempt' = [attempt EXCEPT ![w] = @ + 1]
  /\ answer' = [answer EXCEPT ![w] = "none"]
  /\ UNCHANGED <<pc, job>>

\* Variants: the loop of send forgets to count, or makes one attempt too many; a
\* job is executed although its claim failed.
SendErrorUncounted(w) ==
  /\ pc[w] \in Sending
  /\ flight' = Orphaned(w)
  /\ answer' = [answer EXCEPT ![w] = "none"]
  /\ UNCHANGED <<vars, pc, todo, job, attempt, executions>>

SendErrorOnceMore(w) ==
  /\ pc[w] \in Sending
  /\ flight' = Orphaned(w)
  /\ IF attempt[w] <= MaxSends THEN NextAttempt(w) ELSE Rest(w)
  /\ UNCHANGED <<vars, todo, executions>>

SendErrorIgnored(w) ==
  /\ pc[w] \in Sending
  /\ flight' = Orphaned(w)
  /\ \/ pc[w] = "claiming" /\ attempt[w] = MaxSends /\ BeginExecution(w)
     \/ /\ IF attempt[w] < MaxSends THEN NextAttempt(w) ELSE Rest(w)
        /\ UNCHANGED executions
  /\ UNCHANGED <<vars, todo>>

\* An attempt fails, for whatever reason and whatever became of its transaction.
\* After the last one the worker skips the job or, when it was reporting, leaves
\* it as it is.
SendError(w) ==
  /\ pc[w] \in Sending
  /\ flight' = Orphaned(w)
  /\ IF attempt[w] < MaxSends THEN NextAttempt(w) ELSE Rest(w)
  /\ UNCHANGED <<vars, todo, executions>>

\* Variant: the error of executeJob is caught and forgotten.
ExecuteHidingErrors(w) ==
  /\ pc[w] = "executing"
  /\ BeginSend(w, "completing")
  /\ UNCHANGED <<vars, todo, job, flight, executions>>

Execute(w) ==
  /\ pc[w] = "executing"
  /\ BeginSend(w, IF job[w] \in BadJobs THEN "failing" ELSE "completing")
  /\ UNCHANGED <<vars, todo, job, flight, executions>>

\* The process dies and is started again; it remembers nothing.
Crash(w) ==
  /\ pc[w] # "idle" \/ todo[w] # {}
  /\ flight' = Orphaned(w)
  /\ todo' = [todo EXCEPT ![w] = {}]
  /\ Rest(w)
  /\ UNCHANGED <<vars, executions>>

-----------------------------------------------------------------------------
(* The ledger and everybody else.                                           *)

\* Page 0 is the source and the retry page of every job.
Effect(tx) ==
  CASE tx.instruction = "claiming" -> ClaimJob(tx.worker, tx.id, 0)
    [] tx.instruction = "completing" -> CompleteJob(tx.worker, tx.id)
    [] tx.instruction = "failing" ->
         \/ \E d \in RetryDelays : RetryJob(tx.worker, tx.id, 0, d)
         \/ DeadLetterJob(tx.worker, tx.id)

Land(tx) ==
  /\ Effect(tx)
  /\ flight' = flight \ {tx}
  /\ answer' = IF tx.latest THEN [answer EXCEPT ![tx.worker] = "effect"] ELSE answer
  /\ UNCHANGED <<pc, todo, job, attempt, executions>>

\* The program refuses it, or its blockhash expires.
Drop(tx) ==
  /\ flight' = flight \ {tx}
  /\ UNCHANGED <<vars, procVars, executions>>

EnqueueCall == \E d \in StartDelays : EnqueueJob(d)

GrowCall == GrowIndex(Authority)

CancelCall == \E id \in DOMAIN jobs, s \in DOMAIN job_ids : CancelJob(Authority, id, s)

\* The other clients of the queue and the ledger clock; whether the queue is paused
\* and where its head is does not concern a worker.
Others ==
  /\ EnqueueCall \/ GrowCall \/ CancelCall \/ Tick
  /\ UNCHANGED <<procVars, flight, executions>>

-----------------------------------------------------------------------------
Worker(w) == Poll(w) \/ TakeUp(w) \/ Submit(w) \/ Confirmed(w) \/ SendError(w) \/ Execute(w)

PoolNext ==
  \/ \E w \in Workers : Worker(w) \/ Crash(w)
  \/ \E tx \in flight : Land(tx) \/ Drop(tx)
  \/ Others

PoolSpec == PoolInit /\ [][PoolNext]_poolVars

(* Every request, sleep and execution ends.                                 *)
FairPoolSpec == PoolSpec /\ \A w \in Workers : WF_poolVars(Worker(w))

-----------------------------------------------------------------------------
PoolTypeOK ==
  /\ pc \in [Workers -> Sending \cup {"idle", "executing"}]
  /\ todo \in [Workers -> SUBSET JobIds]
  /\ job \in [Workers -> JobIds \cup {NoJob}]
  /\ attempt \in [Workers -> 0..MaxSends]
  /\ answer \in [Workers -> {"none", "sent", "effect"}]
  /\ flight \subseteq Transaction
  /\ executions \in [JobIds -> Nat]
  /\ \A w \in Workers : pc[w] = "idle" <=> job[w] = NoJob

(* No job is executed more often than the ledger counts attempts for it, and *)
(* so never beyond its retry budget, whatever is lost, doubled, late or      *)
(* forgotten in a crash: each execution is paid for by a claim of its own    *)
(* (worker.ts:313-331).                                                      *)
ExecutionsClaimed ==
  \A id \in JobIds : executions[id] <= AttemptsOf[id]

(* What the ledger says of a settled job is what its execution said: it is   *)
(* Completed only if it was executed without error, dead-lettered only if it *)
(* was executed with one, although reports may land out of order and long    *)
(* after they were made (worker.ts:326-362).                                 *)
VerdictIsTrue ==
  \A id \in DOMAIN jobs :
    /\ jobs[id].status = "Completed" => id \notin BadJobs /\ executions[id] > 0
    /\ jobs[id].status = "Failed" => id \in BadJobs /\ executions[id] > 0

(* Whoever loses track of a job it has claimed loses it for good: by an      *)
(* answer that never came, by a report given up, by a crash or a restart.    *)
(* Once w neither works on id nor is about to, and no report of its is under *)
(* way, no step of anybody ever moves id on, w's own later passes and every  *)
(* late copy included: nothing can "detect stale Processing jobs via a       *)
(* timeout sweep and re-fail them" (worker.ts:347-349).                      *)
OnTrack(w, id) ==
  \/ job[w] = id /\ (pc[w] \in {"executing", "completing", "failing"} \/ answer[w] = "effect")
  \/ \E tx \in flight : tx.worker = w /\ tx.id = id /\ tx.instruction # "claiming"

Abandoned(w, id) ==
  /\ id \in DOMAIN jobs /\ jobs[id].status = "Processing" /\ jobs[id].worker = w
  /\ ~OnTrack(w, id)

AbandonedStep == \A w \in Workers, id \in JobIds : Abandoned(w, id) => Abandoned(w, id)'

AbandonedStays == [][AbandonedStep]_poolVars

(* With one attempt per send, a worker that executes a job holds its lock,   *)
(* through crashes and lost answers.                                         *)
ExecutesWhatItHolds ==
  \A w \in Workers : pc[w] = "executing" => HeldBy(w, job[w])

\* How many steps a worker can still take in its send, with its job, in its pass.
SendLeft(w) ==
  3 * (MaxSends - attempt[w])
    + CASE answer[w] = "none" -> 3 [] answer[w] = "sent" -> 2 [] answer[w] = "effect" -> 1

JobLeft(w) ==
  CASE pc[w] = "idle" -> 0
    [] pc[w] = "executing" -> 3 * MaxSends + 1
    [] pc[w] = "claiming" -> 3 * MaxSends + 1 + SendLeft(w)
    [] pc[w] \in {"completing", "failing"} -> SendLeft(w)

PassLeft(w) == (6 * MaxSends + 2) * Cardinality(todo[w]) + JobLeft(w)

Standing(w) == <<pc[w], todo[w], attempt[w], answer[w]>>

(* Whatever happens to a worker in a pass, by its own steps, by answers or   *)
(* by a crash, leaves fewer steps to the end of the pass.                    *)
PassStep(w) ==
  PassLeft(w) > 0 => Standing(w)' = Standing(w) \/ PassLeft(w)' \in 0..(PassLeft(w) - 1)

PassAdvances == [][\A w \in Workers : PassStep(w)]_poolVars

(* Every pass over the list of ready jobs ends, also when every send fails.  *)
PassEnds == \A w \in Workers : todo[w] # {} ~> todo[w] = {} /\ pc[w] = "idle"

-----------------------------------------------------------------------------
Executing(id) == {w \in Workers : pc[w] = "executing" /\ job[w] = id}

(* While one worker executes a job, no other does: the claim locks the job   *)
(* "for a specific worker" (lib.rs:316-317).                                 *)
ExecutedByOne == \A id \in JobIds : Cardinality(Executing(id)) <= 1

(* "indexes tell us exactly which job_ids are ready" (worker.ts:302): the    *)
(* pages a worker reads list every ready job.                                *)
ReadyJobsAreSeen ==
  \A id \in DOMAIN jobs :
    jobs[id].status = "Pending" /\ jobs[id].wait = 0 =>
      \E s \in PagesRead \cap DOMAIN job_ids : Holds(job_ids[s], id)
=============================================================================
