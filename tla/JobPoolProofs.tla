---------------------------- MODULE JobPoolProofs ---------------------------
(***************************************************************************)
(* DecQueue implements JobPool, for every instance of the program: every   *)
(* instruction is a step of the pool on at most one job, or no step of it. *)
(***************************************************************************)
EXTENDS DecQueueProofs

-----------------------------------------------------------------------------
(* What the mapping needs beyond exact pages and budgets: the ids stay below *)
(* MaxJobs, and the limit of a job is the limit of the queue.                *)

OneLimit ==
  /\ queue.job_count <= MaxJobs
  /\ \A id \in DOMAIN jobs : jobs[id].max_retries = queue.max_retries

PoolInv == Shape /\ IndexExact /\ OneLimit

\* A step that changes no more than one job, and neither limit nor number of jobs.
ChangesOne(id) ==
  /\ DOMAIN jobs' = DOMAIN jobs
  /\ \A x \in DOMAIN jobs : x # id => jobs'[x] = jobs[x]
  /\ queue'.job_count = queue.job_count /\ queue'.max_retries = queue.max_retries
  /\ id \in DOMAIN jobs => jobs'[id].max_retries = jobs[id].max_retries

\* What each action does to the job it is about.
LEMMA ClaimChanges ==
  ASSUME TypeOK, NEW w \in Accounts, NEW id \in DOMAIN jobs, NEW s \in DOMAIN job_ids,
         ClaimJob(w, id, s)
  PROVE  /\ ChangesOne(id) /\ jobs[id].status = "Pending"
         /\ jobs'[id].status = "Processing" /\ jobs'[id].worker = w
         /\ jobs'[id].attempts = jobs[id].attempts + 1
<1>1. jobs \in [DOMAIN jobs -> Job] /\ jobs[id] \in Job
  BY DEF TypeOK
<1>2. /\ jobs' = [jobs EXCEPT ![id] = [jobs[id] EXCEPT !.status = "Processing", !.worker = w,
                                                     !.attempts = @ + 1]]
      /\ queue' = queue /\ jobs[id].status = "Pending"
  BY <1>1 DEF ClaimJob
<1>3. /\ DOMAIN jobs' = DOMAIN jobs /\ \A x \in DOMAIN jobs : x # id => jobs'[x] = jobs[x]
      /\ jobs'[id] = [jobs[id] EXCEPT !.status = "Processing", !.worker = w, !.attempts = @ + 1]
  BY <1>1, <1>2
<1>4. /\ jobs'[id].status = "Processing" /\ jobs'[id].worker = w
      /\ jobs'[id].attempts = jobs[id].attempts + 1
      /\ jobs'[id].max_retries = jobs[id].max_retries
  BY <1>1, <1>3 DEF Job
<1>5. QED
  BY <1>2, <1>3, <1>4 DEF ChangesOne

LEMMA CompleteChanges ==
  ASSUME TypeOK, NEW w \in Accounts, NEW id \in DOMAIN jobs, CompleteJob(w, id)
  PROVE  /\ ChangesOne(id) /\ HeldBy(w, id)
         /\ jobs'[id].status = "Completed" /\ jobs'[id].attempts = jobs[id].attempts
BY DEF CompleteJob, ChangesOne, TypeOK, Job, Queue

LEMMA DeadLetterChanges ==
  ASSUME TypeOK, NEW w \in Accounts, NEW id \in DOMAIN jobs, DeadLetterJob(w, id)
  PROVE  /\ ChangesOne(id) /\ HeldBy(w, id) /\ jobs[id].attempts >= jobs[id].max_retries
         /\ jobs'[id].status = "Failed" /\ jobs'[id].attempts = jobs[id].attempts
BY DEF DeadLetterJob, ChangesOne, TypeOK, Job, Queue

LEMMA RetryChanges ==
  ASSUME TypeOK, NEW w \in Accounts, NEW id \in DOMAIN jobs, NEW s \in DOMAIN job_ids,
         NEW d \in RetryDelays, RetryJob(w, id, s, d)
  PROVE  /\ ChangesOne(id) /\ HeldBy(w, id) /\ jobs[id].attempts < jobs[id].max_retries
         /\ jobs'[id].status = "Pending" /\ jobs'[id].attempts = jobs[id].attempts
<1>1. jobs \in [DOMAIN jobs -> Job] /\ jobs[id] \in Job
  BY DEF TypeOK
<1>2. /\ jobs' = [jobs EXCEPT ![id] = [jobs[id] EXCEPT !.status = "Pending", !.worker = NoWorker,
                                       !.wait = Backoff(d, jobs[id].attempts)]]
      /\ queue' = queue /\ HeldBy(w, id) /\ jobs[id].attempts < jobs[id].max_retries
  BY <1>1 DEF RetryJob
<1>3. /\ DOMAIN jobs' = DOMAIN jobs /\ \A x \in DOMAIN jobs : x # id => jobs'[x] = jobs[x]
      /\ jobs'[id] = [jobs[id] EXCEPT !.status = "Pending", !.worker = NoWorker,
                                      !.wait = Backoff(d, jobs[id].attempts)]
  BY <1>1, <1>2
<1>4. /\ jobs'[id].status = "Pending" /\ jobs'[id].attempts = jobs[id].attempts
      /\ jobs'[id].max_retries = jobs[id].max_retries
  BY <1>1, <1>3 DEF Job
<1>5. QED
  BY <1>2, <1>3, <1>4 DEF ChangesOne

LEMMA CancelChanges ==
  ASSUME TypeOK, IndexExact, NEW a \in Accounts, NEW id \in DOMAIN jobs,
         NEW s \in DOMAIN job_ids, CancelJob(a, id, s)
  PROVE  /\ ChangesOne(id) /\ jobs[id].status = "Pending"
         /\ jobs'[id].status = "Cancelled" /\ jobs'[id].attempts = jobs[id].attempts
<1>1. jobs[id].status = "Pending"
  BY NotPendingUnlisted DEF CancelJob, RemoveJob, Holds, Unlisted
<1>2. QED
  BY <1>1 DEF CancelJob, ChangesOne, TypeOK, Job, Queue

LEMMA TickChanges ==
  ASSUME TypeOK, Tick
  PROVE  /\ DOMAIN jobs' = DOMAIN jobs /\ queue' = queue
         /\ \A id \in DOMAIN jobs : /\ jobs'[id].status = jobs[id].status
                                    /\ jobs'[id].worker = jobs[id].worker
                                    /\ jobs'[id].attempts = jobs[id].attempts
                                    /\ jobs'[id].max_retries = jobs[id].max_retries
<1>1. \A id \in DOMAIN jobs :
        jobs[id] \in Job /\ jobs'[id] = [jobs[id] EXCEPT !.wait = SaturatingDec(@)]
  BY DEF Tick, TypeOK
<1>2. QED
  BY <1>1 DEF Tick, Job

LEMMA EnqueueChanges ==
  ASSUME TypeOK, NEW d \in StartDelays, EnqueueJob(d)
  PROVE  LET id == queue.job_count
         IN  /\ id \in Nat /\ id \in JobIds /\ id \notin DOMAIN jobs
             /\ queue'.job_count = id + 1 /\ queue'.max_retries = queue.max_retries
             /\ DOMAIN jobs' = DOMAIN jobs \cup {id}
             /\ \A x \in DOMAIN jobs : jobs'[x] = jobs[x]
             /\ jobs'[id].status = "Pending" /\ jobs'[id].attempts = 0
             /\ jobs'[id].max_retries = queue.max_retries
<1>1. queue \in Queue /\ DOMAIN jobs = 0..(queue.job_count - 1)
  BY DEF TypeOK
<1>2. queue.job_count \in Nat /\ queue.job_count < MaxJobs
  BY <1>1 DEF Queue, EnqueueJob
<1>3. queue.job_count \in JobIds /\ queue.job_count \notin DOMAIN jobs
  BY <1>1, <1>2, MaxJobsAssumption DEF JobIds
<1>4. queue'.job_count = queue.job_count + 1 /\ queue'.max_retries = queue.max_retries
  BY <1>1 DEF EnqueueJob, Queue
<1>5. QED
  BY <1>2, <1>3, <1>4 DEF EnqueueJob

LEMMA NextOneLimit == Shape /\ IndexExact /\ OneLimit /\ [Next]_vars => OneLimit'
<1> SUFFICES ASSUME Shape, IndexExact, OneLimit, [Next]_vars PROVE OneLimit'
  OBVIOUS
<1>1. TypeOK
  BY DEF Shape
<1>2. ASSUME NEW id, ChangesOne(id) PROVE OneLimit'
  BY <1>2 DEF OneLimit, ChangesOne
<1>3. ASSUME queue'.job_count = queue.job_count, queue'.max_retries = queue.max_retries,
             UNCHANGED jobs
      PROVE  OneLimit'
  BY <1>3 DEF OneLimit
<1>4. ASSUME NEW d \in StartDelays, EnqueueJob(d) PROVE OneLimit'
  <2>1. queue.job_count + 1 <= MaxJobs
    BY <1>1, <1>4, EnqueueChanges, MaxJobsAssumption DEF JobIds
  <2>2. QED
    BY <1>1, <1>4, <2>1, EnqueueChanges DEF OneLimit
<1>5. CASE Tick
  BY <1>1, <1>5, TickChanges DEF OneLimit
<1>6. ASSUME NEW a \in Accounts, NEW p \in BOOLEAN, SetQueuePaused(a, p) PROVE OneLimit'
  BY <1>1, <1>3, <1>6 DEF SetQueuePaused, TypeOK, Queue
<1>7. ASSUME NEW w \in Accounts, NEW id \in DOMAIN jobs, FailJob(w, id) PROVE OneLimit'
  BY <1>1, <1>2, <1>7, RetryChanges, DeadLetterChanges DEF FailJob
<1>8. CASE (\E a \in Accounts : GrowIndex(a)) \/ AdvanceHead \/ UNCHANGED vars
  BY <1>3, <1>8 DEF GrowIndex, AdvanceHead, vars
<1>9. QED
  BY <1>1, <1>2, <1>4, <1>5, <1>6, <1>7, <1>8, ClaimChanges, CompleteChanges, CancelChanges
     DEF Next, Signed

LEMMA PoolInvariant == Spec => []PoolInv
<1>1. Init => OneLimit
  BY MaxJobsAssumption DEF Init, InitializeQueue, OneLimit
<1>2. QED
  BY <1>1, NextOneLimit, ShapeInvariant, IndexAlwaysExact, PTL DEF Spec, PoolInv

-----------------------------------------------------------------------------
(* The mapping.                                                             *)

\* What waits is read off the pages, which list the Pending jobs.
LEMMA PendingIsListed ==
  PoolInv => Listed = {id \in JobIds : Exists(id) /\ jobs[id].status = "Pending"}
<1> SUFFICES ASSUME PoolInv, NEW id \in JobIds
             PROVE  (\E s \in DOMAIN job_ids : Holds(job_ids[s], id))
                      <=> Exists(id) /\ jobs[id].status = "Pending"
  BY DEF Listed
<1>1. IndexExact
  BY DEF PoolInv
<1>2. QED
  BY <1>1 DEF IndexExact, ListedArePending, PendingAreListed, Holds, Exists

LEMMA PendingIsListedNext ==
  PoolInv' => Listed' = {id \in JobIds : Exists(id)' /\ jobs'[id].status = "Pending"}
<1>1. PoolInv' => (Listed = {id \in JobIds : Exists(id) /\ jobs[id].status = "Pending"})'
  BY PendingIsListed, PTL
<1>2. QED
  BY <1>1

\* A step on one job is a step of the pool on that job.
LEMMA OneJobMoves ==
  ASSUME PoolInv, PoolInv', NEW id \in DOMAIN jobs, ChangesOne(id)
  PROVE  /\ id \in JobIds
         /\ Listed' = IF jobs'[id].status = "Pending" THEN Listed \cup {id}
                                                      ELSE Listed \ {id}
         /\ HolderOf' = [HolderOf EXCEPT ![id] = IF jobs'[id].status = "Processing"
                                                 THEN jobs'[id].worker ELSE NoWorker]
         /\ OutcomeOf' = [OutcomeOf EXCEPT ![id] = IF jobs'[id].status \in Terminal
                                                   THEN jobs'[id].status ELSE "Open"]
         /\ AttemptsOf' = [AttemptsOf EXCEPT ![id] = jobs'[id].attempts]
         /\ AttemptBudget' = AttemptBudget
<1>1. id \in JobIds
  BY MaxJobsAssumption DEF PoolInv, OneLimit, Shape, TypeOK, Queue, JobIds
<1>2. /\ DOMAIN jobs' = DOMAIN jobs /\ \A x \in DOMAIN jobs : x # id => jobs'[x] = jobs[x]
      /\ queue'.max_retries = queue.max_retries
  BY DEF ChangesOne
<1>3. Listed' = IF jobs'[id].status = "Pending" THEN Listed \cup {id} ELSE Listed \ {id}
  BY <1>1, <1>2, PendingIsListed, PendingIsListedNext DEF Exists
<1>4. QED
  BY <1>1, <1>2, <1>3 DEF HolderOf, OutcomeOf, AttemptsOf, AttemptBudget, Exists

\* A step that changes no job's status, worker or attempts is none of the pool.
LEMMA NoJobMoves ==
  ASSUME PoolInv, PoolInv', DOMAIN jobs' = DOMAIN jobs,
         queue'.max_retries = queue.max_retries,
         \A id \in DOMAIN jobs : /\ jobs'[id].status = jobs[id].status
                                 /\ jobs'[id].worker = jobs[id].worker
                                 /\ jobs'[id].attempts = jobs[id].attempts
  PROVE  UNCHANGED <<Listed, HolderOf, OutcomeOf, AttemptsOf, AttemptBudget>>
<1>1. Listed' = Listed
  BY PendingIsListed, PendingIsListedNext DEF Exists
<1>2. QED
  BY <1>1 DEF HolderOf, OutcomeOf, AttemptsOf, AttemptBudget, Exists

\* The budget of a job in the terms of the pool.
LEMMA BudgetOfJob ==
  ASSUME PoolInv, NEW id \in DOMAIN jobs
  PROVE  /\ AttemptBudget \in 1..10 /\ jobs[id].attempts \in Nat
         /\ jobs[id].status = "Pending" => jobs[id].attempts < AttemptBudget
         /\ jobs[id].attempts < jobs[id].max_retries => jobs[id].attempts < AttemptBudget
         /\ jobs[id].status = "Processing" /\ jobs[id].attempts >= jobs[id].max_retries =>
              jobs[id].attempts = AttemptBudget
<1>1. /\ jobs[id].attempts \in Nat /\ queue.max_retries \in 0..10
      /\ jobs[id].max_retries = queue.max_retries
  BY RetryAssumption DEF PoolInv, OneLimit, Shape, TypeOK, Job, Queue
<1>2. /\ jobs[id].attempts <= queue.max_retries \/ jobs[id].attempts = 1
      /\ jobs[id].status = "Pending" /\ jobs[id].attempts > 0 =>
           jobs[id].attempts < queue.max_retries
      /\ jobs[id].status = "Processing" => jobs[id].attempts > 0
  BY <1>1 DEF PoolInv, Shape, RetryBudget
<1>3. QED
  BY <1>1, <1>2 DEF AttemptBudget

\* The state of the pool that a job is in.
LEMMA JobInPool ==
  ASSUME PoolInv, NEW id \in DOMAIN jobs
  PROVE  /\ id \in JobIds /\ AttemptsOf[id] = jobs[id].attempts
         /\ jobs[id].status = "Pending" =>
              id \in Listed /\ HolderOf[id] = NoWorker /\ OutcomeOf[id] = "Open"
         /\ \A w : HeldBy(w, id) => HolderOf[id] = w
         /\ jobs[id].status = "Processing" => id \notin Listed /\ OutcomeOf[id] = "Open"
<1>1. id \in JobIds
  BY MaxJobsAssumption DEF PoolInv, OneLimit, Shape, TypeOK, Queue, JobIds
<1>2. QED
  BY <1>1, PendingIsListed DEF AttemptsOf, HolderOf, OutcomeOf, HeldBy, Exists, Terminal

-----------------------------------------------------------------------------
(* Each instruction as a step of the pool.                                  *)

LEMMA EnqueueIsSubmit ==
  ASSUME PoolInv, PoolInv', NEW d \in StartDelays, EnqueueJob(d)
  PROVE  Pool!Submit(queue.job_count)
<1> DEFINE id == queue.job_count
<1>1. TypeOK
  BY DEF PoolInv, Shape
<1>2. /\ id \in JobIds /\ id \notin DOMAIN jobs /\ queue'.max_retries = queue.max_retries
      /\ DOMAIN jobs' = DOMAIN jobs \cup {id} /\ \A x \in DOMAIN jobs : jobs'[x] = jobs[x]
      /\ jobs'[id].status = "Pending" /\ jobs'[id].attempts = 0
  BY <1>1, EnqueueChanges
<1> HIDE DEF id
<1>3. /\ id \notin Listed /\ HolderOf[id] = NoWorker /\ OutcomeOf[id] = "Open"
      /\ AttemptsOf[id] = 0
  BY <1>2, PendingIsListed DEF HolderOf, OutcomeOf, AttemptsOf, Exists
<1>4. Listed' = Listed \cup {id}
  BY <1>2, PendingIsListed, PendingIsListedNext DEF Exists
<1>5. UNCHANGED <<HolderOf, OutcomeOf, AttemptsOf, AttemptBudget>>
  BY <1>2 DEF HolderOf, OutcomeOf, AttemptsOf, AttemptBudget, Exists, Terminal
<1>6. QED
  BY <1>3, <1>4, <1>5 DEF Pool!Submit, Pool!Known, id

LEMMA ClaimIsTake ==
  ASSUME PoolInv, PoolInv', NEW w \in Accounts, NEW id \in DOMAIN jobs,
         NEW s \in DOMAIN job_ids, ClaimJob(w, id, s)
  PROVE  Pool!Take(w, id)
<1>1. /\ ChangesOne(id) /\ jobs[id].status = "Pending"
      /\ jobs'[id].status = "Processing" /\ jobs'[id].worker = w
      /\ jobs'[id].attempts = jobs[id].attempts + 1
  BY ClaimChanges DEF PoolInv, Shape
<1>2. /\ id \in JobIds /\ id \in Listed /\ AttemptsOf[id] = jobs[id].attempts
      /\ OutcomeOf[id] = "Open" /\ AttemptsOf[id] < AttemptBudget
  BY <1>1, JobInPool, BudgetOfJob
<1>3. /\ Listed' = Listed \ {id} /\ HolderOf' = [HolderOf EXCEPT ![id] = w]
      /\ OutcomeOf' = [OutcomeOf EXCEPT ![id] = "Open"]
      /\ AttemptsOf' = [AttemptsOf EXCEPT ![id] = jobs[id].attempts + 1]
      /\ AttemptBudget' = AttemptBudget
  BY <1>1, OneJobMoves DEF Terminal
<1>4. OutcomeOf' = OutcomeOf
  BY <1>2, <1>3 DEF OutcomeOf
<1>5. QED
  BY <1>2, <1>3, <1>4 DEF Pool!Take

LEMMA RetryIsGiveBack ==
  ASSUME PoolInv, PoolInv', NEW w \in Accounts, NEW id \in DOMAIN jobs,
         NEW s \in DOMAIN job_ids, NEW d \in RetryDelays, RetryJob(w, id, s, d)
  PROVE  Pool!GiveBack(w, id)
<1>1. /\ ChangesOne(id) /\ HeldBy(w, id) /\ jobs[id].attempts < jobs[id].max_retries
      /\ jobs'[id].status = "Pending" /\ jobs'[id].attempts = jobs[id].attempts
  BY RetryChanges DEF PoolInv, Shape
<1>2. /\ id \in JobIds /\ HolderOf[id] = w /\ AttemptsOf[id] = jobs[id].attempts
      /\ OutcomeOf[id] = "Open" /\ AttemptsOf[id] < AttemptBudget
  BY <1>1, JobInPool, BudgetOfJob DEF HeldBy
<1>3. /\ Listed' = Listed \cup {id} /\ HolderOf' = [HolderOf EXCEPT ![id] = NoWorker]
      /\ OutcomeOf' = [OutcomeOf EXCEPT ![id] = "Open"]
      /\ AttemptsOf' = [AttemptsOf EXCEPT ![id] = jobs[id].attempts]
      /\ AttemptBudget' = AttemptBudget
  BY <1>1, OneJobMoves DEF Terminal
<1>4. OutcomeOf' = OutcomeOf /\ AttemptsOf' = AttemptsOf
  BY <1>2, <1>3 DEF OutcomeOf, AttemptsOf
<1>5. QED
  BY <1>2, <1>3, <1>4 DEF Pool!GiveBack

\* A job that settles was on no page, so nothing leaves the pages.
LEMMA SettleIsSettle ==
  ASSUME PoolInv, PoolInv', NEW w \in Accounts, NEW id \in DOMAIN jobs,
         CompleteJob(w, id) \/ DeadLetterJob(w, id)
  PROVE  Pool!Settle(w, id, jobs'[id].status) /\ jobs'[id].status \in {"Completed", "Failed"}
<1>1. /\ ChangesOne(id) /\ HeldBy(w, id) /\ jobs'[id].attempts = jobs[id].attempts
      /\ \/ jobs'[id].status = "Completed"
         \/ jobs'[id].status = "Failed" /\ jobs[id].attempts >= jobs[id].max_retries
  BY CompleteChanges, DeadLetterChanges DEF PoolInv, Shape
<1>2. /\ id \in JobIds /\ HolderOf[id] = w /\ AttemptsOf[id] = jobs[id].attempts
      /\ id \notin Listed
      /\ jobs'[id].status = "Failed" => AttemptsOf[id] = AttemptBudget
  BY <1>1, JobInPool, BudgetOfJob DEF HeldBy
<1>3. /\ Listed' = Listed \ {id} /\ HolderOf' = [HolderOf EXCEPT ![id] = NoWorker]
      /\ OutcomeOf' = [OutcomeOf EXCEPT ![id] = jobs'[id].status]
      /\ AttemptsOf' = [AttemptsOf EXCEPT ![id] = jobs[id].attempts]
      /\ AttemptBudget' = AttemptBudget
  BY <1>1, OneJobMoves DEF Terminal
<1>4. Listed' = Listed /\ AttemptsOf' = AttemptsOf
  BY <1>2, <1>3 DEF AttemptsOf
<1>5. QED
  BY <1>1, <1>2, <1>3, <1>4 DEF Pool!Settle

LEMMA CancelIsWithdraw ==
  ASSUME PoolInv, PoolInv', NEW a \in Accounts, NEW id \in DOMAIN jobs,
         NEW s \in DOMAIN job_ids, CancelJob(a, id, s)
  PROVE  Pool!Withdraw(id)
<1>1. /\ ChangesOne(id) /\ jobs[id].status = "Pending"
      /\ jobs'[id].status = "Cancelled" /\ jobs'[id].attempts = jobs[id].attempts
  BY CancelChanges DEF PoolInv, Shape
<1>2. /\ id \in JobIds /\ id \in Listed /\ AttemptsOf[id] = jobs[id].attempts
      /\ HolderOf[id] = NoWorker
  BY <1>1, JobInPool
<1>3. /\ Listed' = Listed \ {id} /\ HolderOf' = [HolderOf EXCEPT ![id] = NoWorker]
      /\ OutcomeOf' = [OutcomeOf EXCEPT ![id] = "Cancelled"]
      /\ AttemptsOf' = [AttemptsOf EXCEPT ![id] = jobs[id].attempts]
      /\ AttemptBudget' = AttemptBudget
  BY <1>1, OneJobMoves DEF Terminal
<1>4. HolderOf' = HolderOf /\ AttemptsOf' = AttemptsOf
  BY <1>2, <1>3 DEF HolderOf, AttemptsOf
<1>5. QED
  BY <1>2, <1>3, <1>4 DEF Pool!Withdraw

LEMMA InitMaps == Init => Pool!Init
<1> SUFFICES ASSUME Init PROVE Pool!Init
  OBVIOUS
<1>1. PICK r \in RetryLimits : InitializeQueue(r)
  BY DEF Init
<1>2. /\ DOMAIN jobs = {} /\ DOMAIN job_ids = {0} /\ job_ids[0] = <<>>
      /\ queue.max_retries \in 0..10
  BY <1>1, RetryAssumption DEF InitializeQueue
<1>3. Listed = {}
  BY <1>2 DEF Listed, Holds
<1>4. /\ HolderOf = [id \in JobIds |-> NoWorker] /\ OutcomeOf = [id \in JobIds |-> "Open"]
      /\ AttemptsOf = [id \in JobIds |-> 0] /\ AttemptBudget \in 1..10
  BY <1>2 DEF HolderOf, OutcomeOf, AttemptsOf, AttemptBudget, Exists
<1>5. QED
  BY <1>3, <1>4 DEF Pool!Init

LEMMA StepMaps == PoolInv /\ PoolInv' /\ [Next]_vars => [Pool!Next]_Pool!poolVars
<1> SUFFICES ASSUME PoolInv, PoolInv', [Next]_vars PROVE [Pool!Next]_Pool!poolVars
  OBVIOUS
<1> DEFINE Goal == [Pool!Next]_Pool!poolVars
<1>1. TypeOK
  BY DEF PoolInv, Shape
<1>2. ASSUME UNCHANGED <<Listed, HolderOf, OutcomeOf, AttemptsOf, AttemptBudget>> PROVE Goal
  BY <1>2 DEF Pool!poolVars
<1>3. ASSUME UNCHANGED jobs, queue'.max_retries = queue.max_retries PROVE Goal
  BY <1>2, <1>3, NoJobMoves
<1>4. CASE (\E a \in Accounts : GrowIndex(a)) \/ AdvanceHead \/ UNCHANGED vars
  BY <1>3, <1>4 DEF GrowIndex, AdvanceHead, vars
<1>5. ASSUME NEW a \in Accounts, NEW p \in BOOLEAN, SetQueuePaused(a, p) PROVE Goal
  BY <1>1, <1>3, <1>5 DEF SetQueuePaused, TypeOK, Queue
<1>6. CASE Tick
  BY <1>1, <1>2, <1>6, TickChanges, NoJobMoves
<1>7. ASSUME NEW d \in StartDelays, EnqueueJob(d) PROVE Goal
  BY <1>1, <1>7, EnqueueChanges, EnqueueIsSubmit DEF Pool!Next
<1>8. DOMAIN jobs \subseteq JobIds
  BY JobInPool
<1>9. ASSUME NEW w \in Accounts, NEW id \in DOMAIN jobs, NEW s \in DOMAIN job_ids,
             ClaimJob(w, id, s)
      PROVE  Goal
  BY <1>8, <1>9, ClaimIsTake DEF Pool!Next
<1>10. ASSUME NEW w \in Accounts, NEW id \in DOMAIN jobs, NEW s \in DOMAIN job_ids,
              NEW d \in RetryDelays, RetryJob(w, id, s, d)
       PROVE  Goal
  BY <1>8, <1>10, RetryIsGiveBack DEF Pool!Next
<1>11. ASSUME NEW w \in Accounts, NEW id \in DOMAIN jobs,
              CompleteJob(w, id) \/ DeadLetterJob(w, id)
       PROVE  Goal
  BY <1>8, <1>11, SettleIsSettle DEF Pool!Next
<1>12. ASSUME NEW a \in Accounts, NEW id \in DOMAIN jobs, NEW s \in DOMAIN job_ids,
              CancelJob(a, id, s)
       PROVE  Goal
  BY <1>8, <1>12, CancelIsWithdraw DEF Pool!Next
<1>13. QED
  BY <1>4, <1>5, <1>6, <1>7, <1>9, <1>10, <1>11, <1>12 DEF Next, Signed, FailJob

(* The program keeps the promise of the pool, for any number of jobs, page   *)
(* size and retry limit up to 10: one holder at a time, given back or        *)
(* settled by its holder only, withdrawn only while it waits, a failure only *)
(* when the attempts are spent, settled for good (lib.rs:280-500).           *)
THEOREM QueueImplementsPool == Spec => ImplementsPool
BY InitMaps, StepMaps, PoolInvariant, PTL DEF Spec, ImplementsPool, Pool!Spec

-----------------------------------------------------------------------------
(* What follows from the promise alone.                                     *)

\* The types of what the queue shows of itself as a pool.
PoolTyped ==
  /\ Listed \subseteq JobIds
  /\ HolderOf \in [JobIds -> Accounts \cup {NoWorker}]
  /\ OutcomeOf \in [JobIds -> Terminal \cup {"Open"}]
  /\ AttemptsOf \in [JobIds -> Nat]
  /\ AttemptBudget \in 1..10

LEMMA InitPlace == Pool!Init => PoolTyped /\ Pool!OnePlace
BY DEF Pool!Init, PoolTyped, Pool!OnePlace, Pool!Known

\* What a step of the pool does, job by job.
LEMMA PoolStep ==
  ASSUME PoolTyped, Pool!OnePlace, Pool!Next
  PROVE  /\ PoolTyped' /\ Pool!OnePlace'
         /\ \A id \in JobIds : Pool!Known(id) =>
              Pool!Place(id)' = Pool!Place(id) \/ Pool!Rank(id)' \in 0..(Pool!Rank(id) - 1)
<1> DEFINE Moves(id) ==
      Pool!Known(id) =>
        Pool!Place(id)' = Pool!Place(id) \/ Pool!Rank(id)' \in 0..(Pool!Rank(id) - 1)
    Goal == PoolTyped' /\ Pool!OnePlace' /\ \A id \in JobIds : Moves(id)
<1> USE DEF PoolTyped, Pool!OnePlace, Pool!Known, Pool!Place, Pool!Rank, Terminal
<1>1. ASSUME NEW id \in JobIds, Pool!Submit(id) PROVE Goal
  BY <1>1 DEF Pool!Submit
<1>2. ASSUME NEW id \in JobIds, Pool!Withdraw(id) PROVE Goal
  BY <1>2 DEF Pool!Withdraw
<1>3. ASSUME NEW id \in JobIds, NEW w \in Accounts, Pool!Take(w, id) PROVE Goal
  BY <1>3, AccountsAssumption DEF Pool!Take
<1>4. ASSUME NEW id \in JobIds, NEW w \in Accounts, Pool!GiveBack(w, id) PROVE Goal
  BY <1>4, AccountsAssumption DEF Pool!GiveBack
<1>5. ASSUME NEW id \in JobIds, NEW w \in Accounts, NEW how \in {"Completed", "Failed"},
             Pool!Settle(w, id, how)
      PROVE  Goal
  <2>1. /\ HolderOf[id] = w /\ w # NoWorker /\ id \notin Listed /\ OutcomeOf[id] = "Open"
        /\ how = "Failed" => AttemptsOf[id] = AttemptBudget
        /\ HolderOf' = [HolderOf EXCEPT ![id] = NoWorker]
        /\ OutcomeOf' = [OutcomeOf EXCEPT ![id] = how]
        /\ UNCHANGED <<Listed, AttemptsOf, AttemptBudget>>
    BY <1>5, AccountsAssumption DEF Pool!Settle
  <2>2. PoolTyped'
    BY <2>1
  <2>3. Pool!OnePlace'
    BY <2>1
  <2>4. ASSUME NEW x \in JobIds PROVE Moves(x)
    <3>1. CASE x = id
      <4>1. Pool!Rank(x)' = 0
        BY <2>1, <3>1
      <4>2. Pool!Rank(x) \in Nat /\ Pool!Rank(x) > 0
        BY <2>1, <3>1
      <4>3. QED
        BY <4>1, <4>2
    <3>2. CASE x # id
      BY <2>1, <3>2
    <3>3. QED
      BY <3>1, <3>2
  <2>5. QED
    BY <2>2, <2>3, <2>4
<1>6. QED
  BY <1>1, <1>2, <1>3, <1>4, <1>5 DEF Pool!Next

LEMMA PlaceInvariant == ImplementsPool => [](PoolTyped /\ Pool!OnePlace)
<1>1. PoolTyped /\ Pool!OnePlace /\ [Pool!Next]_Pool!poolVars => (PoolTyped /\ Pool!OnePlace)'
  <2>1. SUFFICES ASSUME PoolTyped, Pool!OnePlace, UNCHANGED Pool!poolVars
                 PROVE  PoolTyped' /\ Pool!OnePlace'
    BY PoolStep
  <2>2. QED
    BY <2>1 DEF Pool!poolVars, PoolTyped, Pool!OnePlace, Pool!Known
<1>2. QED
  BY <1>1, InitPlace, PTL DEF ImplementsPool, Pool!Spec

(* At every moment a job waits on a page, or one worker holds it, or it has  *)
(* settled; it was taken within its budget, and a dead-lettered one exactly  *)
(* as often as that allows (claim_job, complete_job, fail_job, cancel_job,   *)
(* lib.rs:318-500).                                                          *)
THEOREM JobInOnePlace == Spec => []Pool!OnePlace
BY QueueImplementsPool, PlaceInvariant, PTL

(* Every change of a submitted job brings it nearer to its end, by a measure *)
(* that its retry budget bounds, and what has settled never changes again:   *)
(* a job settles unless at some point nobody takes its next step             *)
(* (lib.rs:318-500).                                                         *)
THEOREM JobAlwaysAdvances == Spec => Pool!Advances
<1>1. PoolTyped /\ Pool!OnePlace /\ [Pool!Next]_Pool!poolVars =>
        [\A id \in JobIds : Pool!Known(id) =>
           Pool!Place(id)' = Pool!Place(id) \/ Pool!Rank(id)' \in 0..(Pool!Rank(id) - 1)]_Pool!poolVars
  BY PoolStep
<1>2. QED
  BY <1>1, QueueImplementsPool, PlaceInvariant, PTL DEF ImplementsPool, Pool!Spec, Pool!Advances

\* A step cancels only what waits.
CancelledWaited ==
  \A id \in DOMAIN jobs : jobs'[id].status = "Cancelled" => jobs[id].status \in {"Pending", "Cancelled"}

(* cancel_job admits Processing jobs by their status (lib.rs:475-478) and    *)
(* then looks for them on a page, where no claimed job is (lib.rs:343, 483): *)
(* from the claim until its worker is done, nobody can cancel a job.         *)
THEOREM ClaimedNeverCancelled == Spec => [][CancelledWaited]_vars
<1>1. PoolInv /\ [Next]_vars => [CancelledWaited]_vars
  <2> SUFFICES ASSUME PoolInv, Next PROVE CancelledWaited
    OBVIOUS
  <2>0. TypeOK /\ IndexExact
    BY DEF PoolInv, Shape
  <2>1. ASSUME NEW id \in DOMAIN jobs, ChangesOne(id),
               jobs'[id].status = "Cancelled" => jobs[id].status = "Pending"
        PROVE  CancelledWaited
    <3>1. \A x \in DOMAIN jobs : jobs[x].status \in Statuses
      BY <2>0 DEF TypeOK, Job
    <3>2. QED
      BY <2>1, <3>1 DEF ChangesOne, CancelledWaited
  <2>2. ASSUME \A x \in DOMAIN jobs : jobs'[x].status = jobs[x].status
        PROVE  CancelledWaited
    BY <2>2 DEF CancelledWaited
  <2>3. ASSUME NEW a \in Accounts, NEW id \in DOMAIN jobs, NEW s \in DOMAIN job_ids,
               CancelJob(a, id, s) \/ ClaimJob(a, id, s)
        PROVE  CancelledWaited
    BY <2>0, <2>1, <2>3, CancelChanges, ClaimChanges
  <2>4. ASSUME NEW a \in Accounts, NEW id \in DOMAIN jobs,
               CompleteJob(a, id) \/ DeadLetterJob(a, id)
        PROVE  CancelledWaited
    BY <2>0, <2>1, <2>4, CompleteChanges, DeadLetterChanges
  <2>5. ASSUME NEW a \in Accounts, NEW id \in DOMAIN jobs, NEW s \in DOMAIN job_ids,
               NEW d \in RetryDelays, RetryJob(a, id, s, d)
        PROVE  CancelledWaited
    BY <2>0, <2>1, <2>5, RetryChanges
  <2>6. ASSUME NEW d \in StartDelays, EnqueueJob(d) PROVE CancelledWaited
    BY <2>0, <2>2, <2>6, EnqueueChanges
  <2>7. CASE Tick
    BY <2>0, <2>2, <2>7, TickChanges
  <2>8. CASE \/ \E a \in Accounts : GrowIndex(a) \/ \E p \in BOOLEAN : SetQueuePaused(a, p)
             \/ AdvanceHead
    BY <2>2, <2>8 DEF GrowIndex, SetQueuePaused, AdvanceHead
  <2>9. QED
    BY <2>3, <2>4, <2>5, <2>6, <2>7, <2>8 DEF Next, Signed, FailJob
<1>2. QED
  BY <1>1, PoolInvariant, PTL DEF Spec
=============================================================================
