------------------------------ MODULE DecQueue ------------------------------
(***************************************************************************)
(* The on-chain job queue (program/src/lib.rs and program/src/state.rs):   *)
(* one queue, its linked list of JobIndex pages and its Job accounts.      *)
(*                                                                         *)
(* A Solana instruction is one transaction: it runs against the accounts   *)
(* it locks and either commits all of its writes or reverts.  So each      *)
(* instruction is one action; every require!, every account constraint and *)
(* every `?` that can return an error is a conjunct of its guard, wherever *)
(* it stands in the handler, because an error after a write undoes it.     *)
(*                                                                         *)
(* The ledger clock is only ever compared with execute_after, so a job     *)
(* carries `wait`, the seconds left until execute_after, and Tick counts   *)
(* it down.  Payload, type, priority, result, error text and the recorded  *)
(* timestamps decide nothing on chain and are left out.                    *)
(***************************************************************************)
EXTENDS Integers, Sequences, FiniteSets

CONSTANTS
  Accounts,      \* public keys that sign transactions
  Authority,     \* queue.authority: the account that created the queue
  NoWorker,      \* Option::None in job.worker
  PageCapacity,  \* MAX_INDEX_ENTRIES
  RetryLimits,   \* the max_retries the queue may have been created with
  StartDelays,   \* seconds from now to the execute_after of a new job
  RetryDelays,   \* retry_after_secs, as passed by a worker to fail_job
  MaxJobs        \* bound: how many jobs are ever enqueued

ASSUME AccountsAssumption == Authority \in Accounts /\ NoWorker \notin Accounts
ASSUME CapacityAssumption == PageCapacity \in Nat \ {0}
ASSUME RetryAssumption    == RetryLimits \subseteq 0..10
ASSUME DelaysAssumption   == StartDelays \subseteq Nat /\ RetryDelays \subseteq Nat
ASSUME MaxJobsAssumption  == MaxJobs \in Nat

VARIABLES
  queue,     \* the Queue account
  head,      \* the QueueHead account
  next_seq,  \* JobIndex.next_seq of every page, by sequence number
  job_ids,   \* JobIndex.job_ids of every page, by sequence number
  jobs       \* the Job accounts, by job_id

vars == <<queue, head, next_seq, job_ids, jobs>>

Terminal == {"Completed", "Failed", "Cancelled"}
Statuses == {"Pending", "Processing"} \cup Terminal

Queue == [job_count : Nat, pending_count : Nat, processed_count : Nat,
          failed_count : Nat, max_retries : RetryLimits, paused : BOOLEAN]

QueueHead == [head_index_seq : Nat, tail_index_seq : Nat, total_jobs : Nat]

Job == [status : Statuses, worker : Accounts \cup {NoWorker},
        attempts : Nat, max_retries : RetryLimits, wait : Nat]

-----------------------------------------------------------------------------
(* state.rs: helpers of a JobIndex page.                                    *)

IsFull(page)  == Len(page) >= PageCapacity
IsEmpty(page) == page = <<>>
Holds(page, id) == \E i \in 1..Len(page) : page[i] = id

\* Variant: pop the last entry, whatever was found (Vec::pop for swap_remove).
PopLast(page, id) == SubSeq(page, 1, Len(page) - 1)

\* The last entry fills the hole left by the first occurrence of id.
SwapRemove(page, id) ==
  LET pos == CHOOSE i \in 1..Len(page) :
               page[i] = id /\ \A j \in 1..(i - 1) : page[j] # id
  IN  [i \in 1..(Len(page) - 1) |-> IF i = pos THEN page[Len(page)] ELSE page[i]]

\* push_job and remove_job on page s; both fail the whole transaction.
PushJob(s, id) ==
  /\ ~IsFull(job_ids[s])
  /\ job_ids' = [job_ids EXCEPT ![s] = Append(@, id)]

RemoveJob(s, id) ==
  /\ Holds(job_ids[s], id)
  /\ job_ids' = [job_ids EXCEPT ![s] = SwapRemove(@, id)]

SaturatingDec(n) == IF n > 0 THEN n - 1 ELSE 0

\* 1i64 << (attempts - 1), for the attempts that may still be retried: max_retries
\* is at most 10, so attempts is at most 9 and neither the shift nor the product
\* of a realistic delay saturates.
Multiplier == <<1, 2, 4, 8, 16, 32, 64, 128, 256>>

Backoff(retry_after_secs, attempts) == retry_after_secs * Multiplier[attempts]

-----------------------------------------------------------------------------
(* The queue as initialize_queue leaves it, created with limit r.           *)

InitializeQueue(r) ==
  /\ queue = [job_count |-> 0, pending_count |-> 0, processed_count |-> 0,
              failed_count |-> 0, max_retries |-> r, paused |-> FALSE]
  /\ head = [head_index_seq |-> 0, tail_index_seq |-> 0, total_jobs |-> 0]
  /\ next_seq = [s \in {0} |-> 0]
  /\ job_ids = [s \in {0} |-> <<>>]
  /\ jobs = [id \in {} |-> 0]

Init == \E r \in RetryLimits : InitializeQueue(r)

-----------------------------------------------------------------------------
(* The linked list of pages.                                                *)

\* Variant: the old tail page is not linked to the new one.
GrowIndexUnlinked(signer) ==
  LET new_seq == head.tail_index_seq + 1
  IN  /\ signer = Authority
      /\ IsFull(job_ids[head.tail_index_seq])
      /\ next_seq' = [s \in DOMAIN next_seq \cup {new_seq} |->
                        IF s = new_seq THEN 0 ELSE next_seq[s]]
      /\ job_ids' = [s \in DOMAIN job_ids \cup {new_seq} |->
                       IF s = new_seq THEN <<>> ELSE job_ids[s]]
      /\ head' = [head EXCEPT !.tail_index_seq = new_seq]
      /\ UNCHANGED <<queue, jobs>>

\* Only the authority may grow the list, and only past a full tail page.
GrowIndex(signer) ==
  LET tail    == head.tail_index_seq
      new_seq == tail + 1
  IN  /\ signer = Authority
      /\ IsFull(job_ids[tail])
      /\ next_seq' = [s \in DOMAIN next_seq \cup {new_seq} |->
                        IF s = new_seq THEN 0
                        ELSE IF s = tail THEN new_seq ELSE next_seq[s]]
      /\ job_ids' = [s \in DOMAIN job_ids \cup {new_seq} |->
                       IF s = new_seq THEN <<>> ELSE job_ids[s]]
      /\ head' = [head EXCEPT !.tail_index_seq = new_seq]
      /\ UNCHANGED <<queue, jobs>>

\* Variant: the head page may still hold ids.
AdvanceHeadUndrained ==
  LET h == head.head_index_seq
  IN  /\ next_seq[h] # 0 \/ h # head.tail_index_seq
      /\ head' = [head EXCEPT !.head_index_seq = next_seq[h]]
      /\ UNCHANGED <<queue, next_seq, job_ids, jobs>>

\* Variant: nothing asks for a successor page.
AdvanceHeadUnguarded ==
  LET h == head.head_index_seq
  IN  /\ IsEmpty(job_ids[h])
      /\ head' = [head EXCEPT !.head_index_seq = next_seq[h]]
      /\ UNCHANGED <<queue, next_seq, job_ids, jobs>>

\* Anybody may move the head past an empty page.
AdvanceHead ==
  LET h == head.head_index_seq
  IN  /\ IsEmpty(job_ids[h])
      /\ next_seq[h] # 0 \/ h # head.tail_index_seq
      /\ head' = [head EXCEPT !.head_index_seq = next_seq[h]]
      /\ UNCHANGED <<queue, next_seq, job_ids, jobs>>

-----------------------------------------------------------------------------
(* The life of a job.                                                       *)

\* Variant: job_count does not move, so the next job gets the same address.
EnqueueJobSameId(delay) ==
  LET id == queue.job_count
  IN  /\ id < MaxJobs
      /\ ~queue.paused
      /\ PushJob(head.tail_index_seq, id)
      /\ queue' = [queue EXCEPT !.pending_count = @ + 1]
      /\ head' = [head EXCEPT !.total_jobs = @ + 1]
      /\ jobs' = [i \in DOMAIN jobs \cup {id} |->
                    IF i = id
                    THEN [status |-> "Pending", worker |-> NoWorker, attempts |-> 0,
                          max_retries |-> queue.max_retries, wait |-> delay]
                    ELSE jobs[i]]
      /\ UNCHANGED next_seq

\* Anybody may enqueue.  The job's address is derived from job_count, its id
\* goes to the tail page, and delay is 0 when execute_after is 0 or past.
EnqueueJob(delay) ==
  LET id == queue.job_count
  IN  /\ id < MaxJobs
      /\ ~queue.paused
      /\ PushJob(head.tail_index_seq, id)
      /\ queue' = [queue EXCEPT !.job_count = @ + 1, !.pending_count = @ + 1]
      /\ head' = [head EXCEPT !.total_jobs = @ + 1]
      /\ jobs' = [i \in DOMAIN jobs \cup {id} |->
                    IF i = id
                    THEN [status |-> "Pending", worker |-> NoWorker, attempts |-> 0,
                          max_retries |-> queue.max_retries, wait |-> delay]
                    ELSE jobs[i]]
      /\ UNCHANGED next_seq

\* Any signer may claim a ready job, naming any page of the queue as the one
\* that holds its id.
ClaimJob(worker, id, source_page) ==
  /\ jobs[id].status = "Pending"
  /\ jobs[id].wait = 0
  /\ jobs' = [jobs EXCEPT ![id].status = "Processing", ![id].worker = worker,
                          ![id].attempts = @ + 1]
  /\ RemoveJob(source_page, id)
  /\ UNCHANGED <<queue, head, next_seq>>

\* Variant: the signer is not compared with job.worker.
HeldByAnyone(worker, id) == jobs[id].status = "Processing"

\* The two checks complete_job and fail_job begin with.
HeldBy(worker, id) == jobs[id].status = "Processing" /\ jobs[id].worker = worker

CompleteJob(worker, id) ==
  /\ HeldBy(worker, id)
  /\ jobs' = [jobs EXCEPT ![id].status = "Completed"]
  /\ queue' = [queue EXCEPT !.pending_count = SaturatingDec(@),
                            !.processed_count = @ + 1]
  /\ UNCHANGED <<head, next_seq, job_ids>>

\* Variants of the retry: one attempt too many is allowed; the job leaves
\* pending_count as if it had settled.
RetryJobTooOften(worker, id, retry_page, retry_after_secs) ==
  /\ HeldBy(worker, id)
  /\ jobs[id].attempts <= jobs[id].max_retries
  /\ jobs' = [jobs EXCEPT ![id].status = "Pending", ![id].worker = NoWorker,
                          ![id].wait = Backoff(retry_after_secs, jobs[id].attempts)]
  /\ PushJob(retry_page, id)
  /\ UNCHANGED <<queue, head, next_seq>>

RetryJobUncounted(worker, id, retry_page, retry_after_secs) ==
  /\ HeldBy(worker, id)
  /\ jobs[id].attempts < jobs[id].max_retries
  /\ jobs' = [jobs EXCEPT ![id].status = "Pending", ![id].worker = NoWorker,
                          ![id].wait = Backoff(retry_after_secs, jobs[id].attempts)]
  /\ PushJob(retry_page, id)
  /\ queue' = [queue EXCEPT !.pending_count = SaturatingDec(@)]
  /\ UNCHANGED <<head, next_seq>>

\* fail_job while attempts remain: back to Pending, on the page the caller names.
RetryJob(worker, id, retry_page, retry_after_secs) ==
  /\ HeldBy(worker, id)
  /\ jobs[id].attempts < jobs[id].max_retries
  /\ jobs' = [jobs EXCEPT ![id].status = "Pending", ![id].worker = NoWorker,
                          ![id].wait = Backoff(retry_after_secs, jobs[id].attempts)]
  /\ PushJob(retry_page, id)
  /\ UNCHANGED <<queue, head, next_seq>>

\* fail_job when they are used up.
DeadLetterJob(worker, id) ==
  /\ HeldBy(worker, id)
  /\ jobs[id].attempts >= jobs[id].max_retries
  /\ jobs' = [jobs EXCEPT ![id].status = "Failed"]
  /\ queue' = [queue EXCEPT !.pending_count = SaturatingDec(@),
                            !.failed_count = @ + 1]
  /\ UNCHANGED <<head, next_seq, job_ids>>

FailJob(worker, id) ==
  \/ \E s \in DOMAIN job_ids, d \in RetryDelays : RetryJob(worker, id, s, d)
  \/ DeadLetterJob(worker, id)

\* Variant: an id that is on no page is no error, as the status guard suggests.
CancelJobUnlisted(signer, id, source_page) ==
  /\ signer = Authority
  /\ jobs[id].status \in {"Pending", "Processing"}
  /\ IF \E s \in DOMAIN job_ids : Holds(job_ids[s], id)
     THEN RemoveJob(source_page, id) ELSE UNCHANGED job_ids
  /\ jobs' = [jobs EXCEPT ![id].status = "Cancelled"]
  /\ queue' = [queue EXCEPT !.pending_count = SaturatingDec(@)]
  /\ UNCHANGED <<head, next_seq>>

CancelJob(signer, id, source_page) ==
  /\ signer = Authority
  /\ jobs[id].status \in {"Pending", "Processing"}
  /\ RemoveJob(source_page, id)
  /\ jobs' = [jobs EXCEPT ![id].status = "Cancelled"]
  /\ queue' = [queue EXCEPT !.pending_count = SaturatingDec(@)]
  /\ UNCHANGED <<head, next_seq>>

SetQueuePaused(signer, paused) ==
  /\ signer = Authority
  /\ queue' = [queue EXCEPT !.paused = paused]
  /\ UNCHANGED <<head, next_seq, job_ids, jobs>>

\* One second of ledger time.
Tick ==
  /\ \E id \in DOMAIN jobs : jobs[id].wait > 0
  /\ jobs' = [id \in DOMAIN jobs |-> [jobs[id] EXCEPT !.wait = SaturatingDec(@)]]
  /\ UNCHANGED <<queue, head, next_seq, job_ids>>

-----------------------------------------------------------------------------
\* The instructions account a can sign with effect.
Signed(a) ==
  \/ GrowIndex(a)
  \/ AdvanceHead
  \/ \E d \in StartDelays : EnqueueJob(d)
  \/ \E id \in DOMAIN jobs, s \in DOMAIN job_ids : ClaimJob(a, id, s)
  \/ \E id \in DOMAIN jobs : CompleteJob(a, id)
  \/ \E id \in DOMAIN jobs : FailJob(a, id)
  \/ \E id \in DOMAIN jobs, s \in DOMAIN job_ids : CancelJob(a, id, s)
  \/ \E paused \in BOOLEAN : SetQueuePaused(a, paused)

Next == (\E a \in Accounts : Signed(a)) \/ Tick

Spec == Init /\ [][Next]_vars

-----------------------------------------------------------------------------
(* Every variable has its type; pages are numbered 0..tail and jobs          *)
(* 0..job_count - 1 without a gap.                                           *)
TypeOK ==
  /\ queue \in Queue
  /\ head \in QueueHead
  /\ next_seq \in [0..head.tail_index_seq -> Nat]
  /\ job_ids \in [0..head.tail_index_seq -> Seq(Nat)]
  /\ jobs \in [0..(queue.job_count - 1) -> Job]

(* Every id on a page is the id of a Pending job, no id is listed twice, on  *)
(* one page or on two, and every Pending job is listed: claim_job and        *)
(* cancel_job always find the id remove_job asks for on exactly one page.    *)
ListedArePending ==
  \A s \in DOMAIN job_ids : \A i \in 1..Len(job_ids[s]) :
    job_ids[s][i] \in DOMAIN jobs /\ jobs[job_ids[s][i]].status = "Pending"

ListedOnce ==
  \A s, t \in DOMAIN job_ids : \A i \in 1..Len(job_ids[s]), j \in 1..Len(job_ids[t]) :
    job_ids[s][i] = job_ids[t][j] => s = t /\ i = j

PendingAreListed ==
  \A id \in DOMAIN jobs :
    jobs[id].status = "Pending" => \E s \in DOMAIN job_ids : Holds(job_ids[s], id)

IndexExact == ListedArePending /\ ListedOnce /\ PendingAreListed

(* The counters the dashboard reads are exact: pending_count is the number   *)
(* of Pending and Processing jobs (state.rs:27) through every retry and      *)
(* cancellation, so its saturating_sub never saturates, and total_jobs is    *)
(* the number of Job accounts.                                               *)
WithStatus(statuses) == {id \in DOMAIN jobs : jobs[id].status \in statuses}

CountersExact ==
  /\ queue.pending_count = Cardinality(WithStatus({"Pending", "Processing"}))
  /\ queue.processed_count = Cardinality(WithStatus({"Completed"}))
  /\ queue.failed_count = Cardinality(WithStatus({"Failed"}))
  /\ head.total_jobs = queue.job_count

(* The pages form one list from page 0 to the tail, 0 marks its end, the     *)
(* head is on it, and no page ever holds more than MAX_INDEX_ENTRIES ids.    *)
ListWellFormed ==
  /\ head.head_index_seq <= head.tail_index_seq
  /\ \A s \in DOMAIN next_seq :
       next_seq[s] = IF s < head.tail_index_seq THEN s + 1 ELSE 0
  /\ \A s \in DOMAIN job_ids : Len(job_ids[s]) <= PageCapacity

(* A job nobody has claimed yet is on a page between head and tail: however  *)
(* the head advances, a worker that walks the list from QueueHead finds it.  *)
FreshJobsReachable ==
  \A id \in DOMAIN jobs :
    jobs[id].status = "Pending" /\ jobs[id].attempts = 0 =>
      \E s \in head.head_index_seq..head.tail_index_seq : Holds(job_ids[s], id)

(* A job is attempted at most max_retries times (once when max_retries is    *)
(* 0), is dead-lettered only after that many attempts, and waits for another *)
(* attempt only while one is left.                                           *)
RetryBudget ==
  \A id \in DOMAIN jobs :
    LET job == jobs[id]
    IN  /\ job.attempts <= job.max_retries \/ job.attempts = 1
        /\ job.status = "Failed" => job.attempts >= job.max_retries
        /\ job.status = "Pending" /\ job.attempts > 0 => job.attempts < job.max_retries
        /\ job.status \in {"Processing", "Completed", "Failed"} => job.attempts > 0

(* While a job is Processing no instruction another account signs touches it *)
(* (lib.rs:368-371, 410-413), the authority's cancel_job included; its own   *)
(* worker keeps it, settles it as Completed or Failed under its name or      *)
(* gives it back with the lock cleared, never to another worker.             *)
OnlyHolderMoves ==
  \A id \in DOMAIN jobs : jobs[id].status = "Processing" =>
    \A a \in Accounts \ {jobs[id].worker} : Signed(a) => jobs'[id] = jobs[id]

LockKeptOrReturned ==
  \A id \in DOMAIN jobs : jobs[id].status = "Processing" =>
    \/ /\ jobs'[id].status \in {"Processing", "Completed", "Failed"}
       /\ jobs'[id].worker = jobs[id].worker
       /\ jobs'[id].attempts = jobs[id].attempts
    \/ /\ jobs'[id].status = "Pending"
       /\ jobs'[id].worker = NoWorker

LockHeld == [][OnlyHolderMoves /\ LockKeptOrReturned]_vars

(* The head only moves forward: although advance_head copies next_seq, whose *)
(* 0 means both "no successor" and "page 0", it never rewinds to page 0.     *)
HeadNeverRewinds == [][head'.head_index_seq >= head.head_index_seq]_vars

-----------------------------------------------------------------------------
(* The pool this queue implements.  What waits is read off the pages, not    *)
(* off the status fields: a page entry lost, doubled or left behind is a     *)
(* step the pool does not have.                                              *)
JobIds == 0..(MaxJobs - 1)
Exists(id) == id \in DOMAIN jobs

Listed == {id \in JobIds : \E s \in DOMAIN job_ids : Holds(job_ids[s], id)}

HolderOf ==
  [id \in JobIds |-> IF Exists(id) /\ jobs[id].status = "Processing"
                     THEN jobs[id].worker ELSE NoWorker]

OutcomeOf ==
  [id \in JobIds |-> IF Exists(id) /\ jobs[id].status \in Terminal
                     THEN jobs[id].status ELSE "Open"]

AttemptsOf == [id \in JobIds |-> IF Exists(id) THEN jobs[id].attempts ELSE 0]

\* max_retries counts attempts, and a queue created with 0 still makes one.
AttemptBudget == IF queue.max_retries = 0 THEN 1 ELSE queue.max_retries

Pool == INSTANCE JobPool WITH
  Ids <- JobIds, Holders <- Accounts, Nobody <- NoWorker, Budgets <- 1..10,
  waiting <- Listed, holder <- HolderOf, outcome <- OutcomeOf,
  tries <- AttemptsOf, budget <- AttemptBudget

(* The queue implements the pool: a job is taken by one worker at a time,    *)
(* given back or settled only by its holder, withdrawn only while it waits,  *)
(* dead-lettered only when its attempts are spent, and settled for good.     *)
ImplementsPool == Pool!Spec
=============================================================================
