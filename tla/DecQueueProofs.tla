--------------------------- MODULE DecQueueProofs ---------------------------
(***************************************************************************)
(* What holds of DecQueue for every page capacity, every set of accounts,  *)
(* every retry limit up to 10 and every number of jobs.                    *)
(***************************************************************************)
EXTENDS DecQueue, FiniteSetTheorems, SequenceTheorems,
        WellFoundedInduction, TLAPS

-----------------------------------------------------------------------------
(* Pages.                                                                   *)

\* A page that holds id has a first position where it does.
LEMMA FirstPosition ==
  ASSUME NEW page \in Seq(Nat), NEW id \in Nat, Holds(page, id)
  PROVE  \E i \in 1..Len(page) :
           page[i] = id /\ \A j \in 1..(i - 1) : page[j] # id
<1> DEFINE T == {i \in 1..Len(page) : page[i] = id}
           Less == OpToRel(<, Nat)
<1>1. T \subseteq Nat /\ T # {}
  BY DEF Holds
<1>2. \E i \in T : \A j \in T : ~ (<<j, i>> \in Less)
  <2> HIDE DEF T, Less
  <2>1. IsWellFoundedOn(Less, Nat)
    BY NatLessThanWellFounded DEF Less
  <2>2. QED
    BY <1>1, <2>1, WFMin
<1>3. PICK i \in T : \A j \in T : ~ (<<j, i>> \in Less)
  BY <1>2
<1>4. \A j \in T : ~ (j < i)
  <2>1. SUFFICES ASSUME NEW j \in T, j < i PROVE FALSE
    OBVIOUS
  <2>2. <<j, i>> \in Nat \X Nat /\ <<j, i>>[1] < <<j, i>>[2]
    BY <1>1, <2>1
  <2>3. Less = {ss \in Nat \X Nat : ss[1] < ss[2]}
    BY DEF OpToRel
  <2>4. <<j, i>> \in Less
    <3> HIDE DEF Less
    <3> QED BY <2>2, <2>3
  <2>5. QED
    BY <1>3, <2>4
<1>5. QED
  BY <1>4

\* What remove_job leaves of a page: one entry less, the last one moved into
\* the hole.
LEMMA SwapRemoveProperties ==
  ASSUME NEW page \in Seq(Nat), NEW id \in Nat, Holds(page, id)
  PROVE  /\ SwapRemove(page, id) \in Seq(Nat)
         /\ Len(SwapRemove(page, id)) = Len(page) - 1
         /\ \E pos \in 1..Len(page) :
              /\ page[pos] = id
              /\ \A i \in 1..(Len(page) - 1) :
                   SwapRemove(page, id)[i] = IF i = pos THEN page[Len(page)] ELSE page[i]
<1> DEFINE First(i) == page[i] = id /\ \A j \in 1..(i - 1) : page[j] # id
           pos == CHOOSE i \in 1..Len(page) : First(i)
           e(i) == IF i = pos THEN page[Len(page)] ELSE page[i]
           n == Len(page) - 1
<1>1. \E i \in 1..Len(page) : First(i)
  BY FirstPosition
<1>2. pos \in 1..Len(page) /\ First(pos)
  <2> HIDE DEF First
  <2> QED BY <1>1
<1>3. SwapRemove(page, id) = [i \in 1..n |-> e(i)]
  BY DEF SwapRemove
<1>4. n \in Nat /\ \A i \in 1..n : e(i) \in Nat
  <2>1. Len(page) \in Nat /\ n \in Nat
    BY <1>2
  <2>2. \A i \in 1..Len(page) : page[i] \in Nat
    OBVIOUS
  <2> HIDE DEF pos
  <2>3. QED
    BY <2>1, <2>2, <1>2
<1>5. SwapRemove(page, id) \in Seq(Nat)
  <2> HIDE DEF e, n
  <2> QED BY <1>3, <1>4, IsASeq
<1>6. Len(SwapRemove(page, id)) = n
  <2> HIDE DEF e, n
  <2> QED BY <1>3, <1>4
<1>7. \A i \in 1..n : SwapRemove(page, id)[i] = e(i)
  <2> HIDE DEF e, n
  <2> QED BY <1>3
<1>8. QED
  <2> HIDE DEF pos
  <2> QED BY <1>2, <1>5, <1>6, <1>7

-----------------------------------------------------------------------------
(* Types.  A step needs more than the types of its state: AdvanceHead reads  *)
(* next_seq at the head, which must be on the list, and RetryJob reads the   *)
(* multiplier at attempts, which must be between 1 and 9.                    *)

Shape == TypeOK /\ ListWellFormed /\ RetryBudget

LEMMA InitShape == Init => Shape
<1> SUFFICES ASSUME Init PROVE Shape
  OBVIOUS
<1> USE RetryAssumption, CapacityAssumption
<1>1. PICK r \in RetryLimits : InitializeQueue(r)
  BY DEF Init
<1>2. TypeOK
  BY <1>1 DEF InitializeQueue, TypeOK, Queue, QueueHead, Job
<1>3. ListWellFormed
  BY <1>1 DEF InitializeQueue, ListWellFormed
<1>4. RetryBudget
  BY <1>1 DEF InitializeQueue, RetryBudget
<1>5. QED
  BY <1>2, <1>3, <1>4 DEF Shape

LEMMA GrowIndexShape ==
  ASSUME Shape, NEW a \in Accounts, GrowIndex(a)
  PROVE  Shape'
<1> USE CapacityAssumption DEF Shape
<1> DEFINE tail == head.tail_index_seq
<1>1. head \in QueueHead /\ head' = [head EXCEPT !.tail_index_seq = tail + 1]
  BY DEF GrowIndex, TypeOK
<1>2. /\ tail \in Nat /\ head'.tail_index_seq = tail + 1 /\ head' \in QueueHead
      /\ head.head_index_seq \in Nat /\ head'.head_index_seq = head.head_index_seq
  BY <1>1 DEF QueueHead
<1>3. /\ DOMAIN next_seq = 0..tail /\ DOMAIN job_ids = 0..tail
      /\ 0..(tail + 1) = (0..tail) \cup {tail + 1}
  BY <1>2 DEF TypeOK
<1>4. next_seq' = [s \in 0..(tail + 1) |->
                     IF s = tail + 1 THEN 0 ELSE IF s = tail THEN tail + 1 ELSE next_seq[s]]
  BY <1>3 DEF GrowIndex
<1>5. job_ids' = [s \in 0..(tail + 1) |-> IF s = tail + 1 THEN <<>> ELSE job_ids[s]]
  BY <1>3 DEF GrowIndex
<1>6. TypeOK'
  <2>1. next_seq' \in [0..(tail + 1) -> Nat]
    BY <1>2, <1>3, <1>4 DEF TypeOK
  <2>2. job_ids' \in [0..(tail + 1) -> Seq(Nat)]
    BY <1>2, <1>3, <1>5 DEF TypeOK
  <2>3. QED
    BY <1>2, <2>1, <2>2 DEF GrowIndex, TypeOK
<1>7. ListWellFormed'
  <2>1. head'.head_index_seq <= head'.tail_index_seq
    BY <1>2 DEF ListWellFormed
  <2>2. \A s \in DOMAIN next_seq' :
          next_seq'[s] = IF s < head'.tail_index_seq THEN s + 1 ELSE 0
    <3>1. SUFFICES ASSUME NEW s \in 0..(tail + 1)
                   PROVE  next_seq'[s] = IF s < tail + 1 THEN s + 1 ELSE 0
      BY <1>2, <1>4
    <3>2. s < tail => next_seq[s] = s + 1
      BY <1>2, <1>3 DEF ListWellFormed
    <3>3. QED
      BY <1>2, <1>4, <3>2
  <2>3. \A s \in DOMAIN job_ids' : Len(job_ids'[s]) <= PageCapacity
    <3>1. /\ \A s \in 0..tail : Len(job_ids[s]) <= PageCapacity
          /\ Len(<<>>) = 0 /\ PageCapacity \in Nat
      BY <1>3 DEF ListWellFormed
    <3>2. DOMAIN job_ids' = 0..(tail + 1)
      BY <1>5
    <3>3. \A s \in 0..(tail + 1) :
            IF s = tail + 1 THEN job_ids'[s] = <<>>
            ELSE s \in 0..tail /\ job_ids'[s] = job_ids[s]
      BY <1>3, <1>5
    <3>4. QED
      BY <3>1, <3>2, <3>3
  <2>4. QED
    BY <2>1, <2>2, <2>3 DEF ListWellFormed
<1>8. RetryBudget'
  BY DEF GrowIndex, RetryBudget
<1>9. QED
  BY <1>6, <1>7, <1>8

LEMMA AdvanceHeadShape ==
  ASSUME Shape, AdvanceHead
  PROVE  Shape'
<1> USE DEF Shape
<1> DEFINE h == head.head_index_seq
<1>1. h \in 0..head.tail_index_seq /\ h < head.tail_index_seq /\ next_seq[h] = h + 1
  BY DEF AdvanceHead, TypeOK, QueueHead, ListWellFormed
<1>2. head' = [head EXCEPT !.head_index_seq = h + 1]
  BY <1>1 DEF AdvanceHead
<1>3. TypeOK'
  BY <1>1, <1>2 DEF AdvanceHead, TypeOK, QueueHead
<1>4. ListWellFormed'
  BY <1>1, <1>2 DEF AdvanceHead, TypeOK, QueueHead, ListWellFormed
<1>5. RetryBudget'
  BY DEF AdvanceHead, RetryBudget
<1>6. QED
  BY <1>3, <1>4, <1>5

\* What push_job and remove_job do to the pages, as far as their shape goes.
LEMMA PushJobShape ==
  ASSUME TypeOK, ListWellFormed, NEW s \in DOMAIN job_ids, NEW id \in Nat,
         PushJob(s, id)
  PROVE  /\ job_ids' \in [0..head.tail_index_seq -> Seq(Nat)]
         /\ \A t \in DOMAIN job_ids' : Len(job_ids'[t]) <= PageCapacity
<1> USE CapacityAssumption
<1>1. job_ids[s] \in Seq(Nat) /\ Len(job_ids[s]) < PageCapacity
  BY DEF TypeOK, PushJob, IsFull
<1>2. Append(job_ids[s], id) \in Seq(Nat)
      /\ Len(Append(job_ids[s], id)) = Len(job_ids[s]) + 1
  BY <1>1
<1>3. QED
  BY <1>1, <1>2 DEF TypeOK, ListWellFormed, PushJob

LEMMA RemoveJobShape ==
  ASSUME TypeOK, ListWellFormed, NEW s \in DOMAIN job_ids, NEW id \in Nat,
         RemoveJob(s, id)
  PROVE  /\ job_ids' \in [0..head.tail_index_seq -> Seq(Nat)]
         /\ \A t \in DOMAIN job_ids' : Len(job_ids'[t]) <= PageCapacity
<1> USE CapacityAssumption
<1>1. job_ids[s] \in Seq(Nat) /\ Holds(job_ids[s], id)
  BY DEF TypeOK, RemoveJob
<1>2. SwapRemove(job_ids[s], id) \in Seq(Nat)
      /\ Len(SwapRemove(job_ids[s], id)) = Len(job_ids[s]) - 1
  BY <1>1, SwapRemoveProperties
<1>3. QED
  BY <1>1, <1>2 DEF TypeOK, ListWellFormed, RemoveJob

\* An action that rewrites one job only: the types and budgets of the others
\* stand.
LEMMA OneJobShape ==
  ASSUME TypeOK, RetryBudget, NEW id \in DOMAIN jobs, NEW job \in Job,
         jobs' = [jobs EXCEPT ![id] = job], queue'.job_count = queue.job_count,
         job.attempts <= job.max_retries \/ job.attempts = 1,
         job.status = "Failed" => job.attempts >= job.max_retries,
         job.status = "Pending" /\ job.attempts > 0 => job.attempts < job.max_retries,
         job.status \in {"Processing", "Completed", "Failed"} => job.attempts > 0
  PROVE  /\ jobs' \in [0..(queue'.job_count - 1) -> Job]
         /\ RetryBudget'
<1>1. jobs' \in [0..(queue'.job_count - 1) -> Job]
  BY DEF TypeOK
<1>2. ASSUME NEW i \in DOMAIN jobs'
      PROVE  i \in DOMAIN jobs /\ jobs'[i] = IF i = id THEN job ELSE jobs[i]
  BY DEF TypeOK
<1>3. QED
  BY <1>1, <1>2 DEF RetryBudget

LEMMA EnqueueJobShape ==
  ASSUME Shape, NEW d \in StartDelays, EnqueueJob(d)
  PROVE  Shape'
<1> USE DelaysAssumption DEF Shape
<1> DEFINE id == queue.job_count
           new == [status |-> "Pending", worker |-> NoWorker, attempts |-> 0,
                   max_retries |-> queue.max_retries, wait |-> d]
<1>1. /\ queue \in Queue /\ head \in QueueHead
      /\ queue' = [queue EXCEPT !.job_count = @ + 1, !.pending_count = @ + 1]
      /\ head' = [head EXCEPT !.total_jobs = @ + 1]
  BY DEF EnqueueJob, TypeOK
<1>2. /\ id \in Nat /\ queue.max_retries \in RetryLimits
      /\ queue' \in Queue /\ queue'.job_count = id + 1
  <2>1. id \in Nat /\ queue.pending_count \in Nat /\ queue.max_retries \in RetryLimits
    BY <1>1 DEF Queue
  <2>2. queue' = [queue EXCEPT !.job_count = id + 1,
                               !.pending_count = queue.pending_count + 1]
    BY <1>1
  <2>3. id + 1 \in Nat /\ queue.pending_count + 1 \in Nat
    BY <2>1
  <2>4. queue'.job_count = id + 1
    BY <1>1, <2>2 DEF Queue
  <2>5. queue' \in Queue
    BY <1>1, <2>2, <2>3 DEF Queue
  <2>6. QED
    BY <2>1, <2>4, <2>5
<1>3. /\ head' \in QueueHead /\ head.tail_index_seq \in Nat
      /\ head'.tail_index_seq = head.tail_index_seq
      /\ head'.head_index_seq = head.head_index_seq
  BY <1>1 DEF QueueHead
<1>4. new \in Job
  BY <1>2 DEF Job, Statuses
<1>5. jobs' = [i \in 0..id |-> IF i = id THEN new ELSE jobs[i]]
  <2>1. DOMAIN jobs \cup {id} = 0..id
    BY <1>2 DEF TypeOK
  <2>2. QED
    BY <2>1 DEF EnqueueJob
<1>6. jobs' \in [0..(queue'.job_count - 1) -> Job]
  <2> HIDE DEF new
  <2>1. \A i \in 0..id : i # id => jobs[i] \in Job
    BY <1>2 DEF TypeOK
  <2>2. 0..(queue'.job_count - 1) = 0..id
    BY <1>2
  <2>3. QED
    BY <1>4, <1>5, <2>1, <2>2
<1>7. /\ job_ids' \in [0..head.tail_index_seq -> Seq(Nat)]
      /\ \A t \in DOMAIN job_ids' : Len(job_ids'[t]) <= PageCapacity
  <2>1. head.tail_index_seq \in DOMAIN job_ids
    BY <1>3 DEF TypeOK
  <2>2. PushJob(head.tail_index_seq, id)
    BY DEF EnqueueJob
  <2>3. QED
    BY <1>2, <2>1, <2>2, PushJobShape
<1>8. TypeOK'
  BY <1>2, <1>3, <1>6, <1>7 DEF EnqueueJob, TypeOK
<1>9. ListWellFormed'
  BY <1>3, <1>7 DEF EnqueueJob, ListWellFormed
<1>10. RetryBudget'
  <2>1. SUFFICES ASSUME NEW i \in 0..id
                 PROVE  LET job == jobs'[i]
                        IN  /\ job.attempts <= job.max_retries \/ job.attempts = 1
                            /\ job.status = "Failed" => job.attempts >= job.max_retries
                            /\ job.status = "Pending" /\ job.attempts > 0 =>
                                 job.attempts < job.max_retries
                            /\ job.status \in {"Processing", "Completed", "Failed"} =>
                                 job.attempts > 0
    BY <1>5 DEF RetryBudget
  <2>2. CASE i = id
    <3>1. jobs'[i] = new /\ queue.max_retries \in 0..10
      BY <1>2, <1>5, <2>2, RetryAssumption
    <3>2. QED
      BY <3>1
  <2>3. CASE i # id
    <3>1. i \in DOMAIN jobs /\ jobs'[i] = jobs[i]
      BY <1>2, <1>5, <2>3 DEF TypeOK
    <3>2. QED
      BY <3>1 DEF RetryBudget
  <2>4. QED
    BY <2>2, <2>3
<1>11. QED
  BY <1>8, <1>9, <1>10

\* A queue account whose counters move keeps its type and its job_count.
LEMMA SettledQueue ==
  ASSUME queue \in Queue, NEW n \in Nat, NEW p \in Nat, NEW f \in Nat,
         queue' = [queue EXCEPT !.pending_count = n, !.processed_count = p,
                                !.failed_count = f]
  PROVE  queue' \in Queue /\ queue'.job_count = queue.job_count
BY DEF Queue

LEMMA SaturatingDecType ==
  ASSUME NEW n \in Nat
  PROVE  SaturatingDec(n) \in Nat
BY DEF SaturatingDec

LEMMA ClaimJobShape ==
  ASSUME Shape, NEW w \in Accounts, NEW id \in DOMAIN jobs, NEW s \in DOMAIN job_ids,
         ClaimJob(w, id, s)
  PROVE  Shape'
<1> USE DEF Shape
<1> DEFINE job == [jobs[id] EXCEPT !.status = "Processing", !.worker = w,
                                   !.attempts = jobs[id].attempts + 1]
<1>1. jobs[id] \in Job /\ id \in Nat
  BY DEF TypeOK
<1>2. job \in Job /\ job.status = "Processing" /\ job.max_retries = jobs[id].max_retries
      /\ job.attempts = jobs[id].attempts + 1
  <2>1. "Processing" \in Statuses /\ jobs[id].attempts + 1 \in Nat
    BY <1>1 DEF Job, Statuses
  <2>2. QED
    BY <1>1, <2>1 DEF Job
<1>3. jobs' = [jobs EXCEPT ![id] = job]
  BY DEF ClaimJob
<1>4. /\ jobs[id].attempts \in Nat /\ jobs[id].max_retries \in 0..10
      /\ jobs[id].attempts > 0 => jobs[id].attempts < jobs[id].max_retries
  BY <1>1, RetryAssumption DEF ClaimJob, RetryBudget, Job
<1>5. /\ jobs' \in [0..(queue'.job_count - 1) -> Job]
      /\ RetryBudget'
  <2>1. /\ job.attempts <= job.max_retries \/ job.attempts = 1
        /\ job.attempts > 0
    BY <1>2, <1>4
  <2>2. queue'.job_count = queue.job_count
    BY DEF ClaimJob
  <2> HIDE DEF job
  <2>3. QED
    BY <1>2, <1>3, <2>1, <2>2, OneJobShape
<1>6. /\ job_ids' \in [0..head.tail_index_seq -> Seq(Nat)]
      /\ \A t \in DOMAIN job_ids' : Len(job_ids'[t]) <= PageCapacity
  <2>1. RemoveJob(s, id)
    BY DEF ClaimJob
  <2>2. QED
    BY <1>1, <2>1, RemoveJobShape
<1>7. QED
  BY <1>5, <1>6 DEF ClaimJob, TypeOK, ListWellFormed

LEMMA CompleteJobShape ==
  ASSUME Shape, NEW w \in Accounts, NEW id \in DOMAIN jobs, CompleteJob(w, id)
  PROVE  Shape'
<1> USE DEF Shape
<1> DEFINE job == [jobs[id] EXCEPT !.status = "Completed"]
<1>1. jobs[id] \in Job /\ queue \in Queue /\ jobs[id].status = "Processing"
  BY DEF TypeOK, CompleteJob, HeldBy
<1>2. job \in Job /\ job.status = "Completed" /\ job.max_retries = jobs[id].max_retries
      /\ job.attempts = jobs[id].attempts
  BY <1>1 DEF Job, Statuses, Terminal
<1>3. jobs' = [jobs EXCEPT ![id] = job]
  BY DEF CompleteJob
<1>4. queue' \in Queue /\ queue'.job_count = queue.job_count
  <2>1. SaturatingDec(queue.pending_count) \in Nat /\ queue.processed_count + 1 \in Nat
        /\ queue.failed_count \in Nat
    BY <1>1, SaturatingDecType DEF Queue
  <2>2. queue' = [queue EXCEPT !.pending_count = SaturatingDec(queue.pending_count),
                               !.processed_count = queue.processed_count + 1,
                               !.failed_count = queue.failed_count]
    BY <1>1 DEF CompleteJob, Queue
  <2>3. QED
    BY <1>1, <2>1, <2>2, SettledQueue
<1>5. /\ jobs' \in [0..(queue'.job_count - 1) -> Job]
      /\ RetryBudget'
  <2>1. /\ job.attempts <= job.max_retries \/ job.attempts = 1
        /\ job.attempts > 0
    BY <1>1, <1>2 DEF RetryBudget
  <2> HIDE DEF job
  <2>2. QED
    BY <1>2, <1>3, <1>4, <2>1, OneJobShape
<1>6. QED
  BY <1>4, <1>5 DEF CompleteJob, TypeOK, ListWellFormed

LEMMA DeadLetterJobShape ==
  ASSUME Shape, NEW w \in Accounts, NEW id \in DOMAIN jobs, DeadLetterJob(w, id)
  PROVE  Shape'
<1> USE DEF Shape
<1> DEFINE job == [jobs[id] EXCEPT !.status = "Failed"]
<1>1. /\ jobs[id] \in Job /\ queue \in Queue /\ jobs[id].status = "Processing"
      /\ jobs[id].attempts >= jobs[id].max_retries
  BY DEF TypeOK, DeadLetterJob, HeldBy
<1>2. job \in Job /\ job.status = "Failed" /\ job.max_retries = jobs[id].max_retries
      /\ job.attempts = jobs[id].attempts
  BY <1>1 DEF Job, Statuses, Terminal
<1>3. jobs' = [jobs EXCEPT ![id] = job]
  BY DEF DeadLetterJob
<1>4. queue' \in Queue /\ queue'.job_count = queue.job_count
  <2>1. SaturatingDec(queue.pending_count) \in Nat /\ queue.failed_count + 1 \in Nat
        /\ queue.processed_count \in Nat
    BY <1>1, SaturatingDecType DEF Queue
  <2>2. queue' = [queue EXCEPT !.pending_count = SaturatingDec(queue.pending_count),
                               !.processed_count = queue.processed_count,
                               !.failed_count = queue.failed_count + 1]
    BY <1>1 DEF DeadLetterJob, Queue
  <2>3. QED
    BY <1>1, <2>1, <2>2, SettledQueue
<1>5. /\ jobs' \in [0..(queue'.job_count - 1) -> Job]
      /\ RetryBudget'
  <2>1. /\ job.attempts <= job.max_retries \/ job.attempts = 1
        /\ job.attempts > 0 /\ job.attempts >= job.max_retries
    BY <1>1, <1>2 DEF RetryBudget
  <2> HIDE DEF job
  <2>2. QED
    BY <1>2, <1>3, <1>4, <2>1, OneJobShape
<1>6. QED
  BY <1>4, <1>5 DEF DeadLetterJob, TypeOK, ListWellFormed

LEMMA RetryJobShape ==
  ASSUME Shape, NEW w \in Accounts, NEW id \in DOMAIN jobs, NEW s \in DOMAIN job_ids,
         NEW d \in RetryDelays, RetryJob(w, id, s, d)
  PROVE  Shape'
<1> USE DEF Shape
<1> DEFINE wait == Backoff(d, jobs[id].attempts)
           job == [jobs[id] EXCEPT !.status = "Pending", !.worker = NoWorker,
                                   !.wait = wait]
<1>1. jobs[id] \in Job /\ id \in Nat /\ jobs[id].status = "Processing"
  BY DEF TypeOK, RetryJob, HeldBy
<1>2. /\ jobs[id].attempts \in Nat /\ jobs[id].max_retries \in 0..10
      /\ jobs[id].attempts < jobs[id].max_retries /\ jobs[id].attempts > 0
  BY <1>1, RetryAssumption DEF RetryJob, RetryBudget, Job
<1>3. wait \in Nat
  <2>1. jobs[id].attempts \in 1..9
    BY <1>2
  <2>2. \A k \in 1..9 : Multiplier[k] \in Nat
    BY DEF Multiplier
  <2>3. d \in Nat
    BY DelaysAssumption
  <2>4. QED
    BY <2>1, <2>2, <2>3 DEF Backoff
<1>4. job \in Job /\ job.status = "Pending" /\ job.max_retries = jobs[id].max_retries
      /\ job.attempts = jobs[id].attempts
  <2> HIDE DEF wait
  <2>1. "Pending" \in Statuses
    BY DEF Statuses
  <2>2. QED
    BY <1>1, <1>3, <2>1 DEF Job
<1>5. jobs' = [jobs EXCEPT ![id] = job]
  BY DEF RetryJob
<1>6. /\ jobs' \in [0..(queue'.job_count - 1) -> Job]
      /\ RetryBudget'
  <2>1. queue'.job_count = queue.job_count
    BY DEF RetryJob
  <2> HIDE DEF job
  <2>2. job.attempts > 0 /\ job.attempts < job.max_retries /\ job.attempts <= job.max_retries
    BY <1>2, <1>4
  <2>3. QED
    BY <1>4, <1>5, <2>1, <2>2, OneJobShape
<1>7. /\ job_ids' \in [0..head.tail_index_seq -> Seq(Nat)]
      /\ \A t \in DOMAIN job_ids' : Len(job_ids'[t]) <= PageCapacity
  <2>1. PushJob(s, id)
    BY DEF RetryJob
  <2>2. QED
    BY <1>1, <2>1, PushJobShape
<1>8. QED
  BY <1>6, <1>7 DEF RetryJob, TypeOK, ListWellFormed

LEMMA CancelJobShape ==
  ASSUME Shape, NEW a \in Accounts, NEW id \in DOMAIN jobs, NEW s \in DOMAIN job_ids,
         CancelJob(a, id, s)
  PROVE  Shape'
<1> USE DEF Shape
<1> DEFINE job == [jobs[id] EXCEPT !.status = "Cancelled"]
<1>1. jobs[id] \in Job /\ queue \in Queue /\ id \in Nat
  BY DEF TypeOK
<1>2. job \in Job /\ job.status = "Cancelled" /\ job.max_retries = jobs[id].max_retries
      /\ job.attempts = jobs[id].attempts
  BY <1>1 DEF Job, Statuses, Terminal
<1>3. jobs' = [jobs EXCEPT ![id] = job]
  BY DEF CancelJob
<1>4. queue' \in Queue /\ queue'.job_count = queue.job_count
  <2>1. SaturatingDec(queue.pending_count) \in Nat /\ queue.failed_count \in Nat
        /\ queue.processed_count \in Nat
    BY <1>1, SaturatingDecType DEF Queue
  <2>2. queue' = [queue EXCEPT !.pending_count = SaturatingDec(queue.pending_count),
                               !.processed_count = queue.processed_count,
                               !.failed_count = queue.failed_count]
    BY <1>1 DEF CancelJob, Queue
  <2>3. QED
    BY <1>1, <2>1, <2>2, SettledQueue
<1>5. /\ jobs' \in [0..(queue'.job_count - 1) -> Job]
      /\ RetryBudget'
  <2>1. job.attempts <= job.max_retries \/ job.attempts = 1
    BY <1>1, <1>2 DEF RetryBudget
  <2> HIDE DEF job
  <2>2. QED
    BY <1>2, <1>3, <1>4, <2>1, OneJobShape
<1>6. /\ job_ids' \in [0..head.tail_index_seq -> Seq(Nat)]
      /\ \A t \in DOMAIN job_ids' : Len(job_ids'[t]) <= PageCapacity
  <2>1. RemoveJob(s, id)
    BY DEF CancelJob
  <2>2. QED
    BY <1>1, <2>1, RemoveJobShape
<1>7. QED
  BY <1>4, <1>5, <1>6 DEF CancelJob, TypeOK, ListWellFormed

LEMMA SetQueuePausedShape ==
  ASSUME Shape, NEW a \in Accounts, NEW p \in BOOLEAN, SetQueuePaused(a, p)
  PROVE  Shape'
<1> USE DEF Shape
<1>1. queue \in Queue /\ queue' = [queue EXCEPT !.paused = p]
  BY DEF SetQueuePaused, TypeOK
<1>2. queue' \in Queue /\ queue'.job_count = queue.job_count
  BY <1>1 DEF Queue
<1>3. QED
  BY <1>2 DEF SetQueuePaused, TypeOK, ListWellFormed, RetryBudget

LEMMA TickShape ==
  ASSUME Shape, Tick
  PROVE  Shape'
<1> USE DEF Shape
<1>1. ASSUME NEW i \in DOMAIN jobs
      PROVE  /\ jobs'[i] \in Job
             /\ jobs'[i].status = jobs[i].status
             /\ jobs'[i].attempts = jobs[i].attempts
             /\ jobs'[i].max_retries = jobs[i].max_retries
  <2>1. jobs[i] \in Job
    BY DEF TypeOK
  <2>2. jobs'[i] = [jobs[i] EXCEPT !.wait = SaturatingDec(jobs[i].wait)]
    BY DEF Tick
  <2>3. SaturatingDec(jobs[i].wait) \in Nat
    BY <2>1, SaturatingDecType DEF Job
  <2>4. QED
    BY <2>1, <2>2, <2>3 DEF Job
<1>2. jobs' \in [DOMAIN jobs -> Job]
  BY <1>1 DEF Tick
<1>3. TypeOK'
  BY <1>2 DEF Tick, TypeOK
<1>4. RetryBudget'
  BY <1>1, <1>2 DEF RetryBudget
<1>5. QED
  BY <1>3, <1>4 DEF Tick, ListWellFormed

LEMMA NextShape == Shape /\ [Next]_vars => Shape'
<1> SUFFICES ASSUME Shape, [Next]_vars PROVE Shape'
  OBVIOUS
<1>1. ASSUME NEW a \in Accounts, GrowIndex(a) PROVE Shape'
  BY <1>1, GrowIndexShape
<1>2. CASE AdvanceHead
  BY <1>2, AdvanceHeadShape
<1>3. ASSUME NEW d \in StartDelays, EnqueueJob(d) PROVE Shape'
  BY <1>3, EnqueueJobShape
<1>4. ASSUME NEW w \in Accounts, NEW id \in DOMAIN jobs, NEW s \in DOMAIN job_ids,
             ClaimJob(w, id, s)
      PROVE  Shape'
  BY <1>4, ClaimJobShape
<1>5. ASSUME NEW w \in Accounts, NEW id \in DOMAIN jobs, CompleteJob(w, id) PROVE Shape'
  BY <1>5, CompleteJobShape
<1>6. ASSUME NEW w \in Accounts, NEW id \in DOMAIN jobs, FailJob(w, id) PROVE Shape'
  BY <1>6, RetryJobShape, DeadLetterJobShape DEF FailJob
<1>7. ASSUME NEW a \in Accounts, NEW id \in DOMAIN jobs, NEW s \in DOMAIN job_ids,
             CancelJob(a, id, s)
      PROVE  Shape'
  BY <1>7, CancelJobShape
<1>8. ASSUME NEW a \in Accounts, NEW p \in BOOLEAN, SetQueuePaused(a, p) PROVE Shape'
  BY <1>8, SetQueuePausedShape
<1>9. CASE Tick
  BY <1>9, TickShape
<1>10. CASE UNCHANGED vars
  BY <1>10 DEF vars, Shape, TypeOK, ListWellFormed, RetryBudget
<1>11. QED
  BY <1>1, <1>2, <1>3, <1>4, <1>5, <1>6, <1>7, <1>8, <1>9, <1>10 DEF Next, Signed

(* In every reachable state the variables have their types, the pages form   *)
(* one list with the head on it and no page above its capacity, and no job   *)
(* has been attempted more often than it may be.                             *)
THEOREM ShapeInvariant == Spec => []Shape
<1>1. Init => Shape
  BY InitShape
<1>2. Shape /\ [Next]_vars => Shape'
  BY NextShape
<1>3. QED
  BY <1>1, <1>2, PTL DEF Spec

(* The variables of the program always have their types (lib.rs, state.rs).  *)
THEOREM TypeCorrect == Spec => []TypeOK
<1>1. Shape => TypeOK
  BY DEF Shape
<1>2. QED
  BY <1>1, ShapeInvariant, PTL

(* grow_index and advance_head keep the pages one list that ends at the tail *)
(* and no page overflows, whatever page a retry is pushed to.                *)
THEOREM ListAlwaysWellFormed == Spec => []ListWellFormed
<1>1. Shape => ListWellFormed
  BY DEF Shape
<1>2. QED
  BY <1>1, ShapeInvariant, PTL

(* fail_job never grants an attempt beyond max_retries and never gives a job *)
(* up before (lib.rs:400-461).                                               *)
THEOREM RetryBudgetKept == Spec => []RetryBudget
<1>1. Shape => RetryBudget
  BY DEF Shape
<1>2. QED
  BY <1>1, ShapeInvariant, PTL

(* advance_head never rewinds: the sentinel 0 is never copied into           *)
(* head_index_seq (lib.rs:208-224).                                          *)
THEOREM HeadMonotone == Spec => HeadNeverRewinds
<1>1. Shape /\ [Next]_vars => [head'.head_index_seq >= head.head_index_seq]_vars
  <2> SUFFICES ASSUME Shape, Next
               PROVE  head'.head_index_seq >= head.head_index_seq
    OBVIOUS
  <2>1. head \in QueueHead /\ head.head_index_seq \in Nat
    BY DEF Shape, TypeOK, QueueHead
  <2>2. CASE AdvanceHead
    <3>1. next_seq[head.head_index_seq] = head.head_index_seq + 1
      BY <2>1, <2>2 DEF AdvanceHead, Shape, TypeOK, QueueHead, ListWellFormed
    <3>2. head'.head_index_seq = head.head_index_seq + 1
      BY <2>1, <2>2, <3>1 DEF AdvanceHead, QueueHead
    <3>3. QED
      BY <2>1, <3>2
  <2>3. CASE ~AdvanceHead
    <3>1. head'.head_index_seq = head.head_index_seq
      BY <2>1, <2>3 DEF Next, Signed, GrowIndex, EnqueueJob, ClaimJob, CompleteJob, FailJob,
                        RetryJob, DeadLetterJob, CancelJob, SetQueuePaused, Tick,
                        QueueHead
    <3>2. QED
      BY <2>1, <3>1
  <2>4. QED
    BY <2>2, <2>3
<1>2. QED
  BY <1>1, ShapeInvariant, PTL DEF Spec, HeadNeverRewinds

-----------------------------------------------------------------------------
(* The index.  Three things happen to it: an id that is on no page is        *)
(* pushed, an id that is on one is removed, or the pages stay as they are.   *)

Unlisted(id) ==
  \A t \in DOMAIN job_ids : \A i \in 1..Len(job_ids[t]) : job_ids[t][i] # id

\* The statuses of all jobs but id stand.
OthersKeepStatus(id) ==
  \A x : x # id => /\ x \in DOMAIN jobs' <=> x \in DOMAIN jobs
                   /\ x \in DOMAIN jobs => jobs'[x].status = jobs[x].status

\* The entries after a push: the old ones where they were, and id at the end.
LEMMA PushJobEntries ==
  ASSUME TypeOK, NEW s \in DOMAIN job_ids, NEW id \in Nat, PushJob(s, id)
  PROVE  /\ DOMAIN job_ids' = DOMAIN job_ids
         /\ \A t \in DOMAIN job_ids : \A i \in 1..Len(job_ids[t]) :
              i \in 1..Len(job_ids'[t]) /\ job_ids'[t][i] = job_ids[t][i]
         /\ \A t \in DOMAIN job_ids : \A i \in 1..Len(job_ids'[t]) :
              \/ i \in 1..Len(job_ids[t]) /\ job_ids'[t][i] = job_ids[t][i]
              \/ t = s /\ i = Len(job_ids[s]) + 1 /\ job_ids'[t][i] = id
         /\ Holds(job_ids'[s], id)
<1>1. \A t \in DOMAIN job_ids : job_ids[t] \in Seq(Nat)
  BY DEF TypeOK
<1>2. /\ DOMAIN job_ids' = DOMAIN job_ids
      /\ job_ids'[s] = Append(job_ids[s], id)
      /\ \A t \in DOMAIN job_ids : t # s => job_ids'[t] = job_ids[t]
  BY DEF PushJob, TypeOK
<1>3. /\ Len(job_ids'[s]) = Len(job_ids[s]) + 1
      /\ job_ids'[s][Len(job_ids[s]) + 1] = id
      /\ \A i \in 1..Len(job_ids[s]) : job_ids'[s][i] = job_ids[s][i]
  BY <1>1, <1>2
<1>4. Len(job_ids[s]) \in Nat
  BY <1>1
<1>5. QED
  BY <1>2, <1>3, <1>4 DEF Holds

LEMMA AddListing ==
  ASSUME TypeOK, IndexExact, NEW s \in DOMAIN job_ids, NEW id \in Nat,
         PushJob(s, id), Unlisted(id), OthersKeepStatus(id),
         id \in DOMAIN jobs', jobs'[id].status = "Pending"
  PROVE  IndexExact'
<1> USE DEF IndexExact
<1>1. ListedArePending'
  BY PushJobEntries DEF ListedArePending, Unlisted, OthersKeepStatus
<1>2. ListedOnce'
  <2>1. /\ DOMAIN job_ids' = DOMAIN job_ids
        /\ \A t \in DOMAIN job_ids : \A i \in 1..Len(job_ids'[t]) :
             \/ i \in 1..Len(job_ids[t]) /\ job_ids'[t][i] = job_ids[t][i]
             \/ t = s /\ i = Len(job_ids[s]) + 1 /\ job_ids'[t][i] = id
    BY PushJobEntries
  <2>2. SUFFICES ASSUME NEW t \in DOMAIN job_ids, NEW u \in DOMAIN job_ids,
                        NEW i \in 1..Len(job_ids'[t]), NEW j \in 1..Len(job_ids'[u]),
                        job_ids'[t][i] = job_ids'[u][j]
                 PROVE  t = u /\ i = j
    BY <2>1 DEF ListedOnce
  <2> DEFINE Old(v, k) == k \in 1..Len(job_ids[v]) /\ job_ids'[v][k] = job_ids[v][k]
             New(v, k) == v = s /\ k = Len(job_ids[s]) + 1 /\ job_ids'[v][k] = id
  <2>3. (Old(t, i) \/ New(t, i)) /\ (Old(u, j) \/ New(u, j))
    BY <2>1
  <2>4. CASE Old(t, i) /\ Old(u, j)
    <3>1. ListedOnce
      BY DEF IndexExact
    <3>2. /\ i \in 1..Len(job_ids[t]) /\ j \in 1..Len(job_ids[u])
          /\ job_ids[t][i] = job_ids[u][j]
      BY <2>2, <2>4
    <3>3. QED
      BY <3>1, <3>2 DEF ListedOnce
  <2>5. CASE New(t, i) /\ New(u, j)
    BY <2>5
  <2>6. ~(Old(t, i) /\ New(u, j)) /\ ~(New(t, i) /\ Old(u, j))
    BY <2>2 DEF Unlisted
  <2>7. QED
    BY <2>3, <2>4, <2>5, <2>6
<1>3. PendingAreListed'
  <2>1. /\ DOMAIN job_ids' = DOMAIN job_ids /\ Holds(job_ids'[s], id)
        /\ \A t \in DOMAIN job_ids : \A x : Holds(job_ids[t], x) => Holds(job_ids'[t], x)
    BY PushJobEntries DEF Holds
  <2>2. SUFFICES ASSUME NEW x \in DOMAIN jobs', jobs'[x].status = "Pending", x # id
                 PROVE  \E t \in DOMAIN job_ids : Holds(job_ids'[t], x)
    BY <2>1 DEF PendingAreListed
  <2>3. x \in DOMAIN jobs /\ jobs[x].status = "Pending"
    BY <2>2 DEF OthersKeepStatus
  <2>4. PICK t \in DOMAIN job_ids : Holds(job_ids[t], x)
    BY <2>3 DEF PendingAreListed
  <2>5. QED
    BY <2>1, <2>4
<1>4. QED
  BY <1>1, <1>2, <1>3

\* The entries after a removal: each comes from an entry other than the removed
\* one, and every other entry is still there, at its place or in the hole.
LEMMA RemoveJobEntries ==
  ASSUME TypeOK, NEW s \in DOMAIN job_ids, NEW id \in Nat, RemoveJob(s, id)
  PROVE  /\ DOMAIN job_ids' = DOMAIN job_ids
         /\ \A t \in DOMAIN job_ids : t # s => job_ids'[t] = job_ids[t]
         /\ Len(job_ids[s]) \in Nat
         /\ Len(job_ids'[s]) = Len(job_ids[s]) - 1
         /\ \E pos \in 1..Len(job_ids[s]) :
              /\ job_ids[s][pos] = id
              /\ \A i \in 1..(Len(job_ids[s]) - 1) :
                   job_ids'[s][i] = IF i = pos THEN job_ids[s][Len(job_ids[s])]
                                               ELSE job_ids[s][i]
<1>1. job_ids[s] \in Seq(Nat) /\ Holds(job_ids[s], id)
  BY DEF TypeOK, RemoveJob
<1>2. /\ DOMAIN job_ids' = DOMAIN job_ids
      /\ job_ids'[s] = SwapRemove(job_ids[s], id)
      /\ \A t \in DOMAIN job_ids : t # s => job_ids'[t] = job_ids[t]
  BY DEF RemoveJob, TypeOK
<1> DEFINE page == job_ids[s]
           rest == SwapRemove(page, id)
<1>3. /\ Len(rest) = Len(page) - 1
      /\ \E pos \in 1..Len(page) :
           /\ page[pos] = id
           /\ \A i \in 1..(Len(page) - 1) :
                rest[i] = IF i = pos THEN page[Len(page)] ELSE page[i]
  BY <1>1, SwapRemoveProperties
<1>4. Len(page) \in Nat
  BY <1>1
<1>5. job_ids'[s] = rest
  BY <1>2
<1> HIDE DEF rest
<1>6. QED
  BY <1>2, <1>3, <1>4, <1>5

LEMMA RemoveKeepsOthers ==
  ASSUME TypeOK, NEW s \in DOMAIN job_ids, NEW id \in Nat, RemoveJob(s, id),
         NEW t \in DOMAIN job_ids, NEW x, x # id, Holds(job_ids[t], x)
  PROVE  Holds(job_ids'[t], x)
<1> DEFINE n == Len(job_ids[s])
<1>1. PICK pos \in 1..n :
        /\ job_ids[s][pos] = id
        /\ \A i \in 1..(n - 1) :
             job_ids'[s][i] = IF i = pos THEN job_ids[s][n] ELSE job_ids[s][i]
  BY RemoveJobEntries
<1>2. /\ n \in Nat /\ Len(job_ids'[s]) = n - 1
      /\ t # s => job_ids'[t] = job_ids[t]
  BY RemoveJobEntries
<1>3. PICK i \in 1..Len(job_ids[t]) : job_ids[t][i] = x
  BY DEF Holds
<1>4. CASE t # s
  BY <1>2, <1>3, <1>4 DEF Holds
<1>5. CASE t = s /\ i < n
  <2>1. i \in 1..(n - 1) /\ job_ids'[s][i] = x
    BY <1>1, <1>2, <1>3, <1>5
  <2>2. QED
    BY <1>2, <1>5, <2>1 DEF Holds
<1>6. CASE t = s /\ i = n
  <2>1. pos \in 1..(n - 1) /\ job_ids'[s][pos] = x
    BY <1>1, <1>2, <1>3, <1>6
  <2>2. QED
    BY <1>2, <1>6, <2>1 DEF Holds
<1>7. QED
  BY <1>2, <1>3, <1>4, <1>5, <1>6

LEMMA DropListing ==
  ASSUME TypeOK, IndexExact, NEW s \in DOMAIN job_ids, NEW id \in Nat,
         RemoveJob(s, id), OthersKeepStatus(id),
         jobs'[id].status # "Pending"
  PROVE  IndexExact' /\ Unlisted(id)'
<1> DEFINE n == Len(job_ids[s])
<1>1. PICK pos \in 1..n :
        /\ job_ids[s][pos] = id
        /\ \A i \in 1..(n - 1) :
             job_ids'[s][i] = IF i = pos THEN job_ids[s][n] ELSE job_ids[s][i]
  BY RemoveJobEntries
<1> DEFINE origin(t, i) == IF t = s /\ i = pos THEN n ELSE i
<1>2. /\ DOMAIN job_ids' = DOMAIN job_ids /\ n \in Nat /\ Len(job_ids'[s]) = n - 1
      /\ \A t \in DOMAIN job_ids : t # s => job_ids'[t] = job_ids[t]
  BY RemoveJobEntries
<1>3. \A t \in DOMAIN job_ids : \A i \in 1..Len(job_ids'[t]) :
        /\ origin(t, i) \in 1..Len(job_ids[t])
        /\ job_ids'[t][i] = job_ids[t][origin(t, i)]
        /\ t # s \/ origin(t, i) # pos
  <2> SUFFICES ASSUME NEW t \in DOMAIN job_ids, NEW i \in 1..Len(job_ids'[t])
               PROVE  /\ origin(t, i) \in 1..Len(job_ids[t])
                      /\ job_ids'[t][i] = job_ids[t][origin(t, i)]
                      /\ t # s \/ origin(t, i) # pos
    OBVIOUS
  <2>1. CASE t # s
    BY <1>2, <2>1
  <2>2. CASE t = s
    <3>1. i \in 1..(n - 1) /\ pos \in 1..n
      BY <1>2, <2>2
    <3>2. CASE i = pos
      BY <1>1, <1>2, <2>2, <3>1, <3>2
    <3>3. CASE i # pos
      BY <1>1, <1>2, <2>2, <3>1, <3>3
    <3>4. QED
      BY <3>2, <3>3
  <2>3. QED
    BY <2>1, <2>2
<1>4. \A t \in DOMAIN job_ids : \A i, j \in 1..Len(job_ids'[t]) :
        origin(t, i) = origin(t, j) => i = j
  <2>1. \A i \in 1..Len(job_ids'[s]) : i # n
    BY <1>2
  <2>2. QED
    BY <2>1
<1>5. ListedOnce
  BY DEF IndexExact
<1>6. ASSUME NEW t \in DOMAIN job_ids, NEW i \in 1..Len(job_ids'[t])
      PROVE  \E k \in 1..Len(job_ids[t]) :
               job_ids'[t][i] = job_ids[t][k] /\ (t # s \/ k # pos)
  BY <1>3
<1>7. ASSUME NEW t \in DOMAIN job_ids, NEW i \in 1..Len(job_ids'[t])
      PROVE  job_ids'[t][i] # id
  BY <1>1, <1>5, <1>6 DEF ListedOnce
<1>8. ListedOnce'
  <2>1. SUFFICES ASSUME NEW t \in DOMAIN job_ids, NEW u \in DOMAIN job_ids,
                        NEW i \in 1..Len(job_ids'[t]), NEW j \in 1..Len(job_ids'[u]),
                        job_ids'[t][i] = job_ids'[u][j]
                 PROVE  t = u /\ i = j
    BY <1>2 DEF ListedOnce
  <2> DEFINE k == origin(t, i)
             l == origin(u, j)
  <2>2. /\ k \in 1..Len(job_ids[t]) /\ l \in 1..Len(job_ids[u])
        /\ job_ids[t][k] = job_ids[u][l]
    BY <1>3, <2>1
  <2>3. t = u /\ k = l
    <3> HIDE DEF k, l
    <3> QED BY <1>5, <2>2 DEF ListedOnce
  <2>4. QED
    BY <1>4, <2>3
<1>9. ListedArePending'
  <2>1. SUFFICES ASSUME NEW t \in DOMAIN job_ids, NEW i \in 1..Len(job_ids'[t])
                 PROVE  /\ job_ids'[t][i] \in DOMAIN jobs'
                        /\ jobs'[job_ids'[t][i]].status = "Pending"
    BY <1>2 DEF ListedArePending
  <2>2. PICK k \in 1..Len(job_ids[t]) : job_ids'[t][i] = job_ids[t][k]
    BY <1>6
  <2>3. job_ids[t][k] \in DOMAIN jobs /\ jobs[job_ids[t][k]].status = "Pending"
    BY DEF IndexExact, ListedArePending
  <2>4. QED
    BY <1>7, <2>2, <2>3 DEF OthersKeepStatus
<1>10. PendingAreListed'
  <2>1. SUFFICES ASSUME NEW x \in DOMAIN jobs', jobs'[x].status = "Pending"
                 PROVE  \E t \in DOMAIN job_ids' : Holds(job_ids'[t], x)
    BY DEF PendingAreListed
  <2>2. x # id /\ x \in DOMAIN jobs /\ jobs[x].status = "Pending"
    BY <2>1 DEF OthersKeepStatus
  <2>3. PICK t \in DOMAIN job_ids : Holds(job_ids[t], x)
    BY <2>2 DEF IndexExact, PendingAreListed
  <2>4. QED
    BY <1>2, <2>2, <2>3, RemoveKeepsOthers
<1>11. QED
  BY <1>2, <1>7, <1>8, <1>9, <1>10 DEF IndexExact, Unlisted

LEMMA SameListing ==
  ASSUME IndexExact, UNCHANGED job_ids, DOMAIN jobs' = DOMAIN jobs,
         \A x \in DOMAIN jobs : jobs'[x].status = "Pending" <=> jobs[x].status = "Pending"
  PROVE  IndexExact'
BY DEF IndexExact, ListedArePending, ListedOnce, PendingAreListed

\* Only a Pending job is on a page.
LEMMA NotPendingUnlisted ==
  ASSUME IndexExact, NEW id, id \notin DOMAIN jobs \/ jobs[id].status # "Pending"
  PROVE  Unlisted(id)
BY DEF IndexExact, ListedArePending, Unlisted

LEMMA NextIndexExact == Shape /\ IndexExact /\ [Next]_vars => IndexExact'
<1> SUFFICES ASSUME Shape, IndexExact, [Next]_vars PROVE IndexExact'
  OBVIOUS
<1>1. TypeOK /\ DOMAIN jobs \subseteq Nat
  BY DEF Shape, TypeOK
<1>2. ASSUME NEW a \in Accounts, GrowIndex(a) PROVE IndexExact'
  <2> DEFINE new_seq == head.tail_index_seq + 1
  <2>1. jobs' = jobs
    BY <1>2 DEF GrowIndex
  <2>2. new_seq \notin DOMAIN job_ids
    BY <1>1 DEF TypeOK, QueueHead
  <2>3. job_ids' = [s \in DOMAIN job_ids \cup {new_seq} |->
                     IF s = new_seq THEN <<>> ELSE job_ids[s]]
    BY <1>2 DEF GrowIndex
  <2> HIDE DEF new_seq
  <2>4. /\ DOMAIN job_ids' = DOMAIN job_ids \cup {new_seq}
        /\ \A s \in DOMAIN job_ids : job_ids'[s] = job_ids[s]
        /\ Len(job_ids'[new_seq]) = 0
    BY <2>2, <2>3
  <2>5. ListedArePending'
    BY <2>1, <2>4 DEF IndexExact, ListedArePending
  <2>6. ListedOnce'
    BY <2>4 DEF IndexExact, ListedOnce
  <2>7. PendingAreListed'
    BY <2>1, <2>4 DEF IndexExact, PendingAreListed
  <2>8. QED
    BY <2>5, <2>6, <2>7 DEF IndexExact
<1>3. CASE AdvanceHead
  BY <1>3, SameListing DEF AdvanceHead
<1>4. ASSUME NEW d \in StartDelays, EnqueueJob(d) PROVE IndexExact'
  <2> DEFINE id == queue.job_count
             tail == head.tail_index_seq
  <2>1. id \in Nat /\ id \notin DOMAIN jobs /\ tail \in DOMAIN job_ids
    BY <1>1 DEF TypeOK, Queue, QueueHead
  <2>2. PushJob(tail, id)
    BY <1>4 DEF EnqueueJob
  <2>3. id \in DOMAIN jobs' /\ jobs'[id].status = "Pending" /\ OthersKeepStatus(id)
    BY <1>4 DEF EnqueueJob, OthersKeepStatus
  <2>4. Unlisted(id)
    BY <2>1, NotPendingUnlisted
  <2> HIDE DEF id, tail
  <2>5. QED
    BY <1>1, <2>1, <2>2, <2>3, <2>4, AddListing
<1>5. ASSUME NEW w \in Accounts, NEW id \in DOMAIN jobs, NEW s \in DOMAIN job_ids,
             ClaimJob(w, id, s)
      PROVE  IndexExact'
  <2>1. RemoveJob(s, id)
    BY <1>5 DEF ClaimJob
  <2>2. jobs'[id].status # "Pending" /\ OthersKeepStatus(id)
    BY <1>1, <1>5 DEF ClaimJob, OthersKeepStatus, TypeOK, Job
  <2>3. QED
    BY <1>1, <2>1, <2>2, DropListing
<1>6. ASSUME NEW w \in Accounts, NEW id \in DOMAIN jobs, CompleteJob(w, id)
      PROVE  IndexExact'
  <2>1. \A x \in DOMAIN jobs : jobs'[x].status = "Pending" <=> jobs[x].status = "Pending"
    BY <1>1, <1>6 DEF CompleteJob, HeldBy, TypeOK, Job
  <2>2. QED
    BY <1>6, <2>1, SameListing DEF CompleteJob
<1>7. ASSUME NEW w \in Accounts, NEW id \in DOMAIN jobs, DeadLetterJob(w, id)
      PROVE  IndexExact'
  <2>1. \A x \in DOMAIN jobs : jobs'[x].status = "Pending" <=> jobs[x].status = "Pending"
    BY <1>1, <1>7 DEF DeadLetterJob, HeldBy, TypeOK, Job
  <2>2. QED
    BY <1>7, <2>1, SameListing DEF DeadLetterJob
<1>8. ASSUME NEW w \in Accounts, NEW id \in DOMAIN jobs, NEW s \in DOMAIN job_ids,
             NEW d \in RetryDelays, RetryJob(w, id, s, d)
      PROVE  IndexExact'
  <2>1. PushJob(s, id)
    BY <1>8 DEF RetryJob
  <2>2. Unlisted(id)
    BY <1>8, NotPendingUnlisted DEF RetryJob, HeldBy
  <2>3. id \in DOMAIN jobs' /\ jobs'[id].status = "Pending" /\ OthersKeepStatus(id)
    BY <1>1, <1>8 DEF RetryJob, OthersKeepStatus, TypeOK, Job
  <2>4. QED
    BY <1>1, <2>1, <2>2, <2>3, AddListing
<1>9. ASSUME NEW a \in Accounts, NEW id \in DOMAIN jobs, NEW s \in DOMAIN job_ids,
             CancelJob(a, id, s)
      PROVE  IndexExact'
  <2>1. RemoveJob(s, id)
    BY <1>9 DEF CancelJob
  <2>2. jobs'[id].status # "Pending" /\ OthersKeepStatus(id)
    BY <1>1, <1>9 DEF CancelJob, OthersKeepStatus, TypeOK, Job
  <2>3. QED
    BY <1>1, <2>1, <2>2, DropListing
<1>10. ASSUME NEW a \in Accounts, NEW p \in BOOLEAN, SetQueuePaused(a, p)
       PROVE  IndexExact'
  BY <1>10, SameListing DEF SetQueuePaused
<1>11. CASE Tick
  <2>1. \A x \in DOMAIN jobs : jobs'[x].status = jobs[x].status
    BY <1>1, <1>11 DEF Tick, TypeOK, Job
  <2>2. DOMAIN jobs' = DOMAIN jobs
    BY <1>11 DEF Tick
  <2>3. QED
    BY <1>11, <2>1, <2>2, SameListing DEF Tick
<1>12. CASE UNCHANGED vars
  BY <1>12, SameListing DEF vars
<1>13. QED
  BY <1>2, <1>3, <1>4, <1>5, <1>6, <1>7, <1>8, <1>9, <1>10, <1>11, <1>12
     DEF Next, Signed, FailJob

(* The pages list every Pending job exactly once and nothing else, so that   *)
(* claim_job and cancel_job find the id of the job they are given on exactly *)
(* one page and on no page once it is Processing (lib.rs:344, lib.rs:483).   *)
THEOREM IndexAlwaysExact == Spec => []IndexExact
<1>1. Init => IndexExact
  BY DEF Init, InitializeQueue, IndexExact, ListedArePending, ListedOnce, PendingAreListed
<1>2. Shape /\ IndexExact /\ [Next]_vars => IndexExact'
  BY NextIndexExact
<1>3. QED
  BY <1>1, <1>2, ShapeInvariant, PTL DEF Spec

-----------------------------------------------------------------------------
(* The lock.                                                                *)

\* An account that does not hold a Processing job cannot touch it: complete_job and
\* fail_job compare the signer with job.worker, and claim_job and cancel_job look for
\* the job's id on a page, where it is no longer.
LEMMA OthersLeaveHeldJob ==
  ASSUME TypeOK, IndexExact, NEW id \in DOMAIN jobs, jobs[id].status = "Processing",
         NEW a \in Accounts, a # jobs[id].worker, Signed(a)
  PROVE  jobs'[id] = jobs[id]
<1>1. jobs \in [DOMAIN jobs -> Job] /\ Unlisted(id)
  BY NotPendingUnlisted DEF TypeOK
<1>2. ASSUME NEW i \in DOMAIN jobs, NEW s \in DOMAIN job_ids,
             ClaimJob(a, i, s) \/ CancelJob(a, i, s)
      PROVE  jobs'[id] = jobs[id]
  <2>1. i # id
    BY <1>1, <1>2 DEF ClaimJob, CancelJob, RemoveJob, Holds, Unlisted
  <2>2. QED
    BY <1>1, <1>2, <2>1 DEF ClaimJob, CancelJob
<1>3. ASSUME NEW i \in DOMAIN jobs, CompleteJob(a, i) PROVE jobs'[id] = jobs[id]
  <2>1. i # id
    BY <1>3 DEF CompleteJob, HeldBy
  <2>2. QED
    BY <1>1, <1>3, <2>1 DEF CompleteJob
<1>4. ASSUME NEW i \in DOMAIN jobs, FailJob(a, i) PROVE jobs'[id] = jobs[id]
  <2>1. i # id
    BY <1>4 DEF FailJob, RetryJob, DeadLetterJob, HeldBy
  <2>2. ASSUME NEW s \in DOMAIN job_ids, NEW d \in RetryDelays, RetryJob(a, i, s, d)
        PROVE  jobs'[id] = jobs[id]
    BY <1>1, <2>1, <2>2 DEF RetryJob
  <2>3. CASE DeadLetterJob(a, i)
    BY <1>1, <2>1, <2>3 DEF DeadLetterJob
  <2>4. QED
    BY <1>4, <2>2, <2>3 DEF FailJob
<1>5. ASSUME NEW d \in StartDelays, EnqueueJob(d) PROVE jobs'[id] = jobs[id]
  <2>1. id # queue.job_count /\ id \in DOMAIN jobs \cup {queue.job_count}
    BY DEF TypeOK, Queue
  <2>2. QED
    BY <1>5, <2>1 DEF EnqueueJob
<1>6. QED
  BY <1>2, <1>3, <1>4, <1>5 DEF Signed, GrowIndex, AdvanceHead, SetQueuePaused

(* Once a job is Processing only its worker moves it on (the fuzz test's     *)
(* second invariant): an instruction of any other account leaves it as it is *)
(* (lib.rs:368-371, 410-413) and, because its id is on no page, no other     *)
(* worker takes it over and not even the authority cancels it (lib.rs:344,   *)
(* 483).                                                                     *)
THEOREM LockAlwaysHeld == Spec => LockHeld
<1>1. Shape /\ IndexExact /\ [Next]_vars => [OnlyHolderMoves /\ LockKeptOrReturned]_vars
  <2> SUFFICES ASSUME Shape, IndexExact, Next,
                      NEW id \in DOMAIN jobs, jobs[id].status = "Processing"
               PROVE  /\ \A a \in Accounts \ {jobs[id].worker} :
                           Signed(a) => jobs'[id] = jobs[id]
                      /\ \/ /\ jobs'[id].status \in {"Processing", "Completed", "Failed"}
                            /\ jobs'[id].worker = jobs[id].worker
                            /\ jobs'[id].attempts = jobs[id].attempts
                         \/ /\ jobs'[id].status = "Pending"
                            /\ jobs'[id].worker = NoWorker
    BY DEF OnlyHolderMoves, LockKeptOrReturned
  <2> DEFINE Goal == \/ /\ jobs'[id].status \in {"Processing", "Completed", "Failed"}
                        /\ jobs'[id].worker = jobs[id].worker
                        /\ jobs'[id].attempts = jobs[id].attempts
                     \/ /\ jobs'[id].status = "Pending"
                        /\ jobs'[id].worker = NoWorker
  <2>1. TypeOK /\ jobs[id] \in Job /\ Unlisted(id)
    BY NotPendingUnlisted DEF Shape, TypeOK
  <2>2. jobs'[id] = jobs[id] => Goal
    OBVIOUS
  <2>3. \A a \in Accounts \ {jobs[id].worker} : Signed(a) => jobs'[id] = jobs[id]
    BY <2>1, OthersLeaveHeldJob
  <2>4. ASSUME NEW a \in Accounts, Signed(a), a = jobs[id].worker PROVE Goal
    <3>1. ASSUME NEW i \in DOMAIN jobs, NEW s \in DOMAIN job_ids,
                 ClaimJob(a, i, s) \/ CancelJob(a, i, s)
          PROVE  Goal
      <4>1. i # id
        BY <2>1, <3>1 DEF ClaimJob, CancelJob, RemoveJob, Holds, Unlisted
      <4>2. jobs'[id] = jobs[id]
        BY <2>1, <3>1, <4>1 DEF ClaimJob, CancelJob, TypeOK
      <4>3. QED
        BY <2>2, <4>2
    <3>2. ASSUME NEW i \in DOMAIN jobs, CompleteJob(a, i) PROVE Goal
      BY <2>1, <3>2 DEF CompleteJob, TypeOK, Job
    <3>3. ASSUME NEW i \in DOMAIN jobs, DeadLetterJob(a, i) PROVE Goal
      BY <2>1, <3>3 DEF DeadLetterJob, TypeOK, Job
    <3>4. ASSUME NEW i \in DOMAIN jobs, NEW s \in DOMAIN job_ids,
                 NEW d \in RetryDelays, RetryJob(a, i, s, d)
          PROVE  Goal
      BY <2>1, <3>4 DEF RetryJob, TypeOK, Job
    <3>5. ASSUME NEW d \in StartDelays, EnqueueJob(d) PROVE Goal
      <4>1. id # queue.job_count /\ id \in DOMAIN jobs \cup {queue.job_count}
        BY <2>1 DEF TypeOK, Queue
      <4>2. jobs'[id] = jobs[id]
        BY <3>5, <4>1 DEF EnqueueJob
      <4>3. QED
        BY <2>2, <4>2
    <3>6. CASE jobs' = jobs
      BY <2>2, <3>6
    <3>7. QED
      BY <2>4, <3>1, <3>2, <3>3, <3>4, <3>5, <3>6
         DEF Signed, FailJob, GrowIndex, AdvanceHead, SetQueuePaused
  <2>5. ASSUME Tick PROVE Goal
    <3>1. jobs'[id] = [jobs[id] EXCEPT !.wait = SaturatingDec(jobs[id].wait)]
      BY <2>5 DEF Tick
    <3>2. QED
      BY <2>1, <3>1 DEF Job
  <2>6. QED
    BY <2>2, <2>3, <2>4, <2>5 DEF Next
<1>2. QED
  BY <1>1, ShapeInvariant, IndexAlwaysExact, PTL DEF Spec, LockHeld

-----------------------------------------------------------------------------
(* Jobs nobody has claimed yet stay in reach of the head.                   *)

Fresh(id) == id \in DOMAIN jobs /\ jobs[id].status = "Pending" /\ jobs[id].attempts = 0

\* A step that leaves head and tail alone, makes no job fresh and takes no fresh
\* job off its page.
LEMMA FreshStay ==
  ASSUME FreshJobsReachable, UNCHANGED head,
         \A x : Fresh(x)' => Fresh(x),
         \A x : Fresh(x)' =>
           \A t \in head.head_index_seq..head.tail_index_seq :
             Holds(job_ids[t], x) => Holds(job_ids'[t], x)
  PROVE  FreshJobsReachable'
BY DEF FreshJobsReachable, Fresh

\* A step that takes one job out of Pending, and touches no other, makes none fresh.
LEMMA OnlyOneMoves ==
  ASSUME NEW id \in DOMAIN jobs, NEW job, job.status # "Pending",
         jobs' = [jobs EXCEPT ![id] = job]
  PROVE  \A x : Fresh(x)' => Fresh(x) /\ x # id
<1>1. /\ DOMAIN jobs' = DOMAIN jobs /\ jobs'[id] = job
      /\ \A x \in DOMAIN jobs : x # id => jobs'[x] = jobs[x]
  OBVIOUS
<1>2. QED
  BY <1>1 DEF Fresh

LEMMA NextFreshReachable ==
  Shape /\ FreshJobsReachable /\ [Next]_vars => FreshJobsReachable'
<1> SUFFICES ASSUME Shape, FreshJobsReachable, [Next]_vars PROVE FreshJobsReachable'
  OBVIOUS
<1> DEFINE h == head.head_index_seq
           t == head.tail_index_seq
<1>1. /\ TypeOK /\ head \in QueueHead /\ h \in Nat /\ t \in Nat /\ h <= t
      /\ DOMAIN jobs \subseteq Nat /\ DOMAIN job_ids = 0..t
  BY DEF Shape, TypeOK, QueueHead, ListWellFormed
<1>w. h..t \subseteq DOMAIN job_ids
  BY <1>1
<1>2. ASSUME NEW a \in Accounts, GrowIndex(a) PROVE FreshJobsReachable'
  <2>1. head' = [head EXCEPT !.tail_index_seq = t + 1] /\ jobs' = jobs
    BY <1>2 DEF GrowIndex
  <2>2. head'.head_index_seq = h /\ head'.tail_index_seq = t + 1
    BY <1>1, <2>1 DEF QueueHead
  <2>3. \A s \in h..t : job_ids'[s] = job_ids[s]
    BY <1>1, <1>2 DEF GrowIndex
  <2>4. QED
    BY <1>1, <2>1, <2>2, <2>3 DEF FreshJobsReachable
<1>3. CASE AdvanceHead
  <2>1. /\ next_seq[h] = h + 1 /\ h < t
        /\ Len(job_ids[h]) = 0
    BY <1>1, <1>3 DEF AdvanceHead, IsEmpty, Shape, TypeOK, ListWellFormed
  <2>2. head'.head_index_seq = h + 1 /\ head'.tail_index_seq = t
    BY <1>1, <1>3, <2>1 DEF AdvanceHead, QueueHead
  <2>3. \A x : ~Holds(job_ids[h], x)
    BY <2>1 DEF Holds
  <2>4. \A x, s : s \in h..t /\ Holds(job_ids[s], x) => s \in (h + 1)..t
    BY <1>1, <2>3
  <2>5. job_ids' = job_ids /\ jobs' = jobs
    BY <1>3 DEF AdvanceHead
  <2>6. QED
    BY <2>2, <2>4, <2>5 DEF FreshJobsReachable
<1>4. ASSUME NEW d \in StartDelays, EnqueueJob(d) PROVE FreshJobsReachable'
  <2> DEFINE id == queue.job_count
  <2>1. /\ id \in Nat /\ t \in DOMAIN job_ids /\ PushJob(t, id)
        /\ head' = [head EXCEPT !.total_jobs = @ + 1]
        /\ \A x \in DOMAIN jobs' : x = id \/ (x \in DOMAIN jobs /\ jobs'[x] = jobs[x])
    BY <1>1, <1>4 DEF EnqueueJob, TypeOK, Queue
  <2>2. head'.head_index_seq = h /\ head'.tail_index_seq = t
    BY <1>1, <2>1 DEF QueueHead
  <2> HIDE DEF id
  <2>3. Holds(job_ids'[t], id)
    BY <1>1, <2>1, PushJobEntries
  <2>4. \A x : \A s \in DOMAIN job_ids : Holds(job_ids[s], x) => Holds(job_ids'[s], x)
    BY <1>1, <2>1, PushJobEntries DEF Holds
  <2>5. ASSUME NEW x \in DOMAIN jobs', jobs'[x].status = "Pending", jobs'[x].attempts = 0
        PROVE  \E s \in h..t : Holds(job_ids'[s], x)
    <3>1. CASE x = id
      BY <1>1, <2>3, <3>1
    <3>2. CASE x # id
      <4>1. \E s \in h..t : Holds(job_ids[s], x)
        BY <2>1, <2>5, <3>2 DEF FreshJobsReachable
      <4>2. QED
        BY <1>1, <2>4, <4>1
    <3>3. QED
      BY <3>1, <3>2
  <2>6. QED
    BY <2>2, <2>5 DEF FreshJobsReachable
<1>5. ASSUME NEW w \in Accounts, NEW id \in DOMAIN jobs, NEW s \in DOMAIN job_ids,
             ClaimJob(w, id, s) \/ CancelJob(w, id, s)
      PROVE  FreshJobsReachable'
  <2>1. RemoveJob(s, id) /\ UNCHANGED head /\ id \in Nat
    BY <1>1, <1>5 DEF ClaimJob, CancelJob
  <2>2. \A x : Fresh(x)' => Fresh(x) /\ x # id
    <3>1. jobs \in [DOMAIN jobs -> Job] /\ jobs[id] \in Job
      BY <1>1 DEF TypeOK
    <3>2. CASE ClaimJob(w, id, s)
      <4> DEFINE job == [jobs[id] EXCEPT !.status = "Processing", !.worker = w,
                                  !.attempts = @ + 1]
      <4>1. jobs' = [jobs EXCEPT ![id] = job]
        BY <3>1, <3>2 DEF ClaimJob
      <4>2. job.status # "Pending"
        BY <3>1 DEF Job
      <4> HIDE DEF job
      <4>3. QED
        BY <4>1, <4>2, OnlyOneMoves
    <3>3. CASE CancelJob(w, id, s)
      <4> DEFINE job == [jobs[id] EXCEPT !.status = "Cancelled"]
      <4>1. jobs' = [jobs EXCEPT ![id] = job]
        BY <3>1, <3>3 DEF CancelJob
      <4>2. job.status # "Pending"
        BY <3>1 DEF Job
      <4> HIDE DEF job
      <4>3. QED
        BY <4>1, <4>2, OnlyOneMoves
    <3>4. QED
      BY <1>5, <3>2, <3>3
  <2>3. ASSUME NEW x, Fresh(x)', NEW u \in h..t, Holds(job_ids[u], x)
        PROVE  Holds(job_ids'[u], x)
    <3>1. x # id /\ u \in DOMAIN job_ids
      BY <1>1, <2>2, <2>3
    <3>2. QED
      BY <1>1, <2>1, <2>3, <3>1, RemoveKeepsOthers
  <2>4. QED
    BY <2>1, <2>2, <2>3, FreshStay
<1>6. ASSUME NEW w \in Accounts, NEW id \in DOMAIN jobs,
             CompleteJob(w, id) \/ DeadLetterJob(w, id)
      PROVE  FreshJobsReachable'
  <2>1. UNCHANGED <<head, job_ids>>
    BY <1>6 DEF CompleteJob, DeadLetterJob
  <2>2. \A x : Fresh(x)' => Fresh(x)
    <3>1. jobs \in [DOMAIN jobs -> Job] /\ jobs[id] \in Job
      BY <1>1 DEF TypeOK
    <3>2. CASE CompleteJob(w, id)
      <4> DEFINE job == [jobs[id] EXCEPT !.status = "Completed"]
      <4>1. jobs' = [jobs EXCEPT ![id] = job]
        BY <3>1, <3>2 DEF CompleteJob
      <4>2. job.status # "Pending"
        BY <3>1 DEF Job
      <4> HIDE DEF job
      <4>3. QED
        BY <4>1, <4>2, OnlyOneMoves
    <3>3. CASE DeadLetterJob(w, id)
      <4> DEFINE job == [jobs[id] EXCEPT !.status = "Failed"]
      <4>1. jobs' = [jobs EXCEPT ![id] = job]
        BY <3>1, <3>3 DEF DeadLetterJob
      <4>2. job.status # "Pending"
        BY <3>1 DEF Job
      <4> HIDE DEF job
      <4>3. QED
        BY <4>1, <4>2, OnlyOneMoves
    <3>4. QED
      BY <1>6, <3>2, <3>3
  <2>3. QED
    BY <2>1, <2>2, FreshStay
<1>7. ASSUME NEW w \in Accounts, NEW id \in DOMAIN jobs, NEW s \in DOMAIN job_ids,
             NEW d \in RetryDelays, RetryJob(w, id, s, d)
      PROVE  FreshJobsReachable'
  <2>1. PushJob(s, id) /\ UNCHANGED head /\ id \in Nat
    BY <1>1, <1>7 DEF RetryJob
  <2>2. jobs[id] \in Job /\ jobs[id].attempts > 0
    BY <1>1, <1>7 DEF RetryJob, HeldBy, Shape, RetryBudget, TypeOK
  <2>3. jobs'[id].attempts > 0 /\ DOMAIN jobs' = DOMAIN jobs
        /\ \A x \in DOMAIN jobs : x # id => jobs'[x] = jobs[x]
    BY <1>1, <1>7, <2>2 DEF RetryJob, TypeOK, Job
  <2>4. \A x : Fresh(x)' => Fresh(x)
    BY <2>3 DEF Fresh
  <2>5. \A x : \A u \in DOMAIN job_ids : Holds(job_ids[u], x) => Holds(job_ids'[u], x)
    BY <1>1, <2>1, PushJobEntries DEF Holds
  <2>6. \A x : \A u \in h..t : Holds(job_ids[u], x) => Holds(job_ids'[u], x)
    <3> HIDE DEF h, t
    <3> QED BY <1>w, <2>5
  <2>7. QED
    BY <2>1, <2>4, <2>6, FreshStay
<1>8. ASSUME NEW a \in Accounts, NEW p \in BOOLEAN, SetQueuePaused(a, p)
      PROVE  FreshJobsReachable'
  BY <1>8 DEF SetQueuePaused, FreshJobsReachable
<1>9. CASE Tick
  <2>1. UNCHANGED <<head, job_ids>>
    BY <1>9 DEF Tick
  <2>2. \A x : Fresh(x)' => Fresh(x)
    BY <1>1, <1>9 DEF Fresh, Tick, TypeOK, Job
  <2>3. QED
    BY <2>1, <2>2, FreshStay
<1>10. CASE UNCHANGED vars
  BY <1>10 DEF vars, FreshJobsReachable
<1>11. QED
  BY <1>2, <1>3, <1>4, <1>5, <1>6, <1>7, <1>8, <1>9, <1>10 DEF Next, Signed, FailJob

(* However the head advances, a job that was never claimed is on a page a    *)
(* walk from QueueHead visits (lib.rs:208-224, state.rs:83-85).              *)
THEOREM FreshAlwaysReachable == Spec => []FreshJobsReachable
<1>1. Init => FreshJobsReachable
  BY DEF Init, InitializeQueue, FreshJobsReachable
<1>2. Shape /\ FreshJobsReachable /\ [Next]_vars => FreshJobsReachable'
  BY NextFreshReachable
<1>3. QED
  BY <1>1, <1>2, ShapeInvariant, PTL DEF Spec

-----------------------------------------------------------------------------
(* The counters.                                                            *)

LEMMA WithStatusFinite ==
  ASSUME TypeOK, NEW S
  PROVE  IsFiniteSet(WithStatus(S))
<1>1. queue.job_count - 1 \in Int
  BY DEF TypeOK, Queue
<1>2. IsFiniteSet(DOMAIN jobs)
  BY <1>1, FS_Interval DEF TypeOK
<1>3. WithStatus(S) \in SUBSET (DOMAIN jobs)
  BY DEF WithStatus
<1>4. QED
  BY <1>2, <1>3, FS_Subset

\* How many jobs have a status in S, after a step that gives one job a status.
LEMMA CountStep ==
  ASSUME TypeOK, NEW id, id \in DOMAIN jobs', OthersKeepStatus(id), NEW S
  PROVE  LET n == Cardinality(WithStatus(S))
         IN  /\ n \in Nat
             /\ id \in WithStatus(S) => n > 0
             /\ Cardinality(WithStatus(S)') =
                  IF jobs'[id].status \in S
                  THEN IF id \in WithStatus(S) THEN n ELSE n + 1
                  ELSE IF id \in WithStatus(S) THEN n - 1 ELSE n
<1> DEFINE W == WithStatus(S)
<1>1. IsFiniteSet(W)
  BY WithStatusFinite
<1>2. Cardinality(W) \in Nat /\ (id \in W => Cardinality(W) > 0)
  BY <1>1, FS_CardinalityType, FS_EmptySet
<1>3. W' = IF jobs'[id].status \in S THEN W \cup {id} ELSE W \ {id}
  BY DEF WithStatus, OthersKeepStatus
<1>4. /\ Cardinality(W \cup {id}) = IF id \in W THEN Cardinality(W) ELSE Cardinality(W) + 1
      /\ Cardinality(W \ {id}) = IF id \in W THEN Cardinality(W) - 1 ELSE Cardinality(W)
  BY <1>1, FS_AddElement, FS_RemoveElement
<1>5. QED
  <2> HIDE DEF W
  <2>1. /\ Cardinality(W) \in Nat
        /\ id \in W => Cardinality(W) > 0
        /\ Cardinality(W') = IF jobs'[id].status \in S
                             THEN IF id \in W THEN Cardinality(W) ELSE Cardinality(W) + 1
                             ELSE IF id \in W THEN Cardinality(W) - 1 ELSE Cardinality(W)
    BY <1>2, <1>3, <1>4
  <2>2. QED
    BY <2>1 DEF W

Live == WithStatus({"Pending", "Processing"})
Done == WithStatus({"Completed"})
Dead == WithStatus({"Failed"})

\* The four counters, as one step of one job changes them.
LEMMA CountersStep ==
  ASSUME TypeOK, CountersExact, NEW id, id \in DOMAIN jobs', OthersKeepStatus(id),
         jobs'[id].status \in Statuses,
         head'.total_jobs = queue'.job_count,
         id \notin DOMAIN jobs =>
           /\ jobs'[id].status = "Pending"
           /\ queue'.pending_count = queue.pending_count + 1
           /\ queue'.processed_count = queue.processed_count
           /\ queue'.failed_count = queue.failed_count,
         id \in DOMAIN jobs =>
           /\ jobs[id].status \in {"Pending", "Processing"}
           /\ queue'.pending_count =
                IF jobs'[id].status \in Terminal
                THEN SaturatingDec(queue.pending_count) ELSE queue.pending_count
           /\ queue'.processed_count =
                IF jobs'[id].status = "Completed"
                THEN queue.processed_count + 1 ELSE queue.processed_count
           /\ queue'.failed_count =
                IF jobs'[id].status = "Failed"
                THEN queue.failed_count + 1 ELSE queue.failed_count
  PROVE  CountersExact'
<1>1. /\ id \in Live <=> id \in DOMAIN jobs
      /\ id \notin Done /\ id \notin Dead
  BY DEF Live, Done, Dead, WithStatus
<1>2. /\ Cardinality(Live) \in Nat
      /\ id \in Live => Cardinality(Live) > 0
      /\ Cardinality(Live') =
           IF jobs'[id].status \in {"Pending", "Processing"}
           THEN IF id \in Live THEN Cardinality(Live) ELSE Cardinality(Live) + 1
           ELSE IF id \in Live THEN Cardinality(Live) - 1 ELSE Cardinality(Live)
  BY CountStep DEF Live
<1>3. Cardinality(Done') = IF jobs'[id].status = "Completed"
                           THEN Cardinality(Done) + 1 ELSE Cardinality(Done)
  BY <1>1, CountStep DEF Done
<1>4. Cardinality(Dead') = IF jobs'[id].status = "Failed"
                           THEN Cardinality(Dead) + 1 ELSE Cardinality(Dead)
  BY <1>1, CountStep DEF Dead
<1>5. /\ queue.pending_count = Cardinality(Live)
      /\ queue.processed_count = Cardinality(Done)
      /\ queue.failed_count = Cardinality(Dead)
  BY DEF CountersExact, Live, Done, Dead
<1>6. queue'.pending_count = Cardinality(Live')
  BY <1>1, <1>2, <1>5 DEF Statuses, Terminal, SaturatingDec
<1>7. queue'.processed_count = Cardinality(Done') /\ queue'.failed_count = Cardinality(Dead')
  BY <1>3, <1>4, <1>5
<1>8. QED
  BY <1>6, <1>7 DEF CountersExact, Live, Done, Dead

\* A step in which no status changes.
LEMMA CountersStay ==
  ASSUME CountersExact, DOMAIN jobs' = DOMAIN jobs,
         \A x \in DOMAIN jobs : jobs'[x].status = jobs[x].status,
         queue'.pending_count = queue.pending_count,
         queue'.processed_count = queue.processed_count,
         queue'.failed_count = queue.failed_count,
         head'.total_jobs = queue'.job_count
  PROVE  CountersExact'
<1>1. \A S : WithStatus(S)' = WithStatus(S)
  BY DEF WithStatus
<1>2. QED
  BY <1>1 DEF CountersExact

LEMMA NextCountersExact == Shape /\ CountersExact /\ [Next]_vars => CountersExact'
<1> SUFFICES ASSUME Shape, CountersExact, [Next]_vars PROVE CountersExact'
  OBVIOUS
<1>1. TypeOK /\ head.total_jobs = queue.job_count
  BY DEF Shape, CountersExact
<1>2. ASSUME NEW a \in Accounts, GrowIndex(a) PROVE CountersExact'
  <2>1. head'.total_jobs = head.total_jobs
    BY <1>1, <1>2 DEF GrowIndex, TypeOK, QueueHead
  <2>2. QED
    BY <1>1, <1>2, <2>1, CountersStay DEF GrowIndex
<1>3. CASE AdvanceHead
  <2>1. head'.total_jobs = head.total_jobs
    BY <1>1, <1>3 DEF AdvanceHead, TypeOK, QueueHead
  <2>2. QED
    BY <1>1, <1>3, <2>1, CountersStay DEF AdvanceHead
<1>4. ASSUME NEW d \in StartDelays, EnqueueJob(d) PROVE CountersExact'
  <2> DEFINE id == queue.job_count
  <2>1. id \in Nat /\ id \notin DOMAIN jobs
    BY <1>1 DEF TypeOK, Queue
  <2>2. id \in DOMAIN jobs' /\ jobs'[id].status = "Pending" /\ OthersKeepStatus(id)
    BY <1>4 DEF EnqueueJob, OthersKeepStatus
  <2>3. /\ queue'.job_count = queue.job_count + 1
        /\ queue'.pending_count = queue.pending_count + 1
        /\ queue'.processed_count = queue.processed_count
        /\ queue'.failed_count = queue.failed_count
    BY <1>1, <1>4 DEF EnqueueJob, TypeOK, Queue
  <2>4. head'.total_jobs = head.total_jobs + 1
    BY <1>1, <1>4 DEF EnqueueJob, TypeOK, QueueHead
  <2>5. jobs'[id].status \in Statuses /\ head'.total_jobs = queue'.job_count
    BY <1>1, <2>2, <2>3, <2>4 DEF Statuses
  <2> HIDE DEF id
  <2>6. QED
    BY <1>1, <2>1, <2>2, <2>3, <2>5, CountersStep
<1>5. ASSUME NEW w \in Accounts, NEW id \in DOMAIN jobs, NEW s \in DOMAIN job_ids,
             ClaimJob(w, id, s)
      PROVE  CountersExact'
  <2>1. jobs[id].status = "Pending" /\ queue' = queue /\ head' = head
    BY <1>5 DEF ClaimJob
  <2>2. /\ id \in DOMAIN jobs' /\ OthersKeepStatus(id)
        /\ jobs'[id].status = "Processing"
    BY <1>1, <1>5 DEF ClaimJob, OthersKeepStatus, TypeOK, Job
  <2>3. QED
    BY <1>1, <2>1, <2>2, CountersStep DEF Statuses, Terminal
<1>6. ASSUME NEW w \in Accounts, NEW id \in DOMAIN jobs, CompleteJob(w, id)
      PROVE  CountersExact'
  <2>1. jobs[id].status = "Processing" /\ head' = head
    BY <1>6 DEF CompleteJob, HeldBy
  <2>2. /\ id \in DOMAIN jobs' /\ OthersKeepStatus(id)
        /\ jobs'[id].status = "Completed"
    BY <1>1, <1>6 DEF CompleteJob, OthersKeepStatus, TypeOK, Job
  <2>3. /\ queue'.job_count = queue.job_count
        /\ queue'.pending_count = SaturatingDec(queue.pending_count)
        /\ queue'.processed_count = queue.processed_count + 1
        /\ queue'.failed_count = queue.failed_count
    BY <1>1, <1>6 DEF CompleteJob, TypeOK, Queue
  <2>4. QED
    BY <1>1, <2>1, <2>2, <2>3, CountersStep DEF Statuses, Terminal
<1>7. ASSUME NEW w \in Accounts, NEW id \in DOMAIN jobs, DeadLetterJob(w, id)
      PROVE  CountersExact'
  <2>1. jobs[id].status = "Processing" /\ head' = head
    BY <1>7 DEF DeadLetterJob, HeldBy
  <2>2. /\ id \in DOMAIN jobs' /\ OthersKeepStatus(id)
        /\ jobs'[id].status = "Failed"
    BY <1>1, <1>7 DEF DeadLetterJob, OthersKeepStatus, TypeOK, Job
  <2>3. /\ queue'.job_count = queue.job_count
        /\ queue'.pending_count = SaturatingDec(queue.pending_count)
        /\ queue'.processed_count = queue.processed_count
        /\ queue'.failed_count = queue.failed_count + 1
    BY <1>1, <1>7 DEF DeadLetterJob, TypeOK, Queue
  <2>4. QED
    BY <1>1, <2>1, <2>2, <2>3, CountersStep DEF Statuses, Terminal
<1>8. ASSUME NEW w \in Accounts, NEW id \in DOMAIN jobs, NEW s \in DOMAIN job_ids,
             NEW d \in RetryDelays, RetryJob(w, id, s, d)
      PROVE  CountersExact'
  <2>1. jobs[id].status = "Processing" /\ queue' = queue /\ head' = head
    BY <1>8 DEF RetryJob, HeldBy
  <2>2. /\ id \in DOMAIN jobs' /\ OthersKeepStatus(id)
        /\ jobs'[id].status = "Pending"
    BY <1>1, <1>8 DEF RetryJob, OthersKeepStatus, TypeOK, Job
  <2>3. QED
    BY <1>1, <2>1, <2>2, CountersStep DEF Statuses, Terminal
<1>9. ASSUME NEW a \in Accounts, NEW id \in DOMAIN jobs, NEW s \in DOMAIN job_ids,
             CancelJob(a, id, s)
      PROVE  CountersExact'
  <2>1. jobs[id].status \in {"Pending", "Processing"} /\ head' = head
    BY <1>9 DEF CancelJob
  <2>2. /\ id \in DOMAIN jobs' /\ OthersKeepStatus(id)
        /\ jobs'[id].status = "Cancelled"
    BY <1>1, <1>9 DEF CancelJob, OthersKeepStatus, TypeOK, Job
  <2>3. /\ queue'.job_count = queue.job_count
        /\ queue'.pending_count = SaturatingDec(queue.pending_count)
        /\ queue'.processed_count = queue.processed_count
        /\ queue'.failed_count = queue.failed_count
    BY <1>1, <1>9 DEF CancelJob, TypeOK, Queue
  <2>4. QED
    BY <1>1, <2>1, <2>2, <2>3, CountersStep DEF Statuses, Terminal
<1>10. ASSUME NEW a \in Accounts, NEW p \in BOOLEAN, SetQueuePaused(a, p)
       PROVE  CountersExact'
  <2>1. /\ queue'.job_count = queue.job_count
        /\ queue'.pending_count = queue.pending_count
        /\ queue'.processed_count = queue.processed_count
        /\ queue'.failed_count = queue.failed_count
    BY <1>1, <1>10 DEF SetQueuePaused, TypeOK, Queue
  <2>2. QED
    BY <1>1, <1>10, <2>1, CountersStay DEF SetQueuePaused
<1>11. CASE Tick
  <2>1. \A x \in DOMAIN jobs : jobs'[x].status = jobs[x].status
    BY <1>1, <1>11 DEF Tick, TypeOK, Job
  <2>2. DOMAIN jobs' = DOMAIN jobs
    BY <1>11 DEF Tick
  <2>3. QED
    BY <1>1, <1>11, <2>1, <2>2, CountersStay DEF Tick
<1>12. CASE UNCHANGED vars
  BY <1>1, <1>12, CountersStay DEF vars
<1>13. QED
  BY <1>2, <1>3, <1>4, <1>5, <1>6, <1>7, <1>8, <1>9, <1>10, <1>11, <1>12
     DEF Next, Signed, FailJob

(* The aggregate counters are exact, so saturating_sub never hides a         *)
(* double decrement and a retry or cancel never leaks a count (lib.rs:381,   *)
(* lib.rs:446, lib.rs:487).                                                  *)
THEOREM CountersAlwaysExact == Spec => []CountersExact
<1>1. Init => CountersExact
  <2> SUFFICES ASSUME Init PROVE CountersExact
    OBVIOUS
  <2>1. jobs = [id \in {} |-> 0] /\ queue.pending_count = 0 /\ queue.processed_count = 0
        /\ queue.failed_count = 0 /\ head.total_jobs = 0 /\ queue.job_count = 0
    BY DEF Init, InitializeQueue
  <2>2. \A S : WithStatus(S) = {}
    BY <2>1 DEF WithStatus
  <2>3. QED
    BY <2>1, <2>2, FS_EmptySet DEF CountersExact
<1>2. Shape /\ CountersExact /\ [Next]_vars => CountersExact'
  BY NextCountersExact
<1>3. QED
  BY <1>1, <1>2, ShapeInvariant, PTL DEF Spec
=============================================================================
