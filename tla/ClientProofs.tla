---------------------------- MODULE ClientProofs ----------------------------
(***************************************************************************)
(* What holds of Client for any requests, limits, number of submissions    *)
(* and chunk size, and for every instance of the program below it.         *)
(***************************************************************************)
EXTENDS Client, JobPoolProofs, FunctionTheorems

-----------------------------------------------------------------------------
(* Clients touch the ledger through the program's instructions only, so     *)
(* everything proved of the program holds below them.                       *)

LEMMA OthersUseProgram ==
  ASSUME Shape, Others
  PROVE  Next
<1> USE DEF Others, AddJobCall, ClaimCall, CompleteCall, FailCall, CancelCall
<1>0. 0 \in DOMAIN job_ids
  BY DEF Shape, TypeOK, QueueHead
<1> USE AccountsAssumption DEF Next, Signed
<1>1. CASE \/ \E d \in StartDelays : EnqueueJob(d)
           \/ GrowIndex(Authority)
           \/ Tick
  BY <1>1
<1>2. ASSUME NEW w \in Accounts, NEW id \in DOMAIN jobs,
             \/ \E s \in DOMAIN job_ids :
                  \/ ClaimJob(w, id, s)
                  \/ \E d \in RetryDelays : RetryJob(w, id, s, d)
                  \/ DeadLetterJob(w, id)
             \/ CompleteJob(w, id)
      PROVE  Next
  BY <1>2 DEF FailJob
<1>3. ASSUME NEW id \in DOMAIN jobs, CancelJob(Authority, id, 0)
      PROVE  Next
  BY <1>3, <1>0
<1>4. QED
  BY <1>1, <1>2, <1>3

LEMMA ClientStepMaps == Shape /\ [ClientNext]_clientVars => [Next]_vars
<1> SUFFICES ASSUME Shape, [ClientNext]_clientVars PROVE [Next]_vars
  OBVIOUS
<1>1. CASE Others
  BY <1>1, OthersUseProgram
<1>2. ASSUME NEW tx \in flight, Land(tx) PROVE Next
  BY <1>2, AccountsAssumption DEF Land, Next, Signed
<1>3. ASSUME NEW tx \in flight, Drop(tx) PROVE UNCHANGED vars
  BY <1>3 DEF Drop
<1>4. ASSUME NEW r \in Requests, Submit(r) \/ AddJob(r) PROVE UNCHANGED vars
  BY <1>4 DEF Submit, AddJob
<1>5. CASE ProducerStep
  BY <1>5 DEF ProducerStep, ReadJobCount, SendEnqueue, Confirmed, Refreshed, RequestFails
<1>6. CASE Reader
  BY <1>6 DEF Reader, FetchQueue, GetQueueStats, GetAllJobs, FetchMultiple, GetJob,
              ListingDone, ReadAgain, Reading
<1>7. CASE UNCHANGED clientVars
  BY <1>7 DEF clientVars
<1>8. QED
  BY <1>1, <1>2, <1>3, <1>4, <1>5, <1>6, <1>7 DEF ClientNext

LEMMA ClientInitShape == ClientInit => Init /\ Shape
  BY InitShape DEF ClientInit

LEMMA ClientShape == ClientSpec => []Shape
<1>1. Shape /\ [ClientNext]_clientVars => Shape'
  BY ClientStepMaps, NextShape
<1>2. QED
  BY <1>1, ClientInitShape, PTL DEF ClientSpec

(* Whatever producers, readers and the other clients do, the ledger sees a   *)
(* behaviour of the program (client/index.ts, app/src/decqueue-core.ts).     *)
THEOREM ClientsUseProgram == ClientSpec => Spec
<1>1. QED
  BY ClientInitShape, ClientStepMaps, ClientShape, PTL DEF ClientSpec, Spec

(* Producers that read job_count early, dashboards and other clients leave   *)
(* the promise of the pool intact (client/index.ts:60-189).                  *)
THEOREM ClientsImplementPool == ClientSpec => ImplementsPool
BY ClientsUseProgram, QueueImplementsPool, PTL

-----------------------------------------------------------------------------
(* Who created which job.                                                   *)

Numbered ==
  /\ \A id \in JobIds : creator[id] <= submission
  /\ pc # "idle" => submission > 0

\* A job that does not exist was created by nobody.
Unclaimed == \A id \in JobIds : id >= queue.job_count => creator[id] = 0

\* A submission has one transaction, which has created no job while it is in flight.
FlightOwned ==
  /\ \A tx \in flight :
       tx.submission <= submission /\ \A id \in JobIds : creator[id] # tx.submission
  /\ \A t, u \in flight : t.submission = u.submission => t = u

\* Before it is sent a submission has neither a transaction nor a job.
Unsent ==
  pc \in {"reading", "addressed"} =>
    /\ \A tx \in flight : tx.submission # submission
    /\ \A id \in JobIds : creator[id] # submission

\* Sent, its transaction names the job that was read; confirmed, it has created it.
InHand ==
  /\ \A tx \in flight : pc = "sent" /\ tx.submission = submission => tx.id = jobId
  /\ answer => pc = "sent" /\ jobId \in JobIds /\ creator[jobId] = submission

Named ==
  success # NoResult =>
    success.submission > 0 /\ success.jobId \in JobIds
      /\ creator[success.jobId] = success.submission

Owned ==
  /\ ClientTypeOK /\ Numbered /\ Unclaimed /\ FlightOwned
  /\ Unsent /\ InHand /\ Named /\ OneJobPerSubmission

LEMMA OwnedInit == ClientInit => Owned
<1> SUFFICES ASSUME ClientInit PROVE Owned
  OBVIOUS
<1> USE SubmissionsAssumption
<1>0. submission \in 0..MaxSubmissions /\ 0 \in 0..MaxSubmissions
  BY DEF ClientInit
<1>a. creator \in [JobIds -> 0..MaxSubmissions]
  BY <1>0 DEF ClientInit
<1>b. success \in [jobId : Nat \cup {NoJob}, submission : 0..MaxSubmissions]
  BY <1>0 DEF ClientInit, NoResult
<1>1. ClientTypeOK
  BY <1>0, <1>a, <1>b DEF ClientInit, ClientTypeOK
<1>2. Numbered /\ Unclaimed /\ FlightOwned /\ Unsent /\ InHand /\ Named /\ OneJobPerSubmission
  BY DEF ClientInit, Numbered, Unclaimed, FlightOwned, Unsent, InHand, Named,
         OneJobPerSubmission
<1>3. QED
  BY <1>1, <1>2 DEF Owned

\* A step of the program outside Client leaves what is said about the client alone.
LEMMA CountGrows == Shape /\ [Next]_vars => queue'.job_count >= queue.job_count
<1> SUFFICES ASSUME Shape, [Next]_vars PROVE queue'.job_count >= queue.job_count
  OBVIOUS
<1>1. queue \in Queue
  BY DEF Shape, TypeOK
<1>2. CASE \E d \in StartDelays : EnqueueJob(d)
  BY <1>1, <1>2 DEF EnqueueJob, Queue
<1>3. CASE queue' = queue
  BY <1>1, <1>3 DEF Queue
<1>4. ASSUME NEW w \in Accounts, NEW id \in DOMAIN jobs, CompleteJob(w, id)
      PROVE  queue'.job_count >= queue.job_count
  BY <1>1, <1>4 DEF CompleteJob, Queue
<1>5. ASSUME NEW w \in Accounts, NEW id \in DOMAIN jobs, DeadLetterJob(w, id)
      PROVE  queue'.job_count >= queue.job_count
  BY <1>1, <1>5 DEF DeadLetterJob, Queue
<1>6. ASSUME NEW a \in Accounts, NEW id \in DOMAIN jobs, NEW s \in DOMAIN job_ids,
             CancelJob(a, id, s)
      PROVE  queue'.job_count >= queue.job_count
  BY <1>1, <1>6 DEF CancelJob, Queue
<1>7. ASSUME NEW a \in Accounts, NEW p \in BOOLEAN, SetQueuePaused(a, p)
      PROVE  queue'.job_count >= queue.job_count
  BY <1>1, <1>7 DEF SetQueuePaused, Queue
<1>8. QED
  BY <1>2, <1>3, <1>4, <1>5, <1>6, <1>7
     DEF Next, Signed, vars, GrowIndex, AdvanceHead, ClaimJob, FailJob, RetryJob, Tick

\* The invariant does not speak of the program beyond job_count, nor of the reader.
LEMMA OwnedStays ==
  ASSUME Shape, Owned, queue'.job_count \in Nat, queue'.job_count >= queue.job_count,
         UNCHANGED <<producerVars, flight, creator>>
  PROVE  Owned'
<1>1. queue.job_count \in Nat
  BY DEF Shape, TypeOK, Queue
<1>2. ClientTypeOK' /\ Numbered' /\ FlightOwned' /\ Unsent' /\ InHand' /\ Named'
        /\ OneJobPerSubmission'
  BY DEF Owned, producerVars, ClientTypeOK, Numbered, FlightOwned, Unsent, InHand, Named,
         OneJobPerSubmission
<1>3. Unclaimed'
  BY <1>1 DEF Owned, Unclaimed, JobIds
<1>4. QED
  BY <1>2, <1>3 DEF Owned

LEMMA SubmitOwned ==
  ASSUME Shape, Owned, NEW r \in Requests, Submit(r) \/ AddJob(r)
  PROVE  Owned'
<1> USE DEF Owned
<1>1. CASE pc' = "idle"
  <2>1. UNCHANGED <<vars, pc, submitting, submission, request, jobId, answer, success, flight,
                  creator>>
          /\ error' \in BOOLEAN
    BY <1>1 DEF Submit, AddJob
  <2>2. QED
    BY <2>1 DEF vars, ClientTypeOK, Numbered, Unclaimed, FlightOwned, Unsent, InHand, Named,
                OneJobPerSubmission
<1>2. CASE pc' # "idle"
  <2>1. /\ pc = "idle" /\ pc' = "reading" /\ submission < MaxSubmissions
        /\ error' = FALSE /\ submission' = submission + 1 /\ request' = r
        /\ UNCHANGED <<vars, jobId, answer, success, flight, creator>>
    BY <1>2 DEF Submit, AddJob
  <2>2. r # NoRequest
    BY <1>2, LimitsAssumption DEF Submit, AddJob, FormAccepts, CoreAccepts, NoRequest
  <2>3. submission \in Nat /\ ~answer
    BY <2>1, SubmissionsAssumption DEF ClientTypeOK
  <2>a. submission' \in 0..MaxSubmissions
    BY <2>1, <2>3, SubmissionsAssumption
  <2>b. error' \in BOOLEAN /\ answer' \in BOOLEAN /\ submitting' \in BOOLEAN
    BY <1>2, <2>1 DEF ClientTypeOK, Submit, AddJob
  <2>4. ClientTypeOK'
    BY <2>1, <2>2, <2>3, <2>a, <2>b DEF ClientTypeOK
  <2>5. /\ \A id \in JobIds : creator[id] \in Nat /\ creator[id] <= submission
        /\ \A tx \in flight : tx.submission \in Nat /\ tx.submission <= submission
    BY SubmissionsAssumption DEF ClientTypeOK, Numbered, FlightOwned, Transaction
  <2>6. Numbered' /\ FlightOwned' /\ Unsent'
    BY <2>1, <2>3, <2>5 DEF Numbered, FlightOwned, Unsent
  <2>7. Unclaimed' /\ InHand' /\ Named' /\ OneJobPerSubmission'
    BY <2>1, <2>3 DEF vars, Unclaimed, InHand, Named, OneJobPerSubmission
  <2>8. QED
    BY <2>4, <2>6, <2>7
<1>3. QED
  BY <1>1, <1>2

LEMMA AbandonOwned ==
  ASSUME Shape, Owned, pc # "idle", Abandon,
         UNCHANGED <<vars, submission, success, flight, creator>>
  PROVE  Owned'
<1> USE DEF Owned, Abandon
<1>1. ClientTypeOK'
  BY DEF ClientTypeOK
<1>2. Numbered' /\ Unclaimed' /\ FlightOwned' /\ Unsent' /\ InHand' /\ Named'
        /\ OneJobPerSubmission'
  BY DEF vars, Numbered, Unclaimed, FlightOwned, Unsent, InHand, Named, OneJobPerSubmission
<1>3. QED
  BY <1>1, <1>2

LEMMA ReadJobCountOwned ==
  ASSUME Shape, Owned, ReadJobCount
  PROVE  Owned'
<1>1. CASE request.delay < 0
  BY <1>1, AbandonOwned DEF ReadJobCount
<1>2. CASE ~(request.delay < 0)
  <2> USE DEF Owned
  <2>1. /\ pc = "reading" /\ pc' = "addressed" /\ jobId' = queue.job_count
        /\ UNCHANGED <<vars, submitting, submission, request, answer, success, error, flight,
                       creator>>
    BY <1>2 DEF ReadJobCount
  <2>2. jobId' \in Nat /\ ~answer
    BY <2>1 DEF Shape, TypeOK, Queue, InHand
  <2>3. ClientTypeOK'
    BY <2>1, <2>2 DEF ClientTypeOK
  <2>4. Numbered' /\ Unclaimed' /\ FlightOwned' /\ Unsent' /\ InHand' /\ Named'
          /\ OneJobPerSubmission'
    BY <2>1, <2>2 DEF vars, Numbered, Unclaimed, FlightOwned, Unsent, InHand, Named,
                      OneJobPerSubmission
  <2>5. QED
    BY <2>3, <2>4
<1>3. QED
  BY <1>1, <1>2

LEMMA SendEnqueueOwned ==
  ASSUME Shape, Owned, SendEnqueue
  PROVE  Owned'
<1> USE DEF Owned
<1> DEFINE tx == [submission |-> submission, id |-> jobId, tail |-> head.tail_index_seq,
                  accepted |-> ProgramAccepts(request)]
<1>1. /\ pc = "addressed" /\ pc' = "sent" /\ flight' = flight \cup {tx}
      /\ UNCHANGED <<vars, submitting, submission, request, jobId, answer, success, error, creator>>
  BY DEF SendEnqueue
<1>2. tx \in Transaction
  <2>1. submission \in Nat \ {0} /\ jobId \in Nat
    BY <1>1, SubmissionsAssumption DEF ClientTypeOK, Numbered
  <2>2. head.tail_index_seq \in Nat
    BY DEF Shape, TypeOK, QueueHead
  <2>3. ProgramAccepts(request) \in BOOLEAN
    BY DEF ProgramAccepts
  <2>4. QED
    BY <2>1, <2>2, <2>3 DEF Transaction
<1>3. tx.submission = submission /\ tx.id = jobId
  OBVIOUS
<1> HIDE DEF tx
<1>4. ~answer
  BY <1>1 DEF InHand
<1>5. ClientTypeOK'
  BY <1>1, <1>2 DEF ClientTypeOK
<1>6. FlightOwned' /\ InHand'
  <2>1. submission \in Nat
    BY SubmissionsAssumption DEF ClientTypeOK
  <2>2. QED
    BY <1>1, <1>3, <1>4, <2>1 DEF FlightOwned, Unsent, InHand
<1>7. Numbered' /\ Unclaimed' /\ Unsent' /\ Named' /\ OneJobPerSubmission'
  BY <1>1 DEF vars, Numbered, Unclaimed, Unsent, Named, OneJobPerSubmission
<1>8. QED
  BY <1>5, <1>6, <1>7

LEMMA ConfirmedOwned ==
  ASSUME Shape, Owned, Confirmed
  PROVE  Owned'
<1> USE DEF Owned
<1>1. /\ pc = "sent" /\ answer /\ pc' = IF submitting THEN "refreshing" ELSE "idle"
      /\ success' = [jobId |-> jobId, submission |-> submission]
      /\ request' = NoRequest /\ jobId' = NoJob /\ answer' = FALSE
      /\ UNCHANGED <<vars, submitting, submission, error, flight, creator>>
  BY DEF Confirmed
<1>2. ClientTypeOK'
  BY <1>1 DEF ClientTypeOK
<1>3. Named'
  BY <1>1 DEF Named, Numbered, InHand
<1>4. Numbered' /\ Unclaimed' /\ FlightOwned' /\ Unsent' /\ InHand' /\ OneJobPerSubmission'
  BY <1>1 DEF vars, Numbered, Unclaimed, FlightOwned, Unsent, InHand, OneJobPerSubmission
<1>5. QED
  BY <1>2, <1>3, <1>4

LEMMA RefreshedOwned ==
  ASSUME Shape, Owned, Refreshed
  PROVE  Owned'
<1> USE DEF Owned
<1>1. /\ pc = "refreshing" /\ pc' = "idle" /\ submitting' = FALSE
      /\ UNCHANGED <<vars, submission, request, jobId, answer, success, error, flight, creator>>
  BY DEF Refreshed
<1>2. ClientTypeOK'
  BY <1>1 DEF ClientTypeOK
<1>3. Numbered' /\ Unclaimed' /\ FlightOwned' /\ Unsent' /\ InHand' /\ Named'
        /\ OneJobPerSubmission'
  BY <1>1 DEF vars, Numbered, Unclaimed, FlightOwned, Unsent, InHand, Named,
              OneJobPerSubmission
<1>4. QED
  BY <1>2, <1>3

\* The job a transaction creates is a new one, so it takes no other job's owner away.
LEMMA LandOwned ==
  ASSUME Shape, Owned, NEW tx \in flight, Land(tx)
  PROVE  Owned'
<1> USE DEF Owned
<1> DEFINE new == queue.job_count
<1>1. /\ tx.id = new /\ flight' = flight \ {tx}
      /\ creator' = [creator EXCEPT ![new] = tx.submission]
      /\ answer' = (answer \/ (pc = "sent" /\ tx.submission = submission))
      /\ UNCHANGED <<pc, submitting, submission, request, jobId, success, error>>
  BY DEF Land, Landed
<1>2. new \in JobIds /\ new \in Nat /\ queue'.job_count = new + 1
  <2>1. queue \in Queue /\ MaxJobs \in Nat
    BY MaxJobsAssumption DEF Shape, TypeOK
  <2>2. PICK d \in StartDelays : EnqueueJob(d)
    BY DEF Land
  <2>3. queue.job_count \in Nat /\ queue.job_count < MaxJobs
    BY <2>1, <2>2 DEF EnqueueJob, Queue
  <2>4. queue'.job_count = queue.job_count + 1
    BY <2>1, <2>2 DEF EnqueueJob, Queue
  <2>5. QED
    BY <2>1, <2>3, <2>4 DEF JobIds
<1>3. /\ tx.submission \in Nat \ {0} /\ tx.submission <= submission
      /\ submission \in 0..MaxSubmissions
      /\ creator \in [JobIds -> 0..MaxSubmissions]
  BY DEF ClientTypeOK, FlightOwned, Transaction
<1>4. \A id \in JobIds : creator'[id] = IF id = new THEN tx.submission ELSE creator[id]
  BY <1>1, <1>2, <1>3
<1>5. creator[new] = 0
  BY <1>2, <1>3 DEF Unclaimed
<1> HIDE DEF new
<1>6. ClientTypeOK'
  <2>1. tx.submission \in 0..MaxSubmissions
    BY <1>3, SubmissionsAssumption
  <2>2. creator' \in [JobIds -> 0..MaxSubmissions]
    BY <1>1, <1>3, <2>1
  <2>3. answer' \in BOOLEAN /\ (pc \in {"idle", "refreshing"} => ~answer')
    BY <1>1 DEF ClientTypeOK
  <2>4. QED
    BY <1>1, <2>2, <2>3 DEF ClientTypeOK
<1>7. Numbered'
  BY <1>1, <1>3, <1>4 DEF Numbered
<1>8. Unclaimed'
  BY <1>2, <1>4 DEF Unclaimed, JobIds, new
<1>9. FlightOwned'
  BY <1>1, <1>4 DEF FlightOwned
<1>10. Unsent'
  BY <1>1, <1>4 DEF Unsent
<1>11. InHand'
  <2>1. \A u \in flight' : pc' = "sent" /\ u.submission = submission' => u.id = jobId'
    BY <1>1 DEF InHand
  <2>2. CASE answer
    BY <1>1, <1>3, <1>4, <1>5, <2>1, <2>2 DEF InHand, Numbered
  <2>3. CASE ~answer
    <3>1. answer' => pc = "sent" /\ tx.submission = submission
      BY <1>1, <2>3
    <3>2. answer' => jobId = new
      BY <1>1, <3>1 DEF InHand
    <3>3. QED
      BY <1>1, <1>2, <1>4, <2>1, <3>1, <3>2 DEF InHand
  <2>4. QED
    BY <2>2, <2>3
<1>12. Named'
  BY <1>1, <1>4, <1>5 DEF Named
<1>13. OneJobPerSubmission'
  BY <1>1, <1>4 DEF OneJobPerSubmission, FlightOwned
<1>14. QED
  BY <1>6, <1>7, <1>8, <1>9, <1>10, <1>11, <1>12, <1>13

LEMMA OwnedNext == Shape /\ Shape' /\ Owned /\ [ClientNext]_clientVars => Owned'
<1> SUFFICES ASSUME Shape, Shape', Owned, [ClientNext]_clientVars PROVE Owned'
  OBVIOUS
<1>0. queue.job_count \in Nat /\ queue'.job_count \in Nat
  BY DEF Shape, TypeOK, Queue
<1>1. queue'.job_count >= queue.job_count
  BY ClientStepMaps, CountGrows
<1>2. ASSUME NEW r \in Requests, Submit(r) \/ AddJob(r) PROVE Owned'
  BY <1>2, SubmitOwned
<1>3. CASE ReadJobCount
  BY <1>3, ReadJobCountOwned
<1>4. CASE SendEnqueue
  BY <1>4, SendEnqueueOwned
<1>5. CASE Confirmed
  BY <1>5, ConfirmedOwned
<1>6. CASE RequestFails
  BY <1>6, AbandonOwned DEF RequestFails
<1>7. ASSUME NEW tx \in flight, Land(tx) PROVE Owned'
  BY <1>7, LandOwned
<1>8. ASSUME NEW tx \in flight, Drop(tx) PROVE Owned'
  <2>1. flight' \subseteq flight /\ UNCHANGED <<vars, producerVars, creator>>
    BY <1>8 DEF Drop
  <2>2. QED
    BY <2>1 DEF Owned, vars, producerVars, ClientTypeOK, Numbered, Unclaimed, FlightOwned,
                Unsent, InHand, Named, OneJobPerSubmission
<1>9. CASE Others
  BY <1>0, <1>1, <1>9, OwnedStays DEF Others
<1>10. CASE Reader
  <2>1. UNCHANGED <<producerVars, flight, creator>>
    BY <1>10 DEF Reader, FetchQueue, GetQueueStats, GetAllJobs, FetchMultiple, GetJob,
                 ListingDone, ReadAgain, Reading
  <2>2. QED
    BY <1>0, <1>1, <2>1, OwnedStays
<1>11. CASE UNCHANGED clientVars
  BY <1>0, <1>1, <1>11, OwnedStays DEF clientVars
<1>12. CASE Refreshed
  BY <1>12, RefreshedOwned
<1>13. QED
  BY <1>2, <1>3, <1>4, <1>5, <1>6, <1>7, <1>8, <1>9, <1>10, <1>11, <1>12
     DEF ClientNext, ProducerStep

LEMMA ClientOwned == ClientSpec => []Owned
<1>1. QED
  BY OwnedInit, OwnedNext, ClientShape, PTL DEF ClientSpec

(* The variables of the producer always have their types, and it is busy     *)
(* exactly while it has a request (CreateJobForm.tsx:136-161).               *)
THEOREM ClientTypeCorrect == ClientSpec => []ClientTypeOK
<1>1. Owned => ClientTypeOK
  BY DEF Owned
<1>2. QED
  BY <1>1, ClientOwned, PTL

(* The job a success names is the one its submission created, for any number *)
(* of submissions and of other producers (decqueue-core.ts:146-164).         *)
THEOREM ResultAlwaysItsJob == ClientSpec => []ResultIsItsJob
<1>1. Owned => ResultIsItsJob
  BY DEF Owned, Named, ResultIsItsJob
<1>2. QED
  BY <1>1, ClientOwned, PTL

(* A submission creates at most one job, whatever is lost, late or retried   *)
(* by hand (CreateJobForm.tsx:140-161).                                      *)
THEOREM OneJobAlways == ClientSpec => []OneJobPerSubmission
<1>1. Owned => OneJobPerSubmission
  BY DEF Owned
<1>2. QED
  BY <1>1, ClientOwned, PTL

-----------------------------------------------------------------------------
(* The reader: counters and listing, read at different times.               *)

\* The program settles jobs for good, and its counters move in step.
LEMMA ProgramMovesOn ==
  ASSUME Shape, [Next]_vars
  PROVE  /\ queue'.job_count >= queue.job_count
         /\ queue'.processed_count >= queue.processed_count
         /\ queue'.failed_count >= queue.failed_count
         /\ queue'.pending_count + queue.job_count <= queue.pending_count + queue'.job_count
         /\ \A id \in DOMAIN jobs : /\ id \in DOMAIN jobs'
                                    /\ jobs[id].status \in Terminal =>
                                         jobs'[id].status = jobs[id].status
<1> DEFINE Goal ==
      /\ queue'.job_count >= queue.job_count
      /\ queue'.processed_count >= queue.processed_count
      /\ queue'.failed_count >= queue.failed_count
      /\ queue'.pending_count + queue.job_count <= queue.pending_count + queue'.job_count
      /\ \A id \in DOMAIN jobs : /\ id \in DOMAIN jobs'
                                 /\ jobs[id].status \in Terminal =>
                                      jobs'[id].status = jobs[id].status
<1>1. /\ queue \in Queue /\ jobs \in [0..(queue.job_count - 1) -> Job]
      /\ SaturatingDec(queue.pending_count) <= queue.pending_count
      /\ SaturatingDec(queue.pending_count) \in Nat
  BY DEF Shape, TypeOK, Queue, SaturatingDec
<1>2. ASSUME UNCHANGED queue, UNCHANGED jobs PROVE Goal
  BY <1>1, <1>2 DEF Queue
<1>3. ASSUME NEW a \in Accounts, GrowIndex(a) PROVE Goal
  BY <1>2, <1>3 DEF GrowIndex
<1>4. CASE AdvanceHead
  BY <1>2, <1>4 DEF AdvanceHead
<1>5. ASSUME NEW d \in StartDelays, EnqueueJob(d) PROVE Goal
  <2>1. queue.job_count \notin DOMAIN jobs
    BY <1>1 DEF Queue
  <2>2. QED
    BY <1>1, <1>5, <2>1 DEF EnqueueJob, Queue
\* A step that moves on one job, which had not settled.
<1>a. ASSUME NEW id \in DOMAIN jobs, NEW job, jobs' = [jobs EXCEPT ![id] = job],
             jobs[id].status \notin Terminal
      PROVE  \A i \in DOMAIN jobs : /\ i \in DOMAIN jobs'
                                    /\ jobs[i].status \in Terminal =>
                                         jobs'[i].status = jobs[i].status
  BY <1>1, <1>a
<1>6. ASSUME NEW w \in Accounts, NEW id \in DOMAIN jobs, NEW s \in DOMAIN job_ids,
             ClaimJob(w, id, s)
      PROVE  Goal
  <2>1. PICK job : jobs' = [jobs EXCEPT ![id] = job]
    BY <1>6 DEF ClaimJob
  <2>2. jobs[id].status \notin Terminal /\ UNCHANGED queue
    BY <1>6 DEF ClaimJob, Terminal
  <2>3. QED
    BY <1>1, <1>a, <2>1, <2>2 DEF Queue
<1>7. ASSUME NEW w \in Accounts, NEW id \in DOMAIN jobs, CompleteJob(w, id) PROVE Goal
  <2>1. PICK job : jobs' = [jobs EXCEPT ![id] = job]
    BY <1>7 DEF CompleteJob
  <2>2. jobs[id].status \notin Terminal
    BY <1>7 DEF CompleteJob, HeldBy, Terminal
  <2>3. QED
    BY <1>1, <1>7, <1>a, <2>1, <2>2 DEF Queue, CompleteJob
<1>8. ASSUME NEW w \in Accounts, NEW id \in DOMAIN jobs, FailJob(w, id) PROVE Goal
  <2>1. PICK job : jobs' = [jobs EXCEPT ![id] = job]
    BY <1>8 DEF FailJob, RetryJob, DeadLetterJob
  <2>2. jobs[id].status \notin Terminal
    BY <1>8 DEF FailJob, RetryJob, DeadLetterJob, HeldBy, Terminal
  <2>3. /\ queue'.job_count = queue.job_count
        /\ queue'.processed_count = queue.processed_count
        /\ queue'.failed_count >= queue.failed_count
        /\ queue'.pending_count <= queue.pending_count /\ queue'.pending_count \in Nat
    <3>1. CASE UNCHANGED queue
      BY <1>1, <3>1 DEF Queue
    <3>2. CASE DeadLetterJob(w, id)
      BY <1>1, <3>2 DEF Queue, DeadLetterJob
    <3>3. QED
      BY <1>8, <3>1, <3>2 DEF FailJob, RetryJob
  <2>4. QED
    BY <1>1, <1>a, <2>1, <2>2, <2>3 DEF Queue
<1>9. ASSUME NEW a \in Accounts, NEW id \in DOMAIN jobs, NEW s \in DOMAIN job_ids,
             CancelJob(a, id, s)
      PROVE  Goal
  <2>1. PICK job : jobs' = [jobs EXCEPT ![id] = job]
    BY <1>9 DEF CancelJob
  <2>2. jobs[id].status \notin Terminal
    BY <1>9 DEF CancelJob, Terminal
  <2>3. QED
    BY <1>1, <1>9, <1>a, <2>1, <2>2 DEF Queue, CancelJob
<1>10. ASSUME NEW a \in Accounts, NEW p \in BOOLEAN, SetQueuePaused(a, p) PROVE Goal
  BY <1>1, <1>10 DEF SetQueuePaused, Queue
<1>11. CASE Tick
  BY <1>1, <1>11 DEF Tick, Queue, Job
<1>12. CASE UNCHANGED vars
  BY <1>2, <1>12 DEF vars
<1>13. QED
  BY <1>3, <1>4, <1>5, <1>6, <1>7, <1>8, <1>9, <1>10, <1>11, <1>12 DEF Next, Signed

StatsType == [total : Nat, pending : Nat, completed : Nat, failed : Nat]
Unsettled == {"Pending", "Processing"}
Seen == Statuses \cup {"missing"}

ReaderType ==
  /\ DOMAIN reader = {"kind", "step", "total", "stats", "seen"}
  /\ reader.total \in Nat /\ reader.seen \in Seq(Seen)
  /\ reader.kind = "dashboard" => reader.seen \in Seq(Statuses)

\* What the list will show with a status in S if nothing changes any more and no
\* request fails.
Viewed(S) ==
  {id \in 0..(reader.total - 1) :
     IF id < Len(reader.seen) THEN reader.seen[id + 1] \in S ELSE jobs[id].status \in S}

MayView(S) == Viewed(S \cup {"missing"})

\* The counters were read before the number of jobs: both have grown since.
CountedBefore ==
  reader.step = "counted" =>
    /\ reader.stats \in StatsType /\ reader.seen = <<>>
    /\ reader.stats.completed <= queue.processed_count
    /\ reader.stats.failed <= queue.failed_count
    /\ queue.pending_count + reader.stats.total <= reader.stats.pending + queue.job_count

InOrder ==
  reader.step \in {"listing", "done"} =>
    /\ reader.stats \in StatsType
    /\ reader.total <= queue.job_count /\ Len(reader.seen) <= reader.total
    /\ reader.step = "done" => Len(reader.seen) = reader.total
    /\ reader.stats.completed <= Cardinality(MayView({"Completed"}))
    /\ reader.stats.failed <= Cardinality(MayView({"Failed"}))
    /\ reader.stats.completed + reader.stats.failed
         <= Cardinality(MayView({"Completed", "Failed"}))
    /\ Cardinality(Viewed(Unsettled)) + reader.stats.total <= reader.stats.pending + reader.total

ReaderInv == ReaderType /\ CountedBefore /\ InOrder

LEMMA ReaderFields ==
  ASSUME ReaderType
  PROVE  /\ reader.total \in Nat /\ reader.seen \in Seq(Seen) /\ Len(reader.seen) \in Nat
         /\ IsFiniteSet(0..(reader.total - 1))
<1>1. reader.total \in Nat /\ reader.seen \in Seq(Seen)
  BY DEF ReaderType
<1>2. reader.total - 1 \in Int /\ 0 \in Int
  BY <1>1
<1>3. IsFiniteSet(0..(reader.total - 1))
  BY <1>2, FS_Interval
<1>4. Len(reader.seen) \in Nat
  BY <1>1, LenProperties
<1>5. QED
  BY <1>1, <1>3, <1>4

LEMMA ViewedFinite ==
  ASSUME ReaderType, NEW S
  PROVE  IsFiniteSet(Viewed(S)) /\ Cardinality(Viewed(S)) \in Nat
<1>1. IsFiniteSet(0..(reader.total - 1))
  BY ReaderFields
<1>2. Viewed(S) \in SUBSET (0..(reader.total - 1))
  BY DEF Viewed
<1>3. QED
  BY <1>1, <1>2, FS_Subset, FS_CardinalityType

\* Jobs that completed and jobs that failed are different jobs.
LEMMA SettledAdd ==
  ASSUME Shape, CountersExact
  PROVE  Cardinality(WithStatus({"Completed", "Failed"}))
           = queue.processed_count + queue.failed_count
<1> DEFINE C == WithStatus({"Completed"})
           F == WithStatus({"Failed"})
<1>1. IsFiniteSet(DOMAIN jobs)
  <2>1. DOMAIN jobs = 0..(queue.job_count - 1) /\ queue.job_count \in Nat
    BY DEF Shape, TypeOK, Queue
  <2>2. queue.job_count - 1 \in Int /\ 0 \in Int
    BY <2>1
  <2>3. IsFiniteSet(0..(queue.job_count - 1))
    BY <2>2, FS_Interval
  <2>4. QED
    BY <2>1, <2>3
<1>2. C \in SUBSET (DOMAIN jobs) /\ F \in SUBSET (DOMAIN jobs)
  BY DEF WithStatus
<1>3. IsFiniteSet(C) /\ IsFiniteSet(F)
  BY <1>1, <1>2, FS_Subset
<1>4. C \cap F = {} /\ WithStatus({"Completed", "Failed"}) = C \cup F
  BY DEF WithStatus
<1>5. Cardinality(C) = queue.processed_count /\ Cardinality(F) = queue.failed_count
  BY DEF CountersExact
<1>6. queue.processed_count \in Nat /\ queue.failed_count \in Nat
  BY DEF Shape, TypeOK, Queue
<1> HIDE DEF C, F
<1>7. Cardinality(C \cup F) = Cardinality(C) + Cardinality(F) - Cardinality(C \cap F)
  BY <1>3, FS_Union
<1>8. Cardinality(C \cap F) = 0
  BY <1>4, FS_EmptySet
<1>9. Cardinality(C \cup F) = queue.processed_count + queue.failed_count
  BY <1>5, <1>6, <1>7, <1>8
<1>10. QED
  BY <1>4, <1>9

\* Before anything is seen, the list is the ledger's and agrees with its counters.
LEMMA ViewedAtFirst ==
  ASSUME Shape, CountersExact, UNCHANGED vars, reader'.seen = <<>>,
         reader'.total = queue.job_count
  PROVE  /\ Cardinality(MayView({"Completed"})') = queue.processed_count
         /\ Cardinality(MayView({"Failed"})') = queue.failed_count
         /\ Cardinality(MayView({"Completed", "Failed"})')
              = queue.processed_count + queue.failed_count
         /\ Cardinality(Viewed(Unsettled)') = queue.pending_count
<1>1. /\ DOMAIN jobs = 0..(queue.job_count - 1) /\ jobs' = jobs
      /\ \A id \in 0..(queue.job_count - 1) : ~(id < Len(reader'.seen))
      /\ \A id \in DOMAIN jobs : jobs[id].status \in Statuses
  BY DEF Shape, TypeOK, Job, vars
<1>2. \A S : Viewed(S)' = WithStatus(S)
  BY <1>1 DEF Viewed, WithStatus
<1>3. \A S : WithStatus(S \cup {"missing"}) = WithStatus(S)
  BY <1>1 DEF WithStatus, Statuses, Terminal
<1>4. \A S : MayView(S)' = WithStatus(S)
  BY <1>2, <1>3 DEF MayView
<1>5. QED
  BY <1>2, <1>4, SettledAdd DEF CountersExact, Unsettled

\* A list stays in order when it loses none of the settled jobs and gains no live one.
LEMMA StaysInOrder ==
  ASSUME ReaderType, InOrder, reader.step \in {"listing", "done"},
         queue.job_count \in Nat, queue'.job_count \in Nat,
         queue'.job_count >= queue.job_count,
         reader'.step = reader.step, reader'.total = reader.total,
         reader'.stats = reader.stats, Len(reader'.seen) <= reader.total,
         reader.step = "done" => Len(reader'.seen) = reader.total,
         \A S \in SUBSET Terminal : MayView(S) \subseteq MayView(S)',
         Viewed(Unsettled)' \subseteq Viewed(Unsettled)
  PROVE  InOrder'
<1>1. /\ reader.stats \in StatsType
      /\ reader.total <= queue.job_count
      /\ reader.stats.completed <= Cardinality(MayView({"Completed"}))
      /\ reader.stats.failed <= Cardinality(MayView({"Failed"}))
      /\ reader.stats.completed + reader.stats.failed
           <= Cardinality(MayView({"Completed", "Failed"}))
      /\ Cardinality(Viewed(Unsettled)) + reader.stats.total <= reader.stats.pending + reader.total
  BY DEF InOrder
<1>2. /\ reader.stats.completed \in Nat /\ reader.stats.failed \in Nat
      /\ reader.stats.total \in Nat /\ reader.stats.pending \in Nat
  BY <1>1 DEF StatsType
<1>3. IsFiniteSet(0..(reader.total - 1)) /\ reader.total \in Nat
  BY ReaderFields
<1>4. ASSUME NEW S
      PROVE  /\ IsFiniteSet(Viewed(S)) /\ Cardinality(Viewed(S)) \in Nat
             /\ IsFiniteSet(Viewed(S)') /\ Cardinality(Viewed(S)') \in Nat
  <2>1. Viewed(S) \in SUBSET (0..(reader.total - 1)) /\ Viewed(S)' \in SUBSET (0..(reader.total - 1))
    BY DEF Viewed
  <2>2. IsFiniteSet(Viewed(S)) /\ IsFiniteSet(Viewed(S)')
    BY <1>3, <2>1, FS_Subset
  <2>3. QED
    BY <2>2, FS_CardinalityType
<1>5. ASSUME NEW S \in SUBSET Terminal
      PROVE  /\ Cardinality(MayView(S)) \in Nat /\ Cardinality(MayView(S)') \in Nat
             /\ Cardinality(MayView(S)) <= Cardinality(MayView(S)')
  <2>1. IsFiniteSet(MayView(S)') /\ Cardinality(MayView(S)) \in Nat /\ Cardinality(MayView(S)') \in Nat
    BY <1>4 DEF MayView
  <2>2. MayView(S) \in SUBSET (MayView(S)')
    OBVIOUS
  <2>3. QED
    BY <2>1, <2>2, FS_Subset
<1>6. Cardinality(Viewed(Unsettled)') <= Cardinality(Viewed(Unsettled))
  BY <1>4, FS_Subset
<1>a. \A a, b, c \in Nat : a <= b /\ b <= c => a <= c
  OBVIOUS
<1>b. \A a, b, t, q, n \in Nat : b <= a /\ a + t <= q + n => b + t <= q + n
  OBVIOUS
<1>7. /\ {"Completed"} \in SUBSET Terminal /\ {"Failed"} \in SUBSET Terminal
      /\ {"Completed", "Failed"} \in SUBSET Terminal
  BY DEF Terminal
<1>8. /\ reader.stats.completed <= Cardinality(MayView({"Completed"})')
      /\ reader.stats.failed <= Cardinality(MayView({"Failed"})')
  BY <1>1, <1>2, <1>5, <1>7, <1>a
<1>9. reader.stats.completed + reader.stats.failed
        <= Cardinality(MayView({"Completed", "Failed"})')
  <2>1. reader.stats.completed + reader.stats.failed \in Nat
    BY <1>2
  <2>2. QED
    BY <1>1, <1>5, <1>7, <1>a, <2>1
<1>10. Cardinality(Viewed(Unsettled)') + reader.stats.total <= reader.stats.pending + reader.total
  BY <1>1, <1>2, <1>3, <1>4, <1>6, <1>b
<1>11. reader.total <= queue'.job_count
  BY <1>1, <1>3, <1>a
<1>12. QED
  BY <1>1, <1>8, <1>9, <1>10, <1>11 DEF InOrder

\* Whatever others do, what has settled is listed as settled.
LEMMA LedgerInOrder ==
  ASSUME Shape, Shape', [Next]_vars, ReaderInv, UNCHANGED reader
  PROVE  ReaderInv'
<1>0. ReaderType /\ CountedBefore /\ InOrder /\ ReaderType'
  BY DEF ReaderInv, ReaderType
<1>1. /\ queue'.job_count >= queue.job_count
      /\ queue'.processed_count >= queue.processed_count
      /\ queue'.failed_count >= queue.failed_count
      /\ queue'.pending_count + queue.job_count <= queue.pending_count + queue'.job_count
      /\ \A id \in DOMAIN jobs : /\ id \in DOMAIN jobs'
                                 /\ jobs[id].status \in Terminal =>
                                      jobs'[id].status = jobs[id].status
  BY ProgramMovesOn
<1>2. queue \in Queue /\ queue' \in Queue /\ DOMAIN jobs = 0..(queue.job_count - 1)
      /\ \A id \in DOMAIN jobs : jobs[id].status \in Statuses
  BY DEF Shape, TypeOK, Job
<1>3. CountedBefore'
  <2>1. SUFFICES ASSUME reader.step = "counted" PROVE CountedBefore'
    BY DEF CountedBefore
  <2>2. /\ reader.stats \in StatsType /\ reader.seen = <<>>
        /\ reader.stats.completed <= queue.processed_count
        /\ reader.stats.failed <= queue.failed_count
        /\ queue.pending_count + reader.stats.total <= reader.stats.pending + queue.job_count
    BY <1>0, <2>1 DEF CountedBefore
  <2>3. /\ reader.stats.completed \in Nat /\ reader.stats.failed \in Nat
        /\ reader.stats.total \in Nat /\ reader.stats.pending \in Nat
    BY <2>2 DEF StatsType
  <2>4. /\ queue.job_count \in Nat /\ queue.processed_count \in Nat
        /\ queue.failed_count \in Nat /\ queue.pending_count \in Nat
        /\ queue'.job_count \in Nat /\ queue'.processed_count \in Nat
        /\ queue'.failed_count \in Nat /\ queue'.pending_count \in Nat
    BY <1>2 DEF Queue
  <2>a. \A a, b, c \in Nat : a <= b /\ c >= b => a <= c
    OBVIOUS
  <2>b. \A p, n, t, q, m, k \in Nat : p + t <= q + n /\ m + n <= p + k => m + t <= q + k
    OBVIOUS
  <2>c. reader.stats.completed <= queue'.processed_count
    BY <1>1, <2>2, <2>3, <2>4, <2>a
  <2>d. reader.stats.failed <= queue'.failed_count
    BY <1>1, <2>2, <2>3, <2>4, <2>a
  <2>5. /\ reader.stats.completed <= queue'.processed_count
        /\ reader.stats.failed <= queue'.failed_count
        /\ queue'.pending_count + reader.stats.total <= reader.stats.pending + queue'.job_count
    <3> DEFINE pending == queue.pending_count
               count == queue.job_count
               before == reader.stats.pending
               total == reader.stats.total
    <3>1. /\ pending \in Nat /\ count \in Nat /\ before \in Nat /\ total \in Nat
          /\ pending' \in Nat /\ count' \in Nat
          /\ pending + total <= before + count /\ pending' + count <= pending + count'
      BY <1>1, <2>2, <2>3, <2>4
    <3> HIDE DEF pending, count, before, total
    <3>2. pending' + total <= before + count'
      BY <2>b, <3>1
    <3>3. QED
      BY <2>c, <2>d, <3>2 DEF pending, count, before, total
  <2>6. QED
    BY <2>2, <2>5 DEF CountedBefore
<1>4. InOrder'
  <2>1. SUFFICES ASSUME reader.step \in {"listing", "done"} PROVE InOrder'
    BY DEF InOrder
  <2>2. /\ reader.total <= queue.job_count /\ Len(reader.seen) <= reader.total
        /\ reader.step = "done" => Len(reader.seen) = reader.total
        /\ queue.job_count \in Nat /\ queue'.job_count \in Nat
    BY <1>0, <1>2, <2>1 DEF InOrder, Queue
  <2>3. 0..(reader.total - 1) \subseteq DOMAIN jobs
    BY <1>0, <1>2, <2>2 DEF ReaderType
  <2>4. ASSUME NEW S \in SUBSET Terminal PROVE MayView(S) \subseteq MayView(S)'
    <3>1. \A id \in 0..(reader.total - 1) :
            jobs[id].status \in S \cup {"missing"} => jobs'[id].status \in S \cup {"missing"}
      BY <1>1, <1>2, <2>3 DEF Statuses, Terminal
    <3>2. QED
      BY <3>1 DEF MayView, Viewed
  <2>5. Viewed(Unsettled)' \subseteq Viewed(Unsettled)
    <3>1. \A id \in 0..(reader.total - 1) : jobs'[id].status \in Unsettled => jobs[id].status \in Unsettled
      BY <1>1, <1>2, <2>3 DEF Unsettled, Statuses, Terminal
    <3>2. QED
      BY <3>1 DEF Viewed
  <2>6. QED
    BY <1>0, <1>1, <2>1, <2>2, <2>4, <2>5, StaysInOrder
<1>5. QED
  BY <1>0, <1>3, <1>4 DEF ReaderInv

\* Counters and number of jobs of one read agree, because the counters are exact.
LEMMA FetchInOrder ==
  ASSUME Shape, CountersExact, ReaderInv, FetchQueue
  PROVE  ReaderInv'
<1>1. /\ reader' = [kind |-> "dashboard", step |-> "listing", total |-> queue.job_count,
                    stats |-> Stats, seen |-> <<>>]
      /\ UNCHANGED vars
  BY DEF FetchQueue, Reading
<1>2. /\ DOMAIN reader' = {"kind", "step", "total", "stats", "seen"}
      /\ reader'.step = "listing" /\ reader'.total = queue.job_count
      /\ reader'.stats = Stats /\ reader'.seen = <<>>
  BY <1>1
<1>3. /\ queue' = queue /\ queue.job_count \in Nat /\ queue.pending_count \in Nat
      /\ queue.processed_count \in Nat /\ queue.failed_count \in Nat
  BY <1>1 DEF vars, Shape, TypeOK, Queue
<1>4. /\ Stats \in StatsType
      /\ Stats.total = queue.job_count /\ Stats.pending = queue.pending_count
      /\ Stats.completed = queue.processed_count /\ Stats.failed = queue.failed_count
  BY <1>3 DEF Stats, StatsType
<1>5. /\ Cardinality(MayView({"Completed"})') = Stats.completed
      /\ Cardinality(MayView({"Failed"})') = Stats.failed
      /\ Cardinality(MayView({"Completed", "Failed"})') = Stats.completed + Stats.failed
      /\ Cardinality(Viewed(Unsettled)') = Stats.pending
  BY <1>1, <1>2, <1>4, ViewedAtFirst
<1>6. <<>> \in Seq(Statuses) /\ <<>> \in Seq(Seen)
  OBVIOUS
<1>7. ReaderType' /\ CountedBefore'
  BY <1>2, <1>3, <1>6 DEF ReaderType, CountedBefore
<1>8. InOrder'
  <2>1. Len(reader'.seen) = 0
    BY <1>2
  <2>2. /\ Stats.completed <= Cardinality(MayView({"Completed"})')
        /\ Stats.failed <= Cardinality(MayView({"Failed"})')
        /\ Stats.completed + Stats.failed <= Cardinality(MayView({"Completed", "Failed"})')
        /\ Cardinality(Viewed(Unsettled)') + Stats.total <= Stats.pending + queue.job_count
    BY <1>3, <1>4, <1>5
  <2>3. QED
    BY <1>2, <1>3, <1>4, <2>1, <2>2 DEF InOrder
<1>9. QED
  BY <1>7, <1>8 DEF ReaderInv

LEMMA CountInOrder ==
  ASSUME Shape, ReaderInv, GetQueueStats
  PROVE  ReaderInv'
<1>1. /\ reader' = [Idle EXCEPT !.kind = "sdk", !.step = "counted", !.stats = Stats]
      /\ UNCHANGED vars
  BY DEF GetQueueStats, Reading
<1>2. /\ DOMAIN reader' = {"kind", "step", "total", "stats", "seen"}
      /\ reader'.step = "counted" /\ reader'.total = 0
      /\ reader'.stats = Stats /\ reader'.seen = <<>>
  BY <1>1 DEF Idle
<1>3. /\ queue' = queue /\ queue.job_count \in Nat /\ queue.pending_count \in Nat
      /\ queue.processed_count \in Nat /\ queue.failed_count \in Nat
  BY <1>1 DEF vars, Shape, TypeOK, Queue
<1>4. /\ Stats \in StatsType
      /\ Stats.total = queue.job_count /\ Stats.pending = queue.pending_count
      /\ Stats.completed = queue.processed_count /\ Stats.failed = queue.failed_count
  BY <1>3 DEF Stats, StatsType
<1>a. <<>> \in Seq(Statuses) /\ <<>> \in Seq(Seen)
  OBVIOUS
<1>5. ReaderType' /\ CountedBefore' /\ InOrder'
  BY <1>2, <1>3, <1>4, <1>a DEF ReaderType, CountedBefore, InOrder
<1>6. QED
  BY <1>5 DEF ReaderInv

\* The second read of job_count finds at least the jobs that were counted.
LEMMA RecountInOrder ==
  ASSUME Shape, CountersExact, ReaderInv, GetAllJobs
  PROVE  ReaderInv'
<1>1. /\ reader.step = "counted"
      /\ reader' = [reader EXCEPT !.step = "listing", !.total = queue.job_count]
      /\ UNCHANGED vars
  BY DEF GetAllJobs, Reading
<1>2. /\ reader.stats \in StatsType /\ reader.seen = <<>>
      /\ reader.stats.completed <= queue.processed_count
      /\ reader.stats.failed <= queue.failed_count
      /\ queue.pending_count + reader.stats.total <= reader.stats.pending + queue.job_count
  BY <1>1 DEF ReaderInv, CountedBefore
<1>3. /\ DOMAIN reader' = {"kind", "step", "total", "stats", "seen"}
      /\ reader'.step = "listing" /\ reader'.total = queue.job_count
      /\ reader'.stats = reader.stats /\ reader'.seen = <<>>
  BY <1>1, <1>2 DEF ReaderInv, ReaderType
<1>4. queue' = queue /\ queue.job_count \in Nat
  BY <1>1 DEF vars, Shape, TypeOK, Queue
<1>5. /\ Cardinality(MayView({"Completed"})') = queue.processed_count
      /\ Cardinality(MayView({"Failed"})') = queue.failed_count
      /\ Cardinality(MayView({"Completed", "Failed"})')
           = queue.processed_count + queue.failed_count
      /\ Cardinality(Viewed(Unsettled)') = queue.pending_count
  BY <1>1, <1>3, ViewedAtFirst
<1>6. /\ reader.stats.completed \in Nat /\ reader.stats.failed \in Nat
      /\ queue.processed_count \in Nat /\ queue.failed_count \in Nat
  BY <1>2 DEF StatsType, Shape, TypeOK, Queue
<1>a. <<>> \in Seq(Statuses) /\ <<>> \in Seq(Seen)
  OBVIOUS
<1>7. ReaderType' /\ CountedBefore'
  BY <1>3, <1>4, <1>a DEF ReaderType, CountedBefore
<1>8. InOrder'
  <2>1. Len(reader'.seen) = 0
    BY <1>3
  <2>2. reader.stats.completed + reader.stats.failed
          <= queue.processed_count + queue.failed_count
    BY <1>2, <1>6
  <2>3. QED
    BY <1>2, <1>3, <1>4, <1>5, <2>1, <2>2 DEF InOrder
<1>9. QED
  BY <1>7, <1>8 DEF ReaderInv

\* Jobs fetched now are listed as the ledger has them now: none is missing.
LEMMA FetchMultipleInOrder ==
  ASSUME Shape, ReaderInv, FetchMultiple
  PROVE  ReaderInv'
<1> DEFINE from == Len(reader.seen)
           upto == IF from + ChunkSize < reader.total THEN from + ChunkSize ELSE reader.total
           m == upto - from
           status(i) == Found(from + i - 1)
           more == [i \in 1..m |-> status(i)]
<1>1. /\ reader.kind = "dashboard" /\ reader.step = "listing" /\ from < reader.total
      /\ reader' = [reader EXCEPT !.seen = @ \o more]
      /\ UNCHANGED vars
  BY DEF FetchMultiple, Listing, Reading
<1>2. /\ reader.total \in Nat /\ reader.seen \in Seq(Statuses) /\ from \in Nat
      /\ DOMAIN reader = {"kind", "step", "total", "stats", "seen"}
  BY <1>1, ReaderFields DEF ReaderInv, ReaderType
<1>3. ReaderType /\ InOrder /\ reader.total <= queue.job_count
  BY <1>1 DEF ReaderInv, InOrder
<1>4. /\ queue' = queue /\ jobs' = jobs /\ queue.job_count \in Nat
      /\ DOMAIN jobs = 0..(queue.job_count - 1)
      /\ \A id \in DOMAIN jobs : jobs[id].status \in Statuses
  BY <1>1 DEF vars, Shape, TypeOK, Queue, Job
<1>5. m \in Nat /\ from + m <= reader.total
  BY <1>1, <1>2, LimitsAssumption
<1>6. \A i \in 1..m : /\ from + i - 1 \in DOMAIN jobs
                       /\ status(i) = jobs[from + i - 1].status /\ status(i) \in Statuses
  <2> SUFFICES ASSUME NEW i \in 1..m PROVE from + i - 1 \in DOMAIN jobs
    BY <1>4 DEF Found
  <2> HIDE DEF m, from
  <2> QED
    BY <1>2, <1>3, <1>4, <1>5
<1>7. more \in Seq(Statuses) /\ Len(more) = m /\ \A i \in 1..m : more[i] = status(i)
  <2> HIDE DEF m, status
  <2>1. more \in Seq(Statuses)
    BY <1>5, <1>6, IsASeq
  <2>2. QED
    BY <1>5, <2>1
<1>8. /\ DOMAIN reader' = {"kind", "step", "total", "stats", "seen"}
      /\ reader'.kind = "dashboard" /\ reader'.step = "listing"
      /\ reader'.total = reader.total /\ reader'.stats = reader.stats /\ reader'.seen = reader.seen \o more
  <2> HIDE DEF more
  <2> QED
    BY <1>1, <1>2
<1> HIDE DEF more, status, m
<1>9. /\ reader'.seen \in Seq(Statuses) /\ Len(reader'.seen) = from + m
      /\ \A i \in 1..(from + m) :
           reader'.seen[i] = IF i <= from THEN reader.seen[i] ELSE more[i - from]
  <2> DEFINE both == reader.seen \o more
  <2>1. Len(reader.seen) = from /\ Len(more) = m
    BY <1>7
  <2>2. /\ both \in Seq(Statuses) /\ Len(both) = Len(reader.seen) + Len(more)
        /\ \A i \in 1..(Len(reader.seen) + Len(more)) :
             both[i] = IF i <= Len(reader.seen) THEN reader.seen[i]
                       ELSE more[i - Len(reader.seen)]
    <3>1. reader.seen \in Seq(Statuses) /\ more \in Seq(Statuses)
      BY <1>2, <1>7
    <3>2. QED
      BY <3>1, ConcatProperties, Zenon
  <2> HIDE DEF both, from
  <2>3. /\ both \in Seq(Statuses) /\ Len(both) = from + m
        /\ \A i \in 1..(from + m) : both[i] = IF i <= from THEN reader.seen[i] ELSE more[i - from]
    BY <2>1, <2>2
  <2>4. reader'.seen = both
    BY <1>8 DEF both
  <2>5. QED
    BY <2>3, <2>4
<1> HIDE DEF from
<1>10. \A id \in 0..(from + m - 1) :
         reader'.seen[id + 1] = IF id < from THEN reader.seen[id + 1] ELSE jobs[id].status
  <2> TAKE id \in 0..(from + m - 1)
  <2>1. id + 1 \in 1..(from + m) /\ (id + 1 <= from <=> id < from)
    BY <1>2, <1>5
  <2>2. CASE id < from
    BY <1>9, <2>1, <2>2
  <2>3. CASE ~(id < from)
    <3>1. /\ (id + 1) - from \in 1..m
          /\ from + ((id + 1) - from) - 1 = id
      BY <1>2, <1>5, <2>3
    <3>2. more[(id + 1) - from] = jobs[id].status
      BY <1>6, <1>7, <3>1
    <3>3. QED
      BY <1>9, <2>1, <2>3, <3>2
  <2>4. QED
    BY <2>2, <2>3
<1>11. ASSUME NEW S PROVE Viewed(S)' = Viewed(S)
  <2>1. /\ reader'.total = reader.total /\ Len(reader'.seen) = from + m
        /\ Len(reader.seen) = from
    BY <1>8, <1>9 DEF from
  <2>2. ASSUME NEW id \in 0..(reader.total - 1)
        PROVE  (IF id < from + m THEN reader'.seen[id + 1] \in S ELSE jobs[id].status \in S)
                 <=> (IF id < from THEN reader.seen[id + 1] \in S ELSE jobs[id].status \in S)
    <3>1. id < from => id < from + m
      BY <1>2, <1>5
    <3>2. id < from + m => id \in 0..(from + m - 1)
      BY <1>2, <1>5
    <3>3. QED
      BY <1>10, <3>1, <3>2
  <2>3. QED
    BY <1>4, <2>1, <2>2 DEF Viewed
<1>12. ReaderType' /\ CountedBefore'
  <2>1. Seq(Statuses) \subseteq Seq(Seen)
    BY DEF Seen
  <2>2. QED
    BY <1>2, <1>8, <1>9, <2>1 DEF ReaderType, CountedBefore
<1>13. InOrder'
  <2>1. \A S : MayView(S)' = MayView(S)
    BY <1>11 DEF MayView
  <2>2. Len(reader'.seen) <= reader.total
    BY <1>5, <1>9
  <2>3. Viewed(Unsettled)' = Viewed(Unsettled)
    BY <1>11
  <2>4. queue'.job_count >= queue.job_count
    BY <1>4
  <2>5. QED
    BY <1>1, <1>3, <1>4, <1>8, <2>1, <2>2, <2>3, <2>4, StaysInOrder
<1>14. QED
  BY <1>12, <1>13 DEF ReaderInv

\* A job whose request fails leaves a hole, which may be any job.
LEMMA GetJobInOrder ==
  ASSUME Shape, ReaderInv, GetJob
  PROVE  ReaderInv'
<1> DEFINE from == Len(reader.seen)
<1>1. PICK found \in {Found(from), "missing"} :
        reader' = [reader EXCEPT !.seen = Append(@, found)]
  BY DEF GetJob
<1>2. /\ reader.kind = "sdk" /\ reader.step = "listing" /\ from < reader.total
      /\ UNCHANGED vars
  BY DEF GetJob, Listing, Reading
<1>3. /\ reader.total \in Nat /\ reader.seen \in Seq(Seen) /\ from \in Nat
      /\ DOMAIN reader = {"kind", "step", "total", "stats", "seen"}
  BY ReaderFields DEF ReaderInv, ReaderType
<1>4. ReaderType /\ InOrder /\ reader.total <= queue.job_count
  BY <1>2 DEF ReaderInv, InOrder
<1>5. /\ queue' = queue /\ jobs' = jobs /\ queue.job_count \in Nat
      /\ DOMAIN jobs = 0..(queue.job_count - 1)
      /\ \A id \in DOMAIN jobs : jobs[id].status \in Statuses
  BY <1>2 DEF vars, Shape, TypeOK, Queue, Job
<1>6. from \in DOMAIN jobs
  BY <1>2, <1>3, <1>4, <1>5
<1>7. found \in {jobs[from].status, "missing"} /\ found \in Seen
  BY <1>5, <1>6 DEF Found, Seen
<1>8. /\ DOMAIN reader' = {"kind", "step", "total", "stats", "seen"}
      /\ reader'.kind = "sdk" /\ reader'.step = "listing"
      /\ reader'.total = reader.total /\ reader'.stats = reader.stats
      /\ reader'.seen = Append(reader.seen, found)
  BY <1>1, <1>2, <1>3
<1>9. /\ reader'.seen \in Seq(Seen) /\ Len(reader'.seen) = from + 1
      /\ \A i \in 1..from : reader'.seen[i] = reader.seen[i]
      /\ reader'.seen[from + 1] = found
  BY <1>3, <1>7, <1>8, AppendProperties
<1> HIDE DEF from
<1>10. Len(reader.seen) = from
  BY DEF from
<1>11. ASSUME NEW S, NEW id \in 0..(reader.total - 1)
       PROVE  id \in Viewed(S)' <=>
                IF id < from THEN reader.seen[id + 1] \in S
                ELSE IF id = from THEN found \in S ELSE jobs[id].status \in S
  <2>1. CASE id < from
    <3>1. id + 1 \in 1..from /\ id < from + 1
      BY <1>3, <2>1
    <3>2. QED
      BY <1>8, <1>9, <2>1, <3>1 DEF Viewed
  <2>2. CASE id = from
    <3>1. id < from + 1 /\ ~(id < from)
      BY <1>3, <2>2
    <3>2. QED
      BY <1>8, <1>9, <2>2, <3>1 DEF Viewed
  <2>3. CASE id > from
    <3>1. ~(id < from + 1) /\ ~(id < from) /\ id # from
      BY <1>3, <2>3
    <3>2. QED
      BY <1>5, <1>8, <1>9, <2>3, <3>1 DEF Viewed
  <2>4. QED
    BY <1>3, <2>1, <2>2, <2>3
<1>12. ASSUME NEW S, NEW id \in 0..(reader.total - 1)
       PROVE  id \in Viewed(S) <=>
                IF id < from THEN reader.seen[id + 1] \in S ELSE jobs[id].status \in S
  BY <1>10 DEF Viewed
<1>13. ASSUME NEW S \in SUBSET Terminal PROVE MayView(S) \subseteq MayView(S)'
  <2>1. \A id \in MayView(S) : id \in 0..(reader.total - 1)
    BY DEF MayView, Viewed
  <2>2. ASSUME NEW id \in MayView(S) PROVE id \in MayView(S)'
    <3>1. id = from => (jobs[from].status \in S \cup {"missing"} => found \in S \cup {"missing"})
            /\ ~(id < from)
      BY <1>3, <1>7
    <3>2. QED
      BY <1>11, <1>12, <2>1, <3>1 DEF MayView
  <2>3. QED
    BY <2>2
<1>14. Viewed(Unsettled)' \subseteq Viewed(Unsettled)
  <2>1. \A id \in Viewed(Unsettled)' : id \in 0..(reader.total - 1)
    BY <1>8 DEF Viewed
  <2>2. ASSUME NEW id \in Viewed(Unsettled)' PROVE id \in Viewed(Unsettled)
    <3>1. id = from => (found \in Unsettled => jobs[from].status \in Unsettled) /\ ~(id < from)
      BY <1>3, <1>7 DEF Unsettled
    <3>2. QED
      BY <1>11, <1>12, <2>1, <2>2, <3>1
  <2>3. QED
    BY <2>2
<1>15. ReaderType' /\ CountedBefore'
  BY <1>3, <1>8, <1>9 DEF ReaderType, CountedBefore
<1>16. InOrder'
  <2>1. Len(reader'.seen) <= reader.total /\ queue'.job_count >= queue.job_count
    BY <1>2, <1>3, <1>5, <1>9, <1>10
  <2>2. QED
    BY <1>2, <1>4, <1>5, <1>8, <1>13, <1>14, <2>1, StaysInOrder
<1>17. QED
  BY <1>15, <1>16 DEF ReaderInv

LEMMA ListingDoneInOrder ==
  ASSUME Shape, ReaderInv, ListingDone
  PROVE  ReaderInv'
<1>1. /\ reader.step = "listing" /\ Len(reader.seen) = reader.total
      /\ reader' = [reader EXCEPT !.step = "done"] /\ UNCHANGED vars
  BY DEF ListingDone, Reading
<1>2. /\ DOMAIN reader' = {"kind", "step", "total", "stats", "seen"}
      /\ reader'.kind = reader.kind
      /\ reader'.step = "done" /\ reader'.total = reader.total
      /\ reader'.stats = reader.stats /\ reader'.seen = reader.seen
  BY <1>1 DEF ReaderInv, ReaderType
<1>3. queue' = queue /\ jobs' = jobs
  BY <1>1 DEF vars
<1>4. \A S : Viewed(S)' = Viewed(S)
  BY <1>2, <1>3 DEF Viewed
<1>5. ReaderType' /\ CountedBefore'
  BY <1>2 DEF ReaderInv, ReaderType, CountedBefore
<1>6. /\ Viewed(Unsettled)' = Viewed(Unsettled)
      /\ \A S : MayView(S)' = MayView(S)
  BY <1>4 DEF MayView
<1>7. InOrder'
  BY <1>1, <1>2, <1>3, <1>6 DEF ReaderInv, InOrder
<1>8. QED
  BY <1>5, <1>7 DEF ReaderInv

LEMMA ReadAgainInOrder == ReaderInv /\ ReadAgain => ReaderInv'
<1> SUFFICES ASSUME ReaderInv, ReadAgain PROVE ReaderInv'
  OBVIOUS
<1>1. <<>> \in Seq(Statuses) /\ <<>> \in Seq(Seen)
  OBVIOUS
<1>2. QED
  BY <1>1 DEF ReadAgain, Idle, ReaderInv, ReaderType, CountedBefore, InOrder

LEMMA ReaderInit == ClientInit => ReaderInv
<1> SUFFICES ASSUME ClientInit PROVE ReaderInv
  OBVIOUS
<1>1. /\ DOMAIN reader = {"kind", "step", "total", "stats", "seen"}
      /\ reader.step \in {"away", "idle"} /\ reader.total = 0 /\ reader.seen = <<>>
  BY DEF ClientInit, Idle
<1>2. <<>> \in Seq(Statuses) /\ <<>> \in Seq(Seen)
  OBVIOUS
<1>3. QED
  BY <1>1, <1>2 DEF ReaderInv, ReaderType, CountedBefore, InOrder

LEMMA ReaderNext ==
  Shape /\ Shape' /\ CountersExact /\ ReaderInv /\ [ClientNext]_clientVars => ReaderInv'
<1> SUFFICES ASSUME Shape, Shape', CountersExact, ReaderInv, [ClientNext]_clientVars
             PROVE  ReaderInv'
  OBVIOUS
<1>1. CASE UNCHANGED reader
  BY <1>1, ClientStepMaps, LedgerInOrder
<1>2. CASE FetchQueue
  BY <1>2, FetchInOrder
<1>3. CASE GetQueueStats
  BY <1>3, CountInOrder
<1>4. CASE GetAllJobs
  BY <1>4, RecountInOrder
<1>5. CASE FetchMultiple
  BY <1>5, FetchMultipleInOrder
<1>a. CASE GetJob
  BY <1>a, GetJobInOrder
<1>6. CASE ListingDone
  BY <1>6, ListingDoneInOrder
<1>7. CASE ReadAgain
  BY <1>7, ReadAgainInOrder
<1>8. QED
  BY <1>1, <1>2, <1>3, <1>4, <1>5, <1>6, <1>7, <1>a
     DEF ClientNext, clientVars, Submit, AddJob, ProducerStep, ReadJobCount, SendEnqueue,
         Confirmed, Refreshed, RequestFails, Land, Landed, Drop, Others, Reader

LEMMA ClientReader == ClientSpec => []ReaderInv
<1>1. ClientSpec => []CountersExact
  BY ClientsUseProgram, CountersAlwaysExact
<1>2. QED
  BY <1>1, ReaderInit, ReaderNext, ClientShape, PTL DEF ClientSpec

\* When the listing is complete, what is viewed is what is listed.
LEMMA ListedIsViewed ==
  ASSUME ReaderType, Len(reader.seen) = reader.total, NEW S
  PROVE  ListedIn(S) = Cardinality(Viewed(S))
<1> DEFINE L == {i \in 1..Len(reader.seen) : reader.seen[i] \in S}
           f == [i \in L |-> i - 1]
<1>1. reader.total \in Nat
  BY ReaderFields
<1>2. Viewed(S) = {id \in 0..(reader.total - 1) : reader.seen[id + 1] \in S}
  BY <1>1 DEF Viewed
<1>3. f \in [L -> Viewed(S)]
  BY <1>1, <1>2
<1>4. \A i, j \in L : f[i] = f[j] => i = j
  BY <1>1
<1>5. \A id \in Viewed(S) : \E i \in L : f[i] = id
  <2> TAKE id \in Viewed(S)
  <2>1. id + 1 \in L /\ f[id + 1] = id
    BY <1>1, <1>2
  <2>2. QED
    BY <2>1
<1> HIDE DEF f, L
<1>6. f \in Bijection(L, Viewed(S))
  BY <1>3, <1>4, <1>5, Fun_IsBij
<1>7. IsFiniteSet(L)
  <2>1. IsFiniteSet(1..Len(reader.seen))
    BY <1>1, FS_Interval
  <2>2. L \in SUBSET (1..Len(reader.seen))
    BY DEF L
  <2>3. QED
    BY <2>1, <2>2, FS_Subset
<1>8. Cardinality(Viewed(S)) = Cardinality(L)
  BY <1>6, <1>7, FS_Bijection DEF ExistsBijection
<1>9. QED
  BY <1>8 DEF ListedIn, L

(* Counters and listing are in order for any number of jobs, any chunk size, *)
(* whatever lands between the requests and whichever of the SDK's fail: what *)
(* is counted as settled is listed as settled or is a hole (solana.ts:276-336,*)
(* index.ts:210-287).                                                        *)
THEOREM SnapshotAlwaysInOrder == ClientSpec => []SnapshotInOrder
<1>1. ASSUME ReaderInv PROVE SnapshotInOrder
  <2>1. SUFFICES ASSUME reader.step = "done" PROVE SnapshotInOrder
    BY DEF SnapshotInOrder
  <2>2. /\ reader.total \in Nat /\ reader.seen \in Seq(Seen)
        /\ Len(reader.seen) = reader.total /\ ReaderType
    BY <1>1, <2>1, ReaderFields DEF ReaderInv, InOrder
  <2>3. \A S : ListedIn(S) = Cardinality(Viewed(S))
    BY <2>2, ListedIsViewed
  <2>4. \A S : MayBe(S) = Cardinality(MayView(S)) /\ MayBe(S) \in Nat
    BY <2>2, <2>3, ViewedFinite DEF MayBe, MayView
  <2>5. ASSUME reader.kind = "dashboard" PROVE ListedIn({"missing"}) = 0
    <3>1. reader.seen \in Seq(Statuses)
      BY <2>2, <2>5 DEF ReaderType
    <3>2. \A i \in 1..Len(reader.seen) : reader.seen[i] \in Statuses
      BY <3>1, LenProperties
    <3>3. {i \in 1..Len(reader.seen) : reader.seen[i] \in {"missing"}} = {}
      BY <3>2 DEF Statuses, Terminal
    <3>4. QED
      BY <3>3, FS_EmptySet DEF ListedIn
  <2>6. /\ reader.stats \in StatsType
        /\ reader.stats.completed <= MayBe({"Completed"})
        /\ reader.stats.failed <= MayBe({"Failed"})
        /\ reader.stats.completed + reader.stats.failed <= MayBe({"Completed", "Failed"})
        /\ ListedIn(Unsettled) + reader.stats.total <= reader.stats.pending + reader.total
    BY <1>1, <2>1, <2>3, <2>4 DEF ReaderInv, InOrder
  <2>7. ListedIn(Unsettled) \in Nat
    BY <2>2, <2>3, ViewedFinite
  <2>8. /\ reader.stats.completed \in Nat /\ reader.stats.failed \in Nat
        /\ reader.stats.total \in Nat /\ reader.stats.pending \in Nat
    BY <2>6 DEF StatsType
  <2>9. /\ MayBe({"Completed"}) >= reader.stats.completed
        /\ MayBe({"Failed"}) >= reader.stats.failed
        /\ MayBe({"Completed", "Failed"}) >= reader.stats.completed + reader.stats.failed
    <3>1. \A a, b \in Nat : a <= b => b >= a
      OBVIOUS
    <3>2. reader.stats.completed + reader.stats.failed \in Nat
      BY <2>8
    <3>3. QED
      BY <2>4, <2>6, <2>8, <3>1, <3>2
  <2>10. ListedIn(Unsettled) <= reader.stats.pending + reader.total - reader.stats.total
    <3>1. \A u, t, p, n \in Nat : u + t <= p + n => u <= p + n - t
      OBVIOUS
    <3>2. ListedIn(Unsettled) + reader.stats.total <= reader.stats.pending + reader.total
      BY <2>6
    <3>3. QED
      BY <2>2, <2>7, <2>8, <3>1, <3>2
  <2>11. QED
    BY <2>5, <2>9, <2>10 DEF SnapshotInOrder, Unsettled
<1>2. QED
  BY <1>1, ClientReader, PTL

=============================================================================
