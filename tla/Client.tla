------------------------------- MODULE Client -------------------------------
(***************************************************************************)
(* Programs that use the queue through the SDK (client/index.ts,           *)
(* shared/decqueue-core.ts) or the dashboard (app/src/decqueue-core.ts,    *)
(* app/src/solana.ts, app/src/CreateJobForm.tsx): one producer, one reader *)
(* and everybody else, against the queue on the ledger.                    *)
(*                                                                         *)
(* The producer reads job_count, derives the address of its job from it,   *)
(* lets Anchor look up the tail page, and only then sends.  The reader     *)
(* takes the counters with one request and the jobs with later ones.       *)
(* Whatever other clients do appears as their transactions.                *)
(***************************************************************************)
EXTENDS DecQueue

CONSTANTS
  Requests,        \* what users ask for
  MaxTypeLength,   \* MAX_JOB_TYPE_LENGTH, characters here and bytes on chain
  MaxPayload,      \* MAX_JOB_PAYLOAD_BYTES
  MaxSubmissions,  \* bound: how many requests are submitted
  ChunkSize        \* jobs fetched with one request by the dashboard

\* chars, bytes: length of the trimmed job type, in UTF-16 units and in UTF-8.
Request == [connected : BOOLEAN, chars : Nat, bytes : Nat, payload : Nat, delay : Int]

ASSUME RequestsAssumption == Requests \subseteq Request
ASSUME LimitsAssumption == {MaxTypeLength, MaxPayload, ChunkSize} \subseteq Nat \ {0}
ASSUME SubmissionsAssumption == MaxSubmissions \in Nat

VARIABLES
  pc,          \* where the submission stands
  submitting,  \* the form is locked
  submission,  \* its number
  request,     \* what is asked for
  jobId,       \* the job_count it has read
  answer,      \* its transaction was seen confirmed
  success,     \* the last result: the job it names and the submission it is of
  error,       \* an error is shown
  flight,      \* transactions that may still land
  creator,     \* the submission that created each job, 0 for anybody else's
  reader       \* what the reader has read

producerVars == <<pc, submitting, submission, request, jobId, answer, success, error>>
clientVars == <<vars, producerVars, flight, creator, reader>>

NoJob == -1
NoRequest == [connected |-> FALSE, chars |-> 0, bytes |-> 0, payload |-> 0, delay |-> 0]
NoResult == [jobId |-> NoJob, submission |-> 0]
Transaction == [submission : Nat \ {0}, id : Nat, tail : Nat, accepted : BOOLEAN]

Idle == [kind |-> "none", step |-> "idle", total |-> 0, stats |-> <<>>, seen |-> <<>>]

\* bound: the reader changes nothing anybody else sees, and to it the producer is
\* one of the others, so that a behaviour has one or the other.
ClientInit ==
  /\ Init
  /\ \/ submission = 0 /\ reader = [Idle EXCEPT !.step = "away"]
     \/ submission = MaxSubmissions /\ reader = Idle
  /\ pc = "idle" /\ submitting = FALSE /\ request = NoRequest
  /\ jobId = NoJob /\ answer = FALSE /\ success = NoResult /\ error = FALSE
  /\ flight = {}
  /\ creator = [id \in JobIds |-> 0]

-----------------------------------------------------------------------------
(* The producer.                                                            *)

\* What the form, enqueueJobWithProgram and the program ask of a request.
FormAccepts(r) ==
  /\ r.connected
  /\ r.chars \in 1..MaxTypeLength
  /\ r.payload <= MaxPayload
  /\ r.delay >= 0

CoreAccepts(r) == r.chars \in 1..MaxTypeLength /\ r.payload <= MaxPayload

ProgramAccepts(r) == r.payload <= MaxPayload /\ r.bytes \in 1..MaxTypeLength

\* handleSubmit; the result of an earlier submission stays on display.
Submit(r) ==
  /\ pc = "idle" /\ submission < MaxSubmissions
  /\ IF FormAccepts(r)
     THEN /\ pc' = "reading" /\ submitting' = TRUE /\ error' = FALSE
          /\ submission' = submission + 1 /\ request' = r
     ELSE error' = TRUE /\ UNCHANGED <<pc, submitting, submission, request>>
  /\ UNCHANGED <<vars, jobId, answer, success, flight, creator, reader>>

\* addJob of the SDK has neither a wallet to ask for nor a look at the delay.
AddJob(r) ==
  /\ pc = "idle" /\ submission < MaxSubmissions
  /\ IF CoreAccepts(r)
     THEN /\ pc' = "reading" /\ error' = FALSE
          /\ submission' = submission + 1 /\ request' = r
     ELSE error' = TRUE /\ UNCHANGED <<pc, submission, request>>
  /\ UNCHANGED <<vars, submitting, jobId, answer, success, flight, creator, reader>>

Abandon ==
  /\ pc' = "idle" /\ submitting' = FALSE /\ error' = TRUE
  /\ request' = NoRequest /\ jobId' = NoJob /\ answer' = FALSE

\* Variant: the error of buildExecuteAfter is not passed on.
ReadJobCountSilently ==
  /\ pc = "reading"
  /\ pc' = "addressed"
  /\ jobId' = IF request.delay < 0 THEN jobId ELSE queue.job_count
  /\ UNCHANGED <<vars, submitting, submission, request, answer, success, error, flight,
                 creator, reader>>

\* The address is derived from what is read here; buildExecuteAfter throws on a
\* negative delay, after the read.
ReadJobCount ==
  /\ pc = "reading"
  /\ IF request.delay < 0 THEN Abandon
     ELSE /\ pc' = "addressed" /\ jobId' = queue.job_count
          /\ UNCHANGED <<submitting, request, answer, error>>
  /\ UNCHANGED <<vars, submission, success, flight, creator, reader>>

\* rpc(): Anchor fetches QueueHead to derive the tail page; then the transaction
\* is signed and sent.
SendEnqueue ==
  /\ pc = "addressed"
  /\ pc' = "sent"
  /\ flight' = flight \cup {[submission |-> submission, id |-> jobId,
                             tail |-> head.tail_index_seq,
                             accepted |-> ProgramAccepts(request)]}
  /\ UNCHANGED <<vars, submitting, submission, request, jobId, answer, success, error,
                 creator, reader>>

\* The result names the job that was read, not one the ledger reports.  A form stays
\* locked while the page is refreshed.
Confirmed ==
  /\ pc = "sent" /\ answer
  /\ pc' = IF submitting THEN "refreshing" ELSE "idle"
  /\ success' = [jobId |-> jobId, submission |-> submission]
  /\ request' = NoRequest /\ jobId' = NoJob /\ answer' = FALSE
  /\ UNCHANGED <<vars, submitting, submission, error, flight, creator, reader>>

\* onJobCreated returns, also when the refresh has failed: refreshQueue shows its
\* errors itself.
Refreshed ==
  /\ pc = "refreshing"
  /\ pc' = "idle" /\ submitting' = FALSE
  /\ UNCHANGED <<vars, submission, request, jobId, answer, success, error, flight, creator,
                 reader>>

\* Variants: the submission is tried again after an error; the form stays locked.
RequestFailsAgain ==
  /\ pc \in {"reading", "addressed", "sent"}
  /\ pc' = "reading" /\ answer' = FALSE
  /\ UNCHANGED <<vars, submitting, submission, request, jobId, success, error, flight,
                 creator, reader>>

RequestFailsLocked ==
  /\ pc \in {"reading", "addressed", "sent"}
  /\ error' = TRUE
  /\ UNCHANGED <<vars, pc, submitting, submission, request, jobId, answer, success, flight,
                 creator, reader>>

\* A request or the wait for the confirmation fails, whatever becomes of the
\* transaction.
RequestFails ==
  /\ pc \in {"reading", "addressed", "sent"}
  /\ Abandon
  /\ UNCHANGED <<vars, submission, success, flight, creator, reader>>

-----------------------------------------------------------------------------
(* The ledger.                                                              *)

Landed(tx) ==
  /\ flight' = flight \ {tx}
  /\ creator' = [creator EXCEPT ![queue.job_count] = tx.submission]
  /\ answer' = (answer \/ (pc = "sent" /\ tx.submission = submission))
  /\ UNCHANGED <<pc, submitting, submission, request, jobId, success, error, reader>>

\* Variant: the job's account is not bound to job_count.
LandAnywhere(tx) ==
  /\ tx.accepted
  /\ tx.tail = head.tail_index_seq
  /\ \E d \in StartDelays : EnqueueJob(d)
  /\ Landed(tx)

\* The accounts named must be those the program derives at that moment.
Land(tx) ==
  /\ tx.accepted
  /\ tx.id = queue.job_count
  /\ tx.tail = head.tail_index_seq
  /\ \E d \in StartDelays : EnqueueJob(d)
  /\ Landed(tx)

Drop(tx) ==
  /\ flight' = flight \ {tx}
  /\ UNCHANGED <<vars, producerVars, creator, reader>>

-----------------------------------------------------------------------------
(* The other clients: each call is one transaction, which lands or does not.*)

AddJobCall == \E d \in StartDelays : EnqueueJob(d)

ClaimCall(worker, id, indexPageSeq) == ClaimJob(worker, id, indexPageSeq)

CompleteCall(worker, id) == CompleteJob(worker, id)

FailCall(worker, id, retryIndexPageSeq) ==
  \/ \E d \in RetryDelays : RetryJob(worker, id, retryIndexPageSeq, d)
  \/ DeadLetterJob(worker, id)

\* The dashboard names page 0 whatever page the job is on.
CancelCall(id) == CancelJob(Authority, id, 0)

\* No client calls advance_head, and nothing here reads the number of the head page;
\* a paused queue refuses what Drop loses anyway.
Others ==
  /\ \/ AddJobCall \/ GrowIndex(Authority) \/ Tick
     \/ \E w \in Accounts, id \in DOMAIN jobs :
          \/ \E s \in DOMAIN job_ids : ClaimCall(w, id, s) \/ FailCall(w, id, s)
          \/ CompleteCall(w, id)
     \/ \E id \in DOMAIN jobs : CancelCall(id)
  /\ UNCHANGED <<producerVars, flight, creator, reader>>

-----------------------------------------------------------------------------
(* The reader.                                                              *)

Stats == [total |-> queue.job_count, pending |-> queue.pending_count,
          completed |-> queue.processed_count, failed |-> queue.failed_count]

Reading == UNCHANGED <<vars, producerVars, flight, creator>>

\* fetchQueueSnapshot: counters and the number of jobs come from the same read.
FetchQueue ==
  /\ reader.step = "idle"
  /\ reader' = [kind |-> "dashboard", step |-> "listing", total |-> queue.job_count,
                stats |-> Stats, seen |-> <<>>]
  /\ Reading

\* getQueueStats, and then getAllJobs, which reads job_count once more.
GetQueueStats ==
  /\ reader.step = "idle"
  /\ reader' = [Idle EXCEPT !.kind = "sdk", !.step = "counted", !.stats = Stats]
  /\ Reading

GetAllJobs ==
  /\ reader.step = "counted"
  /\ reader' = [reader EXCEPT !.step = "listing", !.total = queue.job_count]
  /\ Reading

Listing(kind) ==
  reader.kind = kind /\ reader.step = "listing" /\ Len(reader.seen) < reader.total

\* What is found at the address of job id.
Found(id) == IF id \in DOMAIN jobs THEN jobs[id].status ELSE "missing"

\* The next ChunkSize addresses with one request; one that is no account is skipped.
FetchMultiple ==
  LET from == Len(reader.seen)
      upto == IF from + ChunkSize < reader.total THEN from + ChunkSize ELSE reader.total
  IN  /\ Listing("dashboard")
      /\ reader' = [reader EXCEPT !.seen = @ \o [i \in 1..(upto - from) |-> Found(from + i - 1)]]
      /\ Reading

\* One address with one request.  getAllJobs catches whatever getJob throws, a failed
\* request and a payload that is not JSON included, and goes on without the job.
GetJob ==
  /\ Listing("sdk")
  /\ \E found \in {Found(Len(reader.seen)), "missing"} :
       reader' = [reader EXCEPT !.seen = Append(@, found)]
  /\ Reading

\* Variant: the counters are read when the jobs have been.
CountedAfterListing ==
  /\ reader.step = "listing" /\ Len(reader.seen) = reader.total
  /\ reader' = [reader EXCEPT !.step = "done", !.stats = Stats]
  /\ Reading

ListingDone ==
  /\ reader.step = "listing" /\ Len(reader.seen) = reader.total
  /\ reader' = [reader EXCEPT !.step = "done"]
  /\ Reading

\* The view is replaced by the next one, or a request that nobody catches fails: in
\* getAllJobs only the first one, in fetchQueueSnapshot any.
ReadAgain ==
  /\ \/ reader.step \in {"counted", "done"}
     \/ reader.step = "listing" /\ reader.kind = "dashboard"
  /\ reader' = Idle
  /\ Reading

-----------------------------------------------------------------------------
ProducerStep == ReadJobCount \/ SendEnqueue \/ Confirmed \/ Refreshed \/ RequestFails

Reader == FetchQueue \/ GetQueueStats \/ GetAllJobs \/ FetchMultiple \/ GetJob
            \/ ListingDone \/ ReadAgain

ClientNext ==
  \/ \E r \in Requests : Submit(r) \/ AddJob(r)
  \/ ProducerStep
  \/ \E tx \in flight : Land(tx) \/ Drop(tx)
  \/ Others
  \/ Reader

ClientSpec == ClientInit /\ [][ClientNext]_clientVars

(* Every request of the producer is answered or times out.                  *)
FairClientSpec == ClientSpec /\ WF_clientVars(ProducerStep)

-----------------------------------------------------------------------------
ClientTypeOK ==
  /\ pc \in {"idle", "reading", "addressed", "sent", "refreshing"}
  /\ submitting \in BOOLEAN
  /\ submission \in 0..MaxSubmissions
  /\ request \in Requests \cup {NoRequest}
  /\ jobId \in Nat \cup {NoJob}
  /\ answer \in BOOLEAN /\ error \in BOOLEAN
  /\ success \in [jobId : Nat \cup {NoJob}, submission : 0..MaxSubmissions]
  /\ flight \subseteq Transaction
  /\ creator \in [JobIds -> 0..MaxSubmissions]
  /\ IF pc \in {"idle", "refreshing"} THEN request = NoRequest /\ ~answer
     ELSE request # NoRequest
  /\ pc = "idle" => ~submitting
  /\ pc = "refreshing" => submitting
  /\ pc \in {"addressed", "sent"} => jobId \in Nat

(* The job a success names is the one that very submission created, although *)
(* its number was read before the transaction was sent and anybody may have  *)
(* enqueued in between (decqueue-core.ts:146-164).                           *)
ResultIsItsJob ==
  success # NoResult => creator[success.jobId] = success.submission

(* A submission creates at most one job, also when its error was shown while *)
(* the transaction was still under way and the user has submitted again.     *)
OneJobPerSubmission ==
  \A i, j \in JobIds : creator[i] = creator[j] /\ creator[i] # 0 => i = j

ListedIn(S) == Cardinality({i \in 1..Len(reader.seen) : reader.seen[i] \in S})

\* The jobs of the listing that may be in S: a hole may be any job.
MayBe(S) == ListedIn(S \cup {"missing"})

(* What is shown together was not read together, yet it is in order: no job  *)
(* counted as settled is listed as live, those that settled and are not      *)
(* listed are among the holes of the listing, each hole standing for one of  *)
(* them, and no more jobs are live than were pending or are new.  The        *)
(* dashboard's listing has no holes; that of the SDK has one for every       *)
(* getJob that failed (solana.ts:276-336, index.ts:210-287).                 *)
SnapshotInOrder ==
  reader.step = "done" =>
    /\ reader.kind = "dashboard" => ListedIn({"missing"}) = 0
    /\ MayBe({"Completed"}) >= reader.stats.completed
    /\ MayBe({"Failed"}) >= reader.stats.failed
    /\ MayBe({"Completed", "Failed"}) >= reader.stats.completed + reader.stats.failed
    /\ ListedIn({"Pending", "Processing"})
         <= reader.stats.pending + reader.total - reader.stats.total

(* The form does not stay locked: every submission ends with a result or an  *)
(* error, whatever the network does, and so does the refresh that is awaited *)
(* after a result (CreateJobForm.tsx:143-171).                               *)
SubmissionEnds ==
  pc # "idle" ~> pc = "idle" /\ (error \/ success.submission = submission)
=============================================================================
