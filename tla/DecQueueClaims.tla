--------------------------- MODULE DecQueueClaims ---------------------------
(***************************************************************************)
(* Statements that comments and messages of the program make about the     *)
(* queue and that the program's behaviour contradicts.                     *)
(***************************************************************************)
EXTENDS DecQueue

(* "Job is in a terminal state and cannot be cancelled" (errors.rs:32, with  *)
(* the status guard of lib.rs:475-478): in every other state the authority   *)
(* can cancel a job, naming the right page.                                  *)
OnlyTerminalCannotBeCancelled ==
  \A id \in DOMAIN jobs :
    jobs[id].status \notin Terminal =>
      ENABLED \E s \in DOMAIN job_ids : CancelJob(Authority, id, s)

(* "The source_page is the page currently holding the job ID; the caller     *)
(* derives it off-chain from QueueHead + page traversal" (lib.rs:321-323):   *)
(* the id of every Pending job is on a page between head and tail, also when *)
(* fail_job has put it back (lib.rs:432).                                    *)
WalkFindsPending ==
  \A id \in DOMAIN jobs :
    jobs[id].status = "Pending" =>
      \E s \in head.head_index_seq..head.tail_index_seq : Holds(job_ids[s], id)
=============================================================================
