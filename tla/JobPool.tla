------------------------------- MODULE JobPool ------------------------------
(***************************************************************************)
(* What the job queue promises, with no pages, counters, clock or retry    *)
(* delays: a pool of jobs that wait, are held by one worker at a time and  *)
(* settle exactly once, each within a budget of attempts.  DecQueue is     *)
(* shown to implement it.                                                  *)
(***************************************************************************)
EXTENDS Integers

CONSTANTS
  Ids,       \* names of jobs
  Holders,   \* who may take a job
  Nobody,    \* holder of a job that nobody has
  Budgets    \* how often the jobs of a pool may be taken

VARIABLES
  waiting,   \* the jobs that can be taken
  holder,    \* who works on a job
  outcome,   \* how it settled, "Open" until it does
  tries,     \* how often it was taken
  budget     \* how often a job may be taken

poolVars == <<waiting, holder, outcome, tries, budget>>

\* Submitted at some time.
Known(id) == id \in waiting \/ holder[id] # Nobody \/ outcome[id] # "Open"

Init ==
  /\ waiting = {}
  /\ holder = [id \in Ids |-> Nobody]
  /\ outcome = [id \in Ids |-> "Open"]
  /\ tries = [id \in Ids |-> 0]
  /\ budget \in Budgets

Submit(id) ==
  /\ ~Known(id)
  /\ waiting' = waiting \cup {id}
  /\ UNCHANGED <<holder, outcome, tries, budget>>

Take(w, id) ==
  /\ id \in waiting
  /\ tries[id] < budget
  /\ waiting' = waiting \ {id}
  /\ holder' = [holder EXCEPT ![id] = w]
  /\ tries' = [tries EXCEPT ![id] = @ + 1]
  /\ UNCHANGED <<outcome, budget>>

\* Given back, but only to be taken again.
GiveBack(w, id) ==
  /\ holder[id] = w
  /\ tries[id] < budget
  /\ waiting' = waiting \cup {id}
  /\ holder' = [holder EXCEPT ![id] = Nobody]
  /\ UNCHANGED <<outcome, tries, budget>>

\* A holder settles its job; as a failure only when the budget is spent.
Settle(w, id, how) ==
  /\ holder[id] = w
  /\ how = "Completed" \/ (how = "Failed" /\ tries[id] = budget)
  /\ holder' = [holder EXCEPT ![id] = Nobody]
  /\ outcome' = [outcome EXCEPT ![id] = how]
  /\ UNCHANGED <<waiting, tries, budget>>

\* A job is withdrawn only while nobody works on it.
Withdraw(id) ==
  /\ id \in waiting
  /\ waiting' = waiting \ {id}
  /\ outcome' = [outcome EXCEPT ![id] = "Cancelled"]
  /\ UNCHANGED <<holder, tries, budget>>

Next ==
  \E id \in Ids :
    \/ Submit(id) \/ Withdraw(id)
    \/ \E w \in Holders :
         \/ Take(w, id) \/ GiveBack(w, id)
         \/ \E how \in {"Completed", "Failed"} : Settle(w, id, how)

Spec == Init /\ [][Next]_poolVars

-----------------------------------------------------------------------------
(* A job waits, or one worker holds it, or it has settled; it was taken no   *)
(* more often than its budget allows, and as often when it failed.           *)
OnePlace ==
  \A id \in Ids :
    /\ id \in waiting => holder[id] = Nobody /\ outcome[id] = "Open" /\ tries[id] < budget
    /\ holder[id] # Nobody => outcome[id] = "Open" /\ tries[id] > 0
    /\ outcome[id] = "Failed" => tries[id] = budget
    /\ tries[id] <= budget
    /\ ~Known(id) => tries[id] = 0

\* How many changes a job can still go through.
Rank(id) ==
  IF outcome[id] # "Open" THEN 0
  ELSE 2 * (budget - tries[id]) + IF holder[id] # Nobody THEN 2 ELSE 1

Place(id) == <<id \in waiting, holder[id], outcome[id], tries[id]>>

(* No job goes round in circles: whatever happens to one that was submitted  *)
(* brings it nearer to its end, which it never leaves.                       *)
Advances ==
  [][\A id \in Ids : Known(id) => Place(id)' = Place(id) \/ Rank(id)' \in 0..(Rank(id) - 1)]_poolVars
=============================================================================
