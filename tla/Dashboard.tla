----------------------------- MODULE Dashboard -----------------------------
(***************************************************************************)
(* The dashboard page (app/src/App.tsx with fetchQueueSnapshot,            *)
(* cancelJobFromWallet and subscribeToQueueEvents of app/src/solana.ts):   *)
(* which queue it watches, the refreshes under way, the event listeners    *)
(* and the cancellations.                                                  *)
(*                                                                         *)
(* Refreshes are begun by the effects of a view, a timer, events, the      *)
(* button and finished writes; each runs in the closure of the view it was *)
(* begun in, they overlap, and whichever answers last is shown.            *)
(***************************************************************************)
EXTENDS Naturals, Sequences, FiniteSets, FiniteSetsExt

CONSTANTS
  Clusters,     \* devnet, localnet
  Queues,       \* queue addresses
  NoQueue,      \* the empty address
  Nobody,       \* no job
  Slots,        \* bound: refreshes under way at a time, a set of numbers
  MaxViews,     \* bound: how often the page turns to another view
  MaxChanges,   \* bound: how often the queues change
  FormOverlaps  \* bound: whether the form and a cancellation are busy together

ASSUME ClustersAssumption == "devnet" \in Clusters
ASSUME QueuesAssumption == {NoQueue, Nobody, "form"} \cap Queues = {}
ASSUME SlotsAssumption == Slots \subseteq Nat /\ {1, 2} \subseteq Slots

View == [cluster : Clusters, queue : Queues \cup {NoQueue}]
Watchable == [cluster : Clusters, queue : Queues]

VARIABLES
  ledger,      \* of every queue: how often it changed, and whether its job is open
  view,        \* cluster and activeQueue
  timer,       \* the view in the closure of the running interval, {} if there is none
  feeds,       \* subscriptions to events, one per view the page turned to
  refreshes,   \* refreshQueue calls under way
  shown,       \* snapshot, {} until there is one
  loading,     \* the REFRESH button says LOADING
  cancelling,  \* cancellingJobIds; a job's address does not tell its cluster
  cancels,     \* cancellations before their refresh
  creating     \* the view in the closure of the form while it says ENQUEUING, else {}

vars == <<ledger, view, timer, feeds, refreshes, shown, loading, cancelling,
          cancels, creating>>

\* Who awaits a refresh: nobody, the cancellation of a queue's job, the form.
Waiting == Queues \cup {Nobody, "form"}
State == [changes : Nat, open : BOOLEAN]
Snapshot == [of : Watchable, state : State]
NoRefresh == [step |-> "none"]
Refresh ==
  {NoRefresh}
    \cup [step : {"asked"}, of : Watchable, quiet : BOOLEAN, for : Waiting]
    \cup [step : {"read"}, of : Watchable, quiet : BOOLEAN, for : Waiting,
          state : State]
Feed == [of : Watchable, status : {"pending", "live", "removed"}, due : BOOLEAN]
Cancel == [of : Watchable, job : Queues, landed : BOOLEAN]

-----------------------------------------------------------------------------
(* refreshQueue.                                                            *)

Free == {s \in Slots : refreshes[s] = NoRefresh}

\* A refresh of view v starts, loud or quiet, and somebody may await its end.
Asked(v, quiet, who) == [step |-> "asked", of |-> v, quiet |-> quiet, for |-> who]

Begin(v, quiet, who) ==
  /\ Free # {}
  /\ refreshes' = [refreshes EXCEPT ![CHOOSE s \in Free : TRUE] = Asked(v, quiet, who)]
  /\ loading' = (loading \/ ~quiet)

\* The RPC node answers; fetchQueueSnapshot is on its way back.
Read(s) ==
  /\ refreshes[s].step = "asked"
  /\ refreshes' = [refreshes EXCEPT ![s] =
       [step |-> "read", of |-> @.of, quiet |-> @.quiet, for |-> @.for,
        state |-> ledger[@.of]]]
  /\ UNCHANGED <<ledger, view, timer, feeds, shown, loading, cancelling, cancels, creating>>

\* Variants: the finally is left out, of the refresh or of the cancellation.
FinishLoud(s) ==
  /\ refreshes' = [refreshes EXCEPT ![s] = NoRefresh]
  /\ UNCHANGED loading
  /\ cancelling' = cancelling \ {refreshes[s].for}
  /\ creating' = IF refreshes[s].for = "form" THEN {} ELSE creating

FinishUncancelled(s) ==
  /\ refreshes' = [refreshes EXCEPT ![s] = NoRefresh]
  /\ loading' = (loading /\ refreshes[s].quiet)
  /\ creating' = IF refreshes[s].for = "form" THEN {} ELSE creating
  /\ UNCHANGED cancelling

\* finally: a loud refresh ends the loading, and who awaits it goes on to its end.
Finish(s) ==
  /\ refreshes' = [refreshes EXCEPT ![s] = NoRefresh]
  /\ loading' = (loading /\ refreshes[s].quiet)
  /\ cancelling' = cancelling \ {refreshes[s].for}
  /\ creating' = IF refreshes[s].for = "form" THEN {} ELSE creating

\* Variant: an answer for another queue than the one shown counts as stale.
AnswerOfShown(s) ==
  /\ refreshes[s].step = "read"
  /\ shown' = IF \E snap \in shown : snap.of # refreshes[s].of THEN shown
              ELSE {[of |-> refreshes[s].of, state |-> refreshes[s].state]}
  /\ Finish(s)
  /\ UNCHANGED <<ledger, view, timer, feeds, cancels>>

\* Whatever view the page has turned to meanwhile.
Answer(s) ==
  /\ refreshes[s].step = "read"
  /\ shown' = {[of |-> refreshes[s].of, state |-> refreshes[s].state]}
  /\ Finish(s)
  /\ UNCHANGED <<ledger, view, timer, feeds, cancels>>

Fail(s) ==
  /\ refreshes[s] # NoRefresh
  /\ Finish(s)
  /\ UNCHANGED <<ledger, view, timer, feeds, shown, cancels>>

-----------------------------------------------------------------------------
(* What begins a refresh: timer, button, events.                            *)

Timer ==
  /\ \E v \in timer : Begin(v, TRUE, Nobody)
  /\ UNCHANGED <<ledger, view, timer, feeds, shown, cancelling, cancels, creating>>

RefreshButton ==
  /\ view.queue # NoQueue /\ ~loading
  /\ Begin(view, FALSE, Nobody)
  /\ UNCHANGED <<ledger, view, timer, feeds, shown, cancelling, cancels, creating>>

\* addEventListener of every kind of event has answered; the subscription that
\* fails stays pending.
Subscribed(i) ==
  /\ feeds[i].status = "pending"
  /\ feeds' = [feeds EXCEPT ![i].status = "live"]
  /\ UNCHANGED <<ledger, view, timer, refreshes, shown, loading, cancelling, cancels, creating>>

\* A listener whose subscription was never removed refreshes as ever.
Event(i) ==
  /\ feeds[i].status = "live" /\ feeds[i].due
  /\ feeds' = [feeds EXCEPT ![i].due = FALSE]
  /\ Begin(feeds[i].of, TRUE, Nobody)
  /\ UNCHANGED <<ledger, view, timer, shown, cancelling, cancels, creating>>

\* What the program does to queue v; the listeners of v may get to see its event.
Change(v, open) ==
  /\ MapThenSumSet(LAMBDA u : ledger[u].changes, Watchable) < MaxChanges
  /\ ledger' = [ledger EXCEPT ![v] = [changes |-> @.changes + 1, open |-> open]]
  /\ feeds' = [i \in DOMAIN feeds |->
                 [feeds[i] EXCEPT !.due = @ \/ (feeds[i].of = v /\ feeds[i].status = "live")]]

LedgerChange(v) ==
  /\ Change(v, ledger[v].open)
  /\ UNCHANGED <<view, timer, refreshes, shown, loading, cancelling, cancels, creating>>

-----------------------------------------------------------------------------
(* Turning to another view: LOAD QUEUE, USE DEFAULT, the select of the      *)
(* cluster.  React cleans up the effects of the last view and runs them.    *)

\* Cleanup of the view that is left: its listeners go if the subscription has resolved,
\* and stay if not.  A view of no queue has nothing to clean up, and leaves alone what
\* the one before it left behind.
Unsubscribed ==
  LET n == Len(feeds)
  IN  IF view.queue # NoQueue /\ n > 0 /\ feeds[n].status = "live"
      THEN [feeds EXCEPT ![n].status = "removed", ![n].due = FALSE] ELSE feeds

Subscribing(v) == Append(Unsubscribed, [of |-> v, status |-> "pending", due |-> FALSE])

\* Variants: effects that do not ask whether there is a queue; no subscription to the
\* next one.
TurnToEmpty(v) ==
  /\ v # view /\ Len(feeds) < MaxViews
  /\ view' = v
  /\ timer' = {v} /\ feeds' = Subscribing(v) /\ Begin(v, FALSE, Nobody)
  /\ UNCHANGED <<ledger, shown, cancelling, cancels, creating>>

TurnToUnsubscribed(v) ==
  /\ v # view /\ Len(feeds) < MaxViews
  /\ view' = v
  /\ IF v.queue = NoQueue
     THEN timer' = {} /\ feeds' = Unsubscribed /\ UNCHANGED <<refreshes, loading>>
     ELSE timer' = {v} /\ Begin(v, FALSE, Nobody) /\ UNCHANGED feeds
  /\ UNCHANGED <<ledger, shown, cancelling, cancels, creating>>

TurnTo(v) ==
  /\ v # view /\ Len(feeds) < MaxViews
  /\ view' = v
  /\ IF v.queue = NoQueue
     THEN timer' = {} /\ feeds' = Unsubscribed /\ UNCHANGED <<refreshes, loading>>
     ELSE timer' = {v} /\ feeds' = Subscribing(v) /\ Begin(v, FALSE, Nobody)
  /\ UNCHANGED <<ledger, shown, cancelling, cancels, creating>>

LoadQueue(q) == TurnTo([view EXCEPT !.queue = q])
SelectCluster(c) == TurnTo([view EXCEPT !.cluster = c])

-----------------------------------------------------------------------------
(* Writes: CANCEL in a row of the table, ENQUEUE JOB in the form.           *)

\* The button of a job shown open, unless its cancellation runs.
CancelButton(snap) == snap.state.open /\ snap.of.queue \notin cancelling

\* The queue and the cluster are those of the view, whatever queue is still shown.
CancelJob ==
  /\ view.queue # NoQueue /\ (creating = {} \/ FormOverlaps)
  /\ \E snap \in shown :
       /\ CancelButton(snap)
       /\ cancelling' = cancelling \cup {snap.of.queue}
       /\ cancels' = cancels \cup {[of |-> view, job |-> snap.of.queue, landed |-> FALSE]}
  /\ UNCHANGED <<ledger, view, timer, feeds, refreshes, shown, loading, creating>>

\* The program wants the job to be one of the queue.
CancelLands(c) ==
  /\ ~c.landed /\ c.job = c.of.queue /\ ledger[c.of].open
  /\ Change(c.of, FALSE)
  /\ cancels' = (cancels \ {c}) \cup {[c EXCEPT !.landed = TRUE]}
  /\ UNCHANGED <<view, timer, refreshes, shown, loading, cancelling, creating>>

CancelConfirmed(c) ==
  /\ c.landed
  /\ cancels' = cancels \ {c}
  /\ Begin(c.of, TRUE, c.job)
  /\ UNCHANGED <<ledger, view, timer, feeds, shown, cancelling, creating>>

\* Variant: a cancellation that failed is sent again.
CancelAgain(c) ==
  /\ cancels' = (cancels \ {c}) \cup {[c EXCEPT !.landed = FALSE]}
  /\ UNCHANGED <<ledger, view, timer, feeds, refreshes, shown, loading, cancelling, creating>>

\* Refused, by the wallet or the program, or not seen to land: no refresh.
CancelFails(c) ==
  /\ cancels' = cancels \ {c}
  /\ cancelling' = cancelling \ {c.job}
  /\ UNCHANGED <<ledger, view, timer, feeds, refreshes, shown, loading, creating>>

\* The form is shown with a snapshot and writes to its queue on the view's cluster.
SubmitForm ==
  /\ shown # {} /\ creating = {} /\ view.queue # NoQueue
  /\ cancelling = {} \/ FormOverlaps
  /\ creating' = {view}
  /\ UNCHANGED <<ledger, view, timer, feeds, refreshes, shown, loading, cancelling, cancels>>

\* onJobCreated, in the closure of the view the form was submitted in.
Refreshed == {s \in Slots : refreshes[s] # NoRefresh /\ refreshes[s].for = "form"}

JobCreated ==
  /\ Refreshed = {}
  /\ \E v \in creating : Begin(v, TRUE, "form")
  /\ UNCHANGED <<ledger, view, timer, feeds, shown, cancelling, cancels, creating>>

FormFails ==
  /\ Refreshed = {} /\ creating # {} /\ creating' = {}
  /\ UNCHANGED <<ledger, view, timer, feeds, refreshes, shown, loading, cancelling, cancels>>

-----------------------------------------------------------------------------
(* The page opens on devnet, on DEFAULT_QUEUE or none.  A development build *)
(* runs under StrictMode, which runs the effects, cleans them up and runs   *)
(* them again: two loud refreshes, and the first subscription unresolved.   *)
Opened(q, runs) ==
  LET v == [cluster |-> "devnet", queue |-> q]
      empty == [s \in Slots |-> NoRefresh]
  IN  /\ view = v
      /\ IF q = NoQueue
         THEN timer = {} /\ feeds = <<>> /\ refreshes = empty /\ loading = FALSE
         ELSE /\ timer = {v}
              /\ feeds = [i \in 1..runs |-> [of |-> v, status |-> "pending", due |-> FALSE]]
              /\ refreshes = [s \in Slots |-> IF s <= runs THEN Asked(v, FALSE, Nobody)
                                              ELSE NoRefresh]
              /\ loading = TRUE

Init ==
  /\ \E q \in Queues \cup {NoQueue}, runs \in 1..2 : Opened(q, runs)
  /\ ledger = [v \in Watchable |-> [changes |-> 0, open |-> TRUE]]
  /\ shown = {} /\ cancelling = {} /\ cancels = {} /\ creating = {}

User ==
  \/ RefreshButton \/ CancelJob \/ SubmitForm
  \/ \E q \in Queues \cup {NoQueue} : LoadQueue(q)
  \/ \E c \in Clusters : SelectCluster(c)

Network ==
  \/ \E s \in Slots : Read(s) \/ Answer(s) \/ Fail(s)
  \/ \E i \in DOMAIN feeds : Subscribed(i) \/ Event(i)
  \/ \E c \in cancels : CancelLands(c) \/ CancelConfirmed(c) \/ CancelFails(c)
  \/ JobCreated \/ FormFails
  \/ \E v \in Watchable : LedgerChange(v)

Next == Timer \/ User \/ Network

Spec == Init /\ [][Next]_vars

(* The interval fires while it is set, a request is answered or fails, and  *)
(* those of a refresh do not fail for ever.                                 *)
CancelEnds == \E c \in cancels : CancelConfirmed(c) \/ CancelFails(c)

Fairness ==
  /\ WF_vars(Timer) /\ WF_vars(CancelEnds)
  /\ \A s \in Slots : SF_vars(Read(s)) /\ SF_vars(Answer(s))

FairSpec == Spec /\ Fairness

-----------------------------------------------------------------------------
TypeOK ==
  /\ ledger \in [Watchable -> State]
  /\ view \in View
  /\ timer \in SUBSET Watchable
  /\ feeds \in Seq(Feed)
  /\ refreshes \in [Slots -> Refresh]
  /\ shown \in SUBSET Snapshot /\ Cardinality(shown) <= 1
  /\ loading \in BOOLEAN
  /\ cancelling \in SUBSET Queues
  /\ cancels \in SUBSET Cancel
  /\ creating \in SUBSET Watchable /\ Cardinality(creating) <= 1

(* LOADING is never left on the button: while it is there, a loud refresh is *)
(* under way, although loud and quiet ones overlap and end in any order, for *)
(* a view that may be left by then (App.tsx:485-507).                        *)
LoadingIsBusy ==
  loading => \E s \in Slots : refreshes[s] # NoRefresh /\ ~refreshes[s].quiet

(* The rows that show a spinner are those whose cancellation is under way,   *)
(* the refresh after it included, and no job has two (App.tsx:609-634).      *)
Cancelling(job) == {c \in cancels : c.job = job}
Refreshing(job) == {s \in Slots : refreshes[s] # NoRefresh /\ refreshes[s].for = job}

CancellingIsBusy ==
  \A job \in Queues :
    Cardinality(Cancelling(job)) + Cardinality(Refreshing(job))
      = IF job \in cancelling THEN 1 ELSE 0

(* However the user turns from queue to queue, the interval and the latest   *)
(* subscription are those of the active queue, and without one no interval   *)
(* runs; a subscription that resolves too late is at worst one too many      *)
(* (App.tsx:509-567).                                                        *)
ActiveIsWatched ==
  LET n == Len(feeds)
  IN  IF view.queue = NoQueue
      THEN timer = {}
      ELSE timer = {view} /\ n > 0 /\ feeds[n].of = view /\ feeds[n].status # "removed"

(* Answers overtake each other, those of a queue that was left are shown     *)
(* under the one the page has turned to, events are lost and listeners leak, *)
(* yet once the user and the ledger rest the page shows the active queue as  *)
(* it is (App.tsx:485-527).                                                  *)
Converges ==
  <>[](view.queue # NoQueue => shown = {[of |-> view, state |-> ledger[view]]})

(* No row spins for ever, whether its cancellation is refused, lost or lands *)
(* and the refresh after it fails (App.tsx:609-634).                         *)
SpinnersStop == \A job \in Queues : job \in cancelling ~> job \notin cancelling
=============================================================================
