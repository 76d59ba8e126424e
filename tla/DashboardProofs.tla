-------------------------- MODULE DashboardProofs --------------------------
(***************************************************************************)
(* What holds of Dashboard for any clusters and queues, and any number of  *)
(* refreshes, views, changes and cancellations.                            *)
(***************************************************************************)
EXTENDS Dashboard, FiniteSetTheorems, TLAPS

-----------------------------------------------------------------------------
(* The invariant.                                                           *)

AtMostOne(S) == S = {} \/ \E x : S = {x}

Typed ==
  /\ ledger \in [Watchable -> State]
  /\ view \in View
  /\ timer \in SUBSET Watchable
  /\ feeds \in Seq(Feed)
  /\ refreshes \in [Slots -> Refresh]
  /\ shown \in SUBSET Snapshot /\ AtMostOne(shown)
  /\ loading \in BOOLEAN
  /\ cancelling \in SUBSET Queues
  /\ cancels \in SUBSET Cancel
  /\ creating \in SUBSET Watchable /\ AtMostOne(creating)

\* A spinner has either its cancellation or the refresh after it.
SpinnerHasCause(job) ==
  IF job \in cancelling
  THEN \/ Refreshing(job) = {} /\ \E c : Cancelling(job) = {c}
       \/ Cancelling(job) = {} /\ \E s : Refreshing(job) = {s}
  ELSE Cancelling(job) = {} /\ Refreshing(job) = {}

SpinnersHaveCause == \A job \in Queues : SpinnerHasCause(job)

PageInv == Typed /\ LoadingIsBusy /\ ActiveIsWatched /\ SpinnersHaveCause

-----------------------------------------------------------------------------
(* A refresh begins, is read, and ends.                                     *)

LEMMA RefreshFields ==
  ASSUME Typed, NEW s \in Slots, refreshes[s] # NoRefresh
  PROVE  /\ refreshes[s].of \in Watchable /\ refreshes[s].quiet \in BOOLEAN
         /\ refreshes[s].for \in Waiting /\ refreshes[s].step \in {"asked", "read"}
         /\ refreshes[s].step = "read" => refreshes[s].state \in State
BY DEF Typed, Refresh

LEMMA BeginKeeps ==
  ASSUME Typed, LoadingIsBusy, NEW v \in Watchable, NEW quiet \in BOOLEAN,
         NEW who \in Waiting, Begin(v, quiet, who)
  PROVE  /\ refreshes' \in [Slots -> Refresh] /\ loading' \in BOOLEAN
         /\ LoadingIsBusy'
         /\ \E s \in Slots : \A job :
              Refreshing(job)' = IF job = who THEN Refreshing(job) \cup {s} ELSE Refreshing(job)
<1> DEFINE s == CHOOSE t \in Free : TRUE
           new == Asked(v, quiet, who)
<1>1. s \in Slots /\ refreshes[s] = NoRefresh
  BY DEF Begin, Free
<1>2. new \in Refresh /\ new # NoRefresh /\ new.quiet = quiet /\ new.for = who
  BY DEF Asked, Refresh, NoRefresh
<1>3. refreshes' = [refreshes EXCEPT ![s] = new] /\ loading' = (loading \/ ~quiet)
  BY DEF Begin
<1> HIDE DEF s, new
<1>4. refreshes' \in [Slots -> Refresh]
  BY <1>1, <1>2, <1>3 DEF Typed
<1>5. loading' \in BOOLEAN
  BY <1>3, Zenon
<1>6. LoadingIsBusy'
  <2>1. loading' => loading \/ ~quiet
    BY <1>3
  <2>2. CASE ~quiet
    BY <1>1, <1>2, <1>3, <2>2 DEF Typed, LoadingIsBusy
  <2>3. CASE loading
    BY <1>1, <1>2, <1>3, <2>3 DEF Typed, LoadingIsBusy
  <2>4. QED
    BY <2>1, <2>2, <2>3 DEF LoadingIsBusy
<1>7. \A job : Refreshing(job)' =
        IF job = who THEN Refreshing(job) \cup {s} ELSE Refreshing(job)
  BY <1>1, <1>2, <1>3 DEF Typed, Refreshing
<1>8. QED
  BY <1>1, <1>4, <1>5, <1>6, <1>7

LEMMA FinishKeeps ==
  ASSUME PageInv, NEW s \in Slots, refreshes[s] # NoRefresh, Finish(s), UNCHANGED cancels
  PROVE  /\ refreshes' \in [Slots -> Refresh] /\ loading' \in BOOLEAN
         /\ cancelling' \in SUBSET Queues
         /\ creating' \in SUBSET Watchable /\ AtMostOne(creating)'
         /\ LoadingIsBusy' /\ SpinnersHaveCause'
<1>0. Typed /\ LoadingIsBusy /\ SpinnersHaveCause /\ refreshes[s].quiet \in BOOLEAN
  BY RefreshFields DEF PageInv
<1>1. /\ refreshes' = [refreshes EXCEPT ![s] = NoRefresh]
      /\ loading' = (loading /\ refreshes[s].quiet)
      /\ cancelling' = cancelling \ {refreshes[s].for}
      /\ creating' = {} \/ creating' = creating
  BY DEF Finish
<1>2. refreshes' \in [Slots -> Refresh]
  BY <1>0, <1>1 DEF Typed, Refresh
<1>3. loading' \in BOOLEAN
  BY <1>1, Zenon
<1>4. LoadingIsBusy'
  <2>1. loading' => loading /\ refreshes[s].quiet
    BY <1>1
  <2>2. QED
    BY <1>0, <1>1, <2>1 DEF Typed, LoadingIsBusy
<1>5. SpinnersHaveCause'
  <2> SUFFICES ASSUME NEW job \in Queues PROVE SpinnerHasCause(job)'
    BY DEF SpinnersHaveCause
  <2>1. Refreshing(job)' = Refreshing(job) \ {s} /\ Cancelling(job)' = Cancelling(job)
    BY <1>0, <1>1 DEF Typed, Refreshing, Cancelling
  <2>2. SpinnerHasCause(job)
    BY <1>0 DEF SpinnersHaveCause
  <2>3. CASE refreshes[s].for = job
    <3>1. s \in Refreshing(job) /\ job \notin cancelling'
      BY <1>1, <2>3 DEF Refreshing
    <3>2. Refreshing(job) = {s} /\ Cancelling(job) = {}
      BY <2>2, <3>1 DEF SpinnerHasCause
    <3>3. QED
      BY <2>1, <3>1, <3>2 DEF SpinnerHasCause
  <2>4. CASE refreshes[s].for # job
    <3>1. s \notin Refreshing(job) /\ (job \in cancelling' <=> job \in cancelling)
      BY <1>1, <2>4 DEF Refreshing
    <3>2. Refreshing(job)' = Refreshing(job)
      BY <2>1, <3>1
    <3>3. QED
      BY <2>1, <2>2, <3>1, <3>2 DEF SpinnerHasCause
  <2>5. QED
    BY <2>3, <2>4
<1>6. QED
  BY <1>0, <1>1, <1>2, <1>3, <1>4, <1>5 DEF Typed, AtMostOne

\* A refresh that nobody waits for, or only the form, does not touch the spinners.
LEMMA BeginSpinners ==
  ASSUME SpinnersHaveCause, NEW who \in {Nobody, "form"}, UNCHANGED <<cancels, cancelling>>,
         \E s \in Slots : \A job :
           Refreshing(job)' = IF job = who THEN Refreshing(job) \cup {s} ELSE Refreshing(job)
  PROVE  SpinnersHaveCause'
<1>1. \A job \in Queues : Refreshing(job)' = Refreshing(job) /\ Cancelling(job)' = Cancelling(job)
  BY QueuesAssumption DEF Cancelling
<1>2. QED
  BY <1>1 DEF SpinnersHaveCause, SpinnerHasCause

\* Subscriptions are replaced one at a time.
LEMMA FeedTypes ==
  ASSUME Typed
  PROVE  /\ Len(feeds) \in Nat /\ DOMAIN feeds = 1..Len(feeds)
         /\ \A i \in DOMAIN feeds : feeds[i] \in Feed
BY DEF Typed

LEMMA FeedReplaced ==
  ASSUME Typed, NEW i \in DOMAIN feeds, NEW feed \in Feed
  PROVE  LET new == [feeds EXCEPT ![i] = feed]
         IN  /\ new \in Seq(Feed) /\ Len(new) = Len(feeds)
             /\ \A k \in 1..Len(feeds) : new[k] = IF k = i THEN feed ELSE feeds[k]
<1>1. feeds \in Seq(Feed) /\ i \in 1..Len(feeds)
  BY FeedTypes DEF Typed
<1>2. QED
  BY <1>1

LEMMA FeedSettled ==
  ASSUME Typed, NEW i \in DOMAIN feeds, NEW status \in {"live", "removed"}
  PROVE  /\ [feeds[i] EXCEPT !.status = status, !.due = FALSE] \in Feed
         /\ [feeds[i] EXCEPT !.status = status] \in Feed
         /\ [feeds[i] EXCEPT !.due = FALSE] \in Feed
BY FeedTypes DEF Feed

\* Nothing here changes when the refreshes and the cancellations stay.
LEMMA SpinnersStay ==
  ASSUME SpinnersHaveCause, UNCHANGED <<refreshes, cancels, cancelling>>
  PROVE  SpinnersHaveCause'
BY DEF SpinnersHaveCause, SpinnerHasCause, Refreshing, Cancelling

LEMMA WatchedStays ==
  ASSUME ActiveIsWatched, UNCHANGED <<view, timer>>, Len(feeds') = Len(feeds), feeds \in Seq(Feed),
         \A i \in 1..Len(feeds) : /\ feeds'[i].of = feeds[i].of
                                  /\ feeds'[i].status = "removed" => feeds[i].status = "removed"
  PROVE  ActiveIsWatched'
BY DEF ActiveIsWatched

-----------------------------------------------------------------------------
(* The page opens.                                                          *)

LEMMA InitPageInv == Init => PageInv
<1> SUFFICES ASSUME Init PROVE PageInv
  OBVIOUS
<1>1. PICK q \in Queues \cup {NoQueue}, runs \in 1..2 : Opened(q, runs)
  BY DEF Init
<1> DEFINE v == [cluster |-> "devnet", queue |-> q]
<1>2. v \in View /\ (q # NoQueue => v \in Watchable)
  BY ClustersAssumption DEF View, Watchable
<1>3. view = v
  BY <1>1 DEF Opened
<1>4. /\ ledger \in [Watchable -> State] /\ shown = {} /\ cancelling = {} /\ cancels = {}
      /\ creating = {}
  BY DEF Init, State
<1>5. CASE q = NoQueue
  <2>1. timer = {} /\ feeds = <<>> /\ refreshes = [s \in Slots |-> NoRefresh] /\ loading = FALSE
    BY <1>1, <1>5 DEF Opened
  <2>2. Typed
    <3>1. NoRefresh \in Refresh
      BY DEF Refresh
    <3>2. refreshes \in [Slots -> Refresh] /\ feeds \in Seq(Feed)
      BY <2>1, <3>1
    <3>3. AtMostOne(shown) /\ AtMostOne(creating)
      BY <1>4 DEF AtMostOne
    <3>4. QED
      BY <1>2, <1>3, <1>4, <2>1, <3>2, <3>3 DEF Typed
  <2>3. LoadingIsBusy /\ ActiveIsWatched
    BY <1>3, <1>5, <2>1 DEF LoadingIsBusy, ActiveIsWatched
  <2>4. SpinnersHaveCause
    BY <1>4, <2>1 DEF SpinnersHaveCause, SpinnerHasCause, Refreshing, Cancelling
  <2>5. QED
    BY <2>2, <2>3, <2>4 DEF PageInv
<1>6. CASE q # NoQueue
  <2> DEFINE new == Asked(v, FALSE, Nobody)
  <2>1. /\ timer = {v} /\ loading = TRUE
        /\ feeds = [i \in 1..runs |-> [of |-> v, status |-> "pending", due |-> FALSE]]
        /\ refreshes = [s \in Slots |-> IF s <= runs THEN new ELSE NoRefresh]
    BY <1>1, <1>6 DEF Opened
  <2>2. new \in Refresh /\ new # NoRefresh /\ new.quiet = FALSE /\ new.for = Nobody
    BY <1>2, <1>6 DEF Asked, Refresh, Waiting, NoRefresh
  <2> HIDE DEF new
  <2> DEFINE feed == [of |-> v, status |-> "pending", due |-> FALSE]
  <2>3. feed \in Feed /\ feed.of = v /\ feed.status = "pending"
    BY <1>2, <1>6 DEF Feed
  <2>4. feeds \in Seq(Feed) /\ Len(feeds) = runs /\ runs >= 1
        /\ \A i \in 1..runs : feeds[i].of = v /\ feeds[i].status = "pending"
    <3>1. feeds = [i \in 1..runs |-> feed]
      BY <2>1
    <3> HIDE DEF feed
    <3>2. feeds \in Seq(Feed) /\ Len(feeds) = runs
      BY <2>3, <3>1
    <3>3. QED
      BY <2>3, <3>1, <3>2
  <2>5. Typed
    BY <1>2, <1>3, <1>4, <1>6, <2>1, <2>2, <2>4 DEF Typed, Refresh, AtMostOne
  <2>6. LoadingIsBusy
    BY <2>1, <2>2, SlotsAssumption DEF LoadingIsBusy
  <2>7. ActiveIsWatched
    BY <1>3, <1>6, <2>1, <2>4 DEF ActiveIsWatched
  <2>8. \A job \in Queues : Refreshing(job) = {} /\ Cancelling(job) = {}
    BY <1>4, <2>1, <2>2, QueuesAssumption DEF Refreshing, Cancelling
  <2>9. SpinnersHaveCause
    BY <1>4, <2>8 DEF SpinnersHaveCause, SpinnerHasCause
  <2>10. QED
    BY <2>5, <2>6, <2>7, <2>9 DEF PageInv
<1>7. QED
  BY <1>5, <1>6

-----------------------------------------------------------------------------
(* Refreshes.                                                               *)

LEMMA ReadKeeps ==
  ASSUME PageInv, NEW s \in Slots, Read(s)
  PROVE  PageInv'
<1> DEFINE old == refreshes[s]
           new == [step |-> "read", of |-> old.of, quiet |-> old.quiet, for |-> old.for,
                   state |-> ledger[old.of]]
<1>0. /\ Typed /\ LoadingIsBusy /\ ActiveIsWatched /\ SpinnersHaveCause
      /\ refreshes' = [refreshes EXCEPT ![s] = new] /\ old.step = "asked"
      /\ UNCHANGED <<ledger, view, timer, feeds, shown, loading, cancelling, cancels, creating>>
  BY DEF PageInv, Read
<1>1. old # NoRefresh
  BY <1>0 DEF NoRefresh
<1>2. old.of \in Watchable /\ old.quiet \in BOOLEAN /\ old.for \in Waiting
  BY <1>0, <1>1, RefreshFields
<1>3. ledger[old.of] \in State
  BY <1>0, <1>2 DEF Typed
<1>4. new \in Refresh /\ new # NoRefresh /\ new.quiet = old.quiet /\ new.for = old.for
  BY <1>2, <1>3 DEF Refresh, NoRefresh
<1> HIDE DEF new
<1>5. Typed'
  BY <1>0, <1>4 DEF Typed, AtMostOne
<1>6. LoadingIsBusy'
  BY <1>0, <1>1, <1>4 DEF Typed, LoadingIsBusy
<1>7. ActiveIsWatched'
  BY <1>0 DEF ActiveIsWatched
<1>8. \A job : Refreshing(job)' = Refreshing(job) /\ Cancelling(job)' = Cancelling(job)
  BY <1>0, <1>1, <1>4 DEF Typed, Refreshing, Cancelling
<1>9. SpinnersHaveCause'
  BY <1>0, <1>8 DEF SpinnersHaveCause, SpinnerHasCause
<1>10. QED
  BY <1>5, <1>6, <1>7, <1>9 DEF PageInv

LEMMA EndKeeps ==
  ASSUME PageInv, NEW s \in Slots, Answer(s) \/ Fail(s)
  PROVE  PageInv'
<1>0. Typed /\ ActiveIsWatched
  BY DEF PageInv
<1>1. refreshes[s] # NoRefresh /\ Finish(s)
  BY DEF Answer, Fail, NoRefresh
<1>2. UNCHANGED <<ledger, view, timer, feeds, cancels>>
  BY DEF Answer, Fail
<1>3. shown' \in SUBSET Snapshot /\ AtMostOne(shown)'
  <2>1. CASE Answer(s)
    <3> DEFINE snap == [of |-> refreshes[s].of, state |-> refreshes[s].state]
    <3>1. shown' = {snap} /\ refreshes[s].step = "read"
      BY <2>1 DEF Answer
    <3>2. snap \in Snapshot
      BY <1>0, <1>1, <3>1, RefreshFields DEF Snapshot
    <3> HIDE DEF snap
    <3>3. QED
      BY <3>1, <3>2 DEF AtMostOne
  <2>2. CASE Fail(s)
    BY <1>0, <2>2 DEF Fail, Typed, AtMostOne
  <2>3. QED
    BY <2>1, <2>2
<1>4. /\ refreshes' \in [Slots -> Refresh] /\ loading' \in BOOLEAN
      /\ cancelling' \in SUBSET Queues
      /\ creating' \in SUBSET Watchable /\ AtMostOne(creating)'
      /\ LoadingIsBusy' /\ SpinnersHaveCause'
  BY <1>1, <1>2, FinishKeeps
<1>5. Typed' /\ ActiveIsWatched'
  BY <1>0, <1>2, <1>3, <1>4 DEF Typed, ActiveIsWatched
<1>6. QED
  BY <1>4, <1>5 DEF PageInv

-----------------------------------------------------------------------------
(* What begins a refresh.                                                   *)

LEMMA BeginningKeeps ==
  ASSUME PageInv, NEW v \in Watchable, NEW who \in {Nobody, "form"}, NEW quiet \in BOOLEAN,
         Begin(v, quiet, who),
         UNCHANGED <<ledger, view, timer, shown, cancelling, cancels, creating>>,
         \/ UNCHANGED feeds
         \/ \E i \in DOMAIN feeds : feeds' = [feeds EXCEPT ![i].due = FALSE]
  PROVE  PageInv'
<1>0. Typed /\ LoadingIsBusy /\ ActiveIsWatched /\ SpinnersHaveCause /\ who \in Waiting
  BY DEF PageInv, Waiting
<1>1. /\ refreshes' \in [Slots -> Refresh] /\ loading' \in BOOLEAN /\ LoadingIsBusy'
      /\ \E s \in Slots : \A job :
           Refreshing(job)' = IF job = who THEN Refreshing(job) \cup {s} ELSE Refreshing(job)
  BY <1>0, BeginKeeps
<1>2. /\ feeds' \in Seq(Feed) /\ Len(feeds') = Len(feeds)
      /\ \A i \in 1..Len(feeds) : feeds'[i].of = feeds[i].of /\ feeds'[i].status = feeds[i].status
  <2>1. ASSUME NEW i \in DOMAIN feeds, feeds' = [feeds EXCEPT ![i].due = FALSE]
        PROVE  /\ feeds' \in Seq(Feed) /\ Len(feeds') = Len(feeds)
               /\ \A k \in 1..Len(feeds) : feeds'[k].of = feeds[k].of
                                           /\ feeds'[k].status = feeds[k].status
    <3> DEFINE feed == [feeds[i] EXCEPT !.due = FALSE]
    <3>1. feed \in Feed /\ feed.of = feeds[i].of /\ feed.status = feeds[i].status
      BY <1>0, FeedSettled, FeedTypes DEF Feed
    <3>2. feeds' = [feeds EXCEPT ![i] = feed]
      BY <2>1
    <3> HIDE DEF feed
    <3>3. QED
      BY <1>0, <3>1, <3>2, FeedReplaced
  <2>2. CASE UNCHANGED feeds
    BY <1>0, <2>2 DEF Typed
  <2>3. QED
    BY <2>1, <2>2
<1>3. Typed'
  BY <1>0, <1>1, <1>2 DEF Typed, AtMostOne
<1>4. ActiveIsWatched'
  BY <1>0, <1>2, WatchedStays DEF Typed
<1>5. SpinnersHaveCause'
  BY <1>0, <1>1, BeginSpinners
<1>6. QED
  BY <1>1, <1>3, <1>4, <1>5 DEF PageInv

LEMMA TriggerKeeps ==
  ASSUME PageInv,
         Timer \/ RefreshButton \/ JobCreated \/ \E i \in DOMAIN feeds : Event(i)
  PROVE  PageInv'
<1>0. Typed
  BY DEF PageInv
<1>1. CASE Timer
  <2>1. PICK v \in timer : Begin(v, TRUE, Nobody)
    BY <1>1 DEF Timer
  <2>2. v \in Watchable
    BY <1>0 DEF Typed
  <2>3. QED
    BY <1>1, <2>1, <2>2, BeginningKeeps DEF Timer
<1>2. CASE RefreshButton
  <2>1. view \in Watchable
    BY <1>0, <1>2 DEF RefreshButton, Typed, View, Watchable
  <2>2. QED
    BY <1>2, <2>1, BeginningKeeps DEF RefreshButton
<1>3. CASE JobCreated
  <2>1. PICK v \in creating : Begin(v, TRUE, "form")
    BY <1>3 DEF JobCreated
  <2>2. v \in Watchable
    BY <1>0 DEF Typed
  <2>3. QED
    BY <1>3, <2>1, <2>2, BeginningKeeps DEF JobCreated
<1>4. ASSUME NEW i \in DOMAIN feeds, Event(i) PROVE PageInv'
  <2>1. feeds[i].of \in Watchable
    BY <1>0, FeedTypes DEF Feed
  <2>2. QED
    BY <1>4, <2>1, BeginningKeeps DEF Event
<1>5. QED
  BY <1>1, <1>2, <1>3, <1>4

-----------------------------------------------------------------------------
(* Events and the changes of the queues.                                    *)

LEMMA SubscribedKeeps ==
  ASSUME PageInv, NEW i \in DOMAIN feeds, Subscribed(i)
  PROVE  PageInv'
<1>0. Typed /\ LoadingIsBusy /\ ActiveIsWatched /\ SpinnersHaveCause
  BY DEF PageInv
<1>1. UNCHANGED <<ledger, view, timer, refreshes, shown, loading, cancelling, cancels, creating>>
  BY DEF Subscribed
<1>2. /\ feeds' \in Seq(Feed) /\ Len(feeds') = Len(feeds)
      /\ \A k \in 1..Len(feeds) : /\ feeds'[k].of = feeds[k].of
                                  /\ feeds'[k].status = "removed" => feeds[k].status = "removed"
  <2> DEFINE feed == [feeds[i] EXCEPT !.status = "live"]
  <2>1. feed \in Feed /\ feed.of = feeds[i].of /\ feed.status = "live"
    BY <1>0, FeedSettled, FeedTypes DEF Feed
  <2>2. feeds' = [feeds EXCEPT ![i] = feed]
    BY DEF Subscribed
  <2> HIDE DEF feed
  <2>3. QED
    BY <1>0, <2>1, <2>2, FeedReplaced
<1>3. Typed' /\ LoadingIsBusy'
  BY <1>0, <1>1, <1>2 DEF Typed, AtMostOne, LoadingIsBusy
<1>4. ActiveIsWatched' /\ SpinnersHaveCause'
  BY <1>0, <1>1, <1>2, WatchedStays, SpinnersStay DEF Typed
<1>5. QED
  BY <1>3, <1>4 DEF PageInv

LEMMA ChangeKeeps ==
  ASSUME Typed, ActiveIsWatched, NEW v \in Watchable, NEW open \in BOOLEAN, Change(v, open),
         UNCHANGED <<view, timer>>
  PROVE  ledger' \in [Watchable -> State] /\ feeds' \in Seq(Feed) /\ ActiveIsWatched'
<1>1. ledger' \in [Watchable -> State]
  BY DEF Change, Typed, State
<1> DEFINE n == Len(feeds)
           due(i) == feeds[i].due \/ (feeds[i].of = v /\ feeds[i].status = "live")
           feed(i) == [feeds[i] EXCEPT !.due = due(i)]
<1>2. n \in Nat /\ DOMAIN feeds = 1..n /\ \A i \in 1..n : feeds[i] \in Feed
  BY DEF Typed
<1>3. \A i \in 1..n : due(i) \in BOOLEAN
  BY Zenon
<1>4. feeds' = [i \in 1..n |-> feed(i)]
  BY <1>2 DEF Change
<1> HIDE DEF n
<1>5. \A i \in 1..n : feed(i) \in Feed /\ feed(i).of = feeds[i].of
                      /\ feed(i).status = feeds[i].status
  <2> HIDE DEF due
  <2>1. QED
    BY <1>2, <1>3 DEF Feed
<1> HIDE DEF feed
<1>6. feeds' \in Seq(Feed) /\ Len(feeds') = n
  BY <1>2, <1>4, <1>5
<1>7. ActiveIsWatched'
  BY <1>2, <1>4, <1>5, <1>6, WatchedStays DEF Typed, n
<1>8. QED
  BY <1>1, <1>6, <1>7

LEMMA LedgerChangeKeeps ==
  ASSUME PageInv, NEW v \in Watchable, LedgerChange(v)
  PROVE  PageInv'
<1>0. Typed /\ LoadingIsBusy /\ ActiveIsWatched /\ SpinnersHaveCause /\ ledger[v].open \in BOOLEAN
  BY DEF PageInv, Typed, State
<1>1. UNCHANGED <<view, timer, refreshes, shown, loading, cancelling, cancels, creating>>
  BY DEF LedgerChange
<1>2. ledger' \in [Watchable -> State] /\ feeds' \in Seq(Feed) /\ ActiveIsWatched'
  BY <1>0, <1>1, ChangeKeeps DEF LedgerChange
<1>3. Typed' /\ LoadingIsBusy'
  BY <1>0, <1>1, <1>2 DEF Typed, AtMostOne, LoadingIsBusy
<1>4. QED
  BY <1>0, <1>1, <1>2, <1>3, SpinnersStay DEF PageInv

-----------------------------------------------------------------------------
(* Turning to another view.                                                 *)

LEMMA TurnToKeeps ==
  ASSUME PageInv, NEW v \in View, TurnTo(v)
  PROVE  PageInv'
<1>0. Typed /\ LoadingIsBusy /\ SpinnersHaveCause
  BY DEF PageInv
<1>1. view' = v /\ UNCHANGED <<ledger, shown, cancelling, cancels, creating>>
  BY DEF TurnTo
<1>2. Unsubscribed \in Seq(Feed)
  <2> DEFINE n == Len(feeds)
             feed == [feeds[n] EXCEPT !.status = "removed", !.due = FALSE]
  <2> DEFINE cleaned == view.queue # NoQueue /\ n > 0 /\ feeds[n].status = "live"
  <2>1. Unsubscribed = IF cleaned
                       THEN [feeds EXCEPT ![n] = feed] ELSE feeds
    <3>1. [feeds EXCEPT ![n].status = "removed", ![n].due = FALSE] = [feeds EXCEPT ![n] = feed]
      BY <1>0, FeedTypes
    <3>2. QED
      BY <3>1 DEF Unsubscribed
  <2>2. n > 0 => n \in DOMAIN feeds /\ feed \in Feed
    <3>1. n > 0 => n \in DOMAIN feeds
      BY <1>0, FeedTypes
    <3> HIDE DEF n
    <3>2. n \in DOMAIN feeds => feed \in Feed
      BY <1>0, FeedSettled
    <3>3. QED
      BY <3>1, <3>2
  <2> HIDE DEF feed, n
  <2>3. CASE cleaned
    BY <1>0, <2>1, <2>2, <2>3, FeedReplaced
  <2>4. CASE ~cleaned
    BY <1>0, <2>1, <2>4 DEF Typed
  <2>5. QED
    BY <2>3, <2>4
<1>3. CASE v.queue = NoQueue
  <2>1. timer' = {} /\ feeds' = Unsubscribed /\ UNCHANGED <<refreshes, loading>>
    BY <1>3 DEF TurnTo
  <2>2. Typed' /\ LoadingIsBusy'
    BY <1>0, <1>1, <1>2, <2>1 DEF Typed, AtMostOne, LoadingIsBusy
  <2>3. ActiveIsWatched'
    BY <1>1, <1>3, <2>1 DEF ActiveIsWatched
  <2>4. QED
    BY <1>0, <1>1, <2>1, <2>2, <2>3, SpinnersStay DEF PageInv
<1>4. CASE v.queue # NoQueue
  <2> DEFINE feed == [of |-> v, status |-> "pending", due |-> FALSE]
  <2>1. timer' = {v} /\ feeds' = Append(Unsubscribed, feed) /\ Begin(v, FALSE, Nobody)
    BY <1>4 DEF TurnTo, Subscribing
  <2>2. v \in Watchable /\ Nobody \in Waiting
    BY <1>4 DEF View, Watchable, Waiting
  <2>3. feed \in Feed /\ feed.of = v /\ feed.status = "pending"
    BY <2>2 DEF Feed
  <2> HIDE DEF feed
  <2>4. feeds' \in Seq(Feed) /\ Len(feeds') > 0 /\ feeds'[Len(feeds')] = feed
    BY <1>2, <2>1, <2>3
  <2>5. /\ refreshes' \in [Slots -> Refresh] /\ loading' \in BOOLEAN /\ LoadingIsBusy'
        /\ \E s \in Slots : \A job : Refreshing(job)' =
             IF job = Nobody THEN Refreshing(job) \cup {s} ELSE Refreshing(job)
    BY <1>0, <2>1, <2>2, BeginKeeps
  <2>6. Typed'
    BY <1>0, <1>1, <2>1, <2>2, <2>4, <2>5 DEF Typed, AtMostOne
  <2>7. ActiveIsWatched'
    BY <1>1, <1>4, <2>1, <2>3, <2>4 DEF ActiveIsWatched
  <2>8. SpinnersHaveCause'
    BY <1>0, <1>1, <2>5, BeginSpinners
  <2>9. QED
    BY <2>5, <2>6, <2>7, <2>8 DEF PageInv
<1>5. QED
  BY <1>3, <1>4

-----------------------------------------------------------------------------
(* Writes.                                                                  *)

LEMMA CancelJobKeeps ==
  ASSUME PageInv, CancelJob
  PROVE  PageInv'
<1>0. Typed /\ LoadingIsBusy /\ ActiveIsWatched /\ SpinnersHaveCause
  BY DEF PageInv
<1>1. PICK snap \in shown :
        /\ CancelButton(snap)
        /\ cancelling' = cancelling \cup {snap.of.queue}
        /\ cancels' = cancels \cup {[of |-> view, job |-> snap.of.queue, landed |-> FALSE]}
  BY DEF CancelJob
<1> DEFINE q == snap.of.queue
           c == [of |-> view, job |-> q, landed |-> FALSE]
<1>2. UNCHANGED <<ledger, view, timer, feeds, refreshes, shown, loading, creating>>
      /\ view \in Watchable
  BY <1>0 DEF CancelJob, Typed, View, Watchable
<1>3. q \in Queues /\ q \notin cancelling
  BY <1>0, <1>1 DEF Typed, Snapshot, Watchable, CancelButton
<1>4. c \in Cancel /\ c.job = q
  BY <1>2, <1>3 DEF Cancel
<1>5. cancels' = cancels \cup {c} /\ cancelling' = cancelling \cup {q}
  BY <1>1
<1> HIDE DEF q, c
<1>6. Typed' /\ LoadingIsBusy' /\ ActiveIsWatched'
  BY <1>0, <1>2, <1>3, <1>4, <1>5 DEF Typed, AtMostOne, LoadingIsBusy, ActiveIsWatched
<1>7. ASSUME NEW job \in Queues PROVE SpinnerHasCause(job)'
  <2>1. SpinnerHasCause(job) /\ Refreshing(job)' = Refreshing(job)
    BY <1>0, <1>2 DEF SpinnersHaveCause, Refreshing
  <2>2. CASE job = q
    <3>1. Cancelling(job) = {} /\ Refreshing(job) = {}
      BY <1>3, <2>1, <2>2 DEF SpinnerHasCause
    <3>2. Cancelling(job)' = {c}
      BY <1>4, <1>5, <2>2, <3>1 DEF Cancelling
    <3>3. QED
      BY <1>5, <2>1, <2>2, <3>1, <3>2 DEF SpinnerHasCause
  <2>3. CASE job # q
    <3>1. Cancelling(job)' = Cancelling(job) /\ (job \in cancelling' <=> job \in cancelling)
      BY <1>4, <1>5, <2>3 DEF Cancelling
    <3>2. QED
      BY <2>1, <3>1 DEF SpinnerHasCause
  <2>4. QED
    BY <2>2, <2>3
<1>8. QED
  BY <1>6, <1>7 DEF PageInv, SpinnersHaveCause

\* A cancellation under way is the only one of its job, and its row spins.
LEMMA CancellationIsOne ==
  ASSUME Typed, SpinnersHaveCause, NEW c \in cancels
  PROVE  /\ c \in Cancel /\ c.job \in Queues /\ c.of \in Watchable
         /\ c.job \in cancelling /\ Cancelling(c.job) = {c} /\ Refreshing(c.job) = {}
<1>1. c \in Cancel /\ c.job \in Queues /\ c.of \in Watchable
  BY DEF Typed, Cancel
<1>2. c \in Cancelling(c.job) /\ SpinnerHasCause(c.job)
  BY <1>1 DEF Cancelling, SpinnersHaveCause
<1>3. QED
  BY <1>1, <1>2 DEF SpinnerHasCause

LEMMA CancellationKeeps ==
  ASSUME PageInv, NEW c \in cancels, CancelLands(c) \/ CancelConfirmed(c) \/ CancelFails(c)
  PROVE  PageInv'
<1>0. Typed /\ LoadingIsBusy /\ ActiveIsWatched /\ SpinnersHaveCause
  BY DEF PageInv
<1>1. /\ c \in Cancel /\ c.job \in Queues /\ c.of \in Watchable
      /\ c.job \in cancelling /\ Cancelling(c.job) = {c} /\ Refreshing(c.job) = {}
  BY <1>0, CancellationIsOne
<1>2. CASE CancelLands(c)
  <2> DEFINE d == [c EXCEPT !.landed = TRUE]
  <2>1. d \in Cancel /\ d.job = c.job
    BY <1>1 DEF Cancel
  <2>2. cancels' = (cancels \ {c}) \cup {d} /\ Change(c.of, FALSE)
        /\ UNCHANGED <<view, timer, refreshes, shown, loading, cancelling, creating>>
    BY <1>2 DEF CancelLands
  <2> HIDE DEF d
  <2>3. ledger' \in [Watchable -> State] /\ feeds' \in Seq(Feed) /\ ActiveIsWatched'
    BY <1>0, <1>1, <2>2, ChangeKeeps
  <2>4. Typed' /\ LoadingIsBusy'
    BY <1>0, <2>1, <2>2, <2>3 DEF Typed, AtMostOne, LoadingIsBusy
  <2>5. ASSUME NEW job \in Queues PROVE SpinnerHasCause(job)'
    <3>1. SpinnerHasCause(job) /\ Refreshing(job)' = Refreshing(job)
      BY <1>0, <2>2 DEF SpinnersHaveCause, Refreshing
    <3>2. CASE job = c.job
      <4>1. Cancelling(job)' = {d}
        BY <1>1, <2>1, <2>2, <3>2 DEF Cancelling
      <4>2. QED
        BY <1>1, <2>2, <3>1, <3>2, <4>1 DEF SpinnerHasCause
    <3>3. CASE job # c.job
      <4>1. Cancelling(job)' = Cancelling(job)
        BY <2>1, <2>2, <3>3 DEF Cancelling
      <4>2. QED
        BY <2>2, <3>1, <4>1 DEF SpinnerHasCause
    <3>4. QED
      BY <3>2, <3>3
  <2>6. QED
    BY <2>3, <2>4, <2>5 DEF PageInv, SpinnersHaveCause
<1>3. CASE CancelConfirmed(c)
  <2>1. cancels' = cancels \ {c} /\ Begin(c.of, TRUE, c.job)
        /\ UNCHANGED <<ledger, view, timer, feeds, shown, cancelling, creating>>
    BY <1>3 DEF CancelConfirmed
  <2>2. /\ refreshes' \in [Slots -> Refresh] /\ loading' \in BOOLEAN /\ LoadingIsBusy'
        /\ \E s \in Slots : \A job : Refreshing(job)' =
             IF job = c.job THEN Refreshing(job) \cup {s} ELSE Refreshing(job)
    BY <1>0, <1>1, <2>1, BeginKeeps DEF Waiting
  <2>3. Typed' /\ ActiveIsWatched'
    BY <1>0, <2>1, <2>2 DEF Typed, AtMostOne, ActiveIsWatched
  <2>4. PICK s \in Slots : \A job : Refreshing(job)' =
          IF job = c.job THEN Refreshing(job) \cup {s} ELSE Refreshing(job)
    BY <2>2
  <2>5. ASSUME NEW job \in Queues PROVE SpinnerHasCause(job)'
    <3>1. SpinnerHasCause(job)
      BY <1>0 DEF SpinnersHaveCause
    <3>2. CASE job = c.job
      <4>1. Cancelling(job)' = {}
        BY <1>1, <2>1, <3>2 DEF Cancelling
      <4>2. Refreshing(job)' = {s}
        BY <1>1, <2>4, <3>2
      <4>3. QED
        BY <1>1, <2>1, <3>2, <4>1, <4>2 DEF SpinnerHasCause
    <3>3. CASE job # c.job
      <4>1. Cancelling(job)' = Cancelling(job) /\ Refreshing(job)' = Refreshing(job)
        BY <2>1, <2>4, <3>3 DEF Cancelling
      <4>2. QED
        BY <2>1, <3>1, <4>1 DEF SpinnerHasCause
    <3>4. QED
      BY <3>2, <3>3
  <2>6. QED
    BY <2>2, <2>3, <2>5 DEF PageInv, SpinnersHaveCause
<1>4. CASE CancelFails(c)
  <2>1. cancels' = cancels \ {c} /\ cancelling' = cancelling \ {c.job}
        /\ UNCHANGED <<ledger, view, timer, feeds, refreshes, shown, loading, creating>>
    BY <1>4 DEF CancelFails
  <2>2. Typed' /\ LoadingIsBusy' /\ ActiveIsWatched'
    BY <1>0, <2>1 DEF Typed, AtMostOne, LoadingIsBusy, ActiveIsWatched
  <2>3. ASSUME NEW job \in Queues PROVE SpinnerHasCause(job)'
    <3>1. SpinnerHasCause(job) /\ Refreshing(job)' = Refreshing(job)
      BY <1>0, <2>1 DEF SpinnersHaveCause, Refreshing
    <3>2. CASE job = c.job
      <4>1. Cancelling(job)' = {} /\ job \notin cancelling'
        BY <1>1, <2>1, <3>2 DEF Cancelling
      <4>2. QED
        BY <1>1, <3>1, <3>2, <4>1 DEF SpinnerHasCause
    <3>3. CASE job # c.job
      <4>1. Cancelling(job)' = Cancelling(job) /\ (job \in cancelling' <=> job \in cancelling)
        BY <2>1, <3>3 DEF Cancelling
      <4>2. QED
        BY <3>1, <4>1 DEF SpinnerHasCause
    <3>4. QED
      BY <3>2, <3>3
  <2>4. QED
    BY <2>2, <2>3 DEF PageInv, SpinnersHaveCause
<1>5. QED
  BY <1>2, <1>3, <1>4

LEMMA FormKeeps ==
  ASSUME PageInv, SubmitForm \/ FormFails
  PROVE  PageInv'
<1>0. Typed /\ LoadingIsBusy /\ ActiveIsWatched /\ SpinnersHaveCause
  BY DEF PageInv
<1>1. UNCHANGED <<ledger, view, timer, feeds, refreshes, shown, loading, cancelling, cancels>>
  BY DEF SubmitForm, FormFails
<1>2. creating' \in SUBSET Watchable /\ AtMostOne(creating)'
  BY <1>0 DEF SubmitForm, FormFails, Typed, View, Watchable, AtMostOne
<1>3. Typed' /\ LoadingIsBusy' /\ ActiveIsWatched'
  BY <1>0, <1>1, <1>2 DEF Typed, AtMostOne, LoadingIsBusy, ActiveIsWatched
<1>4. QED
  BY <1>0, <1>1, <1>3, SpinnersStay DEF PageInv

-----------------------------------------------------------------------------
LEMMA PageInvariant == Spec => []PageInv
<1>1. PageInv /\ [Next]_vars => PageInv'
  <2> SUFFICES ASSUME PageInv, [Next]_vars PROVE PageInv'
    OBVIOUS
  <2>1. CASE UNCHANGED vars
    BY <2>1, SpinnersStay DEF vars, PageInv, Typed, AtMostOne, LoadingIsBusy, ActiveIsWatched
  <2>2. CASE User
    <3>1. \A q \in Queues \cup {NoQueue} : [view EXCEPT !.queue = q] \in View
      BY DEF PageInv, Typed, View
    <3>2. \A c \in Clusters : [view EXCEPT !.cluster = c] \in View
      BY DEF PageInv, Typed, View
    <3>3. QED
      BY <2>2, <3>1, <3>2, TriggerKeeps, CancelJobKeeps, FormKeeps, TurnToKeeps
      DEF User, LoadQueue, SelectCluster
  <2>3. CASE Network
    BY <2>3, ReadKeeps, EndKeeps, SubscribedKeeps, TriggerKeeps, CancellationKeeps, FormKeeps,
       LedgerChangeKeeps DEF Network
  <2>4. QED
    BY <2>1, <2>2, <2>3, TriggerKeeps DEF Next
<1>2. QED
  BY <1>1, InitPageInv, PTL DEF Spec

(* LOADING is never left on the button: while it is there a loud refresh is  *)
(* under way, of whatever view (App.tsx:485-507).                            *)
THEOREM LoadingAlwaysBusy == Spec => []LoadingIsBusy
<1>1. PageInv => LoadingIsBusy
  BY DEF PageInv
<1>2. QED
  BY <1>1, PageInvariant, PTL

(* The interval and the latest subscription are those of the active queue,   *)
(* through any views, late subscriptions and events (App.tsx:509-567).       *)
THEOREM ActiveAlwaysWatched == Spec => []ActiveIsWatched
<1>1. PageInv => ActiveIsWatched
  BY DEF PageInv
<1>2. QED
  BY <1>1, PageInvariant, PTL

(* A row spins exactly while its one cancellation, or the refresh after it,  *)
(* is under way (App.tsx:609-634).                                           *)
THEOREM CancellingAlwaysBusy == Spec => []CancellingIsBusy
<1>1. SpinnersHaveCause => CancellingIsBusy
  <2> SUFFICES ASSUME NEW job \in Queues, SpinnerHasCause(job)
               PROVE  Cardinality(Cancelling(job)) + Cardinality(Refreshing(job))
                        = IF job \in cancelling THEN 1 ELSE 0
    BY DEF SpinnersHaveCause, CancellingIsBusy
  <2>1. Cardinality({}) = 0 /\ \A x : Cardinality({x}) = 1
    BY FS_EmptySet, FS_Singleton
  <2>2. CASE job \in cancelling
    <3>1. CASE Refreshing(job) = {} /\ \E c : Cancelling(job) = {c}
      <4>1. Cardinality(Cancelling(job)) = 1 /\ Cardinality(Refreshing(job)) = 0
        BY <2>1, <3>1
      <4>2. QED
        BY <2>2, <4>1
    <3>2. CASE Cancelling(job) = {} /\ \E s : Refreshing(job) = {s}
      <4>1. Cardinality(Cancelling(job)) = 0 /\ Cardinality(Refreshing(job)) = 1
        BY <2>1, <3>2
      <4>2. QED
        BY <2>2, <4>1
    <3>3. QED
      BY <2>2, <3>1, <3>2 DEF SpinnerHasCause
  <2>3. CASE job \notin cancelling
    <3>1. Cardinality(Cancelling(job)) = 0 /\ Cardinality(Refreshing(job)) = 0
      BY <2>1, <2>3 DEF SpinnerHasCause
    <3>2. QED
      BY <2>3, <3>1
  <2>4. QED
    BY <2>2, <2>3
<1>2. PageInv => SpinnersHaveCause
  BY DEF PageInv
<1>3. QED
  BY <1>1, <1>2, PageInvariant, PTL

(* The variables of the page always have their types: one snapshot at most,  *)
(* one form at most, and a refresh is of a queue (App.tsx:440-567).          *)
THEOREM PageTypeCorrect == Spec => []TypeOK
<1>1. Typed => TypeOK
  <2>1. \A S : AtMostOne(S) => Cardinality(S) <= 1
    BY FS_EmptySet, FS_Singleton DEF AtMostOne
  <2>2. QED
    BY <2>1 DEF Typed, TypeOK
<1>2. PageInv => Typed
  BY DEF PageInv
<1>3. QED
  BY <1>1, <1>2, PageInvariant, PTL

=============================================================================
