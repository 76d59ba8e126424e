# DecQueue in TLA+

DecQueue is a job queue kept on the Solana ledger: an Anchor program
(`program/src`), a TypeScript SDK and worker (`client/`, `shared/`), and a React
dashboard (`app/src`). This directory holds TLA+ modules translated from that
code, TLC configurations that check them, and proofs that TLAPS checks.

## 1. Inventory

| Part | State it keeps | Operations | Talks to |
|---|---|---|---|
| Program, `program/src/lib.rs`, `state.rs` | `Queue` (counters, `paused`), `QueueHead` (head and tail page number), `JobIndex` pages (`next_seq`, up to 256 ids), one `Job` account per job | `initialize_queue`, `grow_index`, `advance_head`, `enqueue_job`, `claim_job`, `complete_job`, `fail_job`, `cancel_job`, `set_queue_paused` | called by signed transactions; reads the ledger clock |
| Compressed path, `lib.rs` 903-1074, `state.rs` 395-506, `client/index.ts` 320-560 | job data in a Merkle leaf, ids in the same pages | claim, complete, fail; enqueue exists only as a comment | Light system program, Light indexer |
| Fee strategy, `client/fee-strategy.ts` | the attempt counter and the last error of one `send` | `send`, `sendWithJito`, `confirmJitoBundle`, `getDynamicPriorityFee`, `backoffDelayMs` | RPC node, Jito block engine |
| Worker, `client/worker.ts` | the list of ready jobs of one pass, the job in hand | poll, fetch, sort, claim, execute, complete or fail | SDK for reads, fee strategy for writes |
| SDK and shared enqueue, `client/index.ts`, `shared/decqueue-core.ts` | none between calls | one call per instruction, reads of accounts, event listeners | RPC node |
| Dashboard, `app/src/App.tsx`, `solana.ts` | snapshot of the queue, live events, jobs being cancelled | refresh, subscribe, enqueue, cancel | RPC node, wallet hook |
| Wallet hook, `app/src/useSolanaWallet.ts` | known wallets, selection, public key, flags | connect, switch, select, disconnect, provider events | browser wallet |
| Fuzz harness and tests | - | state the invariants the authors care about | program |

What is hard about it:

* transactions of workers, producers and the authority interleave in any order,
  and a job's state is spread over four accounts (job, page, queue, head);
* the linked list uses 0 both as "no successor" and as the number of page 0,
  while retries may be put on any page, also behind the head;
* a claim has no lease, so what happens to a job after its worker stops matters;
* outside the ledger every call can be lost, answered late or landed twice, and
  the client judges on state it read earlier.

What makes each part correct: the pages list exactly the pending jobs, counters
are exact, a claim is a lock, attempts respect the budget, the head never passes
a fresh job (program); a `send` that reports success has had its effect and one
that reports failure promises nothing (fee strategy); a worker knows which jobs it holds
(worker); the address of a new job is the one the program derives (SDK); what is
shown belongs to the queue that is selected (dashboard, wallet hook).

## 2. Modules

| Module | What it is |
|---|---|
| `DecQueue` | the program: state, one action per instruction, clock, properties |
| `JobPool` | what the program promises: jobs wait, are held by one worker, settle once |
| `DecQueueClaims` | statements of comments and messages that the program contradicts |
| `MCDecQueue` | constants for TLC |
| `DecQueueProofs` | invariants of `DecQueue` proved for every value of its constants |
| `JobPoolProofs` | `DecQueue` implements `JobPool`, proved, and what follows from that for a job |
| `FeeStrategy` | one `send` of the fee strategy over a network that loses and delays |
| `Delivery` | what a caller of `send` may rely on |
| `FeeStrategyProofs` | `FeeStrategy` proved for any number of attempts |
| `WorkerPool` | worker processes with crashes and lossy sends; extends `DecQueue` |
| `MCWorkerPool` | constants for TLC |
| `WorkerPoolProofs` | `WorkerPool` proved for any pages, jobs and finite set of workers |
| `Client`, `MCClient` | a producer and a reader (SDK, form, snapshot) against the queue; extends `DecQueue` |
| `ClientProofs` | every safety property of `Client` proved |
| `Dashboard` | the page: views, refreshes, timer, event listeners, cancel, enqueue |
| `DashboardProofs` | every safety property of `Dashboard` proved |
| `WalletHook` | the wallet hook: selection, shown key, overlapping calls, provider events |
| `WalletHookProofs` | every safety property of `WalletHook` proved |
| `Amounts`, `MCAmounts` | bids, pauses and times as numbers, with integers of fixed width |
| `AmountsProofs` | every property of `Amounts` proved, for integers of any width from 10 bits on |

### DecQueue

A Solana instruction either commits all its writes or none, so each instruction
is one action and every check that can return an error is a conjunct of its
guard, wherever it stands in the handler. `fail_job` is two actions, `RetryJob`
and `DeadLetterJob`, one for each side of `attempts < max_retries`.

| TLA+ | Code |
|---|---|
| `queue`, `head` | the `Queue` and `QueueHead` accounts |
| `next_seq[s]`, `job_ids[s]` | `JobIndex` page number `s` |
| `jobs[id]` | the `Job` account with that `job_id` |
| `jobs[id].wait` | `execute_after` minus the ledger clock, not below 0; `Tick` is one second |
| `SwapRemove` | `Vec::swap_remove` at the first position that holds the id |
| `Signed(a)` | an instruction that carries the signature of account `a` |
| `MaxJobs` | bound of the model: how many jobs are ever enqueued |

Left out because nothing on chain depends on it: payload, type, priority, result
and error text, timestamps kept as a record, rent, and the overflow checks of
counters that would need 2^64 jobs. A negative `retry_after_secs` makes a job
ready at once, as 0 does.

### FeeStrategy

| TLA+ | Code |
|---|---|
| `config` | the fields of `HybridFeeStrategyConfig` and of the call that decide anything |
| `attempt`, `phase` | loop variable and position of `send` |
| `flight`, `Parcels` | what was sent and has neither landed nor expired; a bundle is one parcel |
| `applied`, `tips` | the attempts that took effect on the ledger, the tips it transferred |
| `UseJito`, `JitoTipPaid` | `useJito`, which is also `SendResult.jitoTipPaid` |
| `Catch`, `RetryAfterDelay` | the catch block and the next iteration |
| `PollDeadline` | `confirmJitoBundle` after `maxPollMs` |

Nothing makes the program refuse a second copy except the status of the job, so
`config.once` has both values: TRUE while nobody else moves the job, FALSE when
other transactions set the status back meanwhile, or when there is no program
instruction at all (`claimWithStrategy` sends an empty list on the compressed
path). What the block engine reports is trusted: a bundle seen confirmed has
landed.

### WorkerPool

The module extends `DecQueue`: `Land` executes the program's own actions for a
transaction in flight, so nothing about the program is written twice. The sends
are not those of `FeeStrategy` step by step but its contract `Delivery` with the
attempts kept: an attempt may fail for any reason, its transaction may land
before, during or after that, and a send succeeds only on an attempt that took
effect. Since a refused transaction changes nothing, `Drop` stands for refusal
and expiry alike.

| TLA+ | Code |
|---|---|
| `Poll` | `getReadyJobIds`, `fetchJobsByIds`, `sortReadyJobs` |
| `TakeUp`, `Confirmed`, `SendError` | the body of the loop at `worker.ts:310`, with its two catch blocks |
| `Execute` | `executeJob`, which throws exactly for the payloads in `BadJobs` |
| `Effect` | which account each transaction names: page 0 as source and retry page |
| `PagesRead` | the pages whose addresses `getReadyJobIds` reads: none in the code as it is |
| `Crash` | the process stops anywhere and starts again with nothing remembered |
| `EnqueueCall`, `GrowCall`, `CancelCall`, `Tick` in `Others` | `enqueue_job` of a producer, `grow_index` and `cancel_job` of the authority, the ledger clock |

A poll may miss any listed job, because a fetch may fail and because the local
clock decides what is ready; this covers a poll that returns nothing, and every
order of the pass. `PagesRead` is {} in the run that shows what the shipped client
sees, and {0} in the others, which ask how the worker behaves on the jobs it does
get. Two processes with the same key file are outside the model.

A worker is `OnTrack` of a job while it executes or reports it, has seen its claim
confirmed, or has a report in flight. A job that is Processing under its name without
that is `Abandoned`: the worker's own next pass does not find it, since its id is on
no page, and `AbandonedStays` says that nobody else moves it either.

### Client

The module extends `DecQueue` as `WorkerPool` does: a submission lands through
`EnqueueJob`, everybody else's calls are the program's own actions.

| TLA+ | Code |
|---|---|
| `FormAccepts`, `CoreAccepts`, `ProgramAccepts` | the three places where a request is checked, each with its own idea of length |
| `Submit`, `AddJob` | `handleSubmit` with `enqueueJobFromWallet`; `addJob` of the SDK |
| `submitting`, `Refreshed` | the lock of the form, held until the awaited `onJobCreated` is back; `addJob` has none |
| `ReadJobCount`, `SendEnqueue` | `enqueueJobWithProgram`: the read of `jobCount`, the address, then `rpc()`, in which Anchor looks up the tail page |
| `Land`, `Drop` | the accounts a transaction names must be those the program derives when it is executed |
| `FetchQueue`, `FetchMultiple` | `fetchQueueSnapshot` |
| `GetQueueStats`, `GetAllJobs`, `GetJob` | the calls of the same name, one request each; a `getJob` that throws leaves a hole |
| `AddJobCall`, `ClaimCall`, `CompleteCall`, `FailCall`, `CancelCall` | one transaction of another client each |

A producer has a wallet of its own, since two identical transactions of one
wallet are one transaction to Solana. One RPC node answers a reader's requests in
the order they are made. A behaviour has a producer or a reader: the reader
changes nothing, and to it a producer is one of the other clients. `getAllJobs`
catches whatever `getJob` throws, be it a failed request or a payload that is not
JSON, and goes on: the list it returns has a hole there and does not say so. Which
job fails is free, so any of them may be a hole (`missing`). In `fetchQueueSnapshot` a
failed request ends the listing instead (`ReadAgain`), and so does a failure of the
first request of `getAllJobs`. `set_queue_paused` is not among the other clients' calls:
what a paused queue refuses is what `Drop` loses.

### Dashboard

| TLA+ | Code |
|---|---|
| `view`, `shown` | `cluster` and `activeQueue`; `snapshot` |
| `refreshes`, `Begin`, `Answer`, `Fail` | the calls of `refreshQueue` under way, each with the view of its closure |
| `timer`, `feeds` | the running interval; one subscription per view |
| `TurnTo` | the render after cluster or queue changed: cleanup and effects of all three |
| `cancelling`, `cancels` | `cancellingJobIds`; the calls behind it |
| `creating` | `submitting` of the form, until `onJobCreated` is back |
| `Opened` | the first render; under StrictMode (`main.tsx:13`) the effects run twice |

Each queue has one job, open until it is cancelled, and a number of changes,
which is all that tells two snapshots of it apart. A subscription that fails is
one that stays pending. Cleaning up is each view's own business: a view whose
subscription is pending when it is left removes nothing, and a view of no queue
returns no cleanup at all, so a subscription that resolves later stays for good
(`Unsubscribed`). Every queue asked for exists, so that a refresh can succeed.

### WalletHook

A provider emits its events and resolves its promises in the same turn of the
browser's event loop, so an answer and the `await` that takes it are one action;
between a call and its answer anything happens. `Effects` is the render after
`setAvailableWallets` and `setSelectedWalletId` with both effects it triggers.
`strayed` is a history variable: the key shown was set by a connect whose wallet
was no longer the selected one.

### Amounts

Three independent calculations that the other modules abstract:
`getDynamicPriorityFee` and `backoffDelayMs` of a send, the time of the next
attempt in `fail_job` with wrapping, saturating and shifting integers of `Bits`
bits, and `buildExecuteAfter`. A behaviour is about one of them.

| TLA+ | Code |
|---|---|
| `Paid`, `Sorted` | the fees above 0 and `sort((a, b) => a - b)`, as a numbering of the slots |
| `Positions` | `Math.floor((percentile / 100) * (n - 1))`; the division is rounded, so a product that should be whole may come out just below |
| `DynamicPriorityFees` | the bids one report of the network allows |
| `BackoffDelay` | `backoffDelayMs`, draw and jitter in percent, with a whole multiplier as in the defaults |
| `Shl`, `SatMul`, `Wrap` | `checked_shl(..).unwrap_or(i64::MAX)`, `saturating_mul`, the unchecked sum |
| `RetryAt`, `ExecuteAfter` | `execute_after` in `fail_job`; `buildExecuteAfter` |

`BidIsPercentile` does not repeat the computation: it counts the fees below and above
the bid. `WaitBounded` compares the pauses with a geometric series, half a
millisecond of rounding allowed for each. `DueIsExact` speaks of unbounded numbers
where `RetryAt` computes with `Bits` bits, and says what becomes of a time that does
not fit: the sum wraps and the job is due at once.

Variants such as `RetryJobTooOften` are plausible bugs of an action; each is
defined next to the action it spoils and no specification uses it.

## 3. Runs

| Run | Bounds | What it shows |
|---|---|---|
| `queue_safety` | pages of 2, 3 jobs, limits 0 and 2, delays 0 and 1 | pages, jobs and counters agree; only the holder of a job moves it on; budgets hold; `DecQueue` implements `JobPool` |
| `queue_rollover` | pages of 1, 2 jobs, limits 0 and 2 | list shape, reachability of fresh jobs, head monotone |
| `send_safety` | 4 attempts (the default), every mode | results are true, tips are earned, `FeeStrategy` implements `Delivery`, every send ends |
| `worker_safety` | 2 workers, 2 jobs, pages of 1, 2 attempts per send and per job | executions are paid for by claims, verdicts are those of the executions, abandoned jobs stay where they are |
| `worker_single` | same, 1 attempt per send, 3 per job | a worker executes only what it holds; every pass ends |
| `client_safety` | 2 submissions, 2 jobs, pages of 1, requests of every kind | results are true, no submission creates two jobs, every submission ends in a result or an error, snapshots are in order, holes included |
| `wallet_calls` | 3 wallets, 2 keys, 3 calls at once | the key shown, the selection and CONNECTING are what they claim to be; CONNECTING ends |
| `dashboard_views` | 2 clusters, 1 queue, 2 refreshes at once, 2 views, 1 change | no spinner stays, the active queue is watched, the page converges to it |
| `amounts` | the default configuration, up to 4 slots, integers of 12 bits | bids, pauses and times are right up to the edges |
| `claim_cancel` | pages of 2, 3 jobs | counterexample: a Processing job cannot be cancelled |
| `claim_walk` | pages of 1, 2 jobs, limit 2 | counterexample: a walk from the head does not find a retried job |
| `claim_ready` | 1 job, no page read | counterexample: a ready job no worker sees |

Why the bounds are enough: a page of two is the smallest in which `swap_remove`
has an entry to move and one page can be full while another is not; a page of one
makes every enqueue meet a full tail, so that two jobs give two pages, a head that
advances and retries behind it; for longer lists the properties of `queue_rollover`
are proved. Limit 0 is the boundary case of the
retry budget, 2 allows exactly one retry. The authority is an ordinary account
that also works as a worker.

For the worker, two processes are enough for a race and two attempts per send for
a stale copy; pages of one put the second job on page 1, where no claim finds it.
Three attempts per job let a second worker start the attempt after the one that a
report of the first has ended. `flight` is a set: several stale copies of the same instruction
count as one.

`worker_single` is about `DECQUEUE_MAX_SEND_ATTEMPTS=1`. With more attempts per send a
second copy of a `fail_job` may land after its worker has claimed the job again, and
would unlock it in the middle of that execution, since nothing in the instruction
says which attempt it is about. No run shows that: it takes a worker that reads page
0, and the shipped one reads no page (`claim_ready`), so it is not something this
code does.

In `ImplementsPool`, `waiting` of the pool is the set of ids on pages, not the set
of Pending jobs, so the run fails when page and status part ways.

For the client, two jobs let another producer take the number that was read, and
let a second submission take the job of the first. For the page, a queue of the
same address on two clusters is enough for an answer that belongs elsewhere, two
refreshes for one that overtakes another, and one change for a snapshot that is
stale; the form and a cancellation are not busy at the same time in this run
(`FormOverlaps`), they meet only in the refreshes, which overlap anyway. Three
wallets let a selection change twice while a call of the first is still out.
Twelve bits hold the largest shift, 2^9, with a sign and room to overflow, and
the least integer is among the delays.

Further divergences need no run. `confirmJitoBundle` does not poll until the blockhash has
expired (`fee-strategy.ts:371`), it gives up after 30 s, and the bundle may land
all the same; `FeeStrategy` has it in `flight` then. No sweep can re-fail a job
its worker left (`worker.ts:348`), because `fail_job` asks for the signature of
`job.worker`. No client calls `grow_index` or `advance_head`, so with the SDK
alone a queue takes one page of jobs. `initializeIndexes` of the SDK calls an
instruction the program does not have. In the wallet hook the message "try
again" (`useSolanaWallet.ts:239`) cannot be reached: without a wallet the button
is disabled. Two loud refreshes share one flag, so LOADING can go while the second
is under way. A delay so long that its time is no i64 wraps in a release build,
although the product before it saturates: the longest delay makes a job due at once
(`DueIsExact`). A negative delay makes a job due before the moment
it failed, also where the product saturates: it is ready at once. And `grow_index` is open to the authority alone
(`lib.rs:160`), not to "the producer (or anyone)" (`lib.rs:149`); and
`SendResult.jitoTipPaid` is `useJito`, so it is true for a bundle whose tip is 0,
the value that disables tipping (`fee-strategy.ts:81`, `138`, `582`).

### Fairness

`DecQueue` states no fairness and no liveness. Nothing on the ledger obliges anyone to
claim a job or to report it, a claim has no lease, and the shipped worker neither
reads every page nor takes a job up again after an error; that every job settles is
therefore nothing this code promises. What is true of it is said as safety: every
change of a job brings it nearer to its end (`JobAlwaysAdvances`), and a job its
worker has lost track of never changes (`AbandonedStays`).

`FairSpec` of `FeeStrategy` and `FairPoolSpec` of `WorkerPool` ask only that the
process takes its next step: every request has a timeout or an answer, every sleep
ends, `executeJob` is not a loop. Nothing is asked of the network; that
anything lands is never assumed.

`FairClientSpec` asks that the producer's next request is answered or times out.
`FairSpec` of `WalletHook` asks that whoever is asked by a wallet answers, with yes
or no. `FairSpec` of `Dashboard` asks that the interval fires, that a cancellation
is confirmed or fails (Anchor's confirmation has a timeout), and, strongly, that
requests of a refresh do not fail for ever: without that no page can converge.
Events are not assumed to arrive.

## 4. Proofs

`DecQueueProofs` holds for every page capacity above 0, any set of accounts,
retry limits up to 10, any delays and any `MaxJobs`; the assumptions are the named
ASSUMEs of `DecQueue`.

* `Shape == TypeOK /\ ListWellFormed /\ RetryBudget` is inductive by itself.
  `TypeOK` alone is not: that page `head.head_index_seq` exists needs the links,
  and that `attempts` indexes the table of multipliers needs the budget. From it
  follow `TypeCorrect`, `ListAlwaysWellFormed`, `RetryBudgetKept` and, because a
  page's successor is either the next number or 0 with head at the tail,
  `HeadMonotone`.
* `IndexAlwaysExact`: `Shape /\ IndexExact` is inductive. Two lemmas carry it:
  adding an id that is on no page keeps the listing exact (`AddListing`), and
  `swap_remove` of an id leaves every other id where it can be found and that id
  nowhere (`DropListing`); the latter needs that ids are listed once.
* `LockAlwaysHeld` is an action property about who signs: an instruction of any account
  but the holder leaves a Processing job as it is (`OthersLeaveHeldJob`).
  `complete_job` and `fail_job` compare the signer with the job's worker (`HeldBy`);
  `claim_job` and `cancel_job` do not, and fail because a Processing job is on no page
  (`IndexExact`).
* `FreshAlwaysReachable`: the head only leaves an empty page, and a job with no
  attempts is only ever pushed to the tail.
* `CountersAlwaysExact`: a job changes status one at a time, so each cardinality
  moves by at most one (`CountStep`); a settling job is itself counted, hence the
  saturating decrement never saturates.

`FeeStrategyProofs` holds for any number of attempts above 0. Its inductive
invariant adds to the types that each attempt is sent once and lands at most once
(`SentOnce`), that an instruction accepted once has been applied by at most one
attempt (`Once`), and that the tips are the configured tip times the number of
applied attempts that went to Jito (`TipsCounted`). From it follow
`ResultAlwaysTrue`, `TipsAlwaysEarned`, `SendTypeCorrect` and the refinement
`SendImplementsDelivery`.

`JobPoolProofs` shows that `DecQueue` implements `JobPool`. Needed beyond `Shape` and
`IndexExact` is that a job's limit is the queue's and that ids stay below `MaxJobs`
(`OneLimit`). Since the pages list exactly the pending jobs, `Listed` can be computed
from the statuses (`PendingIsListed`), a step on one job changes every mapped
variable at that job only (`OneJobMoves`), and each instruction becomes one action
of the pool or none. `RetryBudget` gives the guards of `Take`, `GiveBack` and of a
`Settle` as failed (`BudgetOfJob`). From the refinement alone, without another look
at the program, follow that a job is in one place at a time (`JobInOnePlace`) and
that its every change lowers a measure (`JobAlwaysAdvances`): two for each attempt
left, one if it is held. `ClaimedNeverCancelled` says of every instance what
`claim_cancel` finds in one.

`WorkerPoolProofs` adds that `Workers` is a finite set of accounts. Workers change the
ledger through the program's instructions only (`PoolUsesProgram`), so what is
proved of `DecQueue` holds below them; three invariants are added in turn.

* `ReportsTrue`: a worker that reports, and every report in flight, has an execution
  behind it. `VerdictIsTrue` says this of settled jobs alone, where it is too late.
* `Awaited` and `ClaimsPay`: only the attempt a worker waits for can tell it that its
  claim took effect, and executions plus claims seen to have taken effect are at
  most the attempts counted. `ExecutionsClaimed` alone is not inductive, because an
  execution begins after the claim that pays for it.
* `Holding`, for one attempt per send: who executes or reports holds the job and has
  no other report in flight, and a report in flight is of the holder. This is where
  `MaxSends = 1` is used; with more, a second copy of a report may be in flight. A job
  has one holder, so no two workers execute it (`ExecutedByOneAlways`).
* `AbandonedAlwaysStays` needs `Awaited` and nothing new: a late copy of a claim is
  refused, since the job is on no page; a late report is not under way, by the
  definition of `OnTrack`; and nobody else's instruction touches a Processing job
  (`EffectJobs`, `LedgerStepJobs`).

`WorkersImplementPool` and `ClientsImplementPool` carry the refinement of `JobPool` over
to the queue with everybody around it. `ReadyJobsSeenOnTheirPages` and
`NothingEverClaimed` frame the counterexample `claim_ready`: a worker that reads every
page there is sees every ready job, one that reads none, as the shipped one does,
never claims anything.

`ClientProofs` holds for any requests, limits, numbers of submissions and chunk size.
`Owned` follows a submission: its number is new, its one transaction names the job
that was read and has created nothing while it is in flight, and a confirmed
submission has created the job it holds. For the reader, `ReaderInv` speaks of the
listing that would result if nothing changed any more and no request failed
(`Viewed`), and of the jobs that may be settled in it because they are listed so or
are holes (`MayView`): what has settled stays settled, a hole may be any job, and jobs
are only added, so the counters stay below it from the moment they are read, by
`CountersAlwaysExact` (`SettledAdd`, `StaysInOrder`). `SnapshotInOrder` alone speaks
of finished listings only and says nothing about the way there.

`WalletHookProofs` holds for any set of wallets (numbers, as their order of
preference is), any keys and any `MaxCalls`. `HookInv` adds to the properties that every call under way is of a
listed wallet (`CallsListed`) and that while CONNECTING is shown one call, and only
one, will take it away (`BusyIsOne`): the flag is reset by whoever ends, so with two
it would go too early.

`DashboardProofs` holds for any clusters with `"devnet"`, any queues and any numbers of
refreshes at once, two or more, since StrictMode starts two. `PageInv` adds to
`LoadingIsBusy` and `ActiveIsWatched`, which are inductive with the types, what each
spinner of a row waits for (`SpinnersHaveCause`): its cancellation, or the one
refresh after it.

`AmountsProofs` holds for every percentile, floor, cap and number of slots, any number
of attempts, any whole multiplier, jitter up to 100 percent and every width of 10
bits or more (the program has 64; the largest shift needs 10).

* `BidAlwaysPercentile`: any finite set of slots can be put in order of fee
  (`SortedExists`, by induction on how many are in order already, with `PutInFront`),
  so the `CHOOSE` in `Sorted` means what it says; the first k slots of the order then
  bound how many fees lie below a bid, the last ones how many lie above
  (`RankOfEntry`, `PositionIsPercentile`).
* `WaitAlwaysBounded`: the invariant is the property; a pause adds what the series
  grows by (`PlannedStep`), but for jitter and rounding (`PauseInJitter`).
* `DueAlwaysExact`: up to nine attempts the shift fits (`ShiftsFit`), so if the exact
  time is in range, product and sum are too and neither saturates nor wraps
  (`RetryAtExact`). If it is not, the sum of a time and of a product that is at most
  `MaxInt` wraps once, to a negative number.
* `DelayAlwaysKept`: from division alone (`ExecuteAfterKept`).

Induction over numbers is done there on sets: a set of naturals that holds 0 and
with each number the next is all of Nat (`Induction`, from the least element of its
complement). So `Power` is defined as a function, `PowerValue` being its equation, and
no operator has to be passed to a library theorem.

Liveness stays with TLC, because ENABLED is out of the prover's reach. What of it is
a matter of safety is proved: a measure that every change lowers and that nothing
raises.

| Property TLC checks | Proved part | Measure |
|---|---|---|
| `PassEnds` | `PassAlwaysAdvances` | steps left in the send, with the job, in the pass |
| `SendEnds` | `SendAlwaysAdvances` | three steps for each attempt left |
| `ConnectEnds` | `ConnectAlwaysAdvances` | answers the call still needs |

`JobAlwaysAdvances` is of the same form, with the attempts left and whether the job is
held as its measure; no liveness property goes with it. `PassAlwaysAdvances` needs `Awaited`: an answer that arrives is news only to a worker
that still waits for it. What these theorems leave to the runs is that, under the
fairness stated in section 3, some step is taken while the measure is above 0.
`SubmissionEnds` has no such theorem, since a submission visibly goes through three
stages in a row; `Converges` and `SpinnersStop` have none because a refresh may be
begun again and again and no measure falls.

Every safety property of a passing run is proved, and so is every action property.
The claims with a counterexample are not theorems; what holds in their place is
(`ClaimedNeverCancelled`, `FreshAlwaysReachable`, `ReadyJobsSeenOnTheirPages`,
`NothingEverClaimed`).

## 5. Plan

In this order, most important first:

1. `DecQueue`, its proofs and `JobPool`: done.
2. `FeeStrategy`, `Delivery` and their proofs: done.
3. `WorkerPool`: `DecQueue` with worker processes, and its proofs: done.
4. `Client`: the producer that reads `job_count` and uses it later, the readers, and
   their proofs: done.
5. `WalletHook` and `Dashboard`: answers and events out of order, with proofs: done.
6. `Amounts`: bids, pauses and the retry delay with fixed-width integers: done.
7. `DecQueue` implements `JobPool`, proved: done.
8. The arithmetic of `Amounts` for every width, and what can be proved of the liveness
   properties: done.
9. Open: that a send of `WorkerPool` and the enqueue of `Client` implement `Delivery`,
   proved, so that both rest on `FeeStrategy` formally and not by description.

## 6. Not modelled

* The compressed job path (`lib.rs` 903-1074, `state.rs` 395-506,
  `client/index.ts` 320-550). It is compiled only with a feature `Cargo.toml` does
  not declare, on a dependency that is commented out for a version conflict; its
  enqueue is a comment; and whether a stale proof is refused is decided by the Light
  system program, of which the repository holds nothing. A model would invent the
  semantics its properties were about.
* Events (`events.rs`) as records: only that they arrive or not matters, and that
  is in `Dashboard`. The event listeners of the SDK pass them on to a callback.
* The texts of results and errors. A text of up to 128 UTF-16 units can have more
  than 128 bytes, so that `fail_job` and `complete_job` refuse it whenever it is sent
  (`worker.ts:101`, `333`; `lib.rs:373`, `414`): in `WorkerPool` that is a report
  which never lands.
* Layout, the log of events, the filter and the selected row of the dashboard.
* Creating a queue through the SDK (the initial state of `DecQueue`), rent, compute
  units and account sizes.
* `vendor/`, `dist/`, the IDL and the wrapper scripts are third-party or generated;
  of the fuzz harness only the invariants it states are used.
