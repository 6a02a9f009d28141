# NovaWallet: a TLA+ model of its money paths

NovaWallet is a wallet ledger over one SQL Server database. Customers move money
between wallets and to other banks, a settlement worker hands the outbound
transfers to a payment rail, and administrators fund, credit and repost. These
modules model the parts of it that are hard to test: transactions that
interleave one SQL statement at a time, entities that go stale in an EF Core
context, deadlocks and retries, answers of the rail that come late, twice or
never, crashes between a payout and its commit, a batch of transfers that share one
change tracker, and a reconciliation that sums balances while they move.

Source paths below are relative to the repository; the code lives in its `src`
directory. `TransferService.cs` and its neighbours are in
`src/Wallet.Infrastructure/Services`, the worker is `src/Settlement.Worker/Program.cs`.

## 1. Inventory

| Component | State | Operations | Talks to | What makes it correct |
| --- | --- | --- | --- | --- |
| Transfer service (`TransferService.cs`) | Transfers, IdempotencyRecords, DailyOutboundCounters | internal, outbound, inbound transfer; reversal | wallet rows under row locks; creates settlement jobs | no lost update, one transfer per key, true answers, the daily limit, an answer for everybody |
| Ledger (`Wallet.cs`, `LedgerEntry`) | balance, version, legs of every account | credit, debit | used by everything below | balances equal the legs; never negative; money is only moved |
| Deposits and funding (`WalletService.cs`, `AdminDatabaseService.cs`) | wallet rows, an external account | credit a wallet from Settlement; fund Settlement | same rows as transfers | as the ledger |
| Settlement worker (`Program.cs`) | SettlementJobs, Transfers.Status | claim, dispatch, record, status loop, reversal | the rail; the API's query and repost through the database | paid once, refunded only if unpaid and once, resolved in the end |
| Status query, repost (`TransferService.cs`) | the same rows | resolve an unknown transfer; reset a failed one | the rail; the worker through the database | the documented life cycle |
| Payment rail (`IPaymentRail`) | outside | SendAsync, GetStatusAsync | worker, API | assumed, see section 5 |
| Reconciliation (`ReconciliationService.cs`, hosted in the worker) | ReconciliationReports, ExternalAccounts, Transfers.ReconciledAt | once a day, or on demand | reads all balances | every settled transfer reconciled once; a report that means something; yesterday gets one |
| Reconnect dialog (`ReconnectModal.razor.js`, the same file in both portals) | the dialog, its listener, calls under way | retry, resume, reload | the Blazor runtime | the page is never stuck, the dialog is open only in an outage, nothing is reloaded needlessly |
| KYC (`KycService.cs`) | Users.KycStatus, KycDocuments | submit, approve, reject | the outbound limit | status and documents agree |
| Outbox | OutboxMessages | insert with the transfer; mark published | worker | every committed transfer published |
| Wallet and user creation | Wallets, Users | create, register | account-number generator | unique numbers, retry that can succeed |
| Channels (`ChannelService.cs`) | Channels | create, rotate, change status | Auth API | a revoked channel stays revoked |
| Customer web client | token, expiry, idempotency key of the form | login, refresh, logout, submit | Proxy API | no token after logout; one key per intended payment |
| Admin portal, Wallet/Auth/Proxy API, pages | none of their own | forwarding, presentation | the services above | - |

The components interact through rows of the database, not through calls: a
transfer leaves a `Pending` job, the worker finds it, and the API and the worker
later update the same transfer. Wallet rows are protected by
`WITH (UPDLOCK, HOLDLOCK, ROWLOCK)` and by a concurrency token; Transfers and
SettlementJobs rows by neither. Everything difficult in this program follows from
which of those protections a given path takes, and in which order.

## 2. Modules

| Module | What it is |
| --- | --- |
| `Ledger` | Abstract: indivisible postings under fresh keys that overdraw nobody. |
| `TransferService` | The transactions that move money, statement by statement. Implements `Ledger`. |
| `MCTransferService` | Accounts, menus of commands and symmetry for TLC. |
| `TransferService_proofs` | The type invariant of `TransferService`, its safety invariants and the refinement, proved. |
| `Lifecycle` | Abstract: the states of an outbound transfer as the documentation draws them. |
| `Settlement` | Workers, status queries, reposts, the rail, faults. Implements `Lifecycle` when nobody queries or reposts. |
| `MCSettlement` | The answers of the rail and symmetry for TLC. |
| `TransferLocks_proofs` | What the row locks and their order are good for, proved. |
| `TransferSums_proofs` | That money is conserved, that a counter holds what was charged to it, and what a customer's limit is worth, proved. |
| `SumTheorems` | What a sum over a finite set does when an element, or a value, is changed. |
| `Settlement_proofs` | The safety of `Settlement` and its refinement of `Lifecycle`, proved. |
| `WorkerBatch` | The DbContext that the transfers of one batch share, and saves that fail. |
| `WorkerBatch_proofs` | When its tracker does no harm to the wallet of a customer, proved. |
| `Reconciliation` | The end-of-day run, a manual run beside it, and the transfers under them. |
| `Reconciliation_proofs` | Its safety, proved. |
| `ReconnectModal` | The script of the reconnect dialog, the Blazor runtime and the customer. |
| `ReconnectModal_proofs` | Its safety, proved. |

`TransferService`, `Settlement`, `WorkerBatch` and `Reconciliation` look at the same
transfers at different grains. The wallet rows of a reversal are statements in
`TransferService`, a counter in `Settlement`, tracked entities in `WorkerBatch`; a
whole transfer is one step in `Reconciliation`. Each leaves out what the others have.

The worker keeps one DbContext for a whole batch (`Program.cs:53`), and a rollback does
not restore the entities in it (`Program.cs:113-117`, `148-152`). What its next save
writes therefore depends on what earlier transfers of the batch have left. The three
modules that have a worker treat this as follows:

- `WorkerBatch` has the wallets and legs in that context, with their versions.
- `Settlement` has the transfers, jobs and refunds in it (`pending`).
- `TransferService` assumes nothing of it: a worker's transaction may update any wallets
  in any order, to any balance the table's `CHECK (BalanceKobo >= 0)`
  (`AppDbContext.cs:37`) admits, under a version higher than the row's. That much holds
  of every save: an UPDATE requires the version that was tracked, and `Credit` and
  `Debit`, which alone modify a wallet, count it up. Its properties are about what the
  API does beside such a worker.

### TransferService

One `Request` is one call with one DbContext. Its `pc` says where it is
(`kyc`, `replay`, `work`, `conflict`, `done`), `todo` lists the SQL statements it
has still to execute (`Route` is their order in the source), `held` the rows
its transaction has locked, `seen` the copies its change tracker holds, `reserved` what
its MERGE has added to the daily counter. `written` is what workers have added to each
balance.

| Code | Definition |
| --- | --- |
| checks before the transaction | `Receive`, `BadCommand` |
| KYC status and limit, read once | `ReadKyc` |
| `TryReplayAsync`, at the start and after a failed save | `ReplayHit`, `ReplayMiss`, `RethrowConflict` |
| `MergeCounterAsync` | `MergeCounter`, `Fits`, `Reserve` |
| locked reads, ownership and balance checks | `LockSource`, `RefuseDestination`, `LockRow` |
| the reversal of a status query | `ReceiveReversal`, `LockRow` |
| a transaction of the worker: its UPDATEs, its end | `BeginWorker`, `WriteRow`, `CommitWorker`, `RollbackWorker` |
| `Wallet.Debit` and `Credit` throwing | `Throws`, `DomainFailure` |
| version mismatch, unique index | `StaleRow`, `Duplicate`, `SaveFails` |
| SaveChanges and Commit | `Commit` |
| error 1205 | `Deadlocked`, `RetryVictim`, `AbortVictim` |
| cancellation, process death | `Cancel` |
| KYC reviews, midnight | `KycDecision`, `Midnight` |

Points that took care:

- A row that the context already tracks is not refreshed by a later query
  (`Tracked`). The copy survives a rollback, so a retried outbound transfer
  checks and saves against what its first attempt saw. `StaleRow` is what saves it.
- SaveChanges and Commit are one step: every row they write is locked, and rows
  they insert are invisible until the commit. The unique index is evaluated in
  that step.
- The reservation of the daily limit is made by the MERGE (`reserved`), statements
  before the ownership and balance checks, and given back by whatever ends the
  transaction without a commit.
- A commit may be carried out and its acknowledgement lost: the request then answers
  with a failure although it is committed (code `lost`), and a client that repeats it
  under its key is answered with the original.
- A worker's transaction may be empty of wallets or have any of them; the four rows of
  one reversal, in the order of their primary keys, are one case (`WorkerRoutes`).
- Whether error 1205 reaches the retry clause as a bare `SqlException` is up to
  the EF provider, so a victim may retry or give up.

### Settlement

An actor (a worker, a status query, a repost) has a `pc`, the transfer it is
`at`, and its DbContext: `seenTransfer` and `seenJob` are the rows as it has read or
saved them, `pending` what it has changed in them since, and the credits of the
customer that no save has taken. The `Claim` of a job is an UPDATE, so the job row is
locked until the dispatch commits; `lockedBy` is that lock. Transfers rows are
written without one: `Saved` writes the columns that differ from the copy read.
A SaveChanges writes all that is pending, of whatever transfer (`SaveAndCommit`).
The rail answers from `RailAnswers` and keeps, per transfer, how often it paid and
whether it carried out the last instruction.

| Code | Definition |
| --- | --- |
| claimable jobs, claim | `LoadJobs`, `ClaimJob` |
| read the transfer, nothing to send | `LoadTransfer`, `Skip`, `Skipped` |
| `SendAsync` inside the transaction, record its answer | `Send`, `Outcome`, `Recorded`, `Record` |
| status loop | `LoadUnknowns`, `NextUnknown`, `AskRail`, `Answered`, `Resolve`, `EndBatch` |
| `QueryTransferStatusAsync` | `LoadUnknown`, `AskRail`, `Resolve` |
| `RepostAsync` | `ReadFailed`, `ReadJob`, `Repost` |
| backoff and lease | `Elapse` |
| the two catch clauses of the worker | `Rollback` |
| the process dies, or an exception ends the cycle | `Crash` |
| a status query or a repost fails | `RequestFails` |

What may go wrong in a worker is one of six kinds; `FaultKinds` are the kinds that a
run, or a theorem, allows. Each but the crash is caught in the loop, and what it
leaves in `pending` is what the next save of the batch writes.

| Kind | Definition | Left in the DbContext |
| --- | --- | --- |
| `crash` | `Crash` | nothing: it ends with the process |
| `rail` | `SendThrows`, `AskThrows` | nothing new; the rail may have paid |
| `read` | `ReadThrows` | of a resolved transfer its status and its refund, not its job |
| `save` | `ClaimFails`, `SaveFails` | the claim; or all that the transfer's answer led to |
| `commit` | `CommitFails` | nothing to be written again: the tracker takes it for saved |
| `reversal` | `ReversalThrows` | the failed job, or the failed status, and perhaps a credit |

The wallet rows a reversal touches are in `TransferService` (the kind `reverse` for the
API, `worker` for the worker) and `WorkerBatch`; `Settlement` counts reversals in
`refunds`.

### WorkerBatch

`ProcessBatchAsync` reads all its jobs and transfers into one DbContext and gives
each transfer a transaction. The tracker is `current` and `original`, one value per
row, and `added`, the reversal legs not inserted yet; `tx` is what the open
transaction has written.

| Code | Definition |
| --- | --- |
| load the claimable jobs; the unknown transfers | `LoadJobs`, `LoadUnknowns`, `EndBatch` |
| claim, and its save | `ClaimJob`, `SaveClaim` |
| a query that finds a tracked entity | `Read`, `Visible`, `Assign` |
| `SendAsync` and its answer; `GetStatusAsync` | `Dispatch`, `NextUnknown`, `Query` |
| `ReverseOutboundAsync` of the worker | `Reverse`, `Credited`, `Debited` |
| the last SaveChanges and the commit | `SaveAndCommit`, `Written`, `Modified` |
| the catch clauses: rollback, next transfer | `RailThrows`, `SaveFails`, `Conflict`, `Rollback` |
| transactions of the API on the same wallets | `Receive`, `Pay` |

A rollback resets `tx` and nothing else: EF Core does not restore its entities, and
what a SaveChanges inside the transaction had accepted stays accepted.

### Reconciliation

The runs are `eod`, the worker's for yesterday, and `manual`, an administrator's for
today. `pc` is the last statement done; while it sums, the wallet whose sum was
taken last. `lock` is who holds the rows of ExternalAccounts, `inserting` the
uncommitted report of a day.

| Code | Definition |
| --- | --- |
| the worker's 30 s cycle and its cached day | `TryRunEodReconciliation`, `AlreadyReconciled` |
| the API's manual run | `RunManually` |
| insert the report; the unique day | `InsertReport`, `DuplicateReport` |
| the settled transfers of the day, two reads | `LoadOutbound`, `LoadInbound`, `SettledOf` |
| locked reads of the holdings in the two loops | `LockHolding`, `LoopRows`, `PlugRows` |
| the sums, one statement each | `Sum` |
| moving the holdings, plugs, status, commit | `Movement`, `Plugged`, `HoldingsAfter`, `Completed`, `Complete` |
| deadlock, exception, restart | `DeadlockVictim`, `Fault` |
| the transfers below, and the funding of Settlement | `Post`, `Settle`, `Reverse`, `Repost`, `CreditSettlement` |

A payout may be refunded and then reposted, which takes it back to `submitted` without
taking its charges again (`TransferService.cs:322`): `Kept` counts the charges that
Income and VAT have, `refunded` the payouts that were ever refunded. `owed` and
`disturbed` are history: the payouts whose fees were in the sum of Income, and what was
committed by others since the run began to sum.

### ReconnectModal

`call` is what each of the asynchronous calls that may overlap is awaiting;
`listening` is the visibility listener; `class` is the CSS class by which the
runtime shows its state and the script reacts to it.

| Code | Definition |
| --- | --- |
| `handleReconnectStateChanged` | `HandleReconnectStateChanged` |
| `retry`: first await, its catch, resume after a rejection | `Retry`, `RetryLater`, `ReconnectSucceeds`, `ReconnectRejected` |
| `resume` and its catch | `Resume`, `ResumeLater`, `ResumeSucceeds`, `ResumeRejected` |
| `retryWhenDocumentBecomesVisible` | `RetryWhenDocumentBecomesVisible`, `VisibilityChange` |
| the buttons | `ClickRetry`, `ClickResume` |
| the runtime, the server, the browser (external) | `Disconnect`, `Pause`, `BackUp`, `RejoinAccepted`, `RejoinRejected`, `GiveUp`, `Forget`, `Load` |

`overtaken` is history: the calls during whose await another one connected the circuit.

## 3. Runs

| Run | Question | Result |
| --- | --- | --- |
| `mix` | Three requests of any kind, workers among them, keys colliding across kinds and payloads | `BalanceMatchesLedger`, `OneTransferPerKey`, `RepliesTruthful`, `MoneyConserved`, `ImplementsLedger` hold |
| `payouts` | Payouts, their reversals and workers around KYC decisions, a midnight, deadlocks, failures | `TypeOK`, `TrackedRowsGenuine`, `LocksSuffice`, `CyclesNeedInternalOrWorker`, `CounterWithinLimit`, `CounterMatchesTransfers` hold |
| `answered` | Internal transfers, payouts and a worker on the same wallets in opposite orders, with fairness | `EveryRequestAnswered` holds |
| `workers` | Two workers and a status query, no fault, no repost | `TypeOK`, `NeverPaidTwice`, `RefundOnlyIfUnpaid`, `SettledOnlyIfPaid` hold |
| `lifecycle` | One worker, two transfers in one DbContext, three faults of every kind but `reversal` | `RefundedOnce`, `SettledIsNotRefunded`, `ImplementsLifecycle` hold |
| `resolved` | Worker, status query and one repost, two faults of every kind but `save`, with fairness | `Resolved` holds |
| `per_customer` | One customer pays out of two wallets | `LimitPerCustomer` is violated |
| `double_refund` | Worker and status query | `RefundedOnce` is violated |
| `repost` | One worker, one repost | `SettledIsNotRefunded` is violated |
| `batch` | Two transfers in one batch, a Settlement that the API drains | `RefundsHaveLegs` is violated |
| `reconciliation` | The worker's run and a manual one over two days, a refund and reposts, a funding, a fault, with fairness | `TypeOK`, `ChargesCollectedOnce`, `BalancedMeansCollected`, `QuietRunMirrors`, `EndOfDayRuns` hold |
| `reconnect` | Three overlapping calls, a link that fails and recovers, with fairness | `TypeOK`, `RetryArmed`, `DialogMatches`, `ReloadsOnlyLost`, `OutageEnds` hold |

The four violated properties are sentences of the documentation.

- `per_customer`: `MergeCounterAsync` is keyed by wallet (`TransferService.cs:119`);
  `README.md:141` promises a limit per customer. The test meant to show it
  (`ConcurrencyTests.cs`) uses one wallet. `OneWalletLimit` shows that a second
  wallet is the only way round the limit.
- `double_refund`: the status query and the worker's status loop each read
  `Unknown`, ask the rail, and reverse (`TransferService.cs:241-256`,
  `Program.cs:129-140`). Neither reads again and Transfers has no token, so the
  customer is refunded twice. `RefundedAtMostOnce` shows that one worker alone, whose
  reversal does not throw, cannot do this, whatever else fails; a reversal that throws
  is the subject of `batch`.
- `repost`: a failed transfer was refunded; `RepostAsync` does not debit again
  (`TransferService.cs:322`). When the second payout succeeds the customer has
  both. Without a repost it takes a failure at the wrong place: `SettledKeepsLegs`
  excludes it for any workers and queries where nothing but crashes, exceptions of the
  rail and lost commits go wrong, and `AloneKeepsLegs` for one worker, without queries,
  where anything but the reversal itself may fail. Two workers and a failed save do break
  it: the first keeps a refund and a failure it could not save, the second sends the
  transfer again and settles it, and the next save of the first writes the refund.
- `batch`: inbound transfers have drained Settlement when a payout fails. The
  reversal credits the customer's entity (`Program.cs:163`) before
  `settlement.Debit` throws (`Program.cs:164`). The rollback leaves the credit in
  the tracker, and the save of the next transfer of the batch writes it: the customer
  has the refund, the ledger has no leg of it, and the transfer is still `Submitted`
  with a failed job that will be claimed again, so the same can happen in the next
  cycle. It takes this Debit: as long as Settlement covers the refunds, theorem
  `CoveredRefundsHaveLegs` excludes the violation, whatever else fails.

Five more statements of the documentation fail for reasons that the model shows
directly, and have no run of their own:

- A timeout without a reference is never resolved: the status loop skips it
  (`Program.cs:121`) and its job, claimed again, is marked `Succeeded`
  (`Program.cs:78`). `README.md:157` says all `Unknown` transfers are. `resolved`
  therefore takes a rail whose timeouts carry a reference.
- `AI_USAGE.md:27` says that a timeout leaves the job `Processing`. The claim is
  in the same transaction as the dispatch and is rolled back with it, so after a timeout
  the job is what it was. `Processing` is committed only by accident: a claim whose
  own save fails stays modified in the DbContext, and a later save of the batch writes
  it (`ClaimFails`).
- A duplicate that waits behind its original is refused for limit or balance
  instead of receiving the original's result (`README.md:134`): the replay check
  comes before the waits.
- `RepostAsync` says that only failed transfers can be reposted, but checks a copy:
  of two overlapping reposts, the second may reset a transfer that has meanwhile
  been paid.
- Two reposts around a late status answer can leave a transfer `Submitted` with a
  `Succeeded` job: the second repost read the job as `Pending`, so it does not
  write the status that the worker has meanwhile changed. It takes a query and two
  reposts, and no fault; `resolved` allows one repost for that reason.

### Bounds

- `MCTransferService`: three wallets of one or two customers, three system accounts, two
  keys, amounts of 1 to 9 against balances of 0 to 9 and limits of 2 and 3 or 4, so
  that every refusal, an exhausted limit, an overdraft and a drained Settlement
  occur. Three requests are enough for each hazard: the longest known one needs a
  payout, its reversal and a third party that changes a row between a read and a
  write. A worker's transaction writes one or two wallets, or in `answered` three in an
  order opposite to the API's, adds or takes a little, and counts the version up by one
  or two. `MaxAttempts` is 2 against 3 in the code (one retry shows everything a second
  would repeat), `MaxDay` is 0 or 1 (one midnight). `mix` has one of every command, the other runs smaller menus and more of the environment; in `answered` the
  limits are one, since what a KYC decision changes is the subject of `payouts`.
  694000, 572000 and 79000 states.
- `MCSettlement`: one transfer where the actors are several, two where order
  matters or one leaves what the other saves. `MaxJobAttempts` is the code's 5.
  `MaxFaults` and `MaxReposts` bound failures and reposts; the worker loops for ever
  without a bound. Three faults are enough for one to leave something behind, one to
  leave more of it, and one to lose it. `lifecycle` has 942000 states.
- `WorkerBatch`: two transfers, since one leaves behind what the other saves; a
  Settlement worth exactly their two reversals, two moves of the API to drain it, two
  batches, one fault.
- `Reconciliation`: two outbound transfers, of which one may hide the fee that the other
  lacks, and an inbound one; two days, one refund, any reposts of it, one funding, one
  fault; amount, fee and VAT are 3, 2 and 1, so that a movement left out or made twice
  shows in its holding. One payout and the inbound transfer are posted on the first day
  before anything else (`Early`), so that only the other payout may come on either day.
  217254 states. Two refunds, hence a payout refunded twice, have been checked for
  safety (1.3 million states).
- `ReconnectModal`: three calls, since two can overtake each other and the third
  begins after them; nothing else in it needs a bound.
- Symmetry is used over requests, workers and transfers in runs without fairness,
  where it is sound.
- Deadlock checking is off in every run but `reconnect`: requests finish and stay
  finished, a transfer that is settled with its job closed needs nothing more, and
  the bounds of `batch` and `reconciliation` run out. What must not stop is stated as
  `EveryRequestAnswered`, `Resolved` and `EndOfDayRuns`.

### Fairness

- `TransferService`: `WF(Step(r))` per request, since a thread whose lock wait is
  over is scheduled, and `WF` of `Victim`, since SQL Server's lock monitor ends
  every circle of waits. Sending, cancelling, reviewing and midnight are not fair.
- `Settlement`: `WF` per worker, whose loop catches every exception and is
  restarted by its host, and per `Elapse`, since time passes. `SF` says that a rail
  asked again and again about one transfer gives its outcome in the end. Status
  queries, reposts and faults are not fair.
- `Reconciliation`: `WF` of the cycle, which a timer starts every 30 seconds, and of
  each run's steps, which goes on while the rows it waits for are free and is
  rolled back when it deadlocks. Transfers, days, manual runs and faults are not fair.
- `ReconnectModal`: the runtime keeps trying, every call is answered, the browser
  loads the page when it can; the tab is looked at again and again, and a Resume
  button that keeps coming back is clicked (`SF`). The Retry button is not fair:
  `OutageEnds` does not need it, since the listener starts the same call.

## 4. Proofs

All theorems hold for any values of the constants that satisfy the `ASSUME`s.

### TransferService

For any number of requests, wallets, keys and commands, any fees, limits and retries,
and any routes and effects of the workers. Assumed: the three system accounts are
distinct, no account is a wallet and a system account or a counter's key, the wallets of
the database are finitely many (their balances are summed), amounts are positive,
openings, charges and limits are naturals and the unverified limit does not exceed the
verified one, transfers carry a key and name an account, workers update rows of Wallets
under higher versions.

| Theorem | States | By |
| --- | --- | --- |
| `TypeCorrect` | `TypeOK` | `Typed`, that is `TypeOK` and `Begun`: a request past `idle` has a command. That no balance is negative is part of it and rests on `Throws` being evaluated on copies whose version is current; the `CHECK` constraint is needed of workers only. |
| `TrackedRowsAreGenuine` | `TrackedRowsGenuine` | whoever writes a row writes a higher version, so a version that an API request has read is written once, with one balance |
| `NoLostUpdate` | `BalanceMatchesLedger` | at `Commit` no touched copy is stale, so by the theorem above each equals its row |
| `KeysUsedOnce` | `OneTransferPerKey` | the unique index at `Commit`; a command is never changed while its request runs |
| `RepliesAreTruthful` | `RepliesTruthful` | strengthened with: only finished requests are committed, and a pending one has no transfer. It includes the reply of a commit whose acknowledgement is lost |
| `DailyLimitKept` | `CounterWithinLimit` | `Limited`: locks are exclusive; a request past its MERGE holds its counter row and, under that lock, counter plus amount is within the limit |
| `ServiceImplementsLedger` | `ImplementsLedger` | `Init` maps to `Init`; `Commit` to `Post`, by the facts above; `CommitWorker` to `Adjust`; every other step to a stutter |
| `LocksAreEnough` | `LocksSuffice` | `Fresh`: `Progress`, a request in its transaction has executed some first `n` statements of its route and holds exactly the rows they took; and `Pinned`, a request that is no worker's and has not been retried holds every row it has a copy of, at the version of the copy. Only a commit changes a version, of rows it holds (`HeldAtCommit`), and nobody holds the same. |
| `LockOrderIsSafe` | `CyclesNeedInternalOrWorker` | `Progress` too: the routes of the ordered kinds take rows of rising rank (`RouteOrder`), so who waits holds only rows of a lower rank than the one wanted (`WantsHigher`), and around a circle ranks would rise for ever |
| `MoneyIsConserved` | `MoneyConserved` | `Sums`, below; a commit's legs add up to its amount for a funding transfer and to nothing for any other, once its destination is known to exist; what a worker's commit adds is added to `written` |
| `CountersMatchTransfers` | `CounterMatchesTransfers` | `Sums` too, with what links the MERGE to the commit: a request past its MERGE has reserved its amount, on the day it was given, and nothing ends its transaction with the reservation in the counter but a commit, which makes it one of those charged |
| `CustomerLimitBounded` | the counters of a customer's day come to at most the limit of a verified customer times the number of that customer's wallets | the two theorems on counters; a sum over the wallets' counters |
| `OneWalletLimit` | `LimitPerCustomer`, if each customer owns at most one wallet | the same, with one term |

The last two say what the violated `LimitPerCustomer` is worth. The sums are those of
the community modules, folds that choose one element of a set after another. A fold
is a function on the subsets of a finite set, so its recursive equation can be read
off (`SumIsTable`); what two such functions compute agrees, since among the subsets
where they differ there would be a smallest (`SubsetInduction`, from the library's
theorem that strict inclusion of finite sets is well-founded). The arithmetic follows:
`SumRemove`, `SumAgree`, `SumAdd`, `SumFour` for the at most four legs of a transfer,
`SumBound`. The invariant, `Sums`, adds to the two properties that finitely many
requests have committed, without which a sum over them is not defined.

`DailyLimitKept` is the reason for the strengthening: `CounterWithinLimit` alone is
not inductive, because what a request checked at its MERGE has to survive until
its commit, and does so only because nobody else can hold the row.

### Settlement

For any workers, queries, administrators and transfers, and any answers of the rail.
The conditions of a theorem are the ones under which the property holds at all: with
faults a payout may be repeated, with reposts a settled one is refunded (run
`repost`), with two resolvers a failed one is refunded twice (run `double_refund`), and
with a reversal that throws one worker may do so (run `batch`). Two conditions are used:

- `Calm`: no faults, or only those of the kinds `crash`, `rail` and `commit`, which
  leave nothing in a DbContext that is still to be saved;
- `Alone`: at most one worker, no status query, no repost, and faults of any kind but
  `reversal`.

| Theorem | States | Under | By |
| --- | --- | --- | --- |
| `SettlementTyped` | `TypeOK` | - | `Placed`: an actor past its first step is at a transfer whose rows it has copies of |
| `SettledIsPaid` | `SettledOnlyIfPaid` | - | `Evidence`: who is about to record or resolve an answer `Sent`, or has kept a change that it could not save, has it from a rail that has paid; `Saved` writes a status that the copy did not have, so an old copy never brings `Settled` back |
| `SettledKeepsLegs` | `SettledIsNotRefunded` | no repost, `Calm` | `Decided`. Nothing is pending between transactions (`NoPending`). A worker that has claimed a job has no copy of its transfer from before (`Fresh`), so it sends only what is `Submitted`, one worker at a time, and what is not `Submitted` never is again. Hence no instruction is given while an answer, a refund or a settled status is about, and each stays true of the last instruction (`AnswersTrue`), even where a fault has the transfer sent again. |
| `PaidOnce` | `NeverPaidTwice` | no fault, no repost | `SentOnce`: `Decided`, and the last instruction is the only one |
| `RefundedIsUnpaid` | `RefundOnlyIfUnpaid` | no fault, no repost | `SentOnce` |
| `RefundedAtMostOnce` | `RefundedOnce` | `Alone` | `Faithful`: a refund comes with its failure, and whatever is pending may be saved at any later time (`Legitimate`): it decides a transfer whose row is still as the copy says, and has a credit if and only if it has a failure. What has been touched is not taken up again in the batch (`Untouched`). |
| `AloneKeepsLegs` | `SettledIsNotRefunded` | `Alone` | `Faithful` |
| `LifecycleImplemented` | `ImplementsLifecycle` | `Alone` | `Faithful`: a save writes decisions, of one or several transfers, each of which is a step of `Lifecycle`; all else stutters |

### WorkerBatch

For any transfers and any bounds on faults, batches and moves of the API. The values of
the run are assumed to be what they stand for: `None` is neither a row nor a status,
Settlement is not the wallet of a transfer.

| Theorem | States | Under | By |
| --- | --- | --- | --- |
| `CoveredRefundsHaveLegs` | `RefundsHaveLegs` | `Covered`: where a refund may be due, Settlement has the money as the worker sees it | `Consistent`, below |

A source wallet is in one of four states (`Tracked`): not tracked; credited in the
tracker, with its leg `Added`; both written by the open transaction; or written once,
and committed or rolled back since. The balance and the leg pass from one to the next
together, whichever save or call fails. Two things make this inductive. A transfer is
reversed once in a batch (`Turn`): the status loop looks for `Unknown` in the database,
and what the first loop has tried to reverse is `Submitted` or `Failed` there. And a
credit that has not been saved carries the version it was read at, so that a save after
an update of the API fails. The theorem is about the wallets of customers. Settlement's own row is modified by
every reversal of the batch, and after two faults it is not safe: a version that was
written and rolled back stays in the tracker, the API gives the same number out again,
and the next save writes over what the API wrote.

### Reconciliation

For any transfers, positive amounts and charges, days, fundings and faults.

| Theorem | States | By |
| --- | --- | --- |
| `ReconciliationTyped` | `TypeOK` | each step; a plug writes a sum, which is a natural; no more charges are given back than were kept (`Kept`) |
| `ReconciledOnce` | `ChargesCollectedOnce` | `Collected`: one run at a time has inserted the report of a day, so what it loaded is what is still not reconciled when it commits |
| `BalancedIsCollected` | `BalancedMeansCollected` | `Summed`: as long as each refunded payout was refunded once, the sum of Income is the fees of `owed`, and unless another run committed or a reconciled payout had been refunded, the batch and all that was reconciled before are in `owed`; a holding equal to the sum has the fees of as many transfers, so they are all of `owed` |
| `QuietRunsMirror` | `QuietRunMirrors` | `Summed`: unless something was posted, the sums are the balances now |

### ReconnectModal

For any number of overlapping calls, one invariant (`Safe`) proves `ModalTyped`,
`ModalArmed` (`RetryArmed`), `ModalShowsOutage` (`DialogMatches`) and, of each step,
`ModalReloadsOnlyLost` (`ReloadsOnlyLost`). It adds what the three need of each
other: in particular that a call awaiting the answer to resume has seen the circuit
leave the server's memory, or has been overtaken since.

### Checked by TLC only

- the liveness properties `EveryRequestAnswered`, `Resolved`, `EndOfDayRuns` and
  `OutageEnds`, which need `ENABLED`;
- that the four violated properties fail: each has a counterexample, and a theorem
  says under which condition it holds (`OneWalletLimit`, `RefundedAtMostOnce`,
  `SettledKeepsLegs` and `AloneKeepsLegs`, `CoveredRefundsHaveLegs`).

## 5. What is assumed, and what is not modelled

- SQL Server: locks are held to the end of the transaction; a plain read under
  READ COMMITTED waits only for an uncommitted write; deadlocks are detected.
- The rail: it tells the truth or says that it does not know; an answer `Sent`
  means it paid and `Failed` that it did not; it does not deduplicate by
  reference. A payout repeated after a crash is therefore possible and no property
  denies it.
- The overflow of a 64-bit balance, audit and outbox rows, names and references.
- `WorkerBatch` leaves out Income and VAT, which a reversal debits as it does
  Settlement, the attempts and the backoff of a job, and processes jobs in any order.
- The worker in `TransferService` is an over-approximation: it may also write what no
  batch would. The properties there are therefore about the API's part of each balance,
  and say nothing of the worker's; whether a refund comes with its legs is the subject
  of `WorkerBatch`, whether it comes once and with its failure of `Settlement`.
- `Settlement` counts a reversal as one credit of the customer, saved with the rest of
  the context; that its save may fail on a version is the fault `save`.
- `Reconciliation` takes each transfer, each reversal and each funding as one transaction
  (`TransferService` and `Settlement` have their steps), every transfer with the same
  amount, and deposits as inbound transfers: both move Settlement and a customer. A
  reversal is whole: what leaks of one by halves moves the balances of customers and of
  Settlement, which the plugs follow; a reversal that Income cannot pay VAT cannot pay
  either, and neither has been debited then.
- `ReconnectModal`: the runtime and the server do what the script's comments and
  the dialog's markup expect of them; events are dispatched synchronously.

What the models show of the code without a property of their own:

- The Ledger and Settlement rows of a report always agree with the database, since
  the plugs make them; only Income and VAT can be `Imbalanced`. `README.md:92` says
  that the run verifies that the external accounts balance.
- `README.md:92` has deposits credit the external Ledger Holding; `CreditAsync` moves
  wallet rows only, and the next run's plug makes up for it.
- The sums come before the locks of the plugs, so a funding committed in between is
  overwritten until the next run. `Balanced` may be false when another run commits
  in between. Both are exceptions that `QuietRunMirrors` and
  `BalancedMeansCollected` name.
- A payout that was refunded, reposted, settled and reconciled gives the Income holding a
  fee that Income has given back and never got again (`TransferService.cs:322`). The
  surplus hides the fee of a payout that is not collected: with the first refunded and
  reposted and the second still `Submitted`, the report says `Balanced`. So does a payout
  refunded twice. These are the other exceptions of `BalancedMeansCollected`; without
  them the run finds such a report.
- A worker's job that fails for the last time (`DeadLetter`) while its reversal throws
  leaves the dead letter in the DbContext. The next save writes it, without the failed
  status: the transfer stays `Submitted` and no worker takes it up again. `resolved` has
  the code's five attempts and two faults, which is too few to come there.
- Likewise a save that fails, followed by a repost, may leave a `Submitted` transfer
  behind a closed job: what the worker kept is written over what the repost has reset.
  `resolved` leaves out failed saves for that reason; without a repost it holds with two
  faults of all six kinds.
- A report for today, made by an administrator, blocks any other of that day:
  transfers settled afterwards are never reconciled. Nor is a day on which nothing
  outbound was settled by the day after, or on which the worker was down.
- The counter of the daily limit takes its day before it waits for its row, and
  CreatedAt comes after it: around midnight a transfer may count for one day and
  be reconciled with the next. No document says that the two agree.
- In the admin portal the DbContext lives as long as the circuit, so a run that
  failed leaves its report `Added` there for the next save.

Not modelled:

- KYC review, channels: each operation sets one or two rows in one save, and no
  document relates them (which status a user with several documents has, which
  states of a channel may follow which), so that there is nothing to check. The
  effect of a KYC decision on a limit is `KycDecision`.
- Outbox: inserted with its transfer, marked in the worker's transaction; there is no
  publisher and nothing reads it.
- Wallet and user creation: single inserts under unique indexes. The retry after a
  colliding account number keeps the rejected wallet in its DbContext, so one
  collision makes all five attempts fail.
- The customer web client: its state is one browser circuit's. A refresh that ends
  after a logout restores the token, and the transfer form renews its key only when
  it receives a success; what the server then does with an old or a new key is
  checked in `TransferService`.
- The endpoints of the APIs, encryption, the mock of name enquiry, pages: stateless.

## 6. Plan

1. Done: `Ledger`, `TransferService` and its proofs; `Lifecycle`, `Settlement` and its
   proofs; `WorkerBatch` and its proofs; `Reconciliation` and its proofs; `ReconnectModal` and its
   proofs.
2. Left: KYC reviews, channels and wallet creation, once a document says what they
   promise; the web client's session; a composition of `WorkerBatch` and
   `TransferService` in which the worker's stale entities meet requests that wait for
   the same rows, to replace the worker of `TransferService` that may write anything.
3. Proofs left: that Settlement's row keeps its legs in `WorkerBatch` with one fault;
   no safety property of a passing run is without a theorem.
