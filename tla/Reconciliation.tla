---------------------------- MODULE Reconciliation ----------------------------
(***************************************************************************)
(* End-of-day reconciliation: RunReconciliationAsync marks the settled     *)
(* transfers of one WAT day, moves the external holdings for them, makes   *)
(* the Ledger and Settlement holdings equal to the database, and writes    *)
(* the day's only report.  The worker's ReconciliationBackgroundService    *)
(* runs it for yesterday; an administrator may run it for today at any     *)
(* time, beside it.  Transfers are posted, settled, reversed and reposted  *)
(* meanwhile: each is one transaction here, TransferService and Settlement *)
(* have its steps, and WorkerBatch the halves of a reversal that leak.     *)
(* Deposits move customers and Settlement as inbound transfers do.         *)
(*                                                                         *)
(* A run is one transaction.  Its rows of ExternalAccounts are locked by   *)
(* the reads (UPDLOCK, HOLDLOCK) and change for others when it commits;    *)
(* its sums over the wallets take no locks and come before the last two    *)
(* lock requests.                                                          *)
(***************************************************************************)
EXTENDS Integers, FiniteSets, Sequences

CONSTANTS
  Outbound, Inbound,   \* transfers
  Early,               \* those posted on the first day before the first step
  Amount, Fee, Vat,    \* of every transfer; Inbound has no charges
  LastDay,             \* bound: business days
  MaxReversals,        \* bound: reversals, which bound the reposts
  MaxFundings,         \* bound: calls of CreditSettlementAsync
  MaxFaults,           \* bound: exceptions and restarts in a run
  None

Transfer == Outbound \cup Inbound
Runner == {"eod", "manual"}
Day == 1..LastDay
Status == {"none", "submitted", "settled", "failed"}

(* The four holdings, by the system account or sum they mirror. *)
Key == {"ledger", "settlement", "income", "vat"}

ASSUME ReconAssumption ==
  /\ IsFiniteSet(Transfer) /\ Outbound \cap Inbound = {} /\ Early \subseteq Transfer
  /\ Amount \in Nat \ {0} /\ Fee \in Nat \ {0} /\ Vat \in Nat \ {0}
  /\ LastDay \in Nat \ {0} /\ MaxFaults \in Nat
  /\ MaxReversals \in Nat /\ MaxFundings \in Nat
  /\ None \notin Runner \cup {"Balanced", "Imbalanced"}

VARIABLES
  \* the database
  today, created, status, funded,
  reversals,       \* postings of ReverseOutboundAsync
  reconciled,      \* transfers with a ReconciledAt
  holding,         \* balances of the external accounts
  report,          \* the committed report of a day
  \* uncommitted
  inserting,       \* the run that has inserted the report of a day
  lock,            \* the run that holds the row of a holding
  \* the runs
  pc, day,
  batch,           \* the transfers it loaded
  expected,        \* the sums it took
  lastReconciledDay,   \* the worker's cache; 0 if null
  \* history
  refunded,        \* payouts that have been reversed, reposted ones included
  owed,            \* payouts whose fee was in the sum of Income: not refunded
  disturbed,       \* what happened since a run began to sum
  faults

wallets == <<today, created, status, funded, reversals, refunded>>
books   == <<reconciled, holding, report>>
rows    == <<inserting, lock>>
runs    == <<pc, day, batch, expected, owed>>
vars    == <<wallets, books, rows, runs, lastReconciledDay, disturbed, faults>>
-----------------------------------------------------------------------------
(* Balances of the ledger, as the transfers make them. *)

Posted   == {t \in Outbound : status[t] # "none"}
Received == {t \in Inbound : status[t] = "settled"}

(* Charges that Income and VAT have kept: a reversal gives back those of a *)
(* transfer, and a repost does not take them again.                        *)
Kept == Cardinality(Posted) - reversals

System(k) ==
  CASE k = "ledger"     -> (Amount + Fee + Vat) * (Cardinality(Outbound) - Kept)
                             + Amount * Cardinality(Received)
    [] k = "settlement" -> Amount * (Cardinality(Inbound) + Kept - Cardinality(Received) + funded)
    [] k = "income"     -> Fee * Kept
    [] k = "vat"        -> Vat * Kept

SettledOf(d) == {t \in Transfer : created[t] = d /\ status[t] = "settled" /\ t \notin reconciled}

(* What reconciling a batch adds to each holding. *)
Movement(b) ==
  LET out == Cardinality(b \cap Outbound)
      in  == Cardinality(b \cap Inbound)
  IN  [ledger     |-> Amount * in - (Amount + Fee + Vat) * out,
       settlement |-> Amount * (out - in),
       income     |-> Fee * out,
       vat        |-> Vat * out]

(* The rows in the order the two loops ask for them, and after the sums.   *)
LoopRows(b) ==
  IF b \cap Outbound # {} THEN <<"settlement", "income", "vat", "ledger">>
  ELSE IF b # {} THEN <<"settlement", "ledger">> ELSE <<>>

PlugRows == <<"ledger", "settlement">>

(* pc: idle, insert, load, loadIn, lock, then the sum taken last.          *)
NextSum == [lock |-> "ledger", ledger |-> "settlement", settlement |-> "income", income |-> "vat"]

Wanted(r) ==
  LET rowsOf == IF pc[r] = "lock" THEN LoopRows(batch[r])
                ELSE IF pc[r] = "vat" THEN PlugRows ELSE <<>>
  IN  SelectSeq(rowsOf, LAMBDA k : lock[k] # r)

Waiting(r) == Wanted(r) # <<>>
WaitsFor(r, s) == Waiting(r) /\ lock[Head(Wanted(r))] = s

PostedStatus(t) == IF t \in Outbound THEN "submitted" ELSE "settled"

NothingSummed == [k \in Key |-> 0]
-----------------------------------------------------------------------------
(* Settlement and its holding are seeded alike.  The deposits from which   *)
(* the payouts are paid went from Settlement to the customers; no holding  *)
(* was moved for them.                                                     *)
Seeded == [k \in Key |->
  IF k = "settlement"
    THEN Amount * Cardinality(Inbound) + (Amount + Fee + Vat) * Cardinality(Outbound) ELSE 0]

Init ==
  /\ today = 1
  /\ created = [t \in Transfer |-> IF t \in Early THEN 1 ELSE 0]
  /\ status = [t \in Transfer |-> IF t \in Early THEN PostedStatus(t) ELSE "none"]
  /\ funded = 0 /\ reversals = 0 /\ refunded = {}
  /\ reconciled = {}
  /\ holding = Seeded
  /\ report = [d \in Day |-> None]
  /\ inserting = [d \in Day |-> None]
  /\ lock = [k \in Key |-> None]
  /\ pc = [r \in Runner |-> "idle"] /\ day = [r \in Runner |-> 0]
  /\ batch = [r \in Runner |-> {}]
  /\ expected = [r \in Runner |-> NothingSummed]
  /\ owed = [r \in Runner |-> {}]
  /\ disturbed = [r \in Runner |-> {}]
  /\ lastReconciledDay = 0
  /\ faults = 0

Disturb(what) ==
  disturbed' = [r \in Runner |->
    IF pc[r] \in Key THEN disturbed[r] \cup {what} ELSE disturbed[r]]
-----------------------------------------------------------------------------
(* The days, the transfers and the funding. *)

NextDay ==
  /\ today < LastDay
  /\ today' = today + 1
  /\ UNCHANGED <<created, status, funded, reversals, refunded>>
  /\ UNCHANGED <<books, rows, runs, lastReconciledDay, disturbed, faults>>

Post(t) ==
  /\ status[t] = "none"
  /\ status' = [status EXCEPT ![t] = PostedStatus(t)]
  /\ created' = [created EXCEPT ![t] = today]
  /\ Disturb("posting")
  /\ UNCHANGED <<today, funded, reversals, refunded, books, rows, runs, lastReconciledDay, faults>>

Settle(t) ==
  /\ status[t] = "submitted"
  /\ status' = [status EXCEPT ![t] = "settled"]
  /\ UNCHANGED <<today, created, funded, reversals, refunded>>
  /\ UNCHANGED <<books, rows, runs, lastReconciledDay, disturbed, faults>>

(* The first refund of a transfer, or one more that an answer to an        *)
(* earlier sending brings late, whatever became of the transfer since.     *)
Reverse(t) ==
  /\ status[t] = "submitted" \/ t \in refunded
  /\ Kept > 0 /\ reversals < MaxReversals
  /\ status' = [status EXCEPT ![t] = "failed"]
  /\ reversals' = reversals + 1
  /\ refunded' = refunded \cup {t}
  /\ Disturb("posting")
  /\ UNCHANGED <<today, created, funded, books, rows, runs, lastReconciledDay, faults>>

(* RepostAsync posts no legs: the customer is not debited again.           *)
Repost(t) ==
  /\ status[t] = "failed"
  /\ status' = [status EXCEPT ![t] = "submitted"]
  /\ UNCHANGED <<today, created, funded, reversals, refunded>>
  /\ UNCHANGED <<books, rows, runs, lastReconciledDay, disturbed, faults>>

(* CreditSettlementAsync: it reads the holding without a lock, and fails   *)
(* if a run changed it before its UPDATE.                                  *)
CreditSettlement ==
  /\ funded < MaxFundings /\ lock["settlement"] = None
  /\ funded' = funded + 1
  /\ holding' = [holding EXCEPT !["settlement"] = @ + Amount]
  /\ Disturb("posting")
  /\ UNCHANGED <<today, created, status, reversals, refunded, reconciled, report>>
  /\ UNCHANGED <<rows, runs, lastReconciledDay, faults>>
-----------------------------------------------------------------------------
(* How a run begins: both read the existing report before the transaction. *)

Begin(r, d) ==
  /\ pc' = [pc EXCEPT ![r] = "insert"]
  /\ day' = [day EXCEPT ![r] = d]
  /\ UNCHANGED <<wallets, books, rows, batch, expected, owed, disturbed, faults>>

(* Mutated form: the day is remembered before it is reconciled. *)
TryRunEodTooEarly ==
  /\ pc["eod"] = "idle" /\ today > 1 /\ lastReconciledDay # today - 1
  /\ SettledOf(today - 1) \cap Outbound # {} /\ report[today - 1] = None
  /\ Begin("eod", today - 1)
  /\ lastReconciledDay' = today - 1

TryRunEodReconciliation ==
  /\ pc["eod"] = "idle" /\ today > 1 /\ lastReconciledDay # today - 1
  /\ report[today - 1] = None
  /\ SettledOf(today - 1) \cap Outbound # {}
  /\ Begin("eod", today - 1)
  /\ UNCHANGED lastReconciledDay

AlreadyReconciled ==
  /\ pc["eod"] = "idle" /\ today > 1 /\ lastReconciledDay # today - 1
  /\ report[today - 1] # None
  /\ lastReconciledDay' = today - 1
  /\ UNCHANGED <<wallets, books, rows, runs, disturbed, faults>>

RunManually ==
  /\ pc["manual"] = "idle" /\ report[today] = None
  /\ Begin("manual", today)
  /\ UNCHANGED lastReconciledDay
-----------------------------------------------------------------------------
(* The run's transaction ends; so does its scope. *)
End(r) ==
  /\ pc' = [pc EXCEPT ![r] = "idle"]
  /\ day' = [day EXCEPT ![r] = 0]
  /\ batch' = [batch EXCEPT ![r] = {}]
  /\ expected' = [expected EXCEPT ![r] = NothingSummed]
  /\ owed' = [owed EXCEPT ![r] = {}]
  /\ inserting' = [d \in Day |-> IF inserting[d] = r THEN None ELSE inserting[d]]

Release(r) == lock' = [k \in Key |-> IF lock[k] = r THEN None ELSE lock[k]]

(* As Release, and the first row that s waits for is granted to it.        *)
HandOver(r, s) ==
  lock' = [k \in Key |-> IF k = Head(Wanted(s)) THEN s ELSE IF lock[k] = r THEN None ELSE lock[k]]

Rollback(r) ==
  /\ End(r)
  /\ disturbed' = [disturbed EXCEPT ![r] = {}]
  /\ UNCHANGED <<wallets, books>>

(* Mutated form: the index on WatDate is not unique. *)
InsertAnyway(r) ==
  /\ pc[r] = "insert"
  /\ inserting' = [inserting EXCEPT ![day[r]] = r]
  /\ pc' = [pc EXCEPT ![r] = "load"]
  /\ UNCHANGED <<wallets, books, lock, day, batch, expected, owed, lastReconciledDay, disturbed, faults>>

(* The insert waits for an uncommitted report of the same day, and fails   *)
(* on a committed one.                                                     *)
InsertReport(r) ==
  /\ pc[r] = "insert" /\ inserting[day[r]] = None
  /\ report[day[r]] = None
  /\ inserting' = [inserting EXCEPT ![day[r]] = r]
  /\ pc' = [pc EXCEPT ![r] = "load"]
  /\ UNCHANGED <<wallets, books, lock, day, batch, expected, owed, lastReconciledDay, disturbed, faults>>

DuplicateReport(r) ==
  /\ pc[r] = "insert" /\ inserting[day[r]] = None
  /\ report[day[r]] # None
  /\ Rollback(r) /\ Release(r)
  /\ UNCHANGED <<lastReconciledDay, faults>>

(* Lines 32 and 33: two reads. *)
LoadOutbound(r) ==
  /\ pc[r] = "load"
  /\ batch' = [batch EXCEPT ![r] = SettledOf(day[r]) \cap Outbound]
  /\ pc' = [pc EXCEPT ![r] = "loadIn"]
  /\ UNCHANGED <<wallets, books, rows, day, expected, owed, lastReconciledDay, disturbed, faults>>

LoadInbound(r) ==
  /\ pc[r] = "loadIn"
  /\ batch' = [batch EXCEPT ![r] = @ \cup (SettledOf(day[r]) \cap Inbound)]
  /\ pc' = [pc EXCEPT ![r] = "lock"]
  /\ UNCHANGED <<wallets, books, rows, day, expected, owed, lastReconciledDay, disturbed, faults>>

LockHolding(r) ==
  /\ Waiting(r) /\ lock[Head(Wanted(r))] = None
  /\ lock' = [lock EXCEPT ![Head(Wanted(r))] = r]
  /\ UNCHANGED <<wallets, books, inserting, runs, lastReconciledDay, disturbed, faults>>

(* Lines 89 to 92, one statement each. *)
Sum(r) ==
  /\ pc[r] \in DOMAIN NextSum /\ ~Waiting(r)
  /\ LET k == NextSum[pc[r]] IN
       /\ pc' = [pc EXCEPT ![r] = k]
       /\ expected' = [expected EXCEPT ![r][k] = System(k)]
       /\ owed' = IF k = "income" THEN [owed EXCEPT ![r] = Posted \ refunded] ELSE owed
  /\ UNCHANGED <<wallets, books, rows, day, batch, lastReconciledDay, disturbed, faults>>

(* Mutated forms: the holdings are compared only; one that is too high is  *)
(* left alone.                                                             *)
NeverPlugged(actual, target) == actual
NeverDebited(actual, target) == IF target > actual THEN target ELSE actual

(* Lines 99 to 105: credited or debited until it equals the database. *)
Plugged(actual, target) == target

HoldingsAfter(r) ==
  LET moved == [k \in Key |-> holding[k] + Movement(batch[r])[k]]
  IN  [moved EXCEPT !.ledger = Plugged(@, expected[r].ledger),
                    !.settlement = Plugged(@, expected[r].settlement)]

(* Mutated form: only the two holdings that have just been made equal are  *)
(* compared.                                                               *)
HalfCompared(r) ==
  IF \A k \in {"ledger", "settlement"} : HoldingsAfter(r)[k] = expected[r][k]
  THEN "Balanced" ELSE "Imbalanced"

Completed(r) ==
  IF \A k \in Key : HoldingsAfter(r)[k] = expected[r][k] THEN "Balanced" ELSE "Imbalanced"

Complete(r) ==
  /\ pc[r] = "vat" /\ ~Waiting(r)
  /\ holding' = HoldingsAfter(r)
  /\ report' = [report EXCEPT ![day[r]] = Completed(r)]
  /\ reconciled' = reconciled \cup batch[r]
  /\ lastReconciledDay' = IF r = "eod" THEN day[r] ELSE lastReconciledDay
  /\ End(r) /\ Release(r)
  /\ disturbed' = [q \in Runner |->
       IF q # r /\ pc[q] \in Key THEN disturbed[q] \cup {"run"}
       ELSE IF q = r THEN {} ELSE disturbed[q]]
  /\ UNCHANGED <<wallets, faults>>

(* Two runs that wait for each other: one is the victim, the other gets    *)
(* the row it waits for.                                                   *)
DeadlockVictim(r) ==
  /\ \E s \in Runner \ {r} : WaitsFor(r, s) /\ WaitsFor(s, r) /\ HandOver(r, s)
  /\ Rollback(r)
  /\ UNCHANGED <<lastReconciledDay, faults>>

(* An exception, or the end of the process, in which the cache is lost. *)
Fault(r) ==
  /\ pc[r] # "idle" /\ faults < MaxFaults
  /\ Rollback(r) /\ Release(r)
  /\ faults' = faults + 1
  /\ lastReconciledDay' \in (IF r = "eod" THEN {lastReconciledDay, 0} ELSE {lastReconciledDay})

RunStep(r) ==
  \/ InsertReport(r) \/ DuplicateReport(r) \/ LoadOutbound(r) \/ LoadInbound(r)
  \/ LockHolding(r) \/ Sum(r) \/ Complete(r) \/ DeadlockVictim(r)

Next ==
  \/ NextDay \/ CreditSettlement
  \/ \E t \in Transfer : Post(t)
  \/ \E t \in Outbound : Settle(t) \/ Reverse(t) \/ Repost(t)
  \/ TryRunEodReconciliation \/ AlreadyReconciled \/ RunManually
  \/ \E r \in Runner : RunStep(r) \/ Fault(r)

(* The worker's cycle comes every 30 seconds, a run that has begun goes    *)
(* on, and a row is granted to those who wait for it in turn.              *)
Spec ==
  /\ Init /\ [][Next]_vars
  /\ WF_vars(TryRunEodReconciliation)
  /\ \A r \in Runner : WF_vars(RunStep(r))
-----------------------------------------------------------------------------
(* Types.  No holding is ever committed negative: the loops debit Ledger   *)
(* and Settlement without a check (Records.cs, line 173), and the plugs    *)
(* of lines 99 to 105 end what that leaves, within the transaction.        *)
TypeOK ==
  /\ today \in 1..LastDay
  /\ created \in [Transfer -> 0..LastDay] /\ status \in [Transfer -> Status]
  /\ funded \in 0..MaxFundings /\ refunded \subseteq Outbound
  /\ reversals \in 0..MaxReversals /\ Kept \in Nat
  /\ reconciled \subseteq Transfer
  /\ holding \in [Key -> Nat]
  /\ report \in [Day -> {None, "Balanced", "Imbalanced"}]
  /\ inserting \in [Day -> Runner \cup {None}] /\ lock \in [Key -> Runner \cup {None}]
  /\ pc \in [Runner -> {"idle", "insert", "load", "loadIn", "lock"} \cup Key]
  /\ day \in [Runner -> 0..LastDay]
  /\ batch \in [Runner -> SUBSET Transfer] /\ owed \in [Runner -> SUBSET Outbound]
  /\ expected \in [Runner -> [Key -> Nat]]
  /\ lastReconciledDay \in 0..LastDay
  /\ disturbed \in [Runner -> SUBSET {"posting", "run"}]
  /\ faults \in 0..MaxFaults

(* The Income and VAT holdings have received the charges of exactly the    *)
(* reconciled transfers: none is reconciled twice by concurrent runs, and  *)
(* none is marked without its money (lines 32 to 65 and the unique index   *)
(* on WatDate).                                                            *)
ChargesCollectedOnce ==
  /\ holding["income"] = Fee * Cardinality(reconciled \cap Outbound)
  /\ holding["vat"] = Vat * Cardinality(reconciled \cap Outbound)

Commits(r) == pc[r] = "vat" /\ report[day[r]] = None /\ report'[day[r]] # None

(* A Balanced report means that no payout of any day was outstanding: each *)
(* whose fee Income held when it was summed (line 91) has been settled and *)
(* reconciled.  Three things falsify it.  Another run may commit between   *)
(* the sum and the last two locks: the sums are taken without locks.  A    *)
(* refunded payout may be collected, reposted and paid although its fee    *)
(* was given back (TransferService.cs, line 322), or refunded twice; the   *)
(* missing fee then hides that of a payout that was not collected.         *)
BalancedMeansCollected ==
  [][\A r \in Runner :
       /\ Commits(r) /\ report'[day[r]] = "Balanced"
       /\ "run" \notin disturbed[r]
       /\ reconciled' \cap refunded = {} /\ reversals = Cardinality(refunded)
       => owed[r] \subseteq reconciled']_vars

(* After a run during whose sums and locks nothing was posted, the Ledger  *)
(* and Settlement holdings mirror the database, whatever they were before  *)
(* (lines 94 to 105), even if another run committed in between.            *)
QuietRunMirrors ==
  [][\A r \in Runner :
       /\ Commits(r)
       /\ "posting" \notin disturbed[r]
       => \A k \in {"ledger", "settlement"} : holding'[k] = System(k)]_vars

(* A payout that stays settled by the day after its own gets that day's    *)
(* report, in spite of faults, deadlocks with a manual run and restarts,   *)
(* if that day lasts: lines 201 to 217 try again until there is a report,  *)
(* or until a late refund has left nothing to report.                      *)
EndOfDayRuns ==
  LET due == SettledOf(LastDay - 1) \cap Outbound # {}
  IN  (today = LastDay /\ due) ~> (report[LastDay - 1] # None \/ ~due)
=============================================================================
