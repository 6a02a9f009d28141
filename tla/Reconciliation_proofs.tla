------------------------ MODULE Reconciliation_proofs ------------------------
(***************************************************************************)
(* Proofs about Reconciliation, for any transfers, charges, days, fundings *)
(* and faults.                                                             *)
(***************************************************************************)
EXTENDS Reconciliation, FiniteSetTheorems, TLAPS

(* How many of the transfers there are, in any set of them. *)
LEMMA Counted ==
  ASSUME NEW S \in SUBSET Transfer
  PROVE  IsFiniteSet(S) /\ Cardinality(S) \in Nat
BY ReconAssumption, FS_Subset, FS_CardinalityType

LEMMA AmountsInt == Amount \in Int /\ Fee \in Int /\ Vat \in Int
BY ReconAssumption

LEMMA Product ==
  ASSUME NEW a \in Nat, NEW b \in Nat
  PROVE  a * b \in Nat
OBVIOUS

LEMMA Fewer ==
  ASSUME NEW S \in SUBSET Transfer, NEW P \in SUBSET S
  PROVE  Cardinality(S) - Cardinality(P) \in Nat
<1>1. Cardinality(P) <= Cardinality(S)
  BY Counted, FS_Subset
<1>. QED
  BY <1>1, Counted

(* No balance of the ledger is negative. *)
LEMMA SystemNat ==
  ASSUME TypeOK, NEW k \in Key
  PROVE  System(k) \in Nat
<1>1. Posted \in SUBSET Outbound /\ Received \in SUBSET Inbound
  BY DEF Posted, Received
<1>2. /\ Cardinality(Outbound) - Kept \in Nat
      /\ Cardinality(Inbound) - Cardinality(Received) \in Nat
  <2>1. /\ Cardinality(Outbound) - Cardinality(Posted) \in Nat
        /\ Cardinality(Inbound) - Cardinality(Received) \in Nat
    BY <1>1, Fewer DEF Transfer
  <2>2. reversals \in Nat /\ Kept = Cardinality(Posted) - reversals
    BY ReconAssumption DEF TypeOK, Kept
  <2>3. Cardinality(Outbound) \in Nat /\ Cardinality(Posted) \in Nat
    BY <1>1, Counted DEF Transfer
  <2>. QED
    BY <2>1, <2>2, <2>3
<1>3. /\ Kept \in Nat /\ Cardinality(Received) \in Nat
      /\ Cardinality(Inbound) \in Nat
  BY <1>1, Counted DEF Transfer, TypeOK
<1>4. funded \in Nat
  BY ReconAssumption DEF TypeOK
<1>5. /\ Amount \in Nat /\ Fee \in Nat /\ Vat \in Nat /\ Amount + Fee + Vat \in Nat
  BY ReconAssumption
<1>6. CASE k = "ledger"
  <2>1. /\ (Amount + Fee + Vat) * (Cardinality(Outbound) - Kept) \in Nat
        /\ Amount * Cardinality(Received) \in Nat
    BY <1>2, <1>3, <1>5, Product
  <2>. QED
    BY <1>6, <2>1 DEF System
<1>7. CASE k = "settlement"
  <2>1. Cardinality(Inbound) + Kept - Cardinality(Received) + funded \in Nat
    BY <1>2, <1>3, <1>4
  <2>2. Amount * (Cardinality(Inbound) + Kept - Cardinality(Received) + funded) \in Nat
    BY <1>5, <2>1, Product
  <2>. QED
    BY <1>7, <2>2 DEF System
<1>8. CASE k = "income"
  BY <1>3, <1>5, <1>8, Product DEF System
<1>9. CASE k = "vat"
  BY <1>3, <1>5, <1>9, Product DEF System
<1>. QED
  BY <1>6, <1>7, <1>8, <1>9 DEF Key

LEMMA MovementInt ==
  ASSUME NEW S \in SUBSET Transfer
  PROVE  Movement(S) \in [ledger : Int, settlement : Int, income : Int, vat : Int]
<1>1. Cardinality(S \cap Outbound) \in Nat /\ Cardinality(S \cap Inbound) \in Nat
  BY Counted DEF Transfer
<1>. QED
  BY <1>1, AmountsInt DEF Movement

(* What a run makes of the holdings. *)
LEMMA HoldingsMoved ==
  ASSUME TypeOK, NEW r \in Runner
  PROVE  /\ HoldingsAfter(r) \in [Key -> Nat]
         /\ HoldingsAfter(r)["ledger"] = expected[r]["ledger"]
         /\ HoldingsAfter(r)["settlement"] = expected[r]["settlement"]
         /\ HoldingsAfter(r)["income"] = holding["income"] + Fee * Cardinality(batch[r] \cap Outbound)
         /\ HoldingsAfter(r)["vat"] = holding["vat"] + Vat * Cardinality(batch[r] \cap Outbound)
<1>. DEFINE moved == [k \in Key |-> holding[k] + Movement(batch[r])[k]]
<1>1. batch[r] \in SUBSET Transfer /\ expected[r] \in [Key -> Nat] /\ holding \in [Key -> Nat]
  BY DEF TypeOK
<1>2. Movement(batch[r]) \in [ledger : Int, settlement : Int, income : Int, vat : Int]
  BY <1>1, MovementInt
<1>3. \A k \in Key : Movement(batch[r])[k] \in Int
  BY <1>2 DEF Key
<1>4. moved \in [Key -> Int]
  BY <1>1, <1>3
<1>5. HoldingsAfter(r) = [moved EXCEPT !["ledger"] = expected[r]["ledger"],
                                       !["settlement"] = expected[r]["settlement"]]
  BY DEF HoldingsAfter, Plugged
<1>6. /\ Movement(batch[r])["income"] = Fee * Cardinality(batch[r] \cap Outbound)
      /\ Movement(batch[r])["vat"] = Vat * Cardinality(batch[r] \cap Outbound)
  BY DEF Movement
<1>. HIDE DEF moved
<1>7. HoldingsAfter(r)["income"] = moved["income"] /\ HoldingsAfter(r)["vat"] = moved["vat"]
  BY <1>4, <1>5 DEF Key
<1>8. /\ HoldingsAfter(r)["ledger"] = expected[r]["ledger"]
      /\ HoldingsAfter(r)["settlement"] = expected[r]["settlement"]
      /\ HoldingsAfter(r)["income"] = holding["income"] + Fee * Cardinality(batch[r] \cap Outbound)
      /\ HoldingsAfter(r)["vat"] = holding["vat"] + Vat * Cardinality(batch[r] \cap Outbound)
  BY <1>1, <1>4, <1>5, <1>6, <1>7 DEF moved, Key
<1>9. /\ Fee * Cardinality(batch[r] \cap Outbound) \in Nat
      /\ Vat * Cardinality(batch[r] \cap Outbound) \in Nat
  <2>1. Cardinality(batch[r] \cap Outbound) \in Nat
    BY <1>1, Counted
  <2>. QED
    BY <2>1, ReconAssumption, Product
<1>10. \A k \in Key : HoldingsAfter(r)[k] \in Nat
  <2>. HIDE DEF HoldingsAfter
  <2>. QED
    BY <1>1, <1>8, <1>9 DEF Key
<1>11. HoldingsAfter(r) = [k \in Key |-> HoldingsAfter(r)[k]]
  BY <1>4, <1>5
<1>. QED
  BY <1>8, <1>10, <1>11
-----------------------------------------------------------------------------
(* Type correctness. *)

LEMMA SameKept ==
  ASSUME UNCHANGED <<status, reversals>>
  PROVE  Kept' = Kept
BY DEF Kept, Posted

(* A payout once posted stays posted. *)
LEMMA KeptNat ==
  ASSUME TypeOK, Posted \subseteq Posted',
         reversals' = reversals \/ (Kept > 0 /\ reversals' = reversals + 1)
  PROVE  Kept' \in Nat
<1>1. Posted \in SUBSET Posted' /\ Posted' \in SUBSET Transfer
  BY DEF Posted, Transfer
<1>2. Cardinality(Posted') - Cardinality(Posted) \in Nat
  BY <1>1, Fewer
<1>3. Cardinality(Posted) \in Nat /\ Cardinality(Posted') \in Nat
  BY <1>1, Counted DEF Transfer
<1>4. Kept \in Nat /\ reversals \in Nat
  BY ReconAssumption DEF TypeOK
<1>5. Kept = Cardinality(Posted) - reversals /\ Kept' = Cardinality(Posted') - reversals'
  BY DEF Kept
<1>. QED
  BY <1>2, <1>3, <1>4, <1>5

LEMMA TypedInit ==
  ASSUME Init
  PROVE  TypeOK
<1>1. Seeded \in [Key -> Nat]
  <2>1. Cardinality(Outbound) \in Nat /\ Cardinality(Inbound) \in Nat
    BY Counted DEF Transfer
  <2>2. Amount \in Nat /\ Amount + Fee + Vat \in Nat
    BY ReconAssumption
  <2>3. /\ Amount * Cardinality(Inbound) \in Nat
        /\ (Amount + Fee + Vat) * Cardinality(Outbound) \in Nat
    BY <2>1, <2>2, Product
  <2>. QED
    BY <2>3 DEF Seeded
<1>2. /\ today \in 1..LastDay /\ faults \in 0..MaxFaults /\ funded \in 0..MaxFundings
      /\ lastReconciledDay \in 0..LastDay /\ reversals \in 0..MaxReversals
  BY ReconAssumption DEF Init
<1>3. Kept \in Nat
  <2>1. Posted \in SUBSET Transfer /\ reversals = 0
    BY DEF Init, Posted, Transfer
  <2>. QED
    BY <2>1, Counted DEF Kept
<1>4. created \in [Transfer -> 0..LastDay] /\ status \in [Transfer -> Status]
  BY ReconAssumption DEF Init, Status, PostedStatus
<1>. QED
  BY <1>1, <1>2, <1>3, <1>4, ReconAssumption DEF Init, TypeOK, Status, NothingSummed, Runner, Day, Key

(* What happens beside the runs. *)
Beside ==
  \/ NextDay \/ CreditSettlement
  \/ \E t \in Transfer : Post(t)
  \/ \E t \in Outbound : Settle(t) \/ Reverse(t) \/ Repost(t)

LEMMA TypedWallets ==
  ASSUME TypeOK, Beside
  PROVE  TypeOK'
<1>. USE ReconAssumption DEF wallets, books, rows, runs, Status
<1>1. CASE NextDay
  BY <1>1, SameKept DEF NextDay, TypeOK
<1>2. CASE CreditSettlement
  <2>1. funded' \in 0..MaxFundings
    BY <1>2 DEF CreditSettlement, TypeOK
  <2>3. holding' \in [Key -> Nat]
    <3>1. holding["settlement"] + Amount \in Nat
      BY ReconAssumption DEF Key, TypeOK
    <3>. QED
      BY <1>2, <3>1 DEF CreditSettlement, TypeOK
  <2>2. disturbed' \in [Runner -> SUBSET {"posting", "run"}]
    BY <1>2 DEF CreditSettlement, Disturb, TypeOK
  <2>4. Kept' \in Nat
    BY <1>2, SameKept DEF CreditSettlement, TypeOK
  <2>. QED
    BY <1>2, <2>1, <2>2, <2>3, <2>4 DEF CreditSettlement, TypeOK
<1>3. ASSUME NEW t \in Transfer, Post(t)
      PROVE  TypeOK'
  <2>1. Posted \subseteq Posted'
    BY <1>3 DEF Post, Posted, PostedStatus, TypeOK
  <2>2. status' \in [Transfer -> Status]
    BY <1>3 DEF Post, PostedStatus, TypeOK
  <2>3. created' \in [Transfer -> 0..LastDay]
    BY <1>3 DEF Post, TypeOK
  <2>4. disturbed' \in [Runner -> SUBSET {"posting", "run"}]
    BY <1>3 DEF Post, Disturb, TypeOK
  <2>. QED
    BY <1>3, <2>1, <2>2, <2>3, <2>4, KeptNat DEF Post, TypeOK
<1>4. ASSUME NEW t \in Outbound, Settle(t) \/ Repost(t)
      PROVE  TypeOK'
  <2>1. Posted \subseteq Posted'
    BY <1>4 DEF Settle, Repost, Posted, Transfer, TypeOK
  <2>2. Kept' \in Nat
    BY <1>4, <2>1, KeptNat DEF Settle, Repost
  <2>. QED
    BY <1>4, <2>2 DEF Settle, Repost, TypeOK
<1>5. ASSUME NEW t \in Outbound, Reverse(t)
      PROVE  TypeOK'
  <2>1. Posted \subseteq Posted'
    BY <1>5 DEF Reverse, Posted, Transfer, TypeOK
  <2>2. Kept' \in Nat
    BY <1>5, <2>1, KeptNat DEF Reverse
  <2>3. disturbed' \in [Runner -> SUBSET {"posting", "run"}]
    BY <1>5 DEF Reverse, Disturb, TypeOK
  <2>4. reversals' \in 0..MaxReversals
    BY <1>5 DEF Reverse, TypeOK
  <2>. QED
    BY <1>5, <2>2, <2>3, <2>4 DEF Reverse, TypeOK
<1>. QED
  BY <1>1, <1>2, <1>3, <1>4, <1>5 DEF Beside

LEMMA TypedBegin ==
  ASSUME TypeOK, TryRunEodReconciliation \/ AlreadyReconciled \/ RunManually
  PROVE  TypeOK'
<1>. USE ReconAssumption DEF TypeOK, wallets, books, rows, runs, Begin, Day
<1>1. ASSUME NEW r \in Runner, NEW d \in Day, Begin(r, d), UNCHANGED lastReconciledDay
      PROVE  TypeOK'
  BY <1>1, SameKept
<1>2. CASE TryRunEodReconciliation
  <2>1. today - 1 \in Day
    BY <1>2 DEF TryRunEodReconciliation
  <2>. QED
    BY <1>1, <1>2, <2>1 DEF TryRunEodReconciliation, Runner
<1>3. CASE AlreadyReconciled
  BY <1>3, SameKept DEF AlreadyReconciled
<1>4. CASE RunManually
  BY <1>1, <1>4 DEF RunManually, Runner
<1>. QED
  BY <1>2, <1>3, <1>4

(* The variables that a run's end, or its rollback, gives back. *)
LEMMA TypedEnd ==
  ASSUME TypeOK, NEW r \in Runner, End(r)
  PROVE  /\ pc' \in [Runner -> {"idle", "insert", "load", "loadIn", "lock"} \cup Key]
         /\ day' \in [Runner -> 0..LastDay]
         /\ batch' \in [Runner -> SUBSET Transfer] /\ owed' \in [Runner -> SUBSET Outbound]
         /\ expected' \in [Runner -> [Key -> Nat]]
         /\ inserting' \in [Day -> Runner \cup {None}]
BY ReconAssumption DEF TypeOK, End, NothingSummed

LEMMA TypedRelease ==
  ASSUME TypeOK, NEW r \in Runner, Release(r) \/ \E s \in Runner : HandOver(r, s)
  PROVE  lock' \in [Key -> Runner \cup {None}]
BY DEF TypeOK, Release, HandOver

LEMMA RunKeepsWallets ==
  ASSUME NEW r \in Runner, RunStep(r) \/ Fault(r)
  PROVE  UNCHANGED wallets
BY DEF RunStep, InsertReport, DuplicateReport, LoadOutbound, LoadInbound, LockHolding, Sum,
       Complete, DeadlockVictim, Fault, Rollback

LEMMA TypedRun ==
  ASSUME TypeOK, NEW r \in Runner, RunStep(r) \/ Fault(r)
  PROVE  TypeOK'
<1>0. UNCHANGED wallets /\ Kept' = Kept
  BY RunKeepsWallets, SameKept DEF wallets
<1>. USE DEF wallets, books, rows, runs
<1>1. CASE InsertReport(r)
  BY <1>0, <1>1, ReconAssumption DEF InsertReport, TypeOK
<1>2. ASSUME Rollback(r), lock' \in [Key -> Runner \cup {None}],
             lastReconciledDay' \in 0..LastDay, faults' \in 0..MaxFaults
      PROVE  TypeOK'
  BY <1>0, <1>2, TypedEnd DEF Rollback, TypeOK
<1>3. CASE DuplicateReport(r)
  BY <1>2, <1>3, TypedRelease DEF DuplicateReport, TypeOK
<1>4. CASE LoadOutbound(r) \/ LoadInbound(r)
  <2>1. SettledOf(day[r]) \in SUBSET Transfer
    BY DEF SettledOf
  <2>2. batch' \in [Runner -> SUBSET Transfer]
    BY <1>4, <2>1 DEF LoadOutbound, LoadInbound, TypeOK
  <2>. QED
    BY <1>0, <1>4, <2>2 DEF LoadOutbound, LoadInbound, TypeOK
<1>5. CASE LockHolding(r)
  BY <1>0, <1>5 DEF LockHolding, TypeOK
<1>6. CASE Sum(r)
  <2>. DEFINE k == NextSum[pc[r]]
  <2>1. k \in Key
    BY <1>6 DEF Sum, NextSum, Key
  <2>2. System(k) \in Nat
    BY <2>1, SystemNat
  <2>. HIDE DEF k
  <2>3. expected' = [expected EXCEPT ![r][k] = System(k)] /\ pc' = [pc EXCEPT ![r] = k]
    BY <1>6 DEF Sum, k
  <2>4. owed' \in [Runner -> SUBSET Outbound]
    BY <1>6 DEF Sum, TypeOK, Posted
  <2>5. expected' \in [Runner -> [Key -> Nat]]
    BY <2>1, <2>2, <2>3 DEF TypeOK
  <2>. QED
    BY <1>0, <1>6, <2>1, <2>3, <2>4, <2>5 DEF Sum, TypeOK
<1>7. CASE Complete(r)
  <2>1. holding' \in [Key -> Nat]
    BY <1>7, HoldingsMoved DEF Complete
  <2>2. report' \in [Day -> {None, "Balanced", "Imbalanced"}]
    BY <1>7 DEF Complete, Completed, TypeOK
  <2>3. reconciled' \subseteq Transfer /\ lastReconciledDay' \in 0..LastDay
    BY <1>7 DEF Complete, TypeOK
  <2>4. disturbed' \in [Runner -> SUBSET {"posting", "run"}]
    BY <1>7 DEF Complete, TypeOK
  <2>5. lock' \in [Key -> Runner \cup {None}]
    BY <1>7, TypedRelease DEF Complete
  <2>6. End(r) /\ UNCHANGED faults
    BY <1>7 DEF Complete
  <2>. QED
    BY <1>0, <2>1, <2>2, <2>3, <2>4, <2>5, <2>6, TypedEnd DEF TypeOK
<1>8. CASE DeadlockVictim(r)
  BY <1>2, <1>8, TypedRelease DEF DeadlockVictim, TypeOK
<1>9. CASE Fault(r)
  BY <1>2, <1>9, TypedRelease, ReconAssumption DEF Fault, TypeOK
<1>. QED
  BY <1>1, <1>3, <1>4, <1>5, <1>6, <1>7, <1>8, <1>9 DEF RunStep

LEMMA TypedStep ==
  ASSUME TypeOK, [Next]_vars
  PROVE  TypeOK'
<1>1. CASE UNCHANGED vars
  BY <1>1, SameKept DEF vars, wallets, books, rows, runs, TypeOK
<1>. QED
  BY <1>1, TypedWallets, TypedBegin, TypedRun DEF Next, Beside

(* Every variable keeps its type: among others a report is None, Balanced  *)
(* or Imbalanced and never left InProgress, since the row a run inserts    *)
(* first and completes last is one transaction.                            *)
THEOREM ReconciliationTyped == Spec => []TypeOK
BY TypedInit, TypedStep, PTL DEF Spec
-----------------------------------------------------------------------------
(* Charges are collected once. *)

InTransaction(r) == pc[r] \notin {"idle", "insert"}

(* A run between its insert and its commit is the only one of its day.     *)
OneRunPerDay ==
  \A r \in Runner :
    /\ pc[r] # "idle" => day[r] \in Day
    /\ InTransaction(r) => inserting[day[r]] = r /\ report[day[r]] = None

(* What it has loaded stays posted, of its day and not reconciled. *)
BatchesOpen ==
  \A r \in Runner : \A t \in batch[r] :
    /\ InTransaction(r)
    /\ created[t] = day[r] /\ status[t] # "none" /\ t \notin reconciled

Collected == TypeOK /\ OneRunPerDay /\ BatchesOpen /\ ChargesCollectedOnce

LEMMA CollectedInit ==
  ASSUME Init
  PROVE  Collected
<1>1. TypeOK
  BY TypedInit
<1>2. OneRunPerDay /\ BatchesOpen
  BY DEF Init, OneRunPerDay, BatchesOpen, InTransaction
<1>3. ChargesCollectedOnce
  <2>1. reconciled \cap Outbound = {} /\ Cardinality({}) = 0
    BY FS_EmptySet DEF Init
  <2>2. holding["income"] = 0 /\ holding["vat"] = 0
    BY DEF Init, Seeded, Key
  <2>. QED
    BY <2>1, <2>2, AmountsInt DEF ChargesCollectedOnce
<1>. QED
  BY <1>1, <1>2, <1>3 DEF Collected

LEMMA PostedStays ==
  ASSUME TypeOK, Beside, NEW t \in Transfer, status[t] # "none"
  PROVE  status'[t] # "none" /\ created'[t] = created[t]
BY DEF Beside, NextDay, CreditSettlement, Post, Settle, Reverse, Repost, TypeOK

LEMMA CollectedWallets ==
  ASSUME Collected, Beside
  PROVE  OneRunPerDay' /\ BatchesOpen' /\ ChargesCollectedOnce'
<1>. USE DEF Collected, InTransaction, wallets, books, rows, runs
<1>1. UNCHANGED <<pc, day, batch, inserting, report, reconciled, holding["income"], holding["vat"]>>
  BY DEF Beside, NextDay, CreditSettlement, Post, Settle, Reverse, Repost, TypeOK, Key
<1>2. OneRunPerDay' /\ ChargesCollectedOnce'
  BY <1>1 DEF OneRunPerDay, ChargesCollectedOnce
<1>3. \A t \in Transfer : status[t] # "none" => status'[t] # "none" /\ created'[t] = created[t]
  BY PostedStays
<1>4. BatchesOpen'
  BY <1>1, <1>3 DEF BatchesOpen, TypeOK
<1>. QED
  BY <1>2, <1>4

LEMMA CollectedBegin ==
  ASSUME Collected, TryRunEodReconciliation \/ AlreadyReconciled \/ RunManually
  PROVE  OneRunPerDay' /\ BatchesOpen' /\ ChargesCollectedOnce'
<1>. USE DEF Collected, InTransaction, wallets, books, rows, runs, OneRunPerDay, BatchesOpen,
             ChargesCollectedOnce
<1>1. ASSUME NEW r \in Runner, NEW d \in Day, pc[r] = "idle", Begin(r, d)
      PROVE  OneRunPerDay' /\ BatchesOpen' /\ ChargesCollectedOnce'
  BY <1>1 DEF Begin, TypeOK
<1>2. CASE TryRunEodReconciliation
  <2>1. today - 1 \in Day
    <3>1. today \in 1..LastDay /\ today > 1 /\ LastDay \in Nat
      BY <1>2, ReconAssumption DEF TryRunEodReconciliation, TypeOK
    <3>. QED
      BY <3>1 DEF Day
  <2>. QED
    BY <1>1, <1>2, <2>1 DEF TryRunEodReconciliation, Runner
<1>3. CASE AlreadyReconciled
  BY <1>3 DEF AlreadyReconciled
<1>4. CASE RunManually
  BY <1>1, <1>4 DEF RunManually, Runner, TypeOK, Day
<1>. QED
  BY <1>2, <1>3, <1>4

(* A run that ends without a report leaves the others as they are. *)
LEMMA CollectedRollback ==
  ASSUME Collected, NEW r \in Runner, Rollback(r)
  PROVE  OneRunPerDay' /\ BatchesOpen' /\ ChargesCollectedOnce'
BY DEF Collected, InTransaction, wallets, books, OneRunPerDay, BatchesOpen, ChargesCollectedOnce,
       Rollback, End, TypeOK

(* The commit of a run: its batch is disjoint from what was reconciled and *)
(* from the batches of other days.                                         *)
LEMMA CollectedComplete ==
  ASSUME Collected, NEW r \in Runner, Complete(r)
  PROVE  OneRunPerDay' /\ BatchesOpen' /\ ChargesCollectedOnce'
<1>. DEFINE done == reconciled \cap Outbound
            new  == batch[r] \cap Outbound
<1>1. InTransaction(r) /\ day[r] \in Day /\ pc[r] = "vat"
  BY DEF Complete, InTransaction, Collected, OneRunPerDay
<1>2. \A q \in Runner : q # r /\ InTransaction(q) => day[q] # day[r]
  BY <1>1 DEF Collected, OneRunPerDay
<1>3. OneRunPerDay'
  BY <1>1, <1>2 DEF Complete, End, Collected, OneRunPerDay, InTransaction, TypeOK, wallets
<1>4. BatchesOpen'
  BY <1>1, <1>2 DEF Complete, End, Collected, BatchesOpen, InTransaction, TypeOK, wallets
<1>5. /\ IsFiniteSet(done) /\ IsFiniteSet(new) /\ Cardinality(done) \in Nat /\ Cardinality(new) \in Nat
  BY Counted DEF Transfer
<1>6. done \cap new = {} /\ Cardinality({}) = 0
  BY FS_EmptySet DEF Collected, BatchesOpen
<1>7. Cardinality(done \cup new) = Cardinality(done) + Cardinality(new)
  <2>. HIDE DEF done, new
  <2>1. Cardinality(done \cup new) = Cardinality(done) + Cardinality(new) - Cardinality(done \cap new)
    BY <1>5, FS_Union
  <2>2. Cardinality(done \cap new) = 0
    BY <1>6
  <2>. QED
    BY <1>5, <2>1, <2>2
<1>8. reconciled' \cap Outbound = done \cup new
  BY DEF Complete
<1>9. /\ holding'["income"] = holding["income"] + Fee * Cardinality(new)
      /\ holding'["vat"] = holding["vat"] + Vat * Cardinality(new)
  BY HoldingsMoved DEF Complete, Collected
<1>10. /\ holding["income"] = Fee * Cardinality(done)
       /\ holding["vat"] = Vat * Cardinality(done)
  BY DEF Collected, ChargesCollectedOnce
<1>. HIDE DEF done, new
<1>11. ASSUME NEW a \in Nat, NEW b \in Nat, NEW c \in Int
       PROVE  c * a + c * b = c * (a + b)
  OBVIOUS
<1>12. /\ Fee * Cardinality(done) + Fee * Cardinality(new) = Fee * Cardinality(done \cup new)
       /\ Vat * Cardinality(done) + Vat * Cardinality(new) = Vat * Cardinality(done \cup new)
  BY <1>5, <1>7, <1>11, AmountsInt
<1>13. /\ holding'["income"] = Fee * Cardinality(reconciled' \cap Outbound)
       /\ holding'["vat"] = Vat * Cardinality(reconciled' \cap Outbound)
  BY <1>8, <1>9, <1>10, <1>12
<1>14. ChargesCollectedOnce'
  BY <1>13 DEF ChargesCollectedOnce
<1>. QED
  BY <1>3, <1>4, <1>14

LEMMA CollectedRun ==
  ASSUME Collected, NEW r \in Runner, RunStep(r) \/ Fault(r)
  PROVE  OneRunPerDay' /\ BatchesOpen' /\ ChargesCollectedOnce'
<1>. USE DEF Collected, InTransaction, wallets, books, rows, runs, TypeOK
<1>1. CASE InsertReport(r)
  BY <1>1, ReconAssumption DEF InsertReport, OneRunPerDay, BatchesOpen, ChargesCollectedOnce
<1>2. CASE DuplicateReport(r)
  BY <1>2, CollectedRollback DEF DuplicateReport
<1>3. CASE LoadOutbound(r) \/ LoadInbound(r)
  <2>1. OneRunPerDay' /\ ChargesCollectedOnce'
    BY <1>3 DEF LoadOutbound, LoadInbound, OneRunPerDay, ChargesCollectedOnce
  <2>2. /\ \A q \in Runner \ {r} : batch'[q] = batch[q] /\ pc'[q] = pc[q]
        /\ batch'[r] \subseteq batch[r] \cup SettledOf(day[r])
        /\ InTransaction(r)' /\ UNCHANGED <<created, status, reconciled, day>>
    BY <1>3 DEF LoadOutbound, LoadInbound
  <2>3. BatchesOpen'
    BY <2>2 DEF SettledOf, BatchesOpen
  <2>. QED
    BY <2>1, <2>3
<1>4. CASE LockHolding(r)
  BY <1>4 DEF LockHolding, OneRunPerDay, BatchesOpen, ChargesCollectedOnce
<1>5. CASE Sum(r)
  <2>1. NextSum[pc[r]] \in Key /\ InTransaction(r)
    BY <1>5 DEF Sum, NextSum, Key
  <2>2. pc' = [pc EXCEPT ![r] = NextSum[pc[r]]]
    BY <1>5 DEF Sum
  <2>3. \A q \in Runner : InTransaction(q) <=> InTransaction(q)'
    BY <2>1, <2>2 DEF Key
  <2>. QED
    BY <1>5, <2>1, <2>3 DEF Sum, OneRunPerDay, BatchesOpen, ChargesCollectedOnce
<1>6. CASE Complete(r)
  BY <1>6, CollectedComplete
<1>7. CASE DeadlockVictim(r)
  BY <1>7, CollectedRollback DEF DeadlockVictim
<1>8. CASE Fault(r)
  BY <1>8, CollectedRollback DEF Fault
<1>. QED
  BY <1>1, <1>2, <1>3, <1>4, <1>5, <1>6, <1>7, <1>8 DEF RunStep

LEMMA CollectedStep ==
  ASSUME Collected, [Next]_vars
  PROVE  Collected'
<1>1. TypeOK'
  BY TypedStep DEF Collected
<1>2. CASE UNCHANGED vars
  BY <1>1, <1>2 DEF vars, wallets, books, rows, runs, Collected, OneRunPerDay, BatchesOpen,
                    ChargesCollectedOnce, InTransaction
<1>. QED
  BY <1>1, <1>2, CollectedWallets, CollectedBegin, CollectedRun DEF Next, Beside, Collected

LEMMA AlwaysCollected == Spec => []Collected
BY CollectedInit, CollectedStep, PTL DEF Spec

(* Whatever runs meet, on whatever days, and whichever of them fail: the   *)
(* Income and VAT holdings have the charges of the reconciled transfers,   *)
(* each once (the unique index on WatDate, and lines 32 to 65).            *)
THEOREM ReconciledOnce == Spec => []ChargesCollectedOnce
BY AlwaysCollected, PTL DEF Collected
-----------------------------------------------------------------------------
(* What a run's sums are worth when it commits. *)

SummedBy(r, keys) == pc[r] \in keys

(* The two sums that become holdings are still those of the database, as   *)
(* long as nothing was posted.                                             *)
SumsFresh ==
  \A r \in Runner : "posting" \notin disturbed[r] =>
    /\ SummedBy(r, Key) => expected[r]["ledger"] = System("ledger")
    /\ SummedBy(r, Key \ {"ledger"}) => expected[r]["settlement"] = System("settlement")

(* The sum of Income is the fees of owed, if none was refunded twice; owed *)
(* has every posted payout that was not refunded.                          *)
OwedBy(r) ==
  /\ reversals = Cardinality(refunded) => expected[r]["income"] = Fee * Cardinality(owed[r])
  /\ (batch[r] \cap Outbound) \ refunded \subseteq owed[r]
  /\ "run" \notin disturbed[r] => (reconciled \cap Outbound) \ refunded \subseteq owed[r]

OwedCounted == \A r \in Runner : SummedBy(r, {"income", "vat"}) => OwedBy(r)

ReconciledPosted == \A t \in reconciled : status[t] # "none"

RefundsCounted == refunded \subseteq Posted /\ Cardinality(refunded) <= reversals

Summed == Collected /\ SumsFresh /\ OwedCounted /\ ReconciledPosted /\ RefundsCounted

LEMMA SummedInit ==
  ASSUME Init
  PROVE  Summed
<1>1. RefundsCounted
  BY FS_EmptySet DEF Init, RefundsCounted
<1>. QED
  BY <1>1, CollectedInit DEF Init, Summed, SumsFresh, OwedCounted, OwedBy, ReconciledPosted, SummedBy, Key

LEMMA SameSystem ==
  ASSUME UNCHANGED <<status, funded, reversals>>, NEW k \in Key
  PROVE  System(k)' = System(k)
BY SameKept DEF System, Posted, Received

(* A settlement or a repost moves no money. *)
LEMMA StatusMovesNothing ==
  ASSUME TypeOK, NEW t \in Outbound, Settle(t) \/ Repost(t), NEW k \in Key
  PROVE  System(k)' = System(k)
<1>1. Posted' = Posted
  BY DEF Settle, Repost, Posted, Transfer, TypeOK
<1>2. Received' = Received
  BY ReconAssumption DEF Settle, Repost, Received, Transfer, TypeOK
<1>3. Kept' = Kept
  BY <1>1 DEF Settle, Repost, Kept
<1>. QED
  BY <1>1, <1>2, <1>3 DEF System, Settle, Repost

LEMMA RefundsBeside ==
  ASSUME Summed, Beside
  PROVE  /\ RefundsCounted'
         /\ reversals' = Cardinality(refunded') => reversals = Cardinality(refunded)
         /\ refunded \subseteq refunded'
<1>0. TypeOK
  BY DEF Summed, Collected
<1>1. refunded \in SUBSET Transfer /\ reversals \in Nat
  BY <1>0, ReconAssumption DEF TypeOK, Transfer
<1>2. IsFiniteSet(refunded) /\ Cardinality(refunded) \in Nat
  BY <1>1, Counted
<1>3. Posted \subseteq Posted'
  BY <1>0, PostedStays DEF Posted, Transfer
<1>4. CASE UNCHANGED <<refunded, reversals>>
  BY <1>3, <1>4 DEF Summed, RefundsCounted
<1>5. ASSUME NEW t \in Outbound, Reverse(t)
      PROVE  /\ RefundsCounted'
             /\ reversals' = Cardinality(refunded') => reversals = Cardinality(refunded)
             /\ refunded \subseteq refunded'
  <2>1. refunded' = refunded \cup {t} /\ reversals' = reversals + 1
    BY <1>5 DEF Reverse
  <2>2. t \in Posted'
    BY <1>0, <1>5 DEF Reverse, Posted, Transfer, TypeOK
  <2>3. /\ t \in refunded => Cardinality(refunded') = Cardinality(refunded)
        /\ t \notin refunded => Cardinality(refunded') = Cardinality(refunded) + 1
    <3>1. CASE t \in refunded
      BY <2>1, <3>1
    <3>2. CASE t \notin refunded
      BY <1>2, <2>1, <3>2, FS_AddElement
    <3>. QED
      BY <3>1, <3>2
  <2>4. RefundsCounted'
    BY <1>1, <1>2, <1>3, <2>1, <2>2, <2>3 DEF Summed, RefundsCounted
  <2>5. reversals' = Cardinality(refunded') => reversals = Cardinality(refunded)
    BY <1>1, <1>2, <2>1, <2>3 DEF Summed, RefundsCounted
  <2>. QED
    BY <2>1, <2>4, <2>5
<1>. QED
  BY <1>4, <1>5 DEF Beside, NextDay, CreditSettlement, Post, Settle, Repost

LEMMA SummedWallets ==
  ASSUME Summed, Beside
  PROVE  SumsFresh' /\ OwedCounted' /\ ReconciledPosted' /\ RefundsCounted'
<1>0. TypeOK
  BY DEF Summed, Collected
<1>1. UNCHANGED <<pc, batch, expected, owed, reconciled>>
  BY DEF Beside, NextDay, CreditSettlement, Post, Settle, Reverse, Repost, books, runs
<1>2. ReconciledPosted'
  BY <1>0, <1>1, PostedStays DEF Summed, ReconciledPosted, TypeOK
<1>3. \A r \in Runner : SummedBy(r, Key) => disturbed[r] \subseteq disturbed'[r]
  BY <1>0 DEF Beside, NextDay, CreditSettlement, Post, Settle, Reverse, Repost, Disturb, SummedBy,
              TypeOK
<1>4. OwedCounted'
  BY <1>1, <1>3, RefundsBeside DEF Summed, OwedCounted, OwedBy, SummedBy, Key
<1>5. CASE \A k \in Key : System(k)' = System(k)
  <2>1. System("ledger")' = System("ledger") /\ System("settlement")' = System("settlement")
    BY <1>5 DEF Key
  <2>. QED
    BY <1>1, <1>2, <1>3, <1>4, <2>1, RefundsBeside DEF Summed, SumsFresh, SummedBy, Key
<1>6. CASE Disturb("posting")
  <2>1. \A r \in Runner : SummedBy(r, Key) => disturbed'[r] = disturbed[r] \cup {"posting"}
    BY <1>6 DEF Disturb, SummedBy
  <2>2. SumsFresh'
    BY <1>1, <2>1 DEF SumsFresh, SummedBy
  <2>. QED
    BY <1>2, <1>4, <2>2, RefundsBeside
<1>7. CASE NextDay
  BY <1>5, <1>7, SameSystem DEF NextDay
<1>8. ASSUME NEW t \in Outbound, Settle(t) \/ Repost(t)
      PROVE  \A k \in Key : System(k)' = System(k)
  BY <1>0, <1>8, StatusMovesNothing
<1>. QED
  BY <1>5, <1>6, <1>7, <1>8 DEF Beside, CreditSettlement, Post, Reverse

LEMMA SameRefunds ==
  ASSUME Summed, UNCHANGED <<status, reversals, refunded>>
  PROVE  RefundsCounted'
BY DEF Summed, RefundsCounted, Posted

(* The payouts whose fee Income has, if none was refunded twice. *)
LEMMA KeptCounts ==
  ASSUME Summed, reversals = Cardinality(refunded)
  PROVE  Kept = Cardinality(Posted \ refunded)
<1>1. Posted \in SUBSET Transfer /\ refunded \in SUBSET Posted
  BY DEF Posted, Transfer, Summed, RefundsCounted
<1>2. IsFiniteSet(Posted) /\ Posted \cap refunded = refunded
  BY <1>1, Counted
<1>3. Cardinality(Posted \ refunded) = Cardinality(Posted) - Cardinality(Posted \cap refunded)
  BY <1>2, FS_Difference
<1>. QED
  BY <1>2, <1>3 DEF Kept

(* The steps that leave the sums of the other runs, and have none of their own. *)
LEMMA SummedOthers ==
  ASSUME Summed, NEW r \in Runner, ~SummedBy(r, Key)',
         UNCHANGED <<status, funded, reversals, refunded, reconciled>>,
         \A q \in Runner \ {r} :
           UNCHANGED <<pc[q], batch[q], expected[q], owed[q], disturbed[q]>>
  PROVE  SumsFresh' /\ OwedCounted' /\ ReconciledPosted' /\ RefundsCounted'
<1>1. System("ledger")' = System("ledger") /\ System("settlement")' = System("settlement")
  BY SameSystem DEF Key
<1>. QED
  BY <1>1, SameRefunds DEF Summed, SumsFresh, OwedCounted, OwedBy, ReconciledPosted, SummedBy, Key

LEMMA SummedBegin ==
  ASSUME Summed, TryRunEodReconciliation \/ AlreadyReconciled \/ RunManually
  PROVE  SumsFresh' /\ OwedCounted' /\ ReconciledPosted' /\ RefundsCounted'
<1>. USE DEF wallets, books, rows, runs, SummedBy
<1>1. ASSUME NEW r \in Runner, NEW d, Begin(r, d)
      PROVE  SumsFresh' /\ OwedCounted' /\ ReconciledPosted' /\ RefundsCounted'
  BY <1>1, SummedOthers DEF Begin, Summed, Collected, TypeOK, Key
<1>2. CASE AlreadyReconciled
  <2>1. UNCHANGED <<status, funded, reversals, refunded, reconciled, pc, batch, expected, owed, disturbed>>
    BY <1>2 DEF AlreadyReconciled
  <2>2. System("ledger")' = System("ledger") /\ System("settlement")' = System("settlement")
    BY <2>1, SameSystem DEF Key
  <2>. QED
    BY <2>1, <2>2, SameRefunds DEF Summed, SumsFresh, OwedCounted, OwedBy, ReconciledPosted
<1>. QED
  BY <1>1, <1>2 DEF TryRunEodReconciliation, RunManually, Runner

LEMMA SummedSum ==
  ASSUME Summed, NEW r \in Runner, Sum(r)
  PROVE  SumsFresh' /\ OwedCounted' /\ ReconciledPosted' /\ RefundsCounted'
<1>. DEFINE k == NextSum[pc[r]]
<1>1. /\ UNCHANGED <<status, funded, reversals, refunded, reconciled, batch, disturbed>>
      /\ pc' = [pc EXCEPT ![r] = k] /\ expected' = [expected EXCEPT ![r][k] = System(k)]
      /\ owed' = IF k = "income" THEN [owed EXCEPT ![r] = Posted \ refunded] ELSE owed
  BY DEF Sum, wallets, books
<1>2. k \in Key /\ pc[r] \in {"lock", "ledger", "settlement", "income"}
  BY DEF Sum, NextSum, Key
<1>3. /\ pc[r] = "lock" => k = "ledger"
      /\ pc[r] = "ledger" => k = "settlement"
      /\ pc[r] = "settlement" => k = "income"
      /\ pc[r] = "income" => k = "vat"
  BY DEF NextSum
<1>4. System("ledger")' = System("ledger") /\ System("settlement")' = System("settlement")
  BY <1>1, SameSystem DEF Key
<1>5. reversals = Cardinality(refunded) => System("income") = Fee * Cardinality(Posted \ refunded)
  BY KeptCounts DEF System
<1>6. /\ (batch[r] \cap Outbound) \ refunded \subseteq Posted \ refunded
      /\ (reconciled \cap Outbound) \ refunded \subseteq Posted \ refunded
  BY DEF Posted, Summed, Collected, BatchesOpen, ReconciledPosted
<1>7. pc \in [Runner -> {"idle", "insert", "load", "loadIn", "lock"} \cup Key]
      /\ expected \in [Runner -> [Key -> Nat]] /\ owed \in [Runner -> SUBSET Outbound]
  BY DEF Summed, Collected, TypeOK
<1>. HIDE DEF k
<1>8. ReconciledPosted'
  BY <1>1 DEF Summed, ReconciledPosted
<1>9. \A q \in Runner \ {r} : pc'[q] = pc[q] /\ expected'[q] = expected[q] /\ owed'[q] = owed[q]
  BY <1>1, <1>7
<1>10. /\ pc'[r] = k /\ expected'[r] = [expected[r] EXCEPT ![k] = System(k)]
       /\ owed'[r] = IF k = "income" THEN Posted \ refunded ELSE owed[r]
  BY <1>1, <1>7
<1>11. SumsFresh'
  <2>1. ASSUME NEW q \in Runner \ {r}, "posting" \notin disturbed'[q]
        PROVE  /\ SummedBy(q, Key)' => expected'[q]["ledger"] = System("ledger")'
               /\ SummedBy(q, Key \ {"ledger"})' => expected'[q]["settlement"] = System("settlement")'
    BY <1>1, <1>4, <1>9, <2>1 DEF Summed, SumsFresh, SummedBy
  <2>2. ASSUME "posting" \notin disturbed'[r]
        PROVE  /\ expected'[r]["ledger"] = System("ledger")'
               /\ k # "ledger" => expected'[r]["settlement"] = System("settlement")'
    BY <1>1, <1>2, <1>3, <1>4, <1>7, <1>10, <2>2 DEF Summed, SumsFresh, SummedBy, Key
  <2>. QED
    BY <1>10, <2>1, <2>2 DEF SumsFresh, SummedBy
<1>12. OwedCounted'
  <2>1. ASSUME NEW q \in Runner \ {r}, SummedBy(q, {"income", "vat"})'
        PROVE  OwedBy(q)'
    BY <1>1, <1>9, <2>1 DEF Summed, OwedCounted, OwedBy, SummedBy, OwedBy
  <2>2. ASSUME SummedBy(r, {"income", "vat"})'
        PROVE  OwedBy(r)'
    <3>1. CASE k = "income"
      BY <1>1, <1>5, <1>6, <1>7, <1>10, <3>1 DEF Key, OwedBy
    <3>2. CASE k = "vat"
      <4>1. SummedBy(r, {"income", "vat"})
        BY <1>2, <1>3, <3>2 DEF SummedBy
      <4>2. expected'[r]["income"] = expected[r]["income"] /\ owed'[r] = owed[r]
        BY <1>7, <1>10, <3>2 DEF Key
      <4>. QED
        BY <1>1, <4>1, <4>2 DEF Summed, OwedCounted, OwedBy
    <3>. QED
      BY <1>10, <2>2, <3>1, <3>2 DEF SummedBy
  <2>. QED
    BY <2>1, <2>2 DEF OwedCounted, OwedBy
<1>. QED
  BY <1>1, <1>8, <1>11, <1>12, SameRefunds

LEMMA SummedRun ==
  ASSUME Summed, NEW r \in Runner, RunStep(r) \/ Fault(r)
  PROVE  SumsFresh' /\ OwedCounted' /\ ReconciledPosted' /\ RefundsCounted'
<1>. USE DEF wallets, books, rows, runs
<1>0. TypeOK
  BY DEF Summed, Collected
<1>1. CASE InsertReport(r)
  BY <1>0, <1>1, SummedOthers DEF InsertReport, TypeOK, SummedBy, Key
<1>2. ASSUME Rollback(r)
      PROVE  SumsFresh' /\ OwedCounted' /\ ReconciledPosted' /\ RefundsCounted'
  BY <1>0, <1>2, SummedOthers DEF Rollback, End, TypeOK, SummedBy, Key
<1>3. CASE LoadOutbound(r) \/ LoadInbound(r)
  BY <1>0, <1>3, SummedOthers DEF LoadOutbound, LoadInbound, TypeOK, SummedBy, Key
<1>4. CASE LockHolding(r)
  <2>1. UNCHANGED <<status, funded, reversals, refunded, reconciled, pc, batch, expected, owed, disturbed>>
    BY <1>4 DEF LockHolding
  <2>2. System("ledger")' = System("ledger") /\ System("settlement")' = System("settlement")
    BY <2>1, SameSystem DEF Key
  <2>. QED
    BY <2>1, <2>2, SameRefunds DEF Summed, SumsFresh, OwedCounted, OwedBy, ReconciledPosted, SummedBy
<1>5. CASE Complete(r)
  <2>1. UNCHANGED <<status, funded, reversals, refunded>> /\ reconciled' = reconciled \cup batch[r]
    BY <1>5 DEF Complete
  <2>2. ReconciledPosted'
    BY <2>1 DEF Summed, ReconciledPosted, Collected, BatchesOpen
  <2>3. System("ledger")' = System("ledger") /\ System("settlement")' = System("settlement")
    BY <2>1, SameSystem DEF Key
  <2>4. ~SummedBy(r, Key)'
    BY <1>0, <1>5 DEF Complete, End, SummedBy, TypeOK, Key
  <2>5. \A q \in Runner \ {r} :
          /\ UNCHANGED <<pc[q], batch[q], expected[q], owed[q]>>
          /\ disturbed'[q] = IF SummedBy(q, Key) THEN disturbed[q] \cup {"run"} ELSE disturbed[q]
    BY <1>0, <1>5 DEF Complete, End, TypeOK, SummedBy
  <2>6. SumsFresh'
    BY <2>3, <2>4, <2>5 DEF Summed, SumsFresh, SummedBy, Key
  <2>7. OwedCounted'
    BY <2>1, <2>4, <2>5 DEF Summed, OwedCounted, OwedBy, SummedBy, Key
  <2>. QED
    BY <2>1, <2>2, <2>6, <2>7, SameRefunds
<1>. QED
  BY <1>1, <1>2, <1>3, <1>4, <1>5, SummedSum
     DEF RunStep, DuplicateReport, DeadlockVictim, Fault

LEMMA SummedStep ==
  ASSUME Summed, [Next]_vars
  PROVE  Summed'
<1>1. Collected'
  BY CollectedStep DEF Summed
<1>2. CASE UNCHANGED vars
  <2>1. System("ledger")' = System("ledger") /\ System("settlement")' = System("settlement")
    BY <1>2, SameSystem DEF vars, wallets, Key
  <2>. QED
    BY <1>1, <1>2, <2>1, SameRefunds DEF vars, wallets, books, runs, Summed, SumsFresh, OwedCounted,
                                         OwedBy, ReconciledPosted, SummedBy
<1>. QED
  BY <1>1, <1>2, SummedWallets, SummedBegin, SummedRun DEF Next, Beside, Summed

LEMMA AlwaysSummed == Spec => []Summed
BY SummedInit, SummedStep, PTL DEF Spec

(* Only the commit of a run writes its day's report. *)
LEMMA CommitsCompletes ==
  ASSUME Collected, [Next]_vars, NEW r \in Runner, Commits(r)
  PROVE  Complete(r)
<1>. USE DEF Commits
<1>1. report' # report /\ day[r] \in Day /\ inserting[day[r]] = r
  BY DEF Collected, OneRunPerDay, InTransaction
<1>2. ASSUME NEW q \in Runner, RunStep(q) \/ Fault(q)
      PROVE  Complete(q)
  BY <1>1, <1>2 DEF RunStep, InsertReport, DuplicateReport, LoadOutbound, LoadInbound, LockHolding, Sum,
                    DeadlockVictim, Fault, Rollback, books
<1>3. PICK q \in Runner : Complete(q)
  BY <1>1, <1>2 DEF Next, NextDay, CreditSettlement, Post, Settle, Reverse, Repost, TryRunEodReconciliation,
                    AlreadyReconciled, RunManually, Begin, vars, books
<1>4. report' = [report EXCEPT ![day[q]] = Completed(q)] /\ pc[q] = "vat"
  BY <1>3 DEF Complete
<1>5. day[q] = day[r]
  BY <1>1, <1>4 DEF Collected, TypeOK
<1>6. inserting[day[q]] = q
  BY <1>4 DEF Collected, OneRunPerDay, InTransaction
<1>. QED
  BY <1>1, <1>3, <1>5, <1>6

LEMMA CommitMirrors ==
  ASSUME Summed, [Next]_vars, NEW r \in Runner, Commits(r), "posting" \notin disturbed[r],
         NEW k \in {"ledger", "settlement"}
  PROVE  holding'[k] = System(k)
<1>1. Complete(r)
  BY CommitsCompletes DEF Summed
<1>2. holding'[k] = expected[r][k]
  BY <1>1, HoldingsMoved DEF Complete, Summed, Collected
<1>3. SummedBy(r, Key) /\ SummedBy(r, Key \ {"ledger"})
  BY DEF Commits, SummedBy, Key
<1>. QED
  BY <1>2, <1>3 DEF Summed, SumsFresh

(* Equal fees are fees of equally many. *)
LEMMA SameCount ==
  ASSUME NEW a \in Nat, NEW b \in Nat, Fee * a = Fee * b
  PROVE  a = b
<1>1. Fee \in Nat /\ Fee >= 1
  BY ReconAssumption
<1>2. Fee * (a - b) = 0
  BY <1>1
<1>. QED
  BY <1>1, <1>2

LEMMA CommitCollects ==
  ASSUME Summed, [Next]_vars, NEW r \in Runner, Commits(r),
         report'[day[r]] = "Balanced", "run" \notin disturbed[r],
         reconciled' \cap refunded = {}, reversals = Cardinality(refunded)
  PROVE  owed[r] \subseteq reconciled'
<1>. DEFINE collected == reconciled' \cap Outbound
<1>1. Complete(r) /\ Collected
  BY CommitsCompletes DEF Summed
<1>2. HoldingsAfter(r)["income"] = expected[r]["income"]
  <2>1. report'[day[r]] = Completed(r)
    BY <1>1 DEF Complete, Collected, TypeOK, OneRunPerDay, InTransaction
  <2>. QED
    BY <2>1 DEF Completed, Key
<1>3. Fee * Cardinality(collected) = Fee * Cardinality(owed[r])
  <2>1. ChargesCollectedOnce'
    BY <1>1, CollectedComplete
  <2>2. holding'["income"] = Fee * Cardinality(collected)
    BY <2>1 DEF ChargesCollectedOnce
  <2>3. holding' = HoldingsAfter(r)
    BY <1>1 DEF Complete
  <2>4. expected[r]["income"] = Fee * Cardinality(owed[r])
    BY DEF Commits, Summed, OwedCounted, OwedBy, SummedBy
  <2>. QED
    BY <1>2, <2>2, <2>3, <2>4
<1>4. collected \subseteq owed[r]
  BY <1>1 DEF Complete, Commits, Summed, OwedCounted, OwedBy, SummedBy
<1>5. owed[r] \in SUBSET Transfer
  BY DEF Summed, Collected, TypeOK, Transfer
<1>6. /\ IsFiniteSet(owed[r]) /\ Cardinality(owed[r]) \in Nat
      /\ collected \in SUBSET Transfer /\ Cardinality(collected) \in Nat
  BY <1>4, <1>5, Counted
<1>7. Cardinality(collected) = Cardinality(owed[r])
  BY <1>3, <1>6, SameCount
<1>8. owed[r] = collected
  BY <1>4, <1>6, <1>7, FS_Subset
<1>. QED
  BY <1>8

(* A report says Balanced only if every payout whose fee Income had when   *)
(* it was summed is reconciled with it, whatever else commits between the  *)
(* sums, unless another run did, a reconciled payout had been refunded, or *)
(* a payout was refunded twice.                                            *)
THEOREM BalancedIsCollected == Spec => BalancedMeansCollected
<1>1. Summed /\ [Next]_vars =>
        [\A r \in Runner :
           /\ Commits(r) /\ report'[day[r]] = "Balanced"
           /\ "run" \notin disturbed[r]
           /\ reconciled' \cap refunded = {} /\ reversals = Cardinality(refunded)
           => owed[r] \subseteq reconciled']_vars
  BY CommitCollects
<1>. QED
  BY <1>1, AlwaysSummed, PTL DEF Spec, BalancedMeansCollected

(* A run during whose sums and locks nothing is posted leaves the Ledger   *)
(* and Settlement holdings equal to the database, for any movement before. *)
THEOREM QuietRunsMirror == Spec => QuietRunMirrors
<1>1. Summed /\ [Next]_vars =>
        [\A r \in Runner :
           /\ Commits(r)
           /\ "posting" \notin disturbed[r]
           => \A k \in {"ledger", "settlement"} : holding'[k] = System(k)]_vars
  BY CommitMirrors
<1>. QED
  BY <1>1, AlwaysSummed, PTL DEF Spec, QuietRunMirrors
=============================================================================
