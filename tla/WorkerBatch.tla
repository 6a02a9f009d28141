----------------------------- MODULE WorkerBatch -----------------------------
(***************************************************************************)
(* The change tracker of one settlement worker.  ProcessBatchAsync uses a  *)
(* single DbContext for all the transfers of a batch, and a transaction    *)
(* for each.  Rolling a transaction back leaves the tracker as it is: what *)
(* was changed or added for one transfer is written by the next save, of   *)
(* another transfer, and what was saved before the rollback is believed to *)
(* be in the database.                                                     *)
(*                                                                         *)
(* Every transfer has a source wallet of its own, and moves one unit of    *)
(* money.  Income and VAT are left out: a reversal debits them as it does  *)
(* Settlement, and only Settlement can be short.  Attempt counts and times *)
(* are left out: a job that may be claimed later may be claimed now.       *)
(***************************************************************************)
EXTENDS Integers, FiniteSets

CONSTANTS
  Transfer,        \* outbound transfers, committed as Submitted
  Settlement,      \* the system wallet
  Opening,         \* the balance of a source wallet
  Float,           \* the balance of Settlement, which was credited with every transfer
  MaxMoves,        \* bound: transactions of the API
  MaxBatches,      \* bound: batches of the worker
  MaxFaults,       \* bound: saves that fail and calls of the rail that throw
  None

(* A transfer names its source wallet too. *)
TransferRow(t) == <<"transfer", t>>
JobRow(t)      == <<"job", t>>
WalletRow(w)   == <<"wallet", w>>

Wallets == {WalletRow(w) : w \in Transfer \cup {Settlement}}
Row == {TransferRow(t) : t \in Transfer} \cup {JobRow(t) : t \in Transfer} \cup Wallets

VARIABLES
  \* the database
  db,          \* committed rows
  legs,        \* committed reversals of a transfer in LedgerEntries
  moved,       \* legs of the API's transactions, per source wallet
  \* the worker's transaction
  tx, txLegs,  \* rows and legs written by it, or None
  \* the worker's DbContext
  current, original,   \* values of the rows it tracks, or None
  added,       \* reversal legs not saved yet
  \* the worker
  pc, at, loop, todo,
  moves, batches, faults

database    == <<db, legs, moved>>
transaction == <<tx, txLegs>>
context     == <<current, original, added>>
worker      == <<pc, at, loop, todo>>
bounds      == <<moves, batches, faults>>
vars == <<database, transaction, context, worker, bounds>>

NoRows == [r \in Row |-> None]
NoLegs == [t \in Transfer |-> 0]

Init ==
  /\ db = [r \in Row |->
       CASE r[1] = "transfer" -> "Submitted"
         [] r[1] = "job"      -> "Pending"
         [] OTHER -> [balance |-> IF r[2] = Settlement THEN Float ELSE Opening, version |-> 1]]
  /\ legs = NoLegs /\ moved = NoLegs
  /\ tx = NoRows /\ txLegs = NoLegs
  /\ current = NoRows /\ original = NoRows /\ added = NoLegs
  /\ pc = "idle" /\ at = None /\ loop = "jobs" /\ todo = {}
  /\ moves = 0 /\ batches = 0 /\ faults = 0
-----------------------------------------------------------------------------
(* The tracker. *)

Visible(r) == IF tx[r] # None THEN tx[r] ELSE db[r]

(* What a query returns: the copy that is tracked already, if any. *)
Read(r) == IF current[r] # None THEN current[r] ELSE Visible(r)

(* An assignment, and two of them, the first of which prevails. *)
r :> value == [row \in {r} |-> value]
new @@ old ==
  [row \in DOMAIN new \cup DOMAIN old |-> IF row \in DOMAIN new THEN new[row] ELSE old[row]]

(* Entities get new values; the ones not tracked yet are read first. *)
Assign(new) ==
  /\ current' = [r \in Row |-> IF r \in DOMAIN new THEN new[r] ELSE current[r]]
  /\ original' = [r \in Row |->
       IF r \in DOMAIN new /\ original[r] = None THEN Visible(r) ELSE original[r]]

Credited(w) == LET row == Read(WalletRow(w)) IN
  [balance |-> row.balance + 1, version |-> row.version + 1]
Debited(w) == LET row == Read(WalletRow(w)) IN
  [balance |-> row.balance - 1, version |-> row.version + 1]

Modified == {r \in Row : current[r] # original[r]}

(* Version is the concurrency token of wallets; other rows have none. *)
Conflict == \E r \in Modified \cap Wallets : Visible(r).version # original[r].version

(* The rows of the transaction once the modified ones are written. *)
Written == [r \in Row |-> IF r \in Modified THEN current[r] ELSE tx[r]]

NoTransaction == tx' = NoRows /\ txLegs' = NoLegs

Rollback ==
  /\ NoTransaction
  /\ pc' = loop /\ at' = None
  /\ UNCHANGED <<database, loop, todo>>
-----------------------------------------------------------------------------
(* The two loops. *)

LoadJobs ==
  /\ pc = "idle" /\ batches < MaxBatches
  /\ batches' = batches + 1
  /\ LET claimable == {t \in Transfer : db[JobRow(t)] # "Succeeded"} IN
       /\ todo' = claimable
       /\ Assign([r \in {JobRow(t) : t \in claimable} |-> Read(r)])
  /\ pc' = "jobs" /\ loop' = "jobs"
  /\ UNCHANGED <<database, transaction, added, at, moves, faults>>

ClaimJob(t) ==
  /\ pc = "jobs" /\ t \in todo
  /\ todo' = todo \ {t} /\ at' = t /\ pc' = "claiming"
  /\ Assign(JobRow(t) :> "Processing")
  /\ UNCHANGED <<database, transaction, added, loop, bounds>>

SaveClaim ==
  /\ pc = "claiming" /\ ~Conflict
  /\ tx' = Written /\ txLegs' = added
  /\ original' = current /\ added' = NoLegs
  /\ pc' = "claimed"
  /\ UNCHANGED <<database, current, at, loop, todo, bounds>>

(* ReverseOutboundAsync, with what its caller assigns before and after it. *)
(* Its Debit of Settlement throws after its Credit of the source wallet.   *)
Reverse(t, before, after) ==
  IF Read(WalletRow(Settlement)).balance >= 1
    THEN /\ Assign(after @@ before @@ WalletRow(t) :> Credited(t)
                     @@ WalletRow(Settlement) :> Debited(Settlement))
         /\ added' = [added EXCEPT ![t] = @ + 1]
         /\ pc' = "recorded"
         /\ UNCHANGED <<database, transaction, at, loop, todo>>
    ELSE /\ Assign(before @@ WalletRow(t) :> Credited(t)
                     @@ WalletRow(Settlement) :> Read(WalletRow(Settlement)))
         /\ Rollback
         /\ UNCHANGED added

Resolve(status, t, outcome) ==
  /\ Assign(TransferRow(t) :> outcome @@ JobRow(t) :> status)
  /\ pc' = "recorded"
  /\ UNCHANGED <<database, transaction, added, at, loop, todo>>

(* The transfer is read, the rail is called, its answer is recorded. *)
Dispatch ==
  LET t == at  status == Read(TransferRow(t)) IN
  /\ pc = "claimed"
  /\ \/ status # "Submitted" /\ Resolve("Succeeded", t, status)
     \/ status = "Submitted" /\ Resolve("Succeeded", t, "Settled")
     \/ status = "Submitted" /\ Resolve("Failed", t, "Unknown")
     \/ /\ status = "Submitted"
        /\ Reverse(t, TransferRow(t) :> status @@ JobRow(t) :> "Failed",
                      TransferRow(t) :> "Failed")
  /\ UNCHANGED bounds

LoadUnknowns ==
  /\ pc = "jobs" /\ todo = {}
  /\ LET unknown == {t \in Transfer : db[TransferRow(t)] = "Unknown"} IN
       /\ todo' = unknown
       /\ Assign([r \in {TransferRow(t) : t \in unknown} |-> Read(r)])
  /\ pc' = "status" /\ loop' = "status"
  /\ UNCHANGED <<database, transaction, added, at, bounds>>

NextUnknown(t) ==
  /\ pc = "status" /\ t \in todo
  /\ todo' = todo \ {t} /\ at' = t /\ pc' = "asking"
  /\ UNCHANGED <<database, transaction, context, loop, bounds>>

Query ==
  LET t == at IN
  /\ pc = "asking"
  /\ \/ Resolve("Succeeded", t, "Settled")
     \/ Reverse(t, TransferRow(t) :> "Failed", JobRow(t) :> "Failed")
     \/ pc' = "recorded" /\ UNCHANGED <<database, transaction, context, at, loop, todo>>
  /\ UNCHANGED bounds

(* The last SaveChanges of a transfer, and its commit. *)
SaveAndCommit ==
  /\ pc = "recorded" /\ ~Conflict
  /\ db' = [r \in Row |-> IF Written[r] # None THEN Written[r] ELSE db[r]]
  /\ legs' = [t \in Transfer |-> legs[t] + txLegs[t] + added[t]]
  /\ NoTransaction
  /\ original' = current /\ added' = NoLegs
  /\ pc' = loop /\ at' = None
  /\ UNCHANGED <<moved, current, loop, todo, bounds>>

(* SendAsync or GetStatusAsync throws. *)
RailThrows ==
  /\ pc \in {"claimed", "asking"} /\ faults < MaxFaults
  /\ faults' = faults + 1
  /\ Rollback
  /\ UNCHANGED <<context, moves, batches>>

(* A row has changed since it was read, or the statement fails otherwise.  *)
SaveFails ==
  /\ pc \in {"claiming", "recorded"}
  /\ \/ Conflict /\ UNCHANGED faults
     \/ ~Conflict /\ faults < MaxFaults /\ faults' = faults + 1
  /\ Rollback
  /\ UNCHANGED <<context, moves, batches>>

EndBatch ==
  /\ pc = "status" /\ todo = {}
  /\ current' = NoRows /\ original' = NoRows /\ added' = NoLegs
  /\ pc' = "idle"
  /\ UNCHANGED <<database, transaction, at, loop, todo, bounds>>
-----------------------------------------------------------------------------
(* The API: an inbound transfer pays a customer out of Settlement, and an  *)
(* outbound one, not of this batch, pays back into it.  Their rows are     *)
(* locked, so they wait for the worker's if it has written them.           *)

Move(from, to) ==
  /\ tx[WalletRow(from)] = None /\ tx[WalletRow(to)] = None
  /\ db[WalletRow(from)].balance >= 1
  /\ db' = [db EXCEPT ![WalletRow(from)] = [balance |-> @.balance - 1, version |-> @.version + 1],
                      ![WalletRow(to)] = [balance |-> @.balance + 1, version |-> @.version + 1]]
  /\ moves < MaxMoves /\ moves' = moves + 1
  /\ UNCHANGED <<legs, transaction, context, worker, batches, faults>>

Receive(t) == Move(Settlement, t) /\ moved' = [moved EXCEPT ![t] = @ + 1]
Pay(t)     == Move(t, Settlement) /\ moved' = [moved EXCEPT ![t] = @ - 1]

Next ==
  \/ LoadJobs \/ (\E t \in Transfer : ClaimJob(t)) \/ SaveClaim \/ Dispatch
  \/ LoadUnknowns \/ (\E t \in Transfer : NextUnknown(t)) \/ Query
  \/ SaveAndCommit \/ RailThrows \/ SaveFails \/ EndBatch
  \/ \E t \in Transfer : Receive(t) \/ Pay(t)

Spec == Init /\ [][Next]_vars
-----------------------------------------------------------------------------
(* A statement of the documentation that the code does not keep. *)

(* README: a failed payout reverses its ledger legs, which refunds the     *)
(* customer and debits Settlement.  So no refund is in a balance without   *)
(* its legs (Program.cs, lines 163 to 171), whatever the transfers of one  *)
(* batch leave in the tracker for each other.                              *)
RefundsHaveLegs ==
  \A t \in Transfer : db[WalletRow(t)].balance = Opening + moved[t] + legs[t]
=============================================================================
