--------------------------- MODULE TransferService ---------------------------
(***************************************************************************)
(* The money-moving transactions of NovaWallet's API, as many requests run *)
(* them at once, with settlement workers, against one SQL Server database: *)
(* TransferInternalAsync, TransferOutboundAsync and TransferInboundAsync,  *)
(* the wallet and settlement credits of WalletService, and the reversal of *)
(* QueryTransferStatusAsync.                                               *)
(*                                                                         *)
(* A request executes its transaction one SQL statement at a time.  The    *)
(* rows it reads WITH (UPDLOCK, HOLDLOCK) and the rows it writes stay      *)
(* locked to the end of the transaction.  EF Core keeps the first copy of  *)
(* a row it materialises for the life of the request, also across a        *)
(* rollback and a retry; SaveChanges writes that copy back under the       *)
(* Wallet.Version token.  SaveChanges and Commit are one step: every row   *)
(* they touch is locked by then, so nobody else can see in between.        *)
(*                                                                         *)
(* The settlement worker is an environment here.  One DbContext serves its *)
(* whole batch and keeps the entities of transfers that were rolled back,  *)
(* so what one of its saves writes is decided by the history of the batch, *)
(* which is the subject of WorkerBatch.  All that is assumed of a worker's *)
(* transaction is what the UPDATE statements and the schema guarantee:     *)
(* it may write any rows, in any order, with any balance that the CHECK    *)
(* constraint admits, each under a version higher than the row's.  What    *)
(* workers add is accounted for in "written", and the properties are about *)
(* the API's part of each balance.                                         *)
(*                                                                         *)
(* Which transfer is reversed, and when, is decided in Settlement; here    *)
(* any committed outbound transfer may be.                                 *)
(***************************************************************************)
EXTENDS Integers, Sequences, FiniteSets, Functions

CONSTANTS
  Request,           \* the API requests that may run, one DbContext each,
                     \* and the worker's transactions
  Wallet,            \* customer wallets
  Settlement, Income, VatAccount,   \* the seeded system accounts
  Customer,          \* JWT subjects
  Owner,             \* Wallet -> Customer
  Key,               \* idempotency keys
  None,              \* no key, no destination, no transfer, no tracked row
  Opening,           \* seeded balances
  Fee, Vat,          \* FeePolicy.OutboundCharges
  VerifiedLimit, UnverifiedLimit,   \* DailyOutboundLimitPolicy
  Commands,          \* the commands clients may send
  MaxAttempts,       \* maxRetries of TransferOutboundAsync
  MaxDay,            \* bound: WAT business days that begin during a run
  WorkerRoutes,      \* the sequences of rows that a worker's saves update
  Effects            \* what an update of a worker may add to a row

System  == {Settlement, Income, VatAccount}
Account == Wallet \cup System
Day     == 0 .. MaxDay
Counter == Wallet \X Day          \* key of a DailyOutboundCounters row

ClientKind == {"internal", "outbound", "inbound", "credit", "fund"}
Kind       == ClientKind \cup {"reverse", "worker"}

CommandType ==
  [kind : Kind, customer : Customer, key : Key \cup {None}, source : Wallet,
   dest : Account \cup {None}, amount : Nat \ {0}, of : Request \cup {None}]

Payer     == {"source"} \cup System
Statement == ({"merge"} \X {"source"}) \cup ({"lock"} \X (Payer \cup {"dest"}))
               \cup ({"write"} \X Account)

(* What is added to BalanceKobo and to Version. *)
EffectType == [balance : Int, version : Nat \ {0}]

ASSUME AccountAssumption ==
  /\ Wallet \cap System = {} /\ Account \cap Counter = {}
  /\ Settlement # Income /\ Settlement # VatAccount /\ Income # VatAccount
  /\ None \notin Account \cup Request \cup Key
  /\ "source" \notin Account /\ "dest" \notin Account
  /\ IsFiniteSet(Wallet)
ASSUME OwnerAssumption   == Owner \in [Wallet -> Customer]
ASSUME OpeningAssumption == Opening \in [Account -> Nat]
ASSUME ChargeAssumption  == Fee \in Nat /\ Vat \in Nat
ASSUME LimitAssumption   ==
  VerifiedLimit \in Nat /\ UnverifiedLimit \in Nat /\ UnverifiedLimit <= VerifiedLimit
ASSUME BoundAssumption   == MaxAttempts \in Nat \ {0} /\ MaxDay \in Nat
ASSUME CommandAssumption ==
  \A c \in Commands : /\ c \in CommandType
                      /\ c.kind \in ClientKind
                      /\ c.of = None
                      /\ c.kind \in {"internal", "outbound", "inbound"} => c.key \in Key
                      /\ c.kind \in {"internal", "inbound", "credit"} => c.dest \in Account
ASSUME WorkerAssumption ==
  WorkerRoutes \subseteq Seq(Account) /\ Effects \subseteq EffectType

VARIABLES
  \* the database
  balance, version,  \* Wallets.BalanceKobo and Wallets.Version
  ledger,            \* per account, credits minus debits of the LedgerEntries
                     \* that API requests inserted
  written,           \* per account, what the worker's saves added
  counter,           \* DailyOutboundCounters.TotalKobo
  committed,         \* API requests whose transaction committed; for the keyed
                     \* kinds, their Transfers and IdempotencyRecords rows
  held,              \* per request, the rows its transaction has locked
  verified,          \* customers whose Users.KycStatus is Verified
  day,               \* the current WAT business day
  \* the requests
  command, pc,
  todo,              \* SQL statements left before SaveChanges
  seen,              \* rows tracked by the request's DbContext
  limit, chargeDay,  \* dailyLimit, and the day MergeCounterAsync was given
  reserved,          \* what the open transaction's MERGE added to its counter
  attempts,          \* deadlock retries taken
  reply              \* what the caller was told

db      == <<balance, version, ledger, written, counter, committed>>
world   == <<verified, day>>
request == <<command, pc, todo, seen, limit, chargeDay, reserved, attempts, reply, held>>
vars    == <<db, world, request>>
-----------------------------------------------------------------------------
(* Commands, keys and payloads. *)

Keyed(c) == c.kind \in {"internal", "outbound", "inbound"}

(* The customer an idempotency record is filed under: the payer, or for an *)
(* inbound transfer the owner of the wallet that is credited.              *)
KeyOwner(c) == IF c.kind = "inbound" THEN Owner[c.dest] ELSE c.customer
KeyOf(c)    == <<KeyOwner(c), c.key>>

(* IdempotencyFingerprint: the payload, without the key. *)
Fingerprint(c) ==
  IF c.kind = "inbound"
    THEN [c EXCEPT !.key = None, !.customer = Owner[c.dest], !.source = c.dest]
    ELSE [c EXCEPT !.key = None]

Recorded(c) == {t \in committed : Keyed(command[t]) /\ KeyOf(command[t]) = KeyOf(c)}

LimitFor(kycVerified) == IF kycVerified THEN VerifiedLimit ELSE UnverifiedLimit

(* The legs a command posts: credits positive, debits negative. *)
Total(c) == c.amount + Fee + Vat

Moved(from, to, n) ==
  [a \in Account |-> IF a = from THEN -n ELSE IF a = to THEN n ELSE 0]

(* Mutated form: the VAT is credited but never debited. *)
OutboundLegsUnbalanced(c) ==
  [a \in Account |-> IF a = c.source THEN -(c.amount + Fee)
                     ELSE IF a = Settlement THEN c.amount
                     ELSE IF a = Income THEN Fee
                     ELSE IF a = VatAccount THEN Vat
                     ELSE 0]

OutboundLegs(c) ==
  [a \in Account |-> IF a = c.source THEN -Total(c)
                     ELSE IF a = Settlement THEN c.amount
                     ELSE IF a = Income THEN Fee
                     ELSE IF a = VatAccount THEN Vat
                     ELSE 0]

Legs(c) ==
  CASE c.kind = "internal"             -> Moved(c.source, c.dest, c.amount)
    [] c.kind \in {"inbound", "credit"} -> Moved(Settlement, c.dest, c.amount)
    [] c.kind = "fund"                 -> Moved(None, Settlement, c.amount)
    [] c.kind = "outbound"             -> OutboundLegs(c)
    [] c.kind = "reverse"              -> [a \in Account |-> -OutboundLegs(c)[a]]
    [] c.kind = "worker"               -> [a \in Account |-> 0]

Touched(c) == {a \in Account : Legs(c)[a] # 0}

(* The statements of each transaction, in program order.  "lock" is a      *)
(* SELECT WITH (UPDLOCK, HOLDLOCK, ROWLOCK), "write" one UPDATE of a batch *)
(* that the worker's SaveChanges sends without having locked the row.      *)
Lock(x)  == <<"lock", x>>
Write(x) == <<"write", x>>
ReversalRows == <<"source", Settlement, Income, VatAccount>>

(* Mutated form: the reversal locks the system accounts first. *)
RouteSystemFirst(kind) ==
  CASE kind = "internal" -> <<Lock("source"), Lock("dest")>>
    [] kind = "outbound" -> <<<<"merge", "source">>, Lock("source"),
                              Lock(Settlement), Lock(Income), Lock(VatAccount)>>
    [] kind \in {"inbound", "credit"} -> <<Lock("dest"), Lock(Settlement)>>
    [] kind = "fund"     -> <<Lock(Settlement)>>
    [] kind = "reverse"  -> [i \in 1 .. 4 |-> Lock(ReversalRows[5 - i])]

Route(kind) ==
  CASE kind = "internal" -> <<Lock("source"), Lock("dest")>>
    [] kind = "outbound" -> <<<<"merge", "source">>, Lock("source"),
                              Lock(Settlement), Lock(Income), Lock(VatAccount)>>
    [] kind \in {"inbound", "credit"} -> <<Lock("dest"), Lock(Settlement)>>
    [] kind = "fund"     -> <<Lock(Settlement)>>
    [] kind = "reverse"  -> [i \in 1 .. 4 |-> Lock(ReversalRows[i])]
-----------------------------------------------------------------------------
(* Rows, locks and tracked copies. *)

RowOf(r, x) ==
  IF x = "source" THEN command[r].source ELSE IF x = "dest" THEN command[r].dest ELSE x

CounterOf(r) == <<command[r].source, chargeDay[r]>>

At(r, op) == pc[r] = "work" /\ todo[r] # <<>> /\ Head(todo[r])[1] = op
Operand(r) == RowOf(r, Head(todo[r])[2])

Free(r, x) == \A p \in Request \ {r} : x \notin held[p]

CurrentRow(a) == [balance |-> balance[a], version |-> version[a]]

(* A row once materialised is not refreshed by a later query. *)
Tracked(r, a) == IF seen[r][a] = None THEN CurrentRow(a) ELSE seen[r][a]

Track(r, a) == seen' = [seen EXCEPT ![r][a] = Tracked(r, a)] /\ UNCHANGED reserved

NothingSeen == [a \in Account |-> None]

(* The row a request is blocked on, as a set. *)
Wants(r) ==
  IF At(r, "merge") THEN {CounterOf(r)}
  ELSE IF At(r, "lock") \/ At(r, "write") THEN {Operand(r)}
  ELSE {}

BlockedBy(r, p) == p # r /\ Wants(r) \cap held[p] # {}

(* A set of requests that wait for each other in a circle. *)
WaitCycle(S) ==
  /\ S # {}
  /\ \A r \in S : \E p \in S : BlockedBy(r, p)
  /\ \A p \in S : \E r \in S : BlockedBy(r, p)

Deadlocked(r) == \E S \in SUBSET Request : r \in S /\ WaitCycle(S)
-----------------------------------------------------------------------------
Init ==
  /\ balance = Opening
  /\ version = [a \in Account |-> 1]
  /\ ledger = [a \in Account |-> 0]
  /\ written = [a \in Account |-> 0]
  /\ counter = [k \in Counter |-> 0]
  /\ committed = {}
  /\ held = [r \in Request |-> {}]
  /\ verified \in SUBSET Customer
  /\ day = 0
  /\ command = [r \in Request |-> None]
  /\ pc = [r \in Request |-> "idle"]
  /\ todo = [r \in Request |-> <<>>]
  /\ seen = [r \in Request |-> NothingSeen]
  /\ limit = [r \in Request |-> 0]
  /\ chargeDay = [r \in Request |-> 0]
  /\ reserved = [r \in Request |-> 0]
  /\ attempts = [r \in Request |-> 0]
  /\ reply = [r \in Request |-> [code |-> "pending", transfer |-> None]]

(* The transaction, if any, is over and the request's DbContext disposed   *)
(* of; the caller is answered.                                             *)
Answer(r, code, t) ==
  /\ pc' = [pc EXCEPT ![r] = "done"]
  /\ reply' = [reply EXCEPT ![r] = [code |-> code, transfer |-> t]]
  /\ held' = [held EXCEPT ![r] = {}]
  /\ todo' = [todo EXCEPT ![r] = <<>>]
  /\ seen' = [seen EXCEPT ![r] = NothingSeen]
  /\ reserved' = [reserved EXCEPT ![r] = 0]
  /\ UNCHANGED <<command, limit, chargeDay, attempts>>

Refuse(r, code) == Answer(r, code, None) /\ UNCHANGED <<db, world>>

(* A command arrives and passes or fails the checks made before any        *)
(* transaction begins.                                                     *)
BadCommand(c) ==
  \/ c.kind = "internal" /\ c.amount > VerifiedLimit
  \/ c.kind = "inbound" /\ c.dest \notin Wallet

Receive(r) ==
  /\ pc[r] = "idle"
  /\ \E c \in Commands :
       /\ command' = [command EXCEPT ![r] = c]
       /\ IF BadCommand(c)
            THEN /\ pc' = [pc EXCEPT ![r] = "done"]
                 /\ reply' = [reply EXCEPT ![r].code = "invalid"]
                 /\ UNCHANGED todo
            ELSE /\ pc' = [pc EXCEPT ![r] = IF c.kind = "outbound" THEN "kyc"
                                            ELSE IF Keyed(c) THEN "replay" ELSE "work"]
                 /\ todo' = [todo EXCEPT ![r] = Route(c.kind)]
                 /\ UNCHANGED reply
  /\ UNCHANGED <<db, world, held, seen, limit, chargeDay, reserved, attempts>>

(* A status query starts to reverse a committed outbound transfer. *)
ReceiveReversal(r) ==
  /\ pc[r] = "idle"
  /\ \E t \in committed :
       /\ command[t].kind = "outbound"
       /\ command' = [command EXCEPT ![r] = [command[t] EXCEPT !.kind = "reverse", !.of = t]]
       /\ pc' = [pc EXCEPT ![r] = "work"]
       /\ todo' = [todo EXCEPT ![r] = Route("reverse")]
  /\ UNCHANGED <<db, world, held, seen, limit, chargeDay, reserved, attempts, reply>>

(* A worker begins the transaction of a committed outbound transfer.  Its  *)
(* saves, the one that claims the job as well as the one that records the  *)
(* outcome, update whatever wallets its DbContext has modified by then,    *)
(* for this transfer or for an earlier one of the batch.                   *)
BeginWorker(r) ==
  /\ pc[r] = "idle"
  /\ \E t \in committed, route \in WorkerRoutes :
       /\ command[t].kind = "outbound"
       /\ command' = [command EXCEPT ![r] = [command[t] EXCEPT !.kind = "worker", !.of = t]]
       /\ pc' = [pc EXCEPT ![r] = "work"]
       /\ todo' = [todo EXCEPT ![r] = [i \in 1 .. Len(route) |-> Write(route[i])]]
  /\ UNCHANGED <<db, world, held, seen, limit, chargeDay, reserved, attempts, reply>>

(* TransferOutboundAsync reads the KYC status once, outside the transaction *)
(* and outside the retry loop.                                             *)
ReadKyc(r) ==
  /\ pc[r] = "kyc"
  /\ limit' = [limit EXCEPT ![r] = LimitFor(command[r].customer \in verified)]
  /\ pc' = [pc EXCEPT ![r] = "replay"]
  /\ UNCHANGED <<db, world, command, todo, seen, chargeDay, reserved, attempts, reply, held>>

(* Mutated form: the payload of the recorded request is not compared. *)
ReplayHitAnyPayload(r) ==
  /\ pc[r] \in {"replay", "conflict"}
  /\ \E t \in Recorded(command[r]) : Answer(r, "replayed", t) /\ UNCHANGED <<db, world>>

(* TryReplayAsync against the records committed so far, at the start of    *)
(* the transaction ("replay") or after SaveChanges failed ("conflict").    *)
ReplayHit(r) ==
  /\ pc[r] \in {"replay", "conflict"}
  /\ \E t \in Recorded(command[r]) :
       IF Fingerprint(command[t]) = Fingerprint(command[r])
         THEN Answer(r, "replayed", t) /\ UNCHANGED <<db, world>>
         ELSE Refuse(r, "mismatch")

ReplayMiss(r) ==
  /\ pc[r] = "replay"
  /\ Recorded(command[r]) = {}
  /\ pc' = [pc EXCEPT ![r] = "work"]
  /\ chargeDay' = [chargeDay EXCEPT ![r] = day]
  /\ UNCHANGED <<db, world, command, todo, seen, limit, reserved, attempts, reply, held>>

(* The DbUpdateException is rethrown when no record explains it. *)
RethrowConflict(r) ==
  /\ pc[r] = "conflict"
  /\ Recorded(command[r]) = {}
  /\ Refuse(r, "conflict")
-----------------------------------------------------------------------------
(* The statements of a transaction. *)

Done(r, x) ==
  /\ todo' = [todo EXCEPT ![r] = Tail(@)]
  /\ held' = [held EXCEPT ![r] = @ \cup x]
  /\ UNCHANGED <<db, world, command, pc, limit, chargeDay, attempts, reply>>

(* What an outbound transfer takes of the daily limit. *)
Charge(c) == IF c.kind = "outbound" THEN c.amount ELSE 0

Fits(r) == counter[CounterOf(r)] + Charge(command[r]) <= limit[r]

Reserve(r) == reserved' = [reserved EXCEPT ![r] = Charge(command[r])]

(* Mutated forms: MERGE without HOLDLOCK, so that two requests read one    *)
(* total; and MERGE on a connection of its own, which commits by itself.   *)
MergeCounterUnlocked(r) ==
  /\ At(r, "merge")
  /\ IF Fits(r) THEN Done(r, {}) /\ Reserve(r) /\ UNCHANGED seen
               ELSE Refuse(r, "limit")

MergeCounterApart(r) ==
  /\ At(r, "merge")
  /\ Free(r, CounterOf(r))
  /\ IF Fits(r)
       THEN /\ counter' = [counter EXCEPT ![CounterOf(r)] = @ + Charge(command[r])]
            /\ todo' = [todo EXCEPT ![r] = Tail(@)]
            /\ UNCHANGED <<balance, version, ledger, written, committed, world, command, pc,
                           seen, limit, chargeDay, reserved, attempts, reply, held>>
       ELSE Refuse(r, "limit")

(* MergeCounterAsync: wait for the counter row, then reserve the amount or *)
(* affect no row.  The reservation becomes visible at the commit, and is   *)
(* given back by a rollback.                                               *)
MergeCounter(r) ==
  /\ At(r, "merge")
  /\ Free(r, CounterOf(r))
  /\ IF Fits(r) THEN Done(r, {CounterOf(r)}) /\ Reserve(r) /\ UNCHANGED seen
               ELSE Refuse(r, "limit")

(* What the source wallet must hold. *)
Needed(c) == IF c.kind = "outbound" THEN Total(c) ELSE c.amount

(* Mutated form: the source is loaded by a plain SELECT. *)
LockSourceUnlocked(r) ==
  LET c == command[r] IN
  /\ At(r, "lock") /\ Head(todo[r])[2] = "source" /\ c.kind \in {"internal", "outbound"}
  /\ IF Owner[c.source] # c.customer THEN Refuse(r, "forbidden")
     ELSE IF Tracked(r, c.source).balance < Needed(c) THEN Refuse(r, "insufficient")
     ELSE Track(r, c.source) /\ Done(r, {})

(* The source wallet is locked, and checked on the tracked copy. *)
LockSource(r) ==
  LET c == command[r] IN
  /\ At(r, "lock") /\ Head(todo[r])[2] = "source" /\ c.kind \in {"internal", "outbound"}
  /\ Free(r, c.source)
  /\ IF Owner[c.source] # c.customer THEN Refuse(r, "forbidden")
     ELSE IF Tracked(r, c.source).balance < Needed(c) THEN Refuse(r, "insufficient")
     ELSE Track(r, c.source) /\ Done(r, {c.source})

(* An internal transfer looks its destination up, unlocked, before it      *)
(* locks it; CreditAsync checks the type of the wallet it has locked.      *)
BadDestination(c) == c.dest \notin Wallet \/ (c.kind = "internal" /\ c.dest = c.source)

RefuseDestination(r) ==
  /\ At(r, "lock") /\ Head(todo[r])[2] = "dest"
  /\ BadDestination(command[r])
  /\ command[r].kind = "credit" => Free(r, command[r].dest)
  /\ Refuse(r, "bad_destination")

LockRow(r) ==
  LET x == Head(todo[r])[2]  a == Operand(r) IN
  /\ At(r, "lock")
  /\ x = "source" => command[r].kind = "reverse"
  /\ x = "dest" => ~BadDestination(command[r])
  /\ Free(r, a)
  /\ Track(r, a)
  /\ Done(r, {a})

(* An UPDATE of a worker's save.  What a worker reads is not modelled, as  *)
(* it may write anything.                                                  *)
WriteRow(r) ==
  /\ At(r, "write")
  /\ Free(r, Operand(r))
  /\ Done(r, {Operand(r)})
  /\ UNCHANGED <<seen, reserved>>
-----------------------------------------------------------------------------
(* The end of a transaction. *)

Ready(r)  == pc[r] = "work" /\ todo[r] = <<>>
Worker(r) == command[r].kind = "worker"

(* Mutated form: Debit does not check the balance. *)
ThrowsOnZeroOnly(r) ==
  command[r].kind \in {"outbound", "reverse"} /\ (Fee = 0 \/ Vat = 0)

(* Wallet.Debit refuses to overdraw the tracked copy, and Credit and Debit *)
(* refuse an amount of zero, which a zero fee or VAT would be.             *)
Throws(r) ==
  \/ \E a \in Account : Tracked(r, a).balance + Legs(command[r])[a] < 0
  \/ command[r].kind \in {"outbound", "reverse"} /\ (Fee = 0 \/ Vat = 0)

(* Mutated forms: no concurrency token; no unique index. *)
StaleRowUnnoticed(r)  == FALSE
DuplicateUnnoticed(r) == FALSE

(* UPDATE ... WHERE Version = <the tracked one> misses, or an INSERT meets *)
(* the unique index over customer and key.                                 *)
StaleRow(r)  == \E a \in Touched(command[r]) : Tracked(r, a).version # version[a]
Duplicate(r) == Keyed(command[r]) /\ Recorded(command[r]) # {}

DomainFailure(r) ==
  /\ Ready(r) /\ ~Worker(r) /\ Throws(r)
  /\ Refuse(r, "insufficient")

SaveFails(r) ==
  /\ Ready(r) /\ ~Worker(r) /\ ~Throws(r)
  /\ StaleRow(r) \/ Duplicate(r)
  /\ IF command[r].kind \in {"internal", "outbound"}
       THEN /\ pc' = [pc EXCEPT ![r] = "conflict"]
            /\ held' = [held EXCEPT ![r] = {}]
            /\ reserved' = [reserved EXCEPT ![r] = 0]
            /\ UNCHANGED <<db, world, command, todo, seen, limit, chargeDay, attempts, reply>>
       ELSE Refuse(r, "conflict")

(* Wallet.Credit and Wallet.Debit increment the Version token, and a       *)
(* mutated form: they do not.                                              *)
SameVersion(v) == v
NextVersion(v) == v + 1

(* The acknowledgement of a commit may be lost on its way to the request,  *)
(* which then fails without knowing that it has committed.                 *)
Commit(r) ==
  LET c == command[r] IN
  /\ Ready(r) /\ ~Worker(r) /\ ~Throws(r) /\ ~StaleRow(r) /\ ~Duplicate(r)
  /\ balance' = [a \in Account |-> IF a \in Touched(c) THEN Tracked(r, a).balance + Legs(c)[a]
                                   ELSE balance[a]]
  /\ version' = [a \in Account |-> IF a \in Touched(c) THEN NextVersion(Tracked(r, a).version)
                                   ELSE version[a]]
  /\ ledger' = [a \in Account |-> ledger[a] + Legs(c)[a]]
  /\ counter' = IF c.kind = "outbound" THEN [counter EXCEPT ![CounterOf(r)] = @ + reserved[r]]
                ELSE counter
  /\ committed' = committed \cup {r}
  /\ Answer(r, "ok", r) \/ Answer(r, "lost", None)
  /\ UNCHANGED <<written, world>>

(* A worker's transaction commits: every row it has updated has a balance  *)
(* that CHECK (BalanceKobo >= 0) admits and a higher version, since only   *)
(* Credit and Debit modify a wallet and both count the version up.         *)
CommitWorker(r) ==
  /\ Ready(r) /\ Worker(r)
  /\ \E e \in [held[r] -> Effects] :
       LET new(a) == balance[a] + (IF a \in held[r] THEN e[a].balance ELSE 0) IN
       /\ \A a \in held[r] : new(a) >= 0
       /\ balance' = [a \in Account |-> new(a)]
       /\ version' = [a \in Account |-> version[a] + (IF a \in held[r] THEN e[a].version ELSE 0)]
       /\ written' = [a \in Account |-> written[a] + (IF a \in held[r] THEN e[a].balance ELSE 0)]
  /\ Answer(r, "saved", None)
  /\ UNCHANGED <<ledger, counter, committed, world>>

(* A worker's save finds a stale row or a balance below zero, or the       *)
(* reversal throws: its transaction is rolled back.                        *)
RollbackWorker(r) ==
  /\ Ready(r) /\ Worker(r)
  /\ Refuse(r, "conflict")

(* Mutated form: the attempts are not counted. *)
RetryVictimForever(r) ==
  /\ Deadlocked(r)
  /\ command[r].kind = "outbound"
  /\ pc' = [pc EXCEPT ![r] = "replay"]
  /\ todo' = [todo EXCEPT ![r] = Route("outbound")]
  /\ held' = [held EXCEPT ![r] = {}]
  /\ reserved' = [reserved EXCEPT ![r] = 0]
  /\ UNCHANGED <<db, world, command, seen, limit, chargeDay, attempts, reply>>

(* SQL Server rolls back a transaction on a circle of waits.  Outbound     *)
(* transfers begin again when error 1205 reaches their catch clause as a   *)
(* SqlException, which is up to the EF provider; everyone else gives up.   *)
RetryVictim(r) ==
  /\ Deadlocked(r)
  /\ command[r].kind = "outbound" /\ attempts[r] < MaxAttempts - 1
  /\ attempts' = [attempts EXCEPT ![r] = @ + 1]
  /\ pc' = [pc EXCEPT ![r] = "replay"]
  /\ todo' = [todo EXCEPT ![r] = Route("outbound")]
  /\ held' = [held EXCEPT ![r] = {}]
  /\ reserved' = [reserved EXCEPT ![r] = 0]
  /\ UNCHANGED <<db, world, command, seen, limit, chargeDay, reply>>

AbortVictim(r) == Deadlocked(r) /\ Refuse(r, "deadlock")

(* The caller goes away, or the process stops: the cancelled token or the  *)
(* broken connection rolls the transaction back.                           *)
Cancel(r) ==
  /\ pc[r] \in {"kyc", "replay", "work", "conflict"}
  /\ Refuse(r, "cancelled")

(* KYC reviews and the passing of WAT midnight, at any moment. *)
KycDecision ==
  /\ \E c \in Customer : verified' = IF c \in verified THEN verified \ {c} ELSE verified \cup {c}
  /\ UNCHANGED <<db, day, request>>

Midnight ==
  /\ day < MaxDay
  /\ day' = day + 1
  /\ UNCHANGED <<db, verified, request>>

Step(r) ==
  \/ ReadKyc(r) \/ ReplayHit(r) \/ ReplayMiss(r) \/ RethrowConflict(r)
  \/ MergeCounter(r) \/ LockSource(r) \/ RefuseDestination(r) \/ LockRow(r)
  \/ WriteRow(r) \/ CommitWorker(r) \/ RollbackWorker(r)
  \/ DomainFailure(r) \/ SaveFails(r) \/ Commit(r)

Victim(r) == RetryVictim(r) \/ AbortVictim(r)

Next ==
  \/ \E r \in Request : \/ Receive(r) \/ ReceiveReversal(r) \/ BeginWorker(r)
                       \/ Step(r) \/ Victim(r) \/ Cancel(r)
  \/ KycDecision
  \/ Midnight

Spec == Init /\ [][Next]_vars

(* A transaction that has begun keeps executing, and the lock monitor      *)
(* breaks every circle; nobody is obliged to send, to cancel, to begin a   *)
(* batch, or to review.                                                    *)
Fairness ==
  /\ \A r \in Request : WF_vars(Step(r))
  /\ WF_vars(\E r \in Request : Victim(r))

FairSpec == Spec /\ Fairness
-----------------------------------------------------------------------------
(* Properties. *)

CodeType == {"pending", "ok", "lost", "saved", "replayed", "mismatch", "forbidden", "insufficient",
             "bad_destination", "invalid", "limit", "conflict", "deadlock", "cancelled"}
RowType  == [balance : Nat, version : Nat]

(* Every variable holds values of its kind; in particular no committed     *)
(* balance is ever negative: Wallet.Debit's check on a copy that may be    *)
(* out of date suffices, so that an API request never meets the constraint *)
(* CHECK (BalanceKobo >= 0).                                               *)
TypeOK ==
  /\ balance \in [Account -> Nat]
  /\ version \in [Account -> Nat]
  /\ ledger \in [Account -> Int]
  /\ written \in [Account -> Int]
  /\ counter \in [Counter -> Nat]
  /\ committed \in SUBSET Request
  /\ held \in [Request -> SUBSET (Account \cup Counter)]
  /\ verified \in SUBSET Customer
  /\ day \in Day
  /\ command \in [Request -> CommandType \cup {None}]
  /\ pc \in [Request -> {"idle", "kyc", "replay", "work", "conflict", "done"}]
  /\ todo \in [Request -> Seq(Statement)]
  /\ seen \in [Request -> [Account -> RowType \cup {None}]]
  /\ limit \in [Request -> {0, UnverifiedLimit, VerifiedLimit}]
  /\ chargeDay \in [Request -> Day]
  /\ reserved \in [Request -> Nat]
  /\ attempts \in [Request -> 0 .. MaxAttempts - 1]
  /\ reply \in [Request -> [code : CodeType, transfer : Request \cup {None}]]

(* No update of an API request is lost, and none is made twice: every      *)
(* balance is the seeded one, plus what the ledger legs of API requests    *)
(* say, plus what workers wrote, however requests, retries and the         *)
(* worker's unlocked updates interleave.                                   *)
BalanceMatchesLedger ==
  \A a \in Account : balance[a] = Opening[a] + ledger[a] + written[a]

(* One transfer per customer and Idempotency-Key, across the three kinds   *)
(* of transfer that share the unique index.                                *)
OneTransferPerKey ==
  \A t, u \in committed :
    Keyed(command[t]) /\ Keyed(command[u]) /\ KeyOf(command[t]) = KeyOf(command[u]) => t = u

(* A caller told of a transfer is told of one that exists, was filed under *)
(* its key and carries its payload; a caller told of a failure has caused  *)
(* none, unless it is the loss of the commit's acknowledgement.            *)
RepliesTruthful ==
  \A r \in Request :
    LET a == reply[r] IN
    /\ a.code \in {"ok", "lost"} <=> r \in committed
    /\ a.code \in {"ok", "replayed"} =>
         /\ a.transfer \in committed
         /\ KeyOf(command[a.transfer]) = KeyOf(command[r])
         /\ Fingerprint(command[a.transfer]) = Fingerprint(command[r])

(* The daily counter of a wallet never passes the verified limit, whatever *)
(* KYC decisions and midnights fall between the check of the limit and the *)
(* commit of the reservation.                                              *)
CounterWithinLimit == \A k \in Counter : counter[k] <= VerifiedLimit

(* What the transfers in the database move. *)
Amounts == [t \in committed |-> command[t].amount]

ChargedTo(k) ==
  {t \in committed : command[t].kind = "outbound" /\ CounterOf(t) = k}

(* A counter equals the amounts of the outbound transfers charged to it: a *)
(* request that has reserved and then fails for its balance, its owner, a  *)
(* duplicate, a cancellation or a deadlock, or is retried, consumes no     *)
(* limit, which rests on the MERGE being part of the transaction.          *)
CounterMatchesTransfers ==
  \A k \in Counter : counter[k] = SumFunctionOnSet(Amounts, ChargedTo(k))

Funded == {t \in committed : command[t].kind = "fund"}

(* The API only moves money: the accounts together hold what was seeded    *)
(* plus what CreditSettlementAsync added, but for what workers wrote.      *)
MoneyConserved ==
  SumFunctionOnSet(balance, Account)
    = SumFunctionOnSet(Opening, Account) + SumFunctionOnSet(Amounts, Funded)
        + SumFunctionOnSet(written, Account)

(* The row locks suffice: an API request on its first attempt never finds  *)
(* at SaveChanges that a row it tracks has changed.  The Version token     *)
(* matters only to the worker's updates and to retries.                    *)
LocksSuffice ==
  \A r \in Request :
    Ready(r) /\ ~Worker(r) /\ attempts[r] = 0 => ~StaleRow(r)

(* The API's lock order is free of deadlock except among internal          *)
(* transfers: every circle of waits has an internal transfer or a worker's *)
(* transaction on it.                                                      *)
CyclesNeedInternalOrWorker ==
  \A S \in SUBSET Request :
    WaitCycle(S) => \E r \in S : command[r].kind \in {"internal", "worker"}

(* A copy tracked by an API request, retries included, is never ahead of   *)
(* its row, and one that still carries the row's version carries its       *)
(* balance: for the API a version names one balance.  (The worker's        *)
(* context, which outlives its rollbacks, may be ahead; see WorkerBatch.)  *)
TrackedRowsGenuine ==
  \A r \in Request, a \in Account :
    seen[r][a] # None =>
      /\ seen[r][a].version <= version[a]
      /\ seen[r][a].version = version[a] => seen[r][a].balance = balance[a]

(* Every request that has begun is answered: no lock wait, deadlock with a *)
(* worker or retry loop of TransferOutboundAsync goes on for ever.         *)
EveryRequestAnswered ==
  \A r \in Request : pc[r] \in {"kyc", "replay", "work", "conflict"} ~> pc[r] = "done"

Abstract ==
  INSTANCE Ledger WITH
    NoKey  <- None,
    adjusted <- written,
    posted <- {[id |-> t,
                key |-> IF Keyed(command[t]) THEN KeyOf(command[t]) ELSE None,
                legs |-> Legs(command[t])] : t \in committed}

(* To its callers the service is the abstract ledger: every committed API  *)
(* request is one indivisible posting under a fresh key that overdraws no  *)
(* account, and nothing but a worker's save moves money otherwise.         *)
ImplementsLedger == Abstract!Spec
-----------------------------------------------------------------------------
(* A statement of the documentation that the code does not keep. *)

(* README: "concurrent outbound transfers from different wallets of the    *)
(* same customer cannot exceed the limit".                                 *)
LimitPerCustomer ==
  \A c \in Customer, d \in Day :
    SumFunctionOnSet(counter, {k \in Counter : Owner[k[1]] = c /\ k[2] = d}) <= VerifiedLimit
=============================================================================
