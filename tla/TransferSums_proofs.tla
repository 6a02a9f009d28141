-------------------------- MODULE TransferSums_proofs --------------------------
(***************************************************************************)
(* What the sums over TransferService's rows say: money is only moved, a   *)
(* daily counter holds the amounts of the transfers charged to it, and the *)
(* transfers of a customer are limited as far as its wallets are few.      *)
(***************************************************************************)
EXTENDS TransferLocks_proofs, SumTheorems

-----------------------------------------------------------------------------
(* The legs of a command balance. *)

LEMMA AccountsFinite == IsFiniteSet(Account)
<1>1. IsFiniteSet({}) /\ IsFiniteSet({Settlement})
  BY FS_EmptySet, FS_Singleton
<1>2. IsFiniteSet({Settlement} \cup {Income})
  BY <1>1, FS_AddElement
<1>3. IsFiniteSet(({Settlement} \cup {Income}) \cup {VatAccount})
  BY <1>2, FS_AddElement
<1>4. System = ({Settlement} \cup {Income}) \cup {VatAccount}
  BY DEF System
<1>. QED
  BY <1>3, <1>4, AccountAssumption, FS_Union DEF Account

LEMMA MovedSum ==
  ASSUME NEW a \in Account, NEW b \in Account, a # b, NEW n \in Int
  PROVE  SumFunctionOnSet(Moved(a, b, n), Account) = 0
<1>. DEFINE f == Moved(a, b, n)
<1>1. f[a] = -n /\ f[b] = n /\ \A x \in Account \ {a, b} : f[x] = 0
  BY DEF Moved
<1>. HIDE DEF f
<1>2. SumFunctionOnSet(f, Account) = f[a] + f[b]
  BY <1>1, AccountsFinite, SumTwo
<1>. QED
  BY <1>1, <1>2 DEF f

LEMMA OutboundSum ==
  ASSUME NEW c \in CommandType, NEW sign \in {1, -1}
  PROVE  SumFunctionOnSet([a \in Account |-> sign * OutboundLegs(c)[a]], Account) = 0
<1>. DEFINE f == [a \in Account |-> sign * OutboundLegs(c)[a]]
<1>1. c.source \in Wallet /\ c.amount \in Int /\ Fee \in Int /\ Vat \in Int
  BY ChargeAssumption DEF CommandType
<1>2. /\ c.source \in Account /\ Settlement \in Account \ {c.source}
      /\ Income \in Account \ {c.source, Settlement}
      /\ VatAccount \in Account \ {c.source, Settlement, Income}
  BY <1>1, Names DEF Account
<1>3. /\ f[c.source] = sign * (-(c.amount + Fee + Vat)) /\ f[Settlement] = sign * c.amount
      /\ f[Income] = sign * Fee /\ f[VatAccount] = sign * Vat
  BY <1>2 DEF OutboundLegs, Total
<1>4. \A x \in Account \ {c.source, Settlement, Income, VatAccount} : f[x] = 0
  BY DEF OutboundLegs
<1>. HIDE DEF f
<1>5. /\ f[c.source] \in Int /\ f[Settlement] \in Int
      /\ f[Income] \in Int /\ f[VatAccount] \in Int
      /\ f[c.source] + (f[Settlement] + (f[Income] + f[VatAccount])) = 0
  <2>1. CASE sign = 1
    BY <1>1, <1>3, <2>1
  <2>2. CASE sign = -1
    BY <1>1, <1>3, <2>2
  <2>. QED
    BY <2>1, <2>2
<1>6. SumFunctionOnSet(f, Account) = f[c.source] + (f[Settlement] + (f[Income] + f[VatAccount]))
  BY <1>2, <1>4, <1>5, AccountsFinite, SumFour
<1>. QED
  BY <1>5, <1>6 DEF f

(* The commands that reach their commit move money, but for the funding of *)
(* the settlement account, which brings it in.                             *)
LEMMA LegsSum ==
  ASSUME NEW c \in CommandType, c.kind # "worker",
         c.kind \in {"internal", "inbound", "credit"} => ~BadDestination(c)
  PROVE  SumFunctionOnSet(Legs(c), Account) = IF c.kind = "fund" THEN c.amount ELSE 0
<1>1. c.kind \in Kind /\ c.source \in Account /\ c.amount \in Int
  BY DEF CommandType, Account
<1>2. CASE c.kind = "internal"
  <2>1. Legs(c) = Moved(c.source, c.dest, c.amount)
    BY <1>2 DEF Legs
  <2>2. c.dest \in Account /\ c.dest # c.source
    BY <1>2 DEF BadDestination, Account
  <2>. QED
    BY <1>1, <1>2, <2>1, <2>2, MovedSum
<1>3. CASE c.kind \in {"inbound", "credit"}
  <2>1. Legs(c) = Moved(Settlement, c.dest, c.amount)
    BY <1>3 DEF Legs
  <2>2. c.dest \in Account /\ c.dest # Settlement /\ Settlement \in Account
    BY <1>3, Names DEF BadDestination, Account
  <2>. QED
    BY <1>1, <1>3, <2>1, <2>2, MovedSum
<1>4. CASE c.kind = "fund"
  <2>1. Legs(c) = Moved(None, Settlement, c.amount)
    BY <1>4 DEF Legs
  <2>2. None # Settlement /\ Settlement \in Account
    BY AccountAssumption, Names DEF Account
  <2>3. Legs(c)[Settlement] = c.amount /\ \A x \in Account \ {Settlement} : Legs(c)[x] = 0
    BY <2>1, <2>2, AccountAssumption DEF Moved
  <2>. QED
    BY <1>1, <1>4, <2>2, <2>3, AccountsFinite, SumOne
<1>5. CASE c.kind = "outbound"
  <2>1. Legs(c) = OutboundLegs(c)
    BY <1>5 DEF Legs
  <2>2. OutboundLegs(c) = [a \in Account |-> 1 * OutboundLegs(c)[a]]
    BY <1>1, ChargeAssumption DEF OutboundLegs, Total
  <2>. QED
    BY <1>5, <2>1, <2>2, OutboundSum
<1>6. CASE c.kind = "reverse"
  <2>1. Legs(c) = [a \in Account |-> -OutboundLegs(c)[a]]
    BY <1>6 DEF Legs
  <2>2. [a \in Account |-> -OutboundLegs(c)[a]] = [a \in Account |-> (-1) * OutboundLegs(c)[a]]
    BY <1>1, ChargeAssumption DEF OutboundLegs, Total
  <2>. QED
    BY <1>6, <2>1, <2>2, OutboundSum
<1>. QED
  BY <1>1, <1>2, <1>3, <1>4, <1>5, <1>6 DEF Kind, ClientKind

(* At its commit a request has had its destination checked: the check      *)
(* precedes the lock of the destination, and the route has led there.      *)
LEMMA DestinationChecked ==
  ASSUME Typed, Progress, NEW r \in Request, Ready(r),
         command[r].kind \in {"internal", "inbound", "credit"}
  PROVE  ~BadDestination(command[r])
<1>. DEFINE route == Route(command[r].kind)
<1>1. PICK n \in 0 .. Len(route) : Stage(r, n)
  BY DEF Ready, Progress, Active
<1>2. Len(route) = 2 /\ (route[1] = Lock("dest") \/ route[2] = Lock("dest"))
  <2>1. CASE command[r].kind = "internal"
    <3>1. route = <<Lock("source"), Lock("dest")>>
      BY <2>1 DEF Route
    <3>. QED
      BY <3>1
  <2>2. CASE command[r].kind \in {"inbound", "credit"}
    <3>1. route = <<Lock("dest"), Lock(Settlement)>>
      BY <2>2 DEF Route
    <3>. QED
      BY <3>1
  <2>. QED
    BY <2>1, <2>2
<1>3. n = 2
  BY <1>1, <1>2 DEF Stage, Ready
<1>. QED
  BY <1>1, <1>2, <1>3 DEF Stage
-----------------------------------------------------------------------------
(* What is committed stays as it is. *)

LEMMA RowsKept ==
  ASSUME Typed, [Next]_vars, NEW t \in committed
  PROVE  command'[t] = command[t] /\ chargeDay'[t] = chargeDay[t]
<1>1. t \in Request /\ pc[t] = "done"
  BY DEF Typed, TypeOK, Begun
<1>2. command'[t] = command[t]
  BY <1>1, CommandKept
<1>3. ASSUME NEW r \in Request, ReplayMiss(r) PROVE chargeDay'[t] = chargeDay[t]
  BY <1>1, <1>3 DEF ReplayMiss, Typed, TypeOK
<1>4. ASSUME NEW r \in Request, Acts(r), ~ReplayMiss(r) PROVE UNCHANGED chargeDay
  BY <1>4 DEF Acts, Receive, ReceiveReversal, BeginWorker, Step, ReadKyc, ReplayHit,
              RethrowConflict, MergeCounter, LockSource, RefuseDestination, LockRow, WriteRow,
              DomainFailure, SaveFails, Commit, CommitWorker, RollbackWorker, Victim, RetryVictim,
              AbortVictim, Cancel, Refuse, Answer, Done
<1>5. CASE KycDecision \/ Midnight \/ UNCHANGED vars
  BY <1>5 DEF KycDecision, Midnight, vars, request
<1>. QED
  BY <1>2, <1>3, <1>4, <1>5, NextActs

LEMMA CommitAdds ==
  ASSUME Typed, NEW r \in Request, Commit(r)
  PROVE  /\ committed' = committed \cup {r} /\ r \notin committed
         /\ UNCHANGED <<command, chargeDay>> /\ command[r] \in CommandType
BY DEF Commit, Ready, Answer, Typed, TypeOK, Begun

(* What the committed requests move is a number, and stays it. *)
LEMMA AmountsKept ==
  ASSUME Typed, [Next]_vars, committed \subseteq committed', NEW t \in committed
  PROVE  Amounts[t] \in Nat /\ Amounts'[t] = Amounts[t]
<1>1. command[t] \in CommandType
  BY DEF Typed, TypeOK, Begun
<1>. QED
  BY <1>1, RowsKept DEF Amounts, CommandType

LEMMA SumKept ==
  ASSUME Typed, [Next]_vars, committed \subseteq committed',
         NEW X \in SUBSET committed, IsFiniteSet(X)
  PROVE  SumFunctionOnSet(Amounts', X) = SumFunctionOnSet(Amounts, X)
BY AmountsKept, SumAgree

(* A commit adds its amount to the sum over a part of the committed        *)
(* requests that it joins.                                                 *)
LEMMA SumGrows ==
  ASSUME Typed, [Next]_vars, NEW r \in Request, Commit(r),
         NEW X \in SUBSET committed, IsFiniteSet(X)
  PROVE  /\ SumFunctionOnSet(Amounts, X) \in Int
         /\ SumFunctionOnSet(Amounts', X \cup {r})
              = command[r].amount + SumFunctionOnSet(Amounts, X)
<1>1. /\ committed' = committed \cup {r} /\ r \notin committed
      /\ command' = command /\ command[r] \in CommandType
  BY CommitAdds
<1>2. Amounts'[r] = command[r].amount /\ command[r].amount \in Int
  BY <1>1 DEF Amounts, CommandType
<1>3. \A t \in X : Amounts[t] \in Int /\ Amounts'[t] = Amounts[t]
  BY <1>1, AmountsKept
<1>4. SumFunctionOnSet(Amounts, X) \in Int
  BY <1>3, SumInt
<1>5. SumFunctionOnSet(Amounts', X) = SumFunctionOnSet(Amounts, X)
  BY <1>1, SumKept
<1>6. SumFunctionOnSet(Amounts', X \cup {r}) = Amounts'[r] + SumFunctionOnSet(Amounts', X)
  <2>1. r \notin X /\ \A t \in X \cup {r} : Amounts'[t] \in Int
    BY <1>1, <1>2, <1>3
  <2>. QED
    BY <2>1, SumInsert
<1>. QED
  BY <1>2, <1>4, <1>5, <1>6
-----------------------------------------------------------------------------
(* The invariant of the sums: finitely many requests have committed, and   *)
(* the two properties.                                                     *)
Sums == IsFiniteSet(committed) /\ MoneyConserved /\ CounterMatchesTransfers

LEMMA InitSums == Init => Sums
<1>. SUFFICES ASSUME Init PROVE Sums
  OBVIOUS
<1>1. committed = {} /\ balance = Opening /\ Funded = {} /\ \A k \in Counter : ChargedTo(k) = {}
  BY DEF Init, Funded, ChargedTo
<1>2. SumFunctionOnSet(Opening, Account) \in Int
  <2>1. \A a \in Account : Opening[a] \in Int
    BY OpeningAssumption
  <2>. QED
    BY <2>1, AccountsFinite, SumInt
<1>3. SumFunctionOnSet(Amounts, {}) = 0
  BY SumEmpty
<1>6. SumFunctionOnSet(written, Account) = 0
  <2>1. \A a \in Account : written[a] = 0
    BY DEF Init
  <2>. QED
    BY <2>1, AccountsFinite, SumZero
<1>4. MoneyConserved
  BY <1>1, <1>2, <1>3, <1>6 DEF MoneyConserved
<1>5. CounterMatchesTransfers
  BY <1>1, <1>3 DEF CounterMatchesTransfers, Init
<1>. QED
  BY <1>1, <1>4, <1>5, FS_EmptySet DEF Sums

(* Without a commit, nothing in the sums changes, and a worker's writes    *)
(* change the balances by what they are said to.                           *)
LEMMA SumsKept ==
  ASSUME Typed, Sums, [Next]_vars, UNCHANGED db
  PROVE  Sums'
<1>1. UNCHANGED <<balance, written, counter, committed>>
  BY DEF db
<1>2. Funded' = Funded /\ \A k \in Counter : ChargedTo(k)' = ChargedTo(k)
  BY <1>1, RowsKept DEF Funded, ChargedTo, CounterOf
<1>3. /\ IsFiniteSet(Funded) /\ Funded \in SUBSET committed
      /\ \A k : IsFiniteSet(ChargedTo(k)) /\ ChargedTo(k) \in SUBSET committed
  BY FS_Subset DEF Sums, Funded, ChargedTo
<1>4. SumFunctionOnSet(Amounts', Funded) = SumFunctionOnSet(Amounts, Funded)
  BY <1>1, <1>3, SumKept
<1>5. \A k : SumFunctionOnSet(Amounts', ChargedTo(k)) = SumFunctionOnSet(Amounts, ChargedTo(k))
  BY <1>1, <1>3, SumKept
<1>6. MoneyConserved'
  BY <1>1, <1>2, <1>4 DEF Sums, MoneyConserved
<1>7. CounterMatchesTransfers'
  BY <1>1, <1>2, <1>5 DEF Sums, CounterMatchesTransfers
<1>. QED
  BY <1>1, <1>6, <1>7 DEF Sums

LEMMA WorkerConserves ==
  ASSUME Typed, Sums, [Next]_vars, NEW r \in Request, CommitWorker(r)
  PROVE  Sums'
<1>1. UNCHANGED <<counter, committed>>
  BY DEF CommitWorker
<1>2. Funded' = Funded /\ \A k \in Counter : ChargedTo(k)' = ChargedTo(k)
  BY <1>1, RowsKept DEF Funded, ChargedTo, CounterOf
<1>3. /\ IsFiniteSet(Funded) /\ Funded \in SUBSET committed
      /\ \A k : IsFiniteSet(ChargedTo(k)) /\ ChargedTo(k) \in SUBSET committed
  BY FS_Subset DEF Sums, Funded, ChargedTo
<1>4. /\ SumFunctionOnSet(Amounts', Funded) = SumFunctionOnSet(Amounts, Funded)
      /\ SumFunctionOnSet(Amounts, Funded) \in Int
  <2>1. \A t \in Funded : Amounts[t] \in Int
    BY <1>1, <1>3, AmountsKept
  <2>. QED
    BY <1>1, <1>3, <2>1, SumKept, SumInt
<1>5. \A k : SumFunctionOnSet(Amounts', ChargedTo(k)) = SumFunctionOnSet(Amounts, ChargedTo(k))
  BY <1>1, <1>3, SumKept
<1>6. MoneyConserved'
  <2>. DEFINE new == [a \in Account |-> written'[a] - written[a]]
  <2>1. \A a \in Account : /\ balance[a] \in Int /\ written[a] \in Int /\ new[a] \in Int
                           /\ balance'[a] = balance[a] + new[a]
                           /\ written'[a] = written[a] + new[a]
    <3>1. TAKE a \in Account
    <3>2. balance[a] \in Int /\ written[a] \in Int
      BY DEF Typed, TypeOK
    <3>3. /\ balance'[a] \in Int /\ written'[a] \in Int
          /\ balance'[a] - balance[a] = written'[a] - written[a]
      BY WorkerWrites
    <3>. QED
      BY <3>2, <3>3
  <2>. HIDE DEF new
  <2>2. /\ SumFunctionOnSet(balance', Account)
             = SumFunctionOnSet(balance, Account) + SumFunctionOnSet(new, Account)
        /\ SumFunctionOnSet(written', Account)
             = SumFunctionOnSet(written, Account) + SumFunctionOnSet(new, Account)
    BY <2>1, AccountsFinite, SumAdd
  <2>3. /\ SumFunctionOnSet(written, Account) \in Int /\ SumFunctionOnSet(new, Account) \in Int
        /\ SumFunctionOnSet(Opening, Account) \in Int
    <3>1. \A a \in Account : Opening[a] \in Int
      BY OpeningAssumption
    <3>. QED
      BY <2>1, <3>1, AccountsFinite, SumInt
  <2>. QED
    BY <1>2, <1>4, <2>2, <2>3 DEF Sums, MoneyConserved
<1>7. CounterMatchesTransfers'
  BY <1>1, <1>2, <1>5 DEF Sums, CounterMatchesTransfers
<1>. QED
  BY <1>1, <1>6, <1>7 DEF Sums

(* A commit moves what its legs say, which balance, and makes visible what *)
(* its MERGE has reserved, which is its amount.                            *)
LEMMA CommitConserves ==
  ASSUME Fresh, Sums, [Next]_vars, NEW r \in Request, Commit(r)
  PROVE  MoneyConserved'
<1>. DEFINE c == command[r]
            n == IF c.kind = "fund" THEN c.amount ELSE 0
<1>0. Typed /\ Progress /\ TrackedRowsGenuine /\ balance \in [Account -> Nat]
      /\ written \in [Account -> Int] /\ UNCHANGED written
  BY DEF Fresh, Typed, TypeOK, Commit
<1>1. /\ committed' = committed \cup {r} /\ r \notin committed
      /\ UNCHANGED command /\ c \in CommandType
  BY <1>0, CommitAdds
<1>2. SumFunctionOnSet(Legs(c), Account) = n
  BY <1>0, <1>1, DestinationChecked, LegsSum DEF Commit, Worker
<1>3. SumFunctionOnSet(balance', Account) = SumFunctionOnSet(balance, Account) + n
  <2>1. \A a \in Account : /\ balance[a] \in Int /\ Legs(c)[a] \in Int
                           /\ balance'[a] = balance[a] + Legs(c)[a]
    BY <1>0, <1>1, CommitWrites, LegsType
  <2>. HIDE DEF c, n
  <2>2. SumFunctionOnSet(balance', Account)
          = SumFunctionOnSet(balance, Account) + SumFunctionOnSet(Legs(c), Account)
    BY <2>1, AccountsFinite, SumAdd
  <2>. QED
    BY <1>2, <2>2
<1>4. /\ SumFunctionOnSet(Amounts, Funded) \in Int
      /\ SumFunctionOnSet(Amounts', Funded') = n + SumFunctionOnSet(Amounts, Funded)
  <2>1. IsFiniteSet(Funded) /\ Funded \in SUBSET committed
    BY FS_Subset DEF Sums, Funded
  <2>2. CASE c.kind = "fund"
    <3>1. Funded' = Funded \cup {r}
      BY <1>1, <2>2 DEF Funded
    <3>. QED
      BY <1>0, <2>1, <2>2, <3>1, SumGrows
  <2>3. CASE c.kind # "fund"
    <3>1. Funded' = Funded
      BY <1>1, <2>3 DEF Funded
    <3>2. SumFunctionOnSet(Amounts', Funded) = SumFunctionOnSet(Amounts, Funded)
      BY <1>0, <1>1, <2>1, SumKept
    <3>3. SumFunctionOnSet(Amounts, Funded) \in Int
      BY <1>0, <2>1, SumGrows
    <3>. QED
      BY <2>3, <3>1, <3>2, <3>3
  <2>. QED
    BY <2>2, <2>3
<1>5. /\ SumFunctionOnSet(Opening, Account) \in Int /\ n \in Int
      /\ SumFunctionOnSet(written, Account) \in Int
  <2>1. \A a \in Account : Opening[a] \in Int /\ written[a] \in Int
    BY <1>0, OpeningAssumption
  <2>. QED
    BY <1>1, <2>1, AccountsFinite, SumInt DEF CommandType
<1>. HIDE DEF c, n
<1>. QED
  BY <1>0, <1>3, <1>4, <1>5 DEF Sums, MoneyConserved

LEMMA CommitReserves ==
  ASSUME Fresh, Limited, Sums, [Next]_vars, NEW r \in Request, Commit(r)
  PROVE  CounterMatchesTransfers'
<1>0. Typed /\ counter \in [Counter -> Nat]
  BY DEF Fresh, Typed, TypeOK
<1>1. /\ committed' = committed \cup {r} /\ r \notin committed
      /\ UNCHANGED <<command, chargeDay>> /\ command[r] \in CommandType
  BY <1>0, CommitAdds
<1>. SUFFICES ASSUME NEW k \in Counter
              PROVE  counter'[k] = SumFunctionOnSet(Amounts', ChargedTo(k)')
  BY DEF CounterMatchesTransfers
<1>2. /\ IsFiniteSet(ChargedTo(k)) /\ ChargedTo(k) \in SUBSET committed
      /\ counter[k] = SumFunctionOnSet(Amounts, ChargedTo(k))
  BY FS_Subset DEF Sums, ChargedTo, CounterMatchesTransfers
<1>3. CounterOf(r) \in Counter
  BY <1>0, <1>1 DEF CounterOf, Counter, CommandType, Typed, TypeOK, Commit, Ready
<1>4. CASE command[r].kind = "outbound" /\ CounterOf(r) = k
  <2>1. ChargedTo(k)' = ChargedTo(k) \cup {r}
    BY <1>1, <1>4 DEF ChargedTo, CounterOf
  <2>5. reserved[r] = command[r].amount
    BY <1>4, OutboundRoute DEF Limited, Reserved, Commit, Ready
  <2>2. counter'[k] = counter[k] + command[r].amount
    BY <1>0, <1>3, <1>4, <2>5 DEF Commit
  <2>3. command[r].amount \in Int
    BY <1>1 DEF CommandType
  <2>4. SumFunctionOnSet(Amounts', ChargedTo(k) \cup {r})
          = command[r].amount + SumFunctionOnSet(Amounts, ChargedTo(k))
    BY <1>0, <1>2, SumGrows
  <2>. QED
    BY <1>0, <1>2, <2>1, <2>2, <2>3, <2>4
<1>5. CASE ~(command[r].kind = "outbound" /\ CounterOf(r) = k)
  <2>1. ChargedTo(k)' = ChargedTo(k)
    BY <1>1, <1>5 DEF ChargedTo, CounterOf
  <2>2. counter'[k] = counter[k]
    BY <1>0, <1>3, <1>5 DEF Commit
  <2>3. SumFunctionOnSet(Amounts', ChargedTo(k)) = SumFunctionOnSet(Amounts, ChargedTo(k))
    BY <1>0, <1>1, <1>2, SumKept
  <2>. QED
    BY <1>2, <2>1, <2>2, <2>3
<1>. QED
  BY <1>4, <1>5

LEMMA StepSums == Fresh /\ Limited /\ Sums /\ [Next]_vars => Sums'
<1>. SUFFICES ASSUME Fresh, Limited, Sums, [Next]_vars PROVE Sums'
  OBVIOUS
<1>1. CASE UNCHANGED db
  BY <1>1, SumsKept DEF Fresh
<1>2. ASSUME NEW r \in Request, Commit(r) PROVE Sums'
  <2>1. IsFiniteSet(committed')
    BY <1>2, FS_AddElement DEF Commit, Sums
  <2>. QED
    BY <1>2, <2>1, CommitConserves, CommitReserves DEF Sums
<1>3. ASSUME NEW r \in Request, CommitWorker(r) PROVE Sums'
  BY <1>3, WorkerConserves DEF Fresh
<1>. QED
  BY <1>1, <1>2, <1>3, OnlyCommitWrites

LEMMA AlwaysSums == Spec => []Sums
  BY AlwaysFresh, InitLimited, StepLimited, InitSums, StepSums, PTL DEF Spec

(* The API only moves money.  Each of the three transfers, the credits and *)
(* the reversal of a status query posts legs that balance, to rows whose   *)
(* current balances it writes; only CreditSettlementAsync adds money, and  *)
(* what a worker adds or takes away is what it has written.                *)
THEOREM MoneyIsConserved == Spec => []MoneyConserved
<1>1. Sums => MoneyConserved
  BY DEF Sums
<1>. QED
  BY <1>1, AlwaysSums, PTL

(* A daily counter holds exactly the amounts of the outbound transfers     *)
(* charged to it: what MergeCounterAsync has reserved some statements      *)
(* before is the amount at the commit, made once whatever was retried, and *)
(* no refusal, rollback, deadlock or replay leaves it behind.              *)
THEOREM CountersMatchTransfers == Spec => []CounterMatchesTransfers
<1>1. Sums => CounterMatchesTransfers
  BY DEF Sums
<1>. QED
  BY <1>1, AlwaysSums, PTL

-----------------------------------------------------------------------------
(* The daily limit of a customer. *)

WalletsOf(c)     == {w \in Wallet : Owner[w] = c}
CountersOf(c, d) == {k \in Counter : Owner[k[1]] = c /\ k[2] = d}

(* What the code keeps of the documented limit: a customer's outbound      *)
(* transfers of one day are bounded by the limit times the wallets owned,  *)
(* as each wallet has a counter of its own.                                *)
LimitTimesWallets ==
  \A c \in Customer, d \in Day :
    SumFunctionOnSet(counter, CountersOf(c, d)) <= VerifiedLimit * Cardinality(WalletsOf(c))

(* One counter for each wallet of the customer. *)
LEMMA OneCounterEach ==
  ASSUME NEW c, NEW d \in Day
  PROVE  /\ IsFiniteSet(WalletsOf(c)) /\ IsFiniteSet(CountersOf(c, d))
         /\ Cardinality(CountersOf(c, d)) <= Cardinality(WalletsOf(c))
<1>. DEFINE f == [k \in CountersOf(c, d) |-> k[1]]
<1>1. IsFiniteSet(WalletsOf(c))
  BY AccountAssumption, FS_Subset DEF WalletsOf
<1>2. f \in Injection(CountersOf(c, d), WalletsOf(c))
  BY DEF Injection, IsInjective, CountersOf, WalletsOf, Counter
<1>. HIDE DEF f
<1>. QED
  BY <1>1, <1>2, FS_Injection

(* Concurrent outbound transfers from a customer's wallets cannot exceed   *)
(* the limit times the number of those wallets.                            *)
THEOREM CustomerLimitBounded == Spec => []LimitTimesWallets
<1>1. Typed /\ CounterWithinLimit => LimitTimesWallets
  <2>. SUFFICES ASSUME Typed, CounterWithinLimit, NEW c \in Customer, NEW d \in Day
                PROVE  SumFunctionOnSet(counter, CountersOf(c, d))
                         <= VerifiedLimit * Cardinality(WalletsOf(c))
    BY DEF LimitTimesWallets
  <2>1. VerifiedLimit \in Nat
    BY LimitAssumption
  <2>2. \A k \in CountersOf(c, d) : counter[k] \in Int /\ counter[k] <= VerifiedLimit
    BY DEF Typed, TypeOK, CounterWithinLimit, CountersOf
  <2>3. /\ IsFiniteSet(CountersOf(c, d)) /\ IsFiniteSet(WalletsOf(c))
        /\ Cardinality(CountersOf(c, d)) <= Cardinality(WalletsOf(c))
    BY OneCounterEach
  <2>4. SumFunctionOnSet(counter, CountersOf(c, d)) <= VerifiedLimit * Cardinality(CountersOf(c, d))
    BY <2>1, <2>2, <2>3, SumBound
  <2>5. SumFunctionOnSet(counter, CountersOf(c, d)) \in Int
    BY <2>2, <2>3, SumInt
  <2>6. \A l, m, n \in Nat : m <= n => l * m <= l * n
    OBVIOUS
  <2>7. Cardinality(CountersOf(c, d)) \in Nat /\ Cardinality(WalletsOf(c)) \in Nat
    BY <2>3, FS_CardinalityType
  <2>8. VerifiedLimit * Cardinality(CountersOf(c, d)) <= VerifiedLimit * Cardinality(WalletsOf(c))
    BY <2>1, <2>3, <2>6, <2>7
  <2>9. \A s, l, m, n \in Int : s <= l * m /\ l * m <= l * n => s <= l * n
    OBVIOUS
  <2>. QED
    BY <2>1, <2>4, <2>5, <2>7, <2>8, <2>9
<1>2. Fresh => Typed
  BY DEF Fresh
<1>. QED
  BY <1>1, <1>2, AlwaysFresh, DailyLimitKept, PTL

(* The documented limit per customer holds where no customer owns a second *)
(* wallet.                                                                 *)
THEOREM OneWalletLimit ==
  ASSUME \A v, w \in Wallet : Owner[v] = Owner[w] => v = w
  PROVE  Spec => []LimitPerCustomer
<1>1. LimitTimesWallets => LimitPerCustomer
  <2>. SUFFICES ASSUME LimitTimesWallets, NEW c \in Customer, NEW d \in Day
                PROVE  SumFunctionOnSet(counter, CountersOf(c, d)) <= VerifiedLimit
    BY DEF LimitPerCustomer, CountersOf
  <2>1. CASE WalletsOf(c) = {}
    <3>1. CountersOf(c, d) = {}
      BY <2>1 DEF CountersOf, WalletsOf, Counter
    <3>. QED
      BY <3>1, SumEmpty, LimitAssumption
  <2>2. CASE WalletsOf(c) # {}
    <3>1. PICK w : WalletsOf(c) = {w}
      BY <2>2 DEF WalletsOf
    <3>2. Cardinality(WalletsOf(c)) = 1
      BY <3>1, FS_Singleton
    <3>3. SumFunctionOnSet(counter, CountersOf(c, d)) <= VerifiedLimit * 1
      BY <3>2 DEF LimitTimesWallets
    <3>. QED
      BY <3>3, LimitAssumption
  <2>. QED
    BY <2>1, <2>2
<1>. QED
  BY <1>1, CustomerLimitBounded, PTL
=============================================================================
