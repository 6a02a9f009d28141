------------------------ MODULE TransferService_proofs ------------------------
(***************************************************************************)
(* Proofs about TransferService, for any number of requests, wallets and   *)
(* commands, and any behaviour of the settlement worker that the UPDATE    *)
(* statement and the schema admit: its types; then its safety, that is no  *)
(* lost update, one transfer per key, truthful replies, and a daily        *)
(* counter within its limit.                                               *)
(***************************************************************************)
EXTENDS TransferService, SequenceTheorems, TLAPS

(* What the type invariant needs to be inductive: a request that has begun *)
(* has its command, and one that committed is over.                        *)
Begun ==
  /\ \A r \in Request : pc[r] # "idle" => command[r] \in CommandType
  /\ \A r \in committed : pc[r] = "done"

Typed == TypeOK /\ Begun
-----------------------------------------------------------------------------
(* The operators the model is built from. *)

LEMMA LegsType ==
  ASSUME NEW c \in CommandType
  PROVE  Legs(c) \in [Account -> Int]
<1>1. Total(c) \in Int /\ c.amount \in Int
  BY ChargeAssumption DEF CommandType, Total
<1>2. OutboundLegs(c) \in [Account -> Int]
  BY <1>1, ChargeAssumption DEF OutboundLegs
<1>3. [a \in Account |-> -OutboundLegs(c)[a]] \in [Account -> Int]
  BY <1>2
<1>4. \A from, to : Moved(from, to, c.amount) \in [Account -> Int]
  BY <1>1 DEF Moved
<1>5. c.kind \in Kind
  BY DEF CommandType
<1>. QED
  BY <1>2, <1>3, <1>4, <1>5 DEF Legs, Kind, ClientKind

LEMMA RouteType ==
  ASSUME NEW k \in Kind \ {"worker"}
  PROVE  Route(k) \in Seq(Statement)
<1>1. \A x \in Payer \cup {"dest"} : Lock(x) \in Statement
  BY DEF Lock, Statement
<1>2. <<"merge", "source">> \in Statement
  BY DEF Statement
<1>3. ReversalRows \in [1 .. 4 -> Payer]
  BY DEF ReversalRows, Payer, System
<1>4. [i \in 1 .. 4 |-> Lock(ReversalRows[i])] \in Seq(Statement)
  BY <1>1, <1>3
<1>. QED
  BY <1>1, <1>2, <1>4 DEF Route, Kind, ClientKind, Payer, System

LEMMA TrackedType ==
  ASSUME TypeOK, NEW r \in Request, NEW a \in Account
  PROVE  /\ Tracked(r, a) \in RowType
         /\ Tracked(r, a).balance \in Nat /\ Tracked(r, a).version \in Nat
BY DEF TypeOK, Tracked, CurrentRow, RowType

LEMMA OperandType ==
  ASSUME Typed, NEW r \in Request, pc[r] = "work", todo[r] # <<>>
  PROVE  /\ Tail(todo[r]) \in Seq(Statement)
         /\ CounterOf(r) \in Counter
         /\ command[r].source \in Account
         /\ Head(todo[r])[1] = "write" => Operand(r) \in Account
         /\ Head(todo[r])[1] = "lock" =>
              Operand(r) \in Account \/ (Head(todo[r])[2] = "dest" /\ command[r].dest = None)
<1>1. Head(todo[r]) \in Statement /\ Tail(todo[r]) \in Seq(Statement)
  BY DEF Typed, TypeOK
<1>2. /\ command[r] \in CommandType
      /\ command[r].source \in Wallet
      /\ command[r].dest \in Account \cup {None}
  BY DEF Typed, Begun, CommandType
<1>3. chargeDay[r] \in Day
  BY DEF Typed, TypeOK
<1>4. Head(todo[r])[1] = "write" => Head(todo[r])[2] \in Account
  BY <1>1 DEF Statement
<1>5. Head(todo[r])[1] = "lock" => Head(todo[r])[2] \in Payer \cup {"dest"}
  BY <1>1 DEF Statement
<1>6. CounterOf(r) \in Counter
  BY <1>2, <1>3 DEF CounterOf, Counter
<1>7. \A x \in Payer \cup Account : RowOf(r, x) \in Account
  BY <1>2, AccountAssumption DEF RowOf, Payer, Account
<1>8. RowOf(r, "dest") \in Account \/ command[r].dest = None
  BY <1>2 DEF RowOf, Account
<1>. QED
  BY <1>1, <1>2, <1>4, <1>5, <1>6, <1>7, <1>8 DEF Operand, Account
-----------------------------------------------------------------------------
(* Type correctness. *)

LEMMA InitTyped == Init => Typed
<1>1. NothingSeen \in [Account -> RowType \cup {None}]
  BY DEF NothingSeen
<1>2. [r \in Request |-> <<>>] \in [Request -> Seq(Statement)]
  OBVIOUS
<1>3. 0 \in 0 .. MaxAttempts - 1 /\ 0 \in Day
  BY BoundAssumption DEF Day
<1>. QED
  BY <1>1, <1>2, <1>3, OpeningAssumption DEF Init, Typed, TypeOK, Begun, CodeType

(* An answer, whatever it says, leaves a request well typed. *)
LEMMA AnswerTyped ==
  ASSUME Typed, NEW r \in Request, pc[r] # "idle",
         NEW code \in CodeType, NEW t \in Request \cup {None},
         Answer(r, code, t), UNCHANGED <<db, world>>
  PROVE  Typed'
<1>1. NothingSeen \in [Account -> RowType \cup {None}]
  BY DEF NothingSeen
<1>2. <<>> \in Seq(Statement)
  OBVIOUS
<1>. QED
  BY <1>1, <1>2 DEF Answer, db, world, Typed, TypeOK, Begun, CodeType

LEMMA RefuseTyped ==
  ASSUME Typed, NEW r \in Request, pc[r] # "idle", NEW code \in CodeType, Refuse(r, code)
  PROVE  Typed'
BY AnswerTyped DEF Refuse

(* Finishing a statement that locks the rows x. *)
LEMMA DoneTyped ==
  ASSUME Typed, NEW r \in Request, pc[r] = "work", todo[r] # <<>>,
         NEW x \in SUBSET (Account \cup Counter), Done(r, x),
         seen' \in [Request -> [Account -> RowType \cup {None}]],
         reserved' \in [Request -> Nat]
  PROVE  Typed'
<1>1. Tail(todo[r]) \in Seq(Statement)
  BY OperandType
<1>. QED
  BY <1>1 DEF Done, db, world, Typed, TypeOK, Begun

LEMMA TrackTyped ==
  ASSUME Typed, NEW r \in Request, NEW a \in Account, Track(r, a)
  PROVE  /\ seen' \in [Request -> [Account -> RowType \cup {None}]]
         /\ reserved' \in [Request -> Nat]
BY TrackedType DEF Track, Typed, TypeOK

LEMMA ReceiveTyped ==
  ASSUME Typed, NEW r \in Request, Receive(r)
  PROVE  Typed'
<1>1. PICK c \in Commands :
        /\ command' = [command EXCEPT ![r] = c]
        /\ IF BadCommand(c)
             THEN /\ pc' = [pc EXCEPT ![r] = "done"]
                  /\ reply' = [reply EXCEPT ![r].code = "invalid"]
                  /\ UNCHANGED todo
             ELSE /\ pc' = [pc EXCEPT ![r] = IF c.kind = "outbound" THEN "kyc"
                                             ELSE IF Keyed(c) THEN "replay" ELSE "work"]
                  /\ todo' = [todo EXCEPT ![r] = Route(c.kind)]
                  /\ UNCHANGED reply
  BY DEF Receive
<1>2. c \in CommandType /\ c.kind \in Kind \ {"worker"}
  BY CommandAssumption DEF CommandType, Kind, ClientKind
<1>3. Route(c.kind) \in Seq(Statement)
  BY <1>2, RouteType
<1>4. r \notin committed
  BY DEF Receive, Typed, Begun
<1>5. reply' \in [Request -> [code : CodeType, transfer : Request \cup {None}]]
  <2>1. reply \in [Request -> [code : CodeType, transfer : Request \cup {None}]]
    BY DEF Typed, TypeOK
  <2>2. [reply[r] EXCEPT !.code = "invalid"] \in [code : CodeType, transfer : Request \cup {None}]
    BY <2>1 DEF CodeType
  <2>. QED
    BY <1>1, <2>1, <2>2
<1>6. /\ command' \in [Request -> CommandType \cup {None}]
      /\ pc' \in [Request -> {"idle", "kyc", "replay", "work", "conflict", "done"}]
      /\ todo' \in [Request -> Seq(Statement)]
  <2>1. command' \in [Request -> CommandType \cup {None}]
    BY <1>1, <1>2 DEF Typed, TypeOK
  <2>2. todo' \in [Request -> Seq(Statement)]
    BY <1>1, <1>3 DEF Typed, TypeOK
  <2>3. pc' \in [Request -> {"idle", "kyc", "replay", "work", "conflict", "done"}]
    BY <1>1 DEF Typed, TypeOK
  <2>. QED
    BY <2>1, <2>2, <2>3
<1>7. TypeOK'
  BY <1>5, <1>6 DEF Receive, Typed, TypeOK, db, world
<1>8. Begun'
  BY <1>1, <1>2, <1>4 DEF Receive, Typed, TypeOK, Begun, db
<1>. QED
  BY <1>7, <1>8 DEF Typed

LEMMA ReceiveReversalTyped ==
  ASSUME Typed, NEW r \in Request, ReceiveReversal(r)
  PROVE  Typed'
<1>1. PICK t \in committed :
        /\ command' = [command EXCEPT ![r] = [command[t] EXCEPT !.kind = "reverse", !.of = t]]
        /\ pc' = [pc EXCEPT ![r] = "work"]
        /\ todo' = [todo EXCEPT ![r] = Route("reverse")]
  BY DEF ReceiveReversal
<1>2. t \in Request /\ command[t] \in CommandType
  BY DEF Typed, TypeOK, Begun
<1>3. [command[t] EXCEPT !.kind = "reverse", !.of = t] \in CommandType
  BY <1>2 DEF CommandType, Kind
<1>4. Route("reverse") \in Seq(Statement)
  BY RouteType DEF Kind
<1>5. r \notin committed
  BY DEF ReceiveReversal, Typed, Begun
<1>. QED
  BY <1>1, <1>3, <1>4, <1>5 DEF ReceiveReversal, Typed, TypeOK, Begun, db, world

LEMMA BeginWorkerTyped ==
  ASSUME Typed, NEW r \in Request, BeginWorker(r)
  PROVE  Typed'
<1>1. PICK t \in committed, route \in WorkerRoutes :
        /\ command' = [command EXCEPT ![r] = [command[t] EXCEPT !.kind = "worker", !.of = t]]
        /\ pc' = [pc EXCEPT ![r] = "work"]
        /\ todo' = [todo EXCEPT ![r] = [i \in 1 .. Len(route) |-> Write(route[i])]]
  BY DEF BeginWorker
<1>2. t \in Request /\ command[t] \in CommandType /\ route \in Seq(Account)
  BY WorkerAssumption DEF Typed, TypeOK, Begun
<1>3. [command[t] EXCEPT !.kind = "worker", !.of = t] \in CommandType
  BY <1>2 DEF CommandType, Kind
<1>4. [i \in 1 .. Len(route) |-> Write(route[i])] \in Seq(Statement)
  <2>1. \A a \in Account : Write(a) \in Statement
    BY DEF Write, Statement
  <2>. QED
    BY <1>2, <2>1
<1>5. r \notin committed
  BY DEF BeginWorker, Typed, Begun
<1>. QED
  BY <1>1, <1>3, <1>4, <1>5 DEF BeginWorker, Typed, TypeOK, Begun, db, world

LEMMA ReplayTyped ==
  ASSUME Typed, NEW r \in Request, ReplayHit(r) \/ ReplayMiss(r) \/ RethrowConflict(r)
  PROVE  Typed'
<1>1. CASE ReplayHit(r)
  <2>1. PICK t \in Recorded(command[r]) :
          IF Fingerprint(command[t]) = Fingerprint(command[r])
            THEN Answer(r, "replayed", t) /\ UNCHANGED <<db, world>>
            ELSE Refuse(r, "mismatch")
    BY <1>1 DEF ReplayHit
  <2>2. t \in Request /\ "replayed" \in CodeType /\ "mismatch" \in CodeType
    BY DEF Typed, TypeOK, Recorded, CodeType
  <2>3. pc[r] # "idle"
    BY <1>1 DEF ReplayHit
  <2>. QED
    BY <2>1, <2>2, <2>3, AnswerTyped, RefuseTyped
<1>2. CASE ReplayMiss(r)
  BY <1>2 DEF ReplayMiss, Typed, TypeOK, Begun, db, world
<1>3. CASE RethrowConflict(r)
  BY <1>3, RefuseTyped DEF RethrowConflict, CodeType
<1>. QED
  BY <1>1, <1>2, <1>3

LEMMA ReadKycTyped ==
  ASSUME Typed, NEW r \in Request, ReadKyc(r)
  PROVE  Typed'
BY DEF ReadKyc, LimitFor, Typed, TypeOK, Begun, db, world

LEMMA StatementTyped ==
  ASSUME Typed, NEW r \in Request,
         \/ MergeCounter(r) \/ LockSource(r) \/ RefuseDestination(r)
         \/ LockRow(r) \/ WriteRow(r)
  PROVE  Typed'
<1>1. /\ pc[r] = "work" /\ todo[r] # <<>>
      /\ seen \in [Request -> [Account -> RowType \cup {None}]]
      /\ reserved \in [Request -> Nat]
  BY DEF MergeCounter, LockSource, RefuseDestination, LockRow, WriteRow, At, Typed, TypeOK
<1>2. {"limit", "forbidden", "insufficient", "bad_destination"} \subseteq CodeType
  BY DEF CodeType
<1>3. CASE MergeCounter(r)
  <2>1. {CounterOf(r)} \in SUBSET (Account \cup Counter)
    BY <1>1, OperandType
  <2>2. CASE Refuse(r, "limit")
    BY <1>1, <1>2, <2>2, RefuseTyped
  <2>3. CASE Done(r, {CounterOf(r)}) /\ Reserve(r) /\ UNCHANGED seen
    <3>1. Charge(command[r]) \in Nat
      BY <1>1 DEF Charge, CommandType, Typed, Begun
    <3>2. reserved' \in [Request -> Nat]
      BY <1>1, <2>3, <3>1 DEF Reserve
    <3>. QED
      BY <1>1, <2>1, <2>3, <3>2, DoneTyped
  <2>. QED
    BY <1>3, <2>2, <2>3 DEF MergeCounter
<1>4. CASE LockSource(r)
  <2>1. command[r].source \in Account
    BY <1>1, OperandType
  <2>2. CASE Refuse(r, "forbidden") \/ Refuse(r, "insufficient")
    BY <1>1, <1>2, <2>2, RefuseTyped
  <2>3. CASE Track(r, command[r].source) /\ Done(r, {command[r].source})
    BY <1>1, <2>1, <2>3, DoneTyped, TrackTyped DEF Typed
  <2>. QED
    BY <1>4, <2>2, <2>3 DEF LockSource
<1>5. CASE RefuseDestination(r)
  BY <1>1, <1>2, <1>5, RefuseTyped DEF RefuseDestination
<1>6. CASE LockRow(r)
  <2>1. Operand(r) \in Account
    <3>1. Head(todo[r])[2] = "dest" => command[r].dest # None
      BY <1>6, AccountAssumption DEF LockRow, BadDestination, Account
    <3>. QED
      BY <1>1, <1>6, <3>1, OperandType DEF LockRow, At
  <2>2. Track(r, Operand(r)) /\ Done(r, {Operand(r)})
    BY <1>6 DEF LockRow
  <2>. QED
    BY <1>1, <2>1, <2>2, DoneTyped, TrackTyped DEF Typed
<1>7. CASE WriteRow(r)
  <2>1. Operand(r) \in Account
    BY <1>1, <1>7, OperandType DEF WriteRow, At
  <2>2. Done(r, {Operand(r)}) /\ UNCHANGED <<seen, reserved>>
    BY <1>7 DEF WriteRow
  <2>. QED
    BY <1>1, <2>1, <2>2, DoneTyped
<1>. QED
  BY <1>3, <1>4, <1>5, <1>6, <1>7

(* A request chosen as deadlock victim waits inside its transaction. *)
LEMMA VictimWorks ==
  ASSUME NEW r \in Request, Deadlocked(r)
  PROVE  pc[r] = "work" /\ todo[r] # <<>>
BY DEF Deadlocked, WaitCycle, BlockedBy, Wants, At

LEMMA FailureTyped ==
  ASSUME Typed, NEW r \in Request,
         DomainFailure(r) \/ SaveFails(r) \/ RollbackWorker(r) \/ AbortVictim(r) \/ Cancel(r)
  PROVE  Typed'
<1>1. {"insufficient", "conflict", "deadlock", "cancelled"} \subseteq CodeType
  BY DEF CodeType
<1>2. CASE DomainFailure(r) \/ RollbackWorker(r)
  BY <1>1, <1>2, RefuseTyped DEF DomainFailure, RollbackWorker, Ready
<1>3. CASE SaveFails(r)
  <2>1. CASE Refuse(r, "conflict")
    BY <1>1, <1>3, <2>1, RefuseTyped DEF SaveFails, Ready
  <2>2. CASE /\ pc' = [pc EXCEPT ![r] = "conflict"]
             /\ held' = [held EXCEPT ![r] = {}]
             /\ reserved' = [reserved EXCEPT ![r] = 0]
             /\ UNCHANGED <<db, world, command, todo, seen, limit, chargeDay, attempts, reply>>
    BY <1>3, <2>2 DEF SaveFails, Ready, Typed, TypeOK, Begun, db, world
  <2>. QED
    BY <1>3, <2>1, <2>2 DEF SaveFails
<1>4. CASE AbortVictim(r)
  <2>1. pc[r] # "idle"
    BY <1>4, VictimWorks DEF AbortVictim
  <2>. QED
    BY <1>1, <1>4, <2>1, RefuseTyped DEF AbortVictim
<1>5. CASE Cancel(r)
  BY <1>1, <1>5, RefuseTyped DEF Cancel
<1>. QED
  BY <1>2, <1>3, <1>4, <1>5

LEMMA RetryTyped ==
  ASSUME Typed, NEW r \in Request, RetryVictim(r)
  PROVE  Typed'
<1>1. pc[r] = "work"
  BY VictimWorks DEF RetryVictim
<1>2. Route("outbound") \in Seq(Statement)
  BY RouteType DEF Kind, ClientKind
<1>3. attempts[r] + 1 \in 0 .. MaxAttempts - 1
  BY BoundAssumption DEF RetryVictim, Typed, TypeOK
<1>. QED
  BY <1>1, <1>2, <1>3 DEF RetryVictim, Typed, TypeOK, Begun, db, world

(* What a worker's save writes: to the rows its transaction has updated,   *)
(* anything that is no balance below zero, under a higher version.         *)
LEMMA WorkerWrites ==
  ASSUME Typed, NEW r \in Request, CommitWorker(r), NEW a \in Account
  PROVE  /\ balance'[a] \in Nat /\ version'[a] \in Nat /\ written'[a] \in Int
         /\ balance'[a] - balance[a] = written'[a] - written[a]
         /\ IF a \in held[r] THEN version'[a] > version[a]
            ELSE version'[a] = version[a] /\ balance'[a] = balance[a]
<1>1. PICK e \in [held[r] -> Effects] :
        LET new(b) == balance[b] + (IF b \in held[r] THEN e[b].balance ELSE 0) IN
        /\ \A b \in held[r] : new(b) >= 0
        /\ balance' = [b \in Account |-> new(b)]
        /\ version' = [b \in Account |-> version[b] + (IF b \in held[r] THEN e[b].version ELSE 0)]
        /\ written' = [b \in Account |-> written[b] + (IF b \in held[r] THEN e[b].balance ELSE 0)]
  BY DEF CommitWorker
<1>2. balance[a] \in Nat /\ version[a] \in Nat /\ written[a] \in Int
  BY DEF Typed, TypeOK
<1>3. CASE a \in held[r]
  <2>1. e[a] \in EffectType
    BY <1>3, WorkerAssumption
  <2>2. e[a].balance \in Int /\ e[a].version \in Nat \ {0}
    BY <2>1 DEF EffectType
  <2>. QED
    BY <1>1, <1>2, <1>3, <2>2
<1>4. CASE a \notin held[r]
  BY <1>1, <1>2, <1>4
<1>. QED
  BY <1>3, <1>4

LEMMA CommitTyped ==
  ASSUME Typed, NEW r \in Request, Commit(r)
  PROVE  Typed'
<1>. DEFINE c == command[r]
<1>1. c \in CommandType /\ pc[r] = "work" /\ TypeOK
  BY DEF Commit, Ready, Typed, Begun
<1>2. \A a \in Account : /\ Legs(c)[a] \in Int
                         /\ Tracked(r, a).balance \in Nat /\ Tracked(r, a).version \in Nat
                         /\ Tracked(r, a).balance + Legs(c)[a] >= 0
  <2>1. TAKE a \in Account
  <2>2. Legs(c) \in [Account -> Int]
    BY <1>1, LegsType
  <2>3. ~(Tracked(r, a).balance + Legs(c)[a] < 0)
    BY DEF Commit, Throws
  <2>. QED
    BY <1>1, <2>2, <2>3, TrackedType
<1>3. CounterOf(r) \in Counter /\ reserved[r] \in Nat
  BY <1>1 DEF CounterOf, Counter, CommandType, TypeOK
<1>4. balance' \in [Account -> Nat] /\ version' \in [Account -> Nat]
  BY <1>1, <1>2 DEF Commit, TypeOK, NextVersion
<1>5. ledger' \in [Account -> Int]
  BY <1>1, <1>2 DEF Commit, TypeOK
<1>6. counter' \in [Counter -> Nat]
  BY <1>1, <1>3 DEF Commit, TypeOK
<1>7. NothingSeen \in [Account -> RowType \cup {None}] /\ <<>> \in Seq(Statement)
  BY DEF NothingSeen
<1>8. TypeOK'
  <2>1. \E code \in {"ok", "lost"}, t \in {r, None} : Answer(r, code, t)
    BY DEF Commit
  <2>2. reply' \in [Request -> [code : CodeType, transfer : Request \cup {None}]]
    BY <1>1, <2>1 DEF Answer, TypeOK, CodeType
  <2>3. seen' \in [Request -> [Account -> RowType \cup {None}]]
        /\ todo' \in [Request -> Seq(Statement)]
    BY <1>1, <1>7, <2>1 DEF Answer, TypeOK
  <2>4. /\ pc' \in [Request -> {"idle", "kyc", "replay", "work", "conflict", "done"}]
        /\ held' \in [Request -> SUBSET (Account \cup Counter)]
        /\ reserved' \in [Request -> Nat]
        /\ UNCHANGED <<command, limit, chargeDay, attempts>>
    BY <1>1, <2>1 DEF Answer, TypeOK
  <2>5. committed' \in SUBSET Request /\ UNCHANGED <<written, verified, day>>
    BY <1>1 DEF Commit, TypeOK, world
  <2>. QED
    BY <1>1, <1>4, <1>5, <1>6, <2>2, <2>3, <2>4, <2>5 DEF TypeOK
<1>9. Begun'
  BY <1>1 DEF Commit, Answer, Typed, Begun, TypeOK
<1>. QED
  BY <1>8, <1>9 DEF Typed

LEMMA CommitWorkerTyped ==
  ASSUME Typed, NEW r \in Request, CommitWorker(r)
  PROVE  Typed'
<1>1. /\ pc[r] = "work" /\ pc[r] # "idle" /\ "saved" \in CodeType
      /\ balance \in [Account -> Nat] /\ version \in [Account -> Nat]
      /\ written \in [Account -> Int]
  BY DEF CommitWorker, Ready, CodeType, Typed, TypeOK
<1>2. \A a \in Account : /\ balance'[a] \in Nat /\ version'[a] \in Nat /\ written'[a] \in Int
  BY <1>1, WorkerWrites
<1>3. /\ balance' \in [Account -> Nat] /\ version' \in [Account -> Nat]
      /\ written' \in [Account -> Int]
  <2>1. /\ balance' = [a \in Account |-> balance'[a]]
        /\ version' = [a \in Account |-> version'[a]]
        /\ written' = [a \in Account |-> written'[a]]
    BY DEF CommitWorker
  <2>. QED
    BY <1>2, <2>1
<1>4. NothingSeen \in [Account -> RowType \cup {None}] /\ <<>> \in Seq(Statement)
  BY DEF NothingSeen
<1>5. TypeOK'
  BY <1>1, <1>3, <1>4 DEF CommitWorker, Answer, Typed, TypeOK, world
<1>6. Begun'
  BY <1>1 DEF CommitWorker, Answer, Typed, Begun, TypeOK
<1>. QED
  BY <1>5, <1>6 DEF Typed

LEMMA StepTyped == Typed /\ [Next]_vars => Typed'
<1>. SUFFICES ASSUME Typed, [Next]_vars PROVE Typed'
  OBVIOUS
<1>1. ASSUME NEW r \in Request, Step(r) PROVE Typed'
  BY <1>1, ReadKycTyped, ReplayTyped, StatementTyped, FailureTyped, CommitTyped, CommitWorkerTyped
     DEF Step
<1>2. ASSUME NEW r \in Request, Victim(r) PROVE Typed'
  BY <1>2, RetryTyped, FailureTyped DEF Victim
<1>3. ASSUME NEW r \in Request, Receive(r) \/ ReceiveReversal(r) \/ BeginWorker(r) \/ Cancel(r)
      PROVE  Typed'
  BY <1>3, ReceiveTyped, ReceiveReversalTyped, BeginWorkerTyped, FailureTyped
<1>4. CASE KycDecision
  BY <1>4 DEF KycDecision, Typed, TypeOK, Begun, db, request
<1>5. CASE Midnight
  BY <1>5, BoundAssumption DEF Midnight, Typed, TypeOK, Begun, db, request, Day
<1>6. CASE UNCHANGED vars
  BY <1>6 DEF vars, db, world, request, Typed, TypeOK, Begun
<1>. QED
  BY <1>1, <1>2, <1>3, <1>4, <1>5, <1>6 DEF Next

(* However many requests run, every variable keeps its type; above all, no *)
(* committed balance is negative, although Wallet.Debit only looks at the  *)
(* copy of the row its request has tracked.                                *)
THEOREM TypeCorrect == Spec => []TypeOK
<1>1. Spec => []Typed
  BY InitTyped, StepTyped, PTL DEF Spec
<1>2. Typed => TypeOK
  BY DEF Typed
<1>. QED
  BY <1>1, <1>2, PTL
-----------------------------------------------------------------------------
(* What a step may do at all. *)

(* The steps of one request, or of one transaction of a worker. *)
Acts(r) ==
  \/ Receive(r) \/ ReceiveReversal(r) \/ BeginWorker(r)
  \/ Step(r) \/ Victim(r) \/ Cancel(r)

LEMMA NextActs ==
  [Next]_vars <=> (\E r \in Request : Acts(r)) \/ KycDecision \/ Midnight \/ UNCHANGED vars
BY DEF Next, Acts

(* Only a commit changes the balances, the ledger and the counters. *)
LEMMA OnlyCommitWrites ==
  [Next]_vars => UNCHANGED db \/ \E r \in Request : Commit(r) \/ CommitWorker(r)
<1>. SUFFICES ASSUME [Next]_vars
              PROVE  UNCHANGED db \/ \E r \in Request : Commit(r) \/ CommitWorker(r)
  OBVIOUS
<1>1. ASSUME NEW r \in Request,
             Receive(r) \/ ReceiveReversal(r) \/ BeginWorker(r) \/ Cancel(r) \/ Victim(r)
      PROVE  UNCHANGED db
  BY <1>1 DEF Receive, ReceiveReversal, BeginWorker, Cancel, Victim, RetryVictim, AbortVictim, Refuse
<1>2. ASSUME NEW r \in Request, Step(r), ~Commit(r), ~CommitWorker(r) PROVE UNCHANGED db
  BY <1>2 DEF Step, ReadKyc, ReplayHit, ReplayMiss, RethrowConflict, MergeCounter, LockSource,
              RefuseDestination, LockRow, WriteRow, RollbackWorker, DomainFailure, SaveFails,
              Refuse, Done
<1>3. CASE KycDecision \/ Midnight \/ UNCHANGED vars
  BY <1>3 DEF KycDecision, Midnight, vars
<1>. QED
  BY <1>1, <1>2, <1>3 DEF Next

(* A request that has begun keeps its command. *)
LEMMA CommandKept ==
  ASSUME Typed, [Next]_vars, NEW p \in Request, pc[p] # "idle"
  PROVE  command'[p] = command[p]
<1>1. ASSUME NEW r \in Request, Receive(r) \/ ReceiveReversal(r) \/ BeginWorker(r)
      PROVE  command'[p] = command[p]
  BY <1>1 DEF Receive, ReceiveReversal, BeginWorker, Typed, TypeOK
<1>2. ASSUME NEW r \in Request, Step(r) \/ Victim(r) \/ Cancel(r) PROVE UNCHANGED command
  BY <1>2 DEF Step, ReadKyc, ReplayHit, ReplayMiss, RethrowConflict, MergeCounter, LockSource,
              RefuseDestination, LockRow, WriteRow, CommitWorker, RollbackWorker, DomainFailure,
              SaveFails, Commit, Victim, RetryVictim, AbortVictim, Cancel, Refuse, Answer, Done
<1>3. CASE KycDecision \/ Midnight \/ UNCHANGED vars
  BY <1>3 DEF KycDecision, Midnight, vars, request
<1>. QED
  BY <1>1, <1>2, <1>3 DEF Next

(* A tracked copy is dropped, kept, or taken from the row as it is. *)
LEMMA SeenSteps ==
  ASSUME Typed, [Next]_vars, NEW p \in Request, NEW a \in Account
  PROVE  seen'[p][a] \in {None, seen[p][a], CurrentRow(a)}
<1>1. ASSUME NEW r \in Request, NEW b \in Account, Track(r, b)
      PROVE  seen'[p][a] \in {seen[p][a], CurrentRow(a)}
  BY <1>1 DEF Track, Tracked, Typed, TypeOK
<1>2. ASSUME NEW r \in Request, NEW code, NEW t, Answer(r, code, t)
      PROVE  seen'[p][a] \in {None, seen[p][a]}
  BY <1>2 DEF Answer, NothingSeen, Typed, TypeOK
<1>3. ASSUME NEW r \in Request, Step(r) PROVE seen'[p][a] \in {None, seen[p][a], CurrentRow(a)}
  <2>1. CASE ReadKyc(r) \/ ReplayMiss(r)
    BY <2>1 DEF ReadKyc, ReplayMiss
  <2>2. CASE ReplayHit(r) \/ RethrowConflict(r) \/ RefuseDestination(r) \/ DomainFailure(r)
               \/ Commit(r) \/ CommitWorker(r) \/ RollbackWorker(r)
    BY <1>2, <2>2 DEF ReplayHit, RethrowConflict, RefuseDestination, DomainFailure, Commit,
                      CommitWorker, RollbackWorker, Refuse
  <2>3. CASE MergeCounter(r) \/ SaveFails(r) \/ WriteRow(r)
    BY <1>2, <2>3 DEF MergeCounter, SaveFails, WriteRow, Refuse
  <2>4. CASE LockSource(r)
    <3>1. command[r].source \in Account
      BY <2>4, OperandType DEF LockSource, At
    <3>. QED
      BY <1>1, <1>2, <2>4, <3>1 DEF LockSource, Refuse
  <2>5. CASE LockRow(r)
    <3>1. Track(r, Operand(r))
      BY <2>5 DEF LockRow
    <3>2. seen' = [seen EXCEPT ![r][Operand(r)] = Tracked(r, Operand(r))]
      BY <3>1 DEF Track
    <3>. QED
      BY <3>2 DEF Tracked, Typed, TypeOK
  <2>. QED
    BY <1>3, <2>1, <2>2, <2>3, <2>4, <2>5 DEF Step
<1>4. ASSUME NEW r \in Request,
             Receive(r) \/ ReceiveReversal(r) \/ BeginWorker(r) \/ RetryVictim(r)
      PROVE  UNCHANGED seen
  BY <1>4 DEF Receive, ReceiveReversal, BeginWorker, RetryVictim
<1>5. ASSUME NEW r \in Request, AbortVictim(r) \/ Cancel(r) PROVE seen'[p][a] \in {None, seen[p][a]}
  BY <1>2, <1>5 DEF AbortVictim, Cancel, Refuse
<1>6. CASE KycDecision \/ Midnight \/ UNCHANGED vars
  BY <1>6 DEF KycDecision, Midnight, vars, request
<1>. QED
  BY <1>3, <1>4, <1>5, <1>6 DEF Next, Victim
-----------------------------------------------------------------------------
(* No lost update. *)

(* What a commit writes: the tracked rows are the current ones. *)
LEMMA CommitWrites ==
  ASSUME Typed, TrackedRowsGenuine, NEW r \in Request, Commit(r), NEW a \in Account
  PROVE  /\ balance'[a] = balance[a] + Legs(command[r])[a]
         /\ ledger'[a] = ledger[a] + Legs(command[r])[a]
         /\ version'[a] = version[a] + (IF a \in Touched(command[r]) THEN 1 ELSE 0)
         /\ written'[a] = written[a]
<1>0. UNCHANGED written
  BY DEF Commit
<1>1. /\ balance[a] \in Nat /\ version[a] \in Nat /\ ledger[a] \in Int
      /\ Legs(command[r])[a] \in Int
  BY LegsType DEF Typed, TypeOK, Begun, Commit, Ready
<1>2. CASE a \in Touched(command[r])
  <2>1. Tracked(r, a).version = version[a]
    BY <1>2 DEF Commit, StaleRow
  <2>2. Tracked(r, a).balance = balance[a]
    BY <2>1 DEF TrackedRowsGenuine, Tracked, CurrentRow
  <2>. QED
    BY <1>0, <1>1, <1>2, <2>1, <2>2 DEF Commit, NextVersion
<1>3. CASE a \notin Touched(command[r])
  BY <1>0, <1>1, <1>3 DEF Commit, Touched, NextVersion
<1>. QED
  BY <1>2, <1>3

Genuine == Typed /\ TrackedRowsGenuine

LEMMA InitGenuine == Init => Genuine
BY InitTyped DEF Init, Genuine, TrackedRowsGenuine, NothingSeen

LEMMA StepGenuine == Genuine /\ [Next]_vars => Genuine'
<1>. SUFFICES ASSUME Genuine, [Next]_vars PROVE TrackedRowsGenuine'
  BY StepTyped DEF Genuine
<1>. SUFFICES ASSUME NEW p \in Request, NEW a \in Account, seen'[p][a] # None
              PROVE  /\ seen'[p][a].version <= version'[a]
                     /\ seen'[p][a].version = version'[a] => seen'[p][a].balance = balance'[a]
  BY DEF TrackedRowsGenuine
<1>1. /\ version[a] \in Nat /\ balance[a] \in Nat
      /\ seen[p][a] # None => seen[p][a].version \in Nat
  BY DEF Genuine, Typed, TypeOK, RowType
<1>2. seen'[p][a] \in {seen[p][a], CurrentRow(a)}
  BY SeenSteps DEF Genuine
<1>3. /\ seen'[p][a].version \in Nat /\ seen'[p][a].version <= version[a]
      /\ seen'[p][a].version = version[a] => seen'[p][a].balance = balance[a]
  BY <1>1, <1>2 DEF CurrentRow, Genuine, TrackedRowsGenuine
<1>4. CASE UNCHANGED db
  BY <1>3, <1>4 DEF db
<1>5. ASSUME NEW r \in Request, Commit(r)
      PROVE  /\ seen'[p][a].version <= version'[a]
             /\ seen'[p][a].version = version'[a] => seen'[p][a].balance = balance'[a]
  <2>1. /\ balance'[a] = balance[a] + Legs(command[r])[a]
        /\ version'[a] = version[a] + (IF a \in Touched(command[r]) THEN 1 ELSE 0)
    BY <1>5, CommitWrites DEF Genuine
  <2>2. a \notin Touched(command[r]) => Legs(command[r])[a] = 0
    BY DEF Touched
  <2>. QED
    BY <1>1, <1>3, <2>1, <2>2
<1>6. ASSUME NEW r \in Request, CommitWorker(r)
      PROVE  /\ seen'[p][a].version <= version'[a]
             /\ seen'[p][a].version = version'[a] => seen'[p][a].balance = balance'[a]
  <2>1. /\ version'[a] \in Nat
        /\ \/ version'[a] > version[a]
           \/ version'[a] = version[a] /\ balance'[a] = balance[a]
    BY <1>6, WorkerWrites DEF Genuine
  <2>. QED
    BY <1>1, <1>3, <2>1
<1>. QED
  BY <1>4, <1>5, <1>6, OnlyCommitWrites

(* A copy that an API request tracks is never ahead of its row, and        *)
(* carries the row's balance when it carries its version: the optimistic   *)
(* check of SaveChanges is sound, also for copies kept across a rollback   *)
(* and a retry, and whatever a worker's context writes in between, as long *)
(* as it writes under a higher version.                                    *)
THEOREM TrackedRowsAreGenuine == Spec => []TrackedRowsGenuine
<1>1. Spec => []Genuine
  BY InitGenuine, StepGenuine, PTL DEF Spec
<1>2. Genuine => TrackedRowsGenuine
  BY DEF Genuine
<1>. QED
  BY <1>1, <1>2, PTL

(* However API requests, deadlock retries and the worker's unlocked        *)
(* updates interleave, every balance is its opening balance plus the legs  *)
(* of the API's requests plus what workers wrote: no update of the API is  *)
(* lost, and none is made by halves.                                       *)
THEOREM NoLostUpdate == Spec => []BalanceMatchesLedger
<1>1. Init => Genuine /\ BalanceMatchesLedger
  BY InitGenuine, OpeningAssumption DEF Init, BalanceMatchesLedger
<1>2. Genuine /\ BalanceMatchesLedger /\ [Next]_vars => Genuine' /\ BalanceMatchesLedger'
  <2>. SUFFICES ASSUME Genuine, BalanceMatchesLedger, [Next]_vars
                PROVE  BalanceMatchesLedger'
    BY StepGenuine
  <2>1. CASE UNCHANGED db
    BY <2>1 DEF db, BalanceMatchesLedger
  <2>2. ASSUME NEW r \in Request, Commit(r), NEW a \in Account
        PROVE  balance'[a] = Opening[a] + ledger'[a] + written'[a]
    <3>1. Legs(command[r])[a] \in Int
      BY <2>2, LegsType DEF Genuine, Typed, Begun, Commit, Ready
    <3>2. ledger[a] \in Int /\ Opening[a] \in Int /\ written[a] \in Int
      BY OpeningAssumption DEF Genuine, Typed, TypeOK
    <3>. QED
      BY <2>2, <3>1, <3>2, CommitWrites DEF Genuine, BalanceMatchesLedger
  <2>3. ASSUME NEW r \in Request, CommitWorker(r), NEW a \in Account
        PROVE  balance'[a] = Opening[a] + ledger'[a] + written'[a]
    <3>1. /\ balance'[a] \in Nat /\ written'[a] \in Int
          /\ balance'[a] - balance[a] = written'[a] - written[a]
      BY <2>3, WorkerWrites DEF Genuine
    <3>2. /\ ledger[a] \in Int /\ Opening[a] \in Int /\ written[a] \in Int /\ balance[a] \in Int
          /\ ledger'[a] = ledger[a]
      BY <2>3, OpeningAssumption DEF CommitWorker, Genuine, Typed, TypeOK
    <3>. QED
      BY <3>1, <3>2 DEF BalanceMatchesLedger
  <2>. QED
    BY <2>1, <2>2, <2>3, OnlyCommitWrites DEF BalanceMatchesLedger
<1>. QED
  BY <1>1, <1>2, PTL DEF Spec
-----------------------------------------------------------------------------
(* Locks. *)

(* Two transactions never hold the same row, whether they locked it with   *)
(* UPDLOCK, with MERGE, or by an UPDATE of a worker's batch.               *)
LocksExclusive ==
  \A p, q \in Request : p # q => held[p] \cap held[q] = {}

(* A step gives locks up, or adds one row, free until then, to one request. *)
LEMMA LockSteps ==
  ASSUME Typed, [Next]_vars
  PROVE  \/ \A p \in Request : held'[p] \subseteq held[p]
         \/ \E r \in Request, x \in Account \cup Counter :
              /\ Free(r, x)
              /\ held' = [held EXCEPT ![r] = @ \cup {x}]
<1>. DEFINE Given == \A p \in Request : held'[p] \subseteq held[p]
            Taken(r, x) == Free(r, x) /\ held' = [held EXCEPT ![r] = @ \cup {x}]
<1>1. ASSUME NEW r \in Request, NEW code, NEW t, Answer(r, code, t) PROVE Given
  BY <1>1 DEF Answer, Typed, TypeOK
<1>2. ASSUME NEW r \in Request, MergeCounter(r)
      PROVE  Given \/ \E x \in Account \cup Counter : Taken(r, x)
  <2>1. CounterOf(r) \in Account \cup Counter
    BY <1>2, OperandType DEF MergeCounter, At
  <2>. QED
    BY <1>1, <1>2, <2>1 DEF MergeCounter, Refuse, Done
<1>3. ASSUME NEW r \in Request, LockSource(r)
      PROVE  Given \/ \E x \in Account \cup Counter : Taken(r, x)
  <2>1. command[r].source \in Account \cup Counter
    BY <1>3, OperandType DEF LockSource, At
  <2>. QED
    BY <1>1, <1>3, <2>1 DEF LockSource, Refuse, Done
<1>4. ASSUME NEW r \in Request, LockRow(r) \/ WriteRow(r)
      PROVE  \E x \in Account \cup Counter : Taken(r, x)
  <2>1. Head(todo[r])[2] = "dest" /\ LockRow(r) => command[r].dest # None
    BY AccountAssumption DEF LockRow, BadDestination, Account
  <2>2. Operand(r) \in Account \cup Counter
    BY <1>4, <2>1, OperandType DEF LockRow, WriteRow, At
  <2>. QED
    BY <1>4, <2>2 DEF LockRow, WriteRow, Done
<1>5. ASSUME NEW r \in Request, Step(r)
      PROVE  Given \/ \E x \in Account \cup Counter : Taken(r, x)
  <2>1. CASE ReadKyc(r) \/ ReplayMiss(r)
    BY <2>1 DEF ReadKyc, ReplayMiss
  <2>2. CASE ReplayHit(r) \/ RethrowConflict(r) \/ RefuseDestination(r) \/ DomainFailure(r)
               \/ Commit(r) \/ CommitWorker(r) \/ RollbackWorker(r)
    BY <1>1, <2>2 DEF ReplayHit, RethrowConflict, RefuseDestination, DomainFailure, Commit,
                      CommitWorker, RollbackWorker, Refuse
  <2>3. CASE SaveFails(r)
    <3>1. CASE Refuse(r, "conflict")
      BY <1>1, <3>1 DEF Refuse
    <3>2. CASE held' = [held EXCEPT ![r] = {}]
      BY <3>2 DEF Typed, TypeOK
    <3>. QED
      BY <2>3, <3>1, <3>2 DEF SaveFails
  <2>. QED
    BY <1>2, <1>3, <1>4, <1>5, <2>1, <2>2, <2>3 DEF Step
<1>6. ASSUME NEW r \in Request,
             Receive(r) \/ ReceiveReversal(r) \/ BeginWorker(r) \/ Victim(r) \/ Cancel(r)
      PROVE  Given
  <2>1. CASE Receive(r) \/ ReceiveReversal(r) \/ BeginWorker(r)
    BY <2>1 DEF Receive, ReceiveReversal, BeginWorker
  <2>2. CASE AbortVictim(r) \/ Cancel(r)
    BY <1>1, <2>2 DEF AbortVictim, Cancel, Refuse
  <2>3. CASE RetryVictim(r)
    BY <2>3 DEF RetryVictim, Typed, TypeOK
  <2>. QED
    BY <1>6, <2>1, <2>2, <2>3 DEF Victim
<1>7. CASE KycDecision \/ Midnight \/ UNCHANGED vars
  BY <1>7 DEF KycDecision, Midnight, vars, request
<1>. QED
  BY <1>5, <1>6, <1>7 DEF Next

Locked == Typed /\ LocksExclusive

LEMMA InitLocked == Init => Locked
BY InitTyped DEF Init, Locked, LocksExclusive

LEMMA StepLocked == Locked /\ [Next]_vars => Locked'
<1>. SUFFICES ASSUME Locked, [Next]_vars PROVE LocksExclusive'
  BY StepTyped DEF Locked
<1>1. CASE \A p \in Request : held'[p] \subseteq held[p]
  BY <1>1 DEF Locked, LocksExclusive
<1>2. ASSUME NEW r \in Request, NEW x, Free(r, x), held' = [held EXCEPT ![r] = @ \cup {x}]
      PROVE  LocksExclusive'
  BY <1>2 DEF Locked, Typed, TypeOK, LocksExclusive, Free
<1>. QED
  BY <1>1, <1>2, LockSteps DEF Locked
-----------------------------------------------------------------------------
(* Idempotency. *)

(* One committed transfer per customer and Idempotency-Key: the unique     *)
(* index is what catches two requests that both found no record to replay. *)
THEOREM KeysUsedOnce == Spec => []OneTransferPerKey
<1>1. Init => Typed /\ OneTransferPerKey
  BY InitTyped DEF Init, OneTransferPerKey
<1>2. Typed /\ OneTransferPerKey /\ [Next]_vars => Typed' /\ OneTransferPerKey'
  <2>. SUFFICES ASSUME Typed, OneTransferPerKey, [Next]_vars
                PROVE  OneTransferPerKey'
    BY StepTyped
  <2>1. \A t \in committed : t \in Request /\ command'[t] = command[t]
    BY CommandKept DEF Typed, TypeOK, Begun
  <2>2. CASE UNCHANGED db
    BY <2>1, <2>2 DEF db, OneTransferPerKey, Keyed, KeyOf, KeyOwner
  <2>3. ASSUME NEW r \in Request, Commit(r) PROVE OneTransferPerKey'
    <3>1. committed' = committed \cup {r} /\ command' = command
      BY <2>3 DEF Commit, Answer
    <3>2. Keyed(command[r]) =>
            \A t \in committed : Keyed(command[t]) => KeyOf(command[t]) # KeyOf(command[r])
      BY <2>3 DEF Commit, Duplicate, Recorded
    <3>. QED
      BY <3>1, <3>2 DEF OneTransferPerKey, Keyed, KeyOf, KeyOwner
  <2>4. ASSUME NEW r \in Request, CommitWorker(r) PROVE OneTransferPerKey'
    <3>1. committed' = committed
      BY <2>4 DEF CommitWorker
    <3>. QED
      BY <2>1, <3>1 DEF OneTransferPerKey, Keyed, KeyOf, KeyOwner
  <2>. QED
    BY <2>2, <2>3, <2>4, OnlyCommitWrites
<1>. QED
  BY <1>1, <1>2, PTL DEF Spec
-----------------------------------------------------------------------------
(* Replies. *)

(* Nobody is answered before the end. *)
Pending == \A r \in Request : pc[r] # "done" => reply[r].code = "pending"

Answered == Typed /\ Pending /\ RepliesTruthful

(* The kinds of answer: a failure, a recorded transfer of the same key and *)
(* payload, the request's own transfer, and silence about it.              *)
Replied(r, new) ==
  /\ reply' = [reply EXCEPT ![r] = new]
  /\ pc[r] # "done" /\ pc' = [pc EXCEPT ![r] = "done"]
  /\ \/ new.code \notin {"pending", "ok", "lost", "replayed"} /\ UNCHANGED committed
     \/ /\ new.code = "replayed" /\ new.transfer \in Recorded(command[r])
        /\ Fingerprint(command[new.transfer]) = Fingerprint(command[r])
        /\ UNCHANGED <<committed, command>>
     \/ /\ new.code = "lost" \/ (new.code = "ok" /\ new.transfer = r)
        /\ committed' = committed \cup {r} /\ UNCHANGED command

Silent ==
  /\ UNCHANGED <<reply, committed>>
  /\ \A p \in Request : pc'[p] = "done" <=> pc[p] = "done"

LEMMA ReplySteps ==
  ASSUME Typed, [Next]_vars
  PROVE  Silent \/ \E r \in Request : \E new : Replied(r, new)
<1>1. ASSUME NEW r \in Request, NEW code, code \notin {"pending", "ok", "lost", "replayed"},
             pc[r] # "done", Answer(r, code, None), UNCHANGED committed
      PROVE  \E new : Replied(r, new)
  <2>1. Replied(r, [code |-> code, transfer |-> None])
    BY <1>1 DEF Answer, Replied
  <2>. QED
    BY <2>1
<1>0. ASSUME NEW r \in Request, NEW code, code \notin {"pending", "ok", "lost", "replayed"},
             pc[r] # "done", Refuse(r, code)
      PROVE  \E new : Replied(r, new)
  BY <1>0, <1>1 DEF Refuse, db
<1>2. ASSUME NEW r \in Request, Receive(r) PROVE Silent \/ \E new : Replied(r, new)
  <2>1. CASE reply' = [reply EXCEPT ![r].code = "invalid"] /\ pc' = [pc EXCEPT ![r] = "done"]
    <3>1. Replied(r, [code |-> "invalid", transfer |-> reply[r].transfer])
      <4>1. reply[r] \in [code : CodeType, transfer : Request \cup {None}]
        BY DEF Typed, TypeOK
      <4>2. [reply[r] EXCEPT !.code = "invalid"] = [code |-> "invalid", transfer |-> reply[r].transfer]
        BY <4>1
      <4>. QED
        BY <1>2, <2>1, <4>2 DEF Receive, Replied, db
    <3>. QED
      BY <3>1
  <2>2. CASE UNCHANGED reply /\ \E s \in {"kyc", "replay", "work"} : pc' = [pc EXCEPT ![r] = s]
    BY <1>2, <2>2 DEF Receive, Silent, db, Typed, TypeOK
  <2>. QED
    BY <1>2, <2>1, <2>2 DEF Receive
<1>3. ASSUME NEW r \in Request, ReplayHit(r) PROVE \E new : Replied(r, new)
  <2>1. PICK t \in Recorded(command[r]) :
          IF Fingerprint(command[t]) = Fingerprint(command[r])
            THEN Answer(r, "replayed", t) /\ UNCHANGED <<db, world>>
            ELSE Refuse(r, "mismatch")
    BY <1>3 DEF ReplayHit
  <2>2. CASE Answer(r, "replayed", t) /\ UNCHANGED <<db, world>>
              /\ Fingerprint(command[t]) = Fingerprint(command[r])
    <3>1. Replied(r, [code |-> "replayed", transfer |-> t])
      BY <1>3, <2>2 DEF ReplayHit, Answer, Replied, db
    <3>. QED
      BY <3>1
  <2>. QED
    BY <1>0, <1>3, <2>1, <2>2 DEF ReplayHit
<1>4. ASSUME NEW r \in Request, Commit(r) PROVE \E new : Replied(r, new)
  <2>1. CASE Answer(r, "ok", r)
    <3>1. Replied(r, [code |-> "ok", transfer |-> r])
      BY <1>4, <2>1 DEF Commit, Ready, Answer, Replied
    <3>. QED
      BY <3>1
  <2>2. CASE Answer(r, "lost", None)
    <3>1. Replied(r, [code |-> "lost", transfer |-> None])
      BY <1>4, <2>2 DEF Commit, Ready, Answer, Replied
    <3>. QED
      BY <3>1
  <2>. QED
    BY <1>4, <2>1, <2>2 DEF Commit
<1>5. ASSUME NEW r \in Request, NEW x, pc[r] = "work", Done(r, x) PROVE Silent
  BY <1>5 DEF Done, Silent, db
<1>6. ASSUME NEW r \in Request,
             MergeCounter(r) \/ LockSource(r) \/ RefuseDestination(r) \/ LockRow(r)
               \/ WriteRow(r)
      PROVE  Silent \/ \E new : Replied(r, new)
  BY <1>0, <1>5, <1>6
     DEF MergeCounter, LockSource, RefuseDestination, LockRow, WriteRow, At
<1>7. ASSUME NEW r \in Request, SaveFails(r) PROVE Silent \/ \E new : Replied(r, new)
  <2>1. CASE Refuse(r, "conflict")
    BY <1>0, <1>7, <2>1 DEF SaveFails, Ready
  <2>2. CASE pc' = [pc EXCEPT ![r] = "conflict"] /\ UNCHANGED <<db, reply>>
    BY <1>7, <2>2 DEF SaveFails, Ready, Silent, db, Typed, TypeOK
  <2>. QED
    BY <1>7, <2>1, <2>2 DEF SaveFails
<1>8. ASSUME NEW r \in Request,
             \/ RethrowConflict(r) \/ DomainFailure(r) \/ CommitWorker(r) \/ RollbackWorker(r)
             \/ AbortVictim(r) \/ Cancel(r)
      PROVE  \E new : Replied(r, new)
  <2>1. CASE CommitWorker(r)
    BY <1>1, <2>1 DEF CommitWorker, Ready
  <2>. QED
    BY <1>0, <1>8, <2>1, VictimWorks
       DEF RethrowConflict, DomainFailure, RollbackWorker, Ready, AbortVictim, Cancel
<1>9. ASSUME NEW r \in Request,
             ReadKyc(r) \/ ReplayMiss(r) \/ ReceiveReversal(r) \/ BeginWorker(r) \/ RetryVictim(r)
      PROVE  Silent
  <2>1. CASE ReadKyc(r) \/ ReplayMiss(r) \/ ReceiveReversal(r) \/ BeginWorker(r)
    BY <2>1 DEF ReadKyc, ReplayMiss, ReceiveReversal, BeginWorker, Silent, db, Typed, TypeOK
  <2>2. CASE RetryVictim(r)
    BY <2>2, VictimWorks DEF RetryVictim, Silent, db, Typed, TypeOK
  <2>. QED
    BY <1>9, <2>1, <2>2
<1>10. CASE KycDecision \/ Midnight \/ UNCHANGED vars
  BY <1>10 DEF KycDecision, Midnight, vars, db, request, Silent
<1>. QED
  BY <1>2, <1>3, <1>4, <1>6, <1>7, <1>8, <1>9, <1>10 DEF Next, Step, Victim

LEMMA StepAnswered == Answered /\ [Next]_vars => Answered'
<1>. SUFFICES ASSUME Answered, [Next]_vars PROVE Pending' /\ RepliesTruthful'
  BY StepTyped DEF Answered
<1>1. /\ Typed /\ committed \subseteq Request
      /\ \A p \in Request : pc[p] # "idle" => command'[p] = command[p]
      /\ \A p \in committed : pc[p] = "done"
  BY CommandKept DEF Answered, Typed, TypeOK, Begun
<1>2. \A p \in Request : pc[p] # "done" => reply[p].code = "pending"
  BY DEF Answered, Pending
<1>3. CASE Silent
  <2>1. Pending'
    BY <1>2, <1>3 DEF Silent, Pending
  <2>2. \A p \in Request : reply[p].code \in {"ok", "replayed"} => command'[p] = command[p]
    BY <1>1, <1>2
  <2>3. \A t \in committed : command'[t] = command[t]
    BY <1>1
  <2>4. ASSUME NEW p \in Request
        PROVE  /\ reply'[p].code \in {"ok", "lost"} <=> p \in committed'
               /\ reply'[p].code \in {"ok", "replayed"} =>
                    /\ reply'[p].transfer \in committed'
                    /\ KeyOf(command'[reply'[p].transfer]) = KeyOf(command'[p])
                    /\ Fingerprint(command'[reply'[p].transfer]) = Fingerprint(command'[p])
    BY <1>3, <2>2, <2>3 DEF Silent, Answered, RepliesTruthful
  <2>. QED
    BY <2>1, <2>4 DEF RepliesTruthful
<1>4. ASSUME NEW r \in Request, NEW new, Replied(r, new)
      PROVE  Pending' /\ RepliesTruthful'
  <2>1. Pending'
    BY <1>1, <1>2, <1>4 DEF Replied, Pending, Typed, TypeOK
  <2>2. /\ reply'[r] = new /\ reply[r].code = "pending" /\ r \notin committed
        /\ \A p \in Request \ {r} : reply'[p] = reply[p]
    BY <1>1, <1>2, <1>4 DEF Replied, Typed, TypeOK
  <2>3. \A t \in committed : command'[t] = command[t]
    BY <1>1
  <2>4. committed \subseteq committed' /\ committed' \subseteq committed \cup {r}
    BY <1>4 DEF Replied
  <2>5. ASSUME NEW p \in Request \ {r}
        PROVE  /\ reply'[p].code \in {"ok", "lost"} <=> p \in committed'
               /\ reply'[p].code \in {"ok", "replayed"} =>
                    /\ reply'[p].transfer \in committed'
                    /\ KeyOf(command'[reply'[p].transfer]) = KeyOf(command'[p])
                    /\ Fingerprint(command'[reply'[p].transfer]) = Fingerprint(command'[p])
    <3>1. reply[p].code \in {"ok", "replayed"} => command'[p] = command[p]
      BY <1>1, <1>2
    <3>. QED
      BY <2>2, <2>3, <2>4, <3>1 DEF Answered, RepliesTruthful
  <2>6. /\ new.code \in {"ok", "lost"} <=> r \in committed'
        /\ new.code \in {"ok", "replayed"} =>
             /\ new.transfer \in committed'
             /\ KeyOf(command'[new.transfer]) = KeyOf(command'[r])
             /\ Fingerprint(command'[new.transfer]) = Fingerprint(command'[r])
    BY <1>4, <2>2 DEF Replied, Recorded
  <2>. QED
    BY <2>1, <2>2, <2>5, <2>6 DEF RepliesTruthful
<1>. QED
  BY <1>1, <1>3, <1>4, ReplySteps

(* A caller told of a transfer is told of a committed one under its own    *)
(* key with its own payload; a caller told of a failure, of whatever kind  *)
(* but a lost acknowledgement, has moved no money.                         *)
THEOREM RepliesAreTruthful == Spec => []RepliesTruthful
<1>1. Init => Answered
  BY InitTyped DEF Init, Answered, Pending, RepliesTruthful
<1>2. Answered => RepliesTruthful
  BY DEF Answered
<1>. QED
  BY <1>1, <1>2, StepAnswered, PTL DEF Spec
-----------------------------------------------------------------------------
(* The daily limit. *)

LEMMA OutboundRoute ==
  /\ Route("outbound") # <<>>
  /\ Head(Route("outbound")) = <<"merge", "source">>
<1>1. Route("outbound") = <<<<"merge", "source">>, Lock("source"),
                            Lock(Settlement), Lock(Income), Lock(VatAccount)>>
  BY Zenon DEF Route
<1>. QED
  BY <1>1

(* An outbound transfer that is past MergeCounterAsync holds its counter   *)
(* row, and the row as it stands has room for the amount reserved; before, *)
(* its transaction is still whole.                                         *)
Reserved ==
  \A r \in Request :
    pc[r] # "idle" /\ command[r].kind = "outbound" =>
      /\ pc[r] \in {"kyc", "replay"} => todo[r] = Route("outbound")
      /\ pc[r] = "work" =>
           \/ todo[r] = Route("outbound")
           \/ /\ CounterOf(r) \in held[r] /\ reserved[r] = command[r].amount
              /\ counter[CounterOf(r)] + command[r].amount <= VerifiedLimit

Limited == Locked /\ Reserved /\ CounterWithinLimit

(* A commit raises the counter its request reserved from, and no other.    *)
LEMMA CommitCounts ==
  ASSUME Limited, NEW r \in Request, Commit(r), NEW k \in Counter
  PROVE  /\ counter'[k] = counter[k] \/ (k \in held[r] /\ k = CounterOf(r))
         /\ counter'[k] <= VerifiedLimit
<1>1. /\ pc[r] = "work" /\ todo[r] = <<>>
      /\ counter \in [Counter -> Nat] /\ counter[k] <= VerifiedLimit
  BY DEF Commit, Ready, Limited, Locked, Typed, TypeOK, CounterWithinLimit
<1>2. CASE command[r].kind = "outbound"
  <2>1. /\ CounterOf(r) \in held[r] /\ reserved[r] = command[r].amount
        /\ counter[CounterOf(r)] + command[r].amount <= VerifiedLimit
    BY <1>1, <1>2, OutboundRoute DEF Limited, Reserved
  <2>2. counter' = [counter EXCEPT ![CounterOf(r)] = @ + command[r].amount]
    BY <1>2, <2>1 DEF Commit
  <2>. QED
    BY <1>1, <2>1, <2>2
<1>3. CASE command[r].kind # "outbound"
  BY <1>1, <1>3 DEF Commit
<1>. QED
  BY <1>2, <1>3

(* A step of one request leaves the others where they are. *)
LEMMA OthersKept ==
  ASSUME Typed, NEW r \in Request, NEW p \in Request \ {r}, Acts(r)
  PROVE  /\ pc'[p] = pc[p] /\ command'[p] = command[p] /\ todo'[p] = todo[p]
         /\ held'[p] = held[p] /\ chargeDay'[p] = chargeDay[p] /\ reserved'[p] = reserved[p]
<1>. DEFINE Kept == /\ pc'[p] = pc[p] /\ command'[p] = command[p] /\ todo'[p] = todo[p]
                    /\ held'[p] = held[p] /\ chargeDay'[p] = chargeDay[p]
                    /\ reserved'[p] = reserved[p]
<1>. SUFFICES Kept
  OBVIOUS
<1>1. ASSUME NEW code, NEW t, Answer(r, code, t) PROVE Kept
  BY <1>1 DEF Answer, Typed, TypeOK
<1>2. ASSUME NEW x, Done(r, x), reserved'[p] = reserved[p] PROVE Kept
  BY <1>2 DEF Done, Typed, TypeOK
<1>3. CASE Receive(r)
  BY <1>3 DEF Receive, Typed, TypeOK
<1>4. CASE ReceiveReversal(r) \/ BeginWorker(r) \/ RetryVictim(r) \/ ReadKyc(r) \/ ReplayMiss(r)
  BY <1>4 DEF ReceiveReversal, BeginWorker, RetryVictim, ReadKyc, ReplayMiss, Typed, TypeOK
<1>5. CASE SaveFails(r)
  BY <1>1, <1>5 DEF SaveFails, Refuse, Typed, TypeOK
<1>6. CASE ReplayHit(r) \/ RethrowConflict(r) \/ RefuseDestination(r) \/ DomainFailure(r)
             \/ Commit(r) \/ CommitWorker(r) \/ RollbackWorker(r) \/ AbortVictim(r) \/ Cancel(r)
  BY <1>1, <1>6 DEF ReplayHit, RethrowConflict, RefuseDestination, DomainFailure, Commit,
                    CommitWorker, RollbackWorker, AbortVictim, Cancel, Refuse
<1>7. CASE MergeCounter(r) \/ LockSource(r) \/ LockRow(r) \/ WriteRow(r)
  <2>1. Reserve(r) \/ UNCHANGED reserved => reserved'[p] = reserved[p]
    BY DEF Reserve, Typed, TypeOK
  <2>. QED
    BY <1>1, <1>2, <1>7, <2>1 DEF MergeCounter, LockSource, LockRow, WriteRow, Track, Refuse
<1>. QED
  BY <1>3, <1>4, <1>5, <1>6, <1>7 DEF Acts, Step, Victim

(* The request that moves: it is answered, or not yet at its transaction,  *)
(* or reserves, or goes on with what it has reserved.                      *)
LEMMA ReservedByMover ==
  ASSUME Limited, NEW r \in Request, Acts(r), pc'[r] # "idle", command'[r].kind = "outbound"
  PROVE  /\ pc'[r] \in {"kyc", "replay"} => todo'[r] = Route("outbound")
         /\ pc'[r] = "work" =>
              \/ todo'[r] = Route("outbound")
              \/ /\ CounterOf(r)' \in held'[r] /\ reserved'[r] = command'[r].amount
                 /\ counter'[CounterOf(r)'] + command'[r].amount <= VerifiedLimit
<1>. DEFINE Good == /\ pc'[r] \in {"kyc", "replay"} => todo'[r] = Route("outbound")
                    /\ pc'[r] = "work" =>
                         \/ todo'[r] = Route("outbound")
                         \/ /\ CounterOf(r)' \in held'[r] /\ reserved'[r] = command'[r].amount
                            /\ counter'[CounterOf(r)'] + command'[r].amount <= VerifiedLimit
<1>. SUFFICES Good
  OBVIOUS
<1>0. Typed /\ TypeOK
  BY DEF Limited, Locked, Typed
<1>1. ASSUME NEW code, NEW t, Answer(r, code, t) PROVE Good
  <2>1. pc'[r] = "done"
    BY <1>0, <1>1 DEF Answer, TypeOK
  <2>. QED
    BY <2>1
<1>2. ASSUME NEW x, Done(r, x), UNCHANGED reserved, pc[r] = "work", todo[r] # Route("outbound")
      PROVE  Good
  <2>1. /\ CounterOf(r) \in held[r] /\ reserved[r] = command[r].amount
        /\ counter[CounterOf(r)] + command[r].amount <= VerifiedLimit
    BY <1>2 DEF Limited, Reserved, Done
  <2>2. held[r] \subseteq held'[r] /\ pc'[r] = "work"
    BY <1>0, <1>2 DEF Done, TypeOK
  <2>. QED
    BY <1>2, <2>1, <2>2 DEF Done, db, CounterOf
<1>3. CASE MergeCounter(r)
  <2>1. CASE Done(r, {CounterOf(r)}) /\ Reserve(r) /\ Fits(r)
    <3>0. CounterOf(r) \in held'[r]
      BY <1>0, <2>1 DEF Done, TypeOK
    <3>1. limit[r] <= VerifiedLimit
      <4>1. limit[r] \in {0, UnverifiedLimit, VerifiedLimit}
        BY <1>0 DEF TypeOK
      <4>. QED
        BY <4>1, LimitAssumption
    <3>2. /\ counter[CounterOf(r)] \in Nat /\ command[r].amount \in Nat
          /\ limit[r] \in Nat
      <4>1. /\ CounterOf(r) \in Counter /\ command[r].amount \in Nat
        BY <1>0, <1>3 DEF MergeCounter, At, TypeOK, Typed, Begun, CommandType, CounterOf, Counter
      <4>2. counter \in [Counter -> Nat] /\ limit[r] \in {0, UnverifiedLimit, VerifiedLimit}
        BY <1>0 DEF TypeOK
      <4>. QED
        BY <4>1, <4>2, LimitAssumption
    <3>4. UNCHANGED <<counter, command, chargeDay>>
      BY <2>1 DEF Done, db
    <3>9. Charge(command[r]) = command[r].amount
      BY <3>4 DEF Charge
    <3>3. counter[CounterOf(r)] + command[r].amount <= VerifiedLimit
      BY <2>1, <3>1, <3>2, <3>9, LimitAssumption DEF Fits
    <3>10. reserved'[r] = command'[r].amount
      BY <1>0, <2>1, <3>4, <3>9 DEF Reserve, TypeOK
    <3>5. CounterOf(r)' = CounterOf(r)
      BY <3>4 DEF CounterOf
    <3>6. CounterOf(r)' \in held'[r]
      BY <3>0, <3>5
    <3>7. counter'[CounterOf(r)'] + command'[r].amount <= VerifiedLimit
      BY <3>3, <3>4, <3>5
    <3>8. pc'[r] = "work"
      BY <1>3, <2>1 DEF MergeCounter, At, Done
    <3>. QED
      BY <3>6, <3>7, <3>8, <3>10
  <2>2. CASE Refuse(r, "limit")
    BY <1>1, <2>2 DEF Refuse
  <2>. QED
    BY <1>3, <2>1, <2>2 DEF MergeCounter
<1>4. CASE LockSource(r) \/ LockRow(r) \/ WriteRow(r)
  <2>1. pc[r] = "work" /\ todo[r] # Route("outbound")
    BY <1>4, OutboundRoute DEF LockSource, LockRow, WriteRow, At
  <2>. QED
    BY <1>1, <1>2, <1>4, <2>1 DEF LockSource, LockRow, WriteRow, Track, Refuse
<1>5. CASE ReplayHit(r) \/ RethrowConflict(r) \/ RefuseDestination(r) \/ DomainFailure(r)
             \/ Commit(r) \/ CommitWorker(r) \/ RollbackWorker(r) \/ AbortVictim(r) \/ Cancel(r)
  BY <1>1, <1>5 DEF ReplayHit, RethrowConflict, RefuseDestination, DomainFailure, Commit,
                    CommitWorker, RollbackWorker, AbortVictim, Cancel, Refuse
<1>6. CASE SaveFails(r)
  <2>1. CASE pc' = [pc EXCEPT ![r] = "conflict"]
    BY <1>0, <2>1 DEF TypeOK
  <2>. QED
    BY <1>1, <1>6, <2>1 DEF SaveFails, Refuse
<1>7. CASE Receive(r)
  <2>1. PICK c \in Commands :
          /\ command' = [command EXCEPT ![r] = c]
          /\ \/ pc' = [pc EXCEPT ![r] = "done"]
             \/ todo' = [todo EXCEPT ![r] = Route(c.kind)]
    BY <1>7 DEF Receive
  <2>. QED
    BY <1>0, <2>1 DEF TypeOK
<1>8. CASE ReceiveReversal(r) \/ BeginWorker(r)
  <2>1. PICK t \in committed, k \in {"reverse", "worker"} :
          command' = [command EXCEPT ![r] = [command[t] EXCEPT !.kind = k, !.of = t]]
    BY <1>8 DEF ReceiveReversal, BeginWorker
  <2>2. command[t] \in CommandType /\ k # "outbound"
    BY <1>0 DEF Typed, TypeOK, Begun
  <2>3. command'[r].kind = k
    BY <1>0, <2>1, <2>2 DEF TypeOK, CommandType
  <2>. QED
    BY <2>2, <2>3
<1>9. CASE ReadKyc(r) \/ ReplayMiss(r)
  <2>1. pc[r] \in {"kyc", "replay"} /\ UNCHANGED <<command, todo>>
    BY <1>9 DEF ReadKyc, ReplayMiss
  <2>2. todo[r] = Route("outbound")
    BY <2>1 DEF Limited, Reserved
  <2>. QED
    BY <2>1, <2>2
<1>10. CASE RetryVictim(r)
  BY <1>0, <1>10 DEF RetryVictim, TypeOK
<1>. QED
  BY <1>3, <1>4, <1>5, <1>6, <1>7, <1>8, <1>9, <1>10 DEF Acts, Step, Victim

LEMMA InitLimited == Init => Limited
<1>1. \A k \in Counter : 0 <= VerifiedLimit
  BY LimitAssumption
<1>. QED
  BY <1>1, InitLocked DEF Init, Limited, Reserved, CounterWithinLimit

LEMMA StepLimited == Limited /\ [Next]_vars => Limited'
<1>. SUFFICES ASSUME Limited, [Next]_vars PROVE Reserved' /\ CounterWithinLimit'
  BY StepLocked DEF Limited
<1>0. Typed /\ LocksExclusive
  BY DEF Limited, Locked
<1>6. ASSUME NEW q \in Request, CommitWorker(q) PROVE UNCHANGED counter
  BY <1>6 DEF CommitWorker
<1>1. CounterWithinLimit'
  BY <1>6, CommitCounts, OnlyCommitWrites DEF Limited, CounterWithinLimit, db
<1>2. ASSUME NEW r \in Request, NEW p \in Request \ {r}, Acts(r),
             CounterOf(p) \in held[p], CounterOf(p) \in Counter
      PROVE  counter'[CounterOf(p)] = counter[CounterOf(p)]
  <2>1. CASE UNCHANGED db
    BY <2>1 DEF db
  <2>2. ASSUME NEW q \in Request, Commit(q) PROVE counter'[CounterOf(p)] = counter[CounterOf(p)]
    <3>1. q # p
      BY <1>0, <1>2, <2>2, OthersKept DEF Commit, Ready, Answer, Typed, TypeOK
    <3>2. CounterOf(p) \notin held[q]
      BY <1>0, <1>2, <3>1 DEF LocksExclusive
    <3>. QED
      BY <1>2, <2>2, <3>2, CommitCounts
  <2>. QED
    BY <1>6, <2>1, <2>2, OnlyCommitWrites
<1>3. ASSUME NEW r \in Request, Acts(r) PROVE Reserved'
  <2>. SUFFICES ASSUME NEW p \in Request, pc'[p] # "idle", command'[p].kind = "outbound"
                PROVE  /\ pc'[p] \in {"kyc", "replay"} => todo'[p] = Route("outbound")
                       /\ pc'[p] = "work" =>
                            \/ todo'[p] = Route("outbound")
                            \/ /\ CounterOf(p)' \in held'[p] /\ reserved'[p] = command'[p].amount
                               /\ counter'[CounterOf(p)'] + command'[p].amount <= VerifiedLimit
    BY DEF Reserved
  <2>1. CASE p = r
    BY <1>3, <2>1, ReservedByMover
  <2>2. CASE p # r
    <3>1. /\ pc'[p] = pc[p] /\ command'[p] = command[p] /\ todo'[p] = todo[p]
          /\ held'[p] = held[p] /\ chargeDay'[p] = chargeDay[p] /\ reserved'[p] = reserved[p]
      BY <1>0, <1>3, <2>2, OthersKept
    <3>2. CounterOf(p)' = CounterOf(p)
      BY <3>1 DEF CounterOf
    <3>3. pc[p] = "work" => CounterOf(p) \in Counter
      BY <1>0 DEF Typed, TypeOK, Begun, CounterOf, Counter, CommandType
    <3>. QED
      BY <1>2, <1>3, <2>2, <3>1, <3>2, <3>3 DEF Limited, Reserved
  <2>. QED
    BY <2>1, <2>2
<1>4. CASE KycDecision \/ Midnight \/ UNCHANGED vars
  BY <1>1, <1>4 DEF KycDecision, Midnight, vars, db, request, Limited, Reserved, CounterOf
<1>5. Reserved'
  BY <1>3, <1>4, NextActs
<1>. QED
  BY <1>1, <1>5

(* The daily counter of a wallet never passes the verified limit: the      *)
(* counter row stays locked from the check in MergeCounterAsync to the     *)
(* commit, whatever KYC decision or midnight falls in between.             *)
THEOREM DailyLimitKept == Spec => []CounterWithinLimit
<1>1. Limited => CounterWithinLimit
  BY DEF Limited
<1>. QED
  BY <1>1, InitLimited, StepLimited, PTL DEF Spec
-----------------------------------------------------------------------------
(* The abstract ledger. *)

(* The posting of a committed request, as Abstract's mapping defines it.   *)
Posting(t) ==
  [id |-> t,
   key |-> IF Keyed(command[t]) THEN KeyOf(command[t]) ELSE None,
   legs |-> Legs(command[t])]

Posted == {Posting(t) : t \in committed}

(* A commit is a posting of the abstract ledger. *)
LEMMA CommitPosts ==
  ASSUME Genuine, [Next]_vars, NEW r \in Request, Commit(r)
  PROVE  /\ Posting(r) \in Posted' \ Posted
         /\ Posted' = Posted \cup {Posting(r)}
         /\ \A q \in Posted : Posting(r).key # None => q.key # Posting(r).key
         /\ balance' = [a \in Account |-> balance[a] + Posting(r).legs[a]]
         /\ \A a \in Account : balance'[a] >= 0
<1>1. committed' = committed \cup {r} /\ UNCHANGED command /\ r \notin committed
  BY DEF Commit, Ready, Answer, Genuine, Typed, Begun
<1>2. Posting(r) \notin Posted
  BY <1>1 DEF Posted, Posting
<1>3. Posted' = Posted \cup {Posting(r)}
  BY <1>1 DEF Posted, Posting
<1>4. ASSUME NEW t \in committed, Posting(r).key # None
      PROVE  Posting(t).key # Posting(r).key
  <2>1. Keyed(command[r]) /\ Posting(r).key = KeyOf(command[r])
    BY <1>4 DEF Posting
  <2>2. Keyed(command[t]) => KeyOf(command[t]) # KeyOf(command[r])
    BY <2>1 DEF Commit, Duplicate, Recorded
  <2>. QED
    BY <1>4, <2>1, <2>2 DEF Posting
<1>5. balance' = [a \in Account |-> balance[a] + Legs(command[r])[a]]
  <2>1. DOMAIN balance' = Account /\ balance' = [a \in Account |-> balance'[a]]
    BY DEF Commit
  <2>. QED
    BY <2>1, CommitWrites DEF Genuine
<1>6. \A a \in Account : balance'[a] >= 0
  BY StepTyped DEF Genuine, Typed, TypeOK
<1>. QED
  BY <1>2, <1>3, <1>4, <1>5, <1>6 DEF Posted, Posting

(* The service implements the ledger its callers are promised: whatever    *)
(* its requests, locks, tracked copies and retries do, and whatever the    *)
(* worker writes beside them, the API moves the balances by indivisible    *)
(* postings, each under a fresh key and overdrawing nobody.                *)
THEOREM ServiceImplementsLedger == Spec => ImplementsLedger
<1>1. Init => Abstract!Init
  BY DEF Init, Abstract!Init
<1>2. Genuine /\ [Next]_vars => [Abstract!Next]_(Abstract!vars)
  <2>. SUFFICES ASSUME Genuine, [Next]_vars
                PROVE  Abstract!Next \/ UNCHANGED <<balance, Posted, written>>
    BY DEF Abstract!vars, Posted, Posting
  <2>1. CASE UNCHANGED db
    <3>1. \A t \in committed : command'[t] = command[t]
      BY CommandKept DEF Genuine, Typed, TypeOK, Begun
    <3>. QED
      BY <2>1, <3>1 DEF db, Posted, Posting
  <2>2. ASSUME NEW r \in Request, Commit(r) PROVE Abstract!Next
    <3>1. \E p \in Posted' \ Posted :
            /\ Posted' = Posted \cup {p}
            /\ \A q \in Posted : p.key # None => q.key # p.key
            /\ balance' = [a \in Account |-> balance[a] + p.legs[a]]
      BY <2>2, CommitPosts
    <3>2. /\ \A a \in Account : balance'[a] >= 0
          /\ UNCHANGED written
      BY <2>2, CommitPosts DEF Commit
    <3>. QED
      BY <3>1, <3>2 DEF Abstract!Next, Abstract!Post, Posted, Posting
  <2>3. ASSUME NEW r \in Request, CommitWorker(r) PROVE Abstract!Next
    <3>1. balance' = [a \in Account |-> balance[a] + (written'[a] - written[a])]
      <4>1. balance' = [a \in Account |-> balance'[a]]
        BY <2>3 DEF CommitWorker
      <4>2. \A a \in Account : balance'[a] = balance[a] + (written'[a] - written[a])
        <5>1. TAKE a \in Account
        <5>2. /\ balance'[a] \in Nat /\ written'[a] \in Int
              /\ balance'[a] - balance[a] = written'[a] - written[a]
          BY <2>3, WorkerWrites DEF Genuine
        <5>3. balance[a] \in Int /\ written[a] \in Int
          BY DEF Genuine, Typed, TypeOK
        <5>. QED
          BY <5>2, <5>3
      <4>. QED
        BY <4>1, <4>2
    <3>2. \A a \in Account : balance'[a] >= 0
      BY <2>3, WorkerWrites DEF Genuine
    <3>3. Posted' = Posted
      <4>1. committed' = committed /\ UNCHANGED command
        BY <2>3 DEF CommitWorker, Answer
      <4>. QED
        BY <4>1 DEF Posted, Posting
    <3>. QED
      BY <3>1, <3>2, <3>3 DEF Abstract!Next, Abstract!Adjust, Posted, Posting
  <2>. QED
    BY <2>1, <2>2, <2>3, OnlyCommitWrites
<1>3. Spec => []Genuine
  BY InitGenuine, StepGenuine, PTL DEF Spec
<1>. QED
  BY <1>1, <1>2, <1>3, PTL DEF Spec, ImplementsLedger, Abstract!Spec
=============================================================================
