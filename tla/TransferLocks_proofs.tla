------------------------- MODULE TransferLocks_proofs -------------------------
(***************************************************************************)
(* What the row locks of TransferService are good for: no request on its   *)
(* first attempt finds a stale row at SaveChanges, and only internal       *)
(* transfers and the worker's transactions close a circle of waits.        *)
(***************************************************************************)
EXTENDS TransferService_proofs

-----------------------------------------------------------------------------
(* The routes. *)

(* The row of a statement of r, its counter for the MERGE. *)
TakenRow(r, s) == IF s[1] = "merge" THEN CounterOf(r) ELSE RowOf(r, s[2])

(* Where a row stands in the order in which the API locks. *)
Level(s) ==
  CASE s[1] = "merge" -> 0
    [] s[1] # "merge" /\ s[2] \in {"source", "dest"} -> 1
    [] s[1] # "merge" /\ s[2] = Settlement -> 2
    [] s[1] # "merge" /\ s[2] = Income -> 3
    [] s[1] # "merge" /\ s[2] = VatAccount -> 4
    [] OTHER -> 5

Rank(x) ==
  CASE x \in Counter -> 0
    [] x \in Wallet -> 1
    [] x = Settlement -> 2
    [] x = Income -> 3
    [] x = VatAccount -> 4
    [] OTHER -> 5

Unordered == {"internal", "worker"}

(* The kinds whose statements are fixed. *)
Routed == Kind \ {"worker"}

LEMMA Names ==
  /\ \A x \in System : x # "source" /\ x # "dest" /\ x \notin Wallet /\ x \notin Counter
  /\ \A x \in Wallet : x # "source" /\ x # "dest" /\ x \notin Counter
  /\ Settlement # Income /\ Settlement # VatAccount /\ Income # VatAccount
  /\ Settlement \in System /\ Income \in System /\ VatAccount \in System
BY AccountAssumption DEF Account, System

(* Each route but the unordered ones locks in increasing order, and a      *)
(* destination first.                                                      *)
LEMMA RouteOrder ==
  ASSUME NEW k \in Kind \ Unordered
  PROVE  /\ \A i, j \in 1 .. Len(Route(k)) : i < j => Level(Route(k)[i]) < Level(Route(k)[j])
         /\ \A i \in 1 .. Len(Route(k)) : Route(k)[i][1] \in {"merge", "lock"}
         /\ \A i \in 1 .. Len(Route(k)) : Level(Route(k)[i]) \in 0 .. 4
         /\ \A i \in 1 .. Len(Route(k)) : Route(k)[i] = Lock("dest") => i = 1
<1>. USE Names DEF Lock, Level
<1>1. CASE k = "outbound"
  <2>1. Route(k) = <<<<"merge", "source">>, Lock("source"),
                     Lock(Settlement), Lock(Income), Lock(VatAccount)>>
    BY <1>1, Zenon DEF Route
  <2>. QED
    BY <2>1
<1>2. CASE k \in {"inbound", "credit"}
  <2>1. Route(k) = <<Lock("dest"), Lock(Settlement)>>
    BY <1>2 DEF Route
  <2>. QED
    BY <2>1
<1>3. CASE k = "fund"
  <2>1. Route(k) = <<Lock(Settlement)>>
    BY <1>3 DEF Route
  <2>. QED
    BY <2>1
<1>4. CASE k = "reverse"
  <2>1. Route(k) = [i \in 1 .. 4 |-> Lock(ReversalRows[i])]
    BY <1>4 DEF Route
  <2>2. /\ Len(Route(k)) = 4
        /\ Route(k)[1] = Lock("source") /\ Route(k)[2] = Lock(Settlement)
        /\ Route(k)[3] = Lock(Income) /\ Route(k)[4] = Lock(VatAccount)
    BY <2>1 DEF ReversalRows
  <2>3. \A i \in 1 .. 4 : i = 1 \/ i = 2 \/ i = 3 \/ i = 4
    OBVIOUS
  <2>. QED
    BY <2>2, <2>3
<1>. QED
  BY <1>1, <1>2, <1>3, <1>4 DEF Kind, ClientKind, Unordered

(* The rows a command touches. *)
LEMMA TouchedRows ==
  ASSUME NEW c \in CommandType, NEW a \in Touched(c)
  PROVE  /\ c.kind = "internal" => a \in {c.source, c.dest}
         /\ c.kind \in {"inbound", "credit"} => a \in {c.dest, Settlement}
         /\ c.kind = "fund" => a = Settlement
         /\ c.kind \in {"outbound", "reverse"} =>
              a \in {c.source, Settlement, Income, VatAccount}
<1>1. a \in Account /\ Legs(c)[a] # 0 /\ c.kind \in Kind
  BY DEF Touched, CommandType
<1>2. \A from, to, n : Moved(from, to, n)[a] # 0 => a = from \/ a = to
  BY <1>1 DEF Moved
<1>3. OutboundLegs(c)[a] # 0 => a \in {c.source, Settlement, Income, VatAccount}
  BY <1>1 DEF OutboundLegs
<1>4. CASE c.kind = "internal"
  BY <1>1, <1>2, <1>4 DEF Legs
<1>5. CASE c.kind \in {"inbound", "credit"}
  BY <1>1, <1>2, <1>5 DEF Legs
<1>6. CASE c.kind = "fund"
  <2>1. Legs(c) = Moved(None, Settlement, c.amount)
    BY <1>6 DEF Legs
  <2>. QED
    BY <1>1, <1>2, <1>6, <2>1, AccountAssumption
<1>7. CASE c.kind = "outbound"
  BY <1>1, <1>3, <1>7 DEF Legs
<1>8. CASE c.kind = "reverse"
  <2>1. Legs(c) = [x \in Account |-> -OutboundLegs(c)[x]]
    BY <1>8 DEF Legs
  <2>. QED
    BY <1>1, <1>3, <1>8, <2>1
<1>9. CASE c.kind = "worker"
  BY <1>9
<1>. QED
  BY <1>1, <1>4, <1>5, <1>6, <1>7, <1>8, <1>9 DEF Kind, ClientKind

(* A route locks every row its legs touch. *)
LEMMA RouteCovers ==
  ASSUME NEW r \in Request, command[r] \in CommandType, command[r].kind # "worker",
         NEW a \in Touched(command[r])
  PROVE  LET route == Route(command[r].kind)
         IN  \E i \in 1 .. Len(route) : TakenRow(r, route[i]) = a
<1>. DEFINE c == command[r]
            route == Route(c.kind)
<1>0. c.kind \in Kind /\ c.source \in Wallet /\ a \in Account
  BY DEF CommandType, Touched
<1>. USE Names DEF Lock, TakenRow, RowOf
<1>1. CASE c.kind = "internal"
  <2>1. route = <<Lock("source"), Lock("dest")>>
    BY <1>1 DEF Route
  <2>2. a = c.source \/ a = c.dest
    BY <1>1, TouchedRows
  <2>. QED
    BY <2>1, <2>2
<1>2. CASE c.kind = "outbound"
  <2>1. route = <<<<"merge", "source">>, Lock("source"),
                     Lock(Settlement), Lock(Income), Lock(VatAccount)>>
    BY <1>2, Zenon DEF Route
  <2>2. a \in {c.source, Settlement, Income, VatAccount}
    BY <1>2, TouchedRows
  <2>. QED
    BY <2>1, <2>2
<1>3. CASE c.kind \in {"inbound", "credit"}
  <2>1. route = <<Lock("dest"), Lock(Settlement)>>
    BY <1>3 DEF Route
  <2>2. a = Settlement \/ a = c.dest
    BY <1>3, TouchedRows
  <2>. QED
    BY <2>1, <2>2
<1>4. CASE c.kind = "fund"
  <2>1. route = <<Lock(Settlement)>>
    BY <1>4 DEF Route
  <2>2. a = Settlement
    BY <1>4, TouchedRows
  <2>. QED
    BY <2>1, <2>2
<1>5. CASE c.kind = "reverse"
  <2>1. a \in {c.source, Settlement, Income, VatAccount}
    BY <1>5, TouchedRows
  <2>2. route = [i \in 1 .. 4 |-> Lock(ReversalRows[i])]
    BY <1>5 DEF Route
  <2>3. /\ Len(route) = 4
        /\ route[1] = Lock("source") /\ route[2] = Lock(Settlement)
        /\ route[3] = Lock(Income) /\ route[4] = Lock(VatAccount)
    BY <2>2 DEF ReversalRows
  <2>. QED
    BY <2>1, <2>3
<1>. QED
  BY <1>0, <1>1, <1>2, <1>3, <1>4, <1>5 DEF Kind, ClientKind
-----------------------------------------------------------------------------
(* What a request may do next. *)

(* A step of one request leaves the copies of the others alone. *)
LEMMA OthersSeen ==
  ASSUME Typed, NEW r \in Request, NEW p \in Request \ {r}, Acts(r)
  PROVE  seen'[p] = seen[p] /\ attempts'[p] = attempts[p]
<1>. DEFINE Kept == seen'[p] = seen[p] /\ attempts'[p] = attempts[p]
<1>. SUFFICES Kept
  OBVIOUS
<1>1. ASSUME NEW code, NEW t, Answer(r, code, t) PROVE Kept
  BY <1>1 DEF Answer, Typed, TypeOK
<1>2. CASE Receive(r) \/ ReceiveReversal(r) \/ BeginWorker(r) \/ ReadKyc(r) \/ ReplayMiss(r)
  BY <1>2 DEF Receive, ReceiveReversal, BeginWorker, ReadKyc, ReplayMiss
<1>3. CASE RetryVictim(r)
  BY <1>3 DEF RetryVictim, Typed, TypeOK
<1>4. CASE ReplayHit(r) \/ RethrowConflict(r) \/ RefuseDestination(r) \/ DomainFailure(r)
             \/ SaveFails(r) \/ Commit(r) \/ CommitWorker(r) \/ RollbackWorker(r)
             \/ AbortVictim(r) \/ Cancel(r)
  BY <1>1, <1>4 DEF ReplayHit, RethrowConflict, RefuseDestination, DomainFailure, SaveFails, Commit,
                    CommitWorker, RollbackWorker, AbortVictim, Cancel, Refuse
<1>5. CASE MergeCounter(r) \/ LockSource(r) \/ LockRow(r) \/ WriteRow(r)
  <2>1. ASSUME NEW a, Track(r, a) PROVE seen'[p] = seen[p]
    BY <2>1 DEF Track, Typed, TypeOK
  <2>2. ASSUME NEW x, Done(r, x) PROVE UNCHANGED attempts
    BY <2>2 DEF Done
  <2>. QED
    BY <1>1, <1>5, <2>1, <2>2 DEF MergeCounter, LockSource, LockRow, WriteRow, Refuse
<1>. QED
  BY <1>2, <1>3, <1>4, <1>5 DEF Acts, Step, Victim

(* It is over, or about to look for an explanation of a failed save; its   *)
(* locks are given up.                                                     *)
Ends(r) ==
  /\ pc'[r] \in {"done", "conflict"}
  /\ held'[r] = {} \/ (pc[r] = "idle" /\ held'[r] = held[r])

(* It begins with the route of its kind, if it has one, and without a lock. *)
Starts(r) ==
  /\ pc[r] = "idle" /\ pc'[r] \in {"kyc", "replay", "work"}
  /\ command'[r].kind # "worker" => todo'[r] = Route(command'[r].kind)
  /\ held'[r] = held[r] /\ seen'[r] = seen[r] /\ attempts'[r] = attempts[r]

(* It is ready for its transaction. *)
Prepares(r) ==
  /\ pc[r] \in {"kyc", "replay"} /\ pc'[r] \in {"replay", "work"}
  /\ command'[r] = command[r] /\ todo'[r] = todo[r]
  /\ held'[r] = held[r] /\ seen'[r] = seen[r] /\ attempts'[r] = attempts[r]

(* It executes the next statement: the row is taken, and a copy that is    *)
(* new is the row as it is.                                                *)
Executes(r) ==
  /\ pc[r] = "work" /\ pc'[r] = "work"
  /\ todo[r] # <<>> /\ todo'[r] = Tail(todo[r])
  /\ command'[r] = command[r] /\ chargeDay'[r] = chargeDay[r] /\ attempts'[r] = attempts[r]
  /\ held'[r] = held[r] \cup {TakenRow(r, Head(todo[r]))}
  /\ Head(todo[r]) = Lock("dest") => ~BadDestination(command[r])
  /\ \A a \in Account :
       \/ seen'[r][a] = seen[r][a]
       \/ seen'[r][a] = CurrentRow(a) /\ a = TakenRow(r, Head(todo[r]))
  /\ UNCHANGED version

(* It begins again after a deadlock. *)
Retries(r) ==
  /\ pc'[r] = "replay" /\ command'[r] = command[r] /\ command[r].kind = "outbound"
  /\ todo'[r] = Route("outbound") /\ held'[r] = {} /\ attempts'[r] # 0

LEMMA ExecutesStatement ==
  ASSUME Typed, NEW r \in Request,
         \/ MergeCounter(r) \/ LockSource(r) \/ LockRow(r) \/ WriteRow(r)
  PROVE  Ends(r) \/ Executes(r)
<1>. DEFINE s == Head(todo[r])
<1>1. pc[r] = "work" /\ todo[r] # <<>>
  BY DEF MergeCounter, LockSource, LockRow, WriteRow, At
<1>2. ASSUME NEW code, Refuse(r, code) PROVE Ends(r)
  BY <1>2 DEF Refuse, Answer, Ends, Typed, TypeOK
<1>3. ASSUME NEW x, Done(r, x)
      PROVE  /\ pc'[r] = "work" /\ todo'[r] = Tail(todo[r])
             /\ command'[r] = command[r] /\ chargeDay'[r] = chargeDay[r]
             /\ attempts'[r] = attempts[r] /\ held'[r] = held[r] \cup x
             /\ UNCHANGED version
  BY <1>1, <1>3 DEF Done, db, Typed, TypeOK
<1>4. ASSUME NEW b \in Account, Track(r, b), NEW a \in Account
      PROVE  seen'[r][a] = seen[r][a] \/ (seen'[r][a] = CurrentRow(a) /\ a = b)
  BY <1>4 DEF Track, Tracked, Typed, TypeOK
<1>5. s[1] = "merge" \/ TakenRow(r, s) = Operand(r)
  BY DEF TakenRow, Operand
<1>. HIDE DEF s
<1>6. CASE MergeCounter(r)
  <2>1. s[1] = "merge" /\ TakenRow(r, s) = CounterOf(r) /\ s # Lock("dest")
    BY <1>6 DEF MergeCounter, At, TakenRow, Lock, s
  <2>2. CASE Done(r, {CounterOf(r)}) /\ UNCHANGED seen
    BY <1>1, <1>3, <2>1, <2>2 DEF Executes, s
  <2>. QED
    BY <1>2, <1>6, <2>2 DEF MergeCounter
<1>7. CASE LockSource(r)
  <2>1. s[1] = "lock" /\ TakenRow(r, s) = command[r].source /\ s # Lock("dest")
        /\ command[r].source \in Account
    BY <1>7, OperandType DEF LockSource, At, TakenRow, RowOf, Lock, s
  <2>2. CASE Track(r, command[r].source) /\ Done(r, {command[r].source})
    BY <1>1, <1>3, <1>4, <2>1, <2>2 DEF Executes, s
  <2>. QED
    BY <1>2, <1>7, <2>2 DEF LockSource
<1>8. CASE LockRow(r)
  <2>1. s[1] = "lock" /\ TakenRow(r, s) = Operand(r)
        /\ (s = Lock("dest") => ~BadDestination(command[r]))
    BY <1>5, <1>8 DEF LockRow, At, Lock, s
  <2>2. s[2] = "dest" => ~BadDestination(command[r])
    BY <1>8 DEF LockRow, s
  <2>3. command[r].dest = None => BadDestination(command[r])
    BY AccountAssumption DEF BadDestination, Account
  <2>4. Operand(r) \in Account
    BY <1>1, <2>1, <2>2, <2>3, OperandType DEF s
  <2>5. Track(r, Operand(r)) /\ Done(r, {Operand(r)})
    BY <1>8 DEF LockRow
  <2>. QED
    BY <1>1, <1>3, <1>4, <2>1, <2>4, <2>5 DEF Executes, s
<1>9. CASE WriteRow(r)
  <2>1. s[1] = "write" /\ TakenRow(r, s) = Operand(r) /\ s # Lock("dest")
    BY <1>1, <1>5, <1>9 DEF WriteRow, At, Lock, s
  <2>2. UNCHANGED seen /\ Done(r, {Operand(r)})
    BY <1>9 DEF WriteRow
  <2>. QED
    BY <1>1, <1>3, <2>1, <2>2 DEF Executes, s
<1>. QED
  BY <1>6, <1>7, <1>8, <1>9

LEMMA Moves ==
  ASSUME Typed, NEW r \in Request, Acts(r)
  PROVE  Ends(r) \/ Starts(r) \/ Prepares(r) \/ Executes(r) \/ Retries(r)
<1>1. ASSUME NEW code, NEW t, Answer(r, code, t) PROVE Ends(r)
  BY <1>1 DEF Answer, Ends, Typed, TypeOK
<1>2. CASE ReplayHit(r) \/ RethrowConflict(r) \/ RefuseDestination(r) \/ DomainFailure(r)
             \/ Commit(r) \/ CommitWorker(r) \/ RollbackWorker(r) \/ AbortVictim(r) \/ Cancel(r)
  BY <1>1, <1>2 DEF ReplayHit, RethrowConflict, RefuseDestination, DomainFailure, Commit,
                    CommitWorker, RollbackWorker, AbortVictim, Cancel, Refuse
<1>3. CASE SaveFails(r)
  <2>1. CASE pc' = [pc EXCEPT ![r] = "conflict"] /\ held' = [held EXCEPT ![r] = {}]
    BY <2>1 DEF Ends, Typed, TypeOK
  <2>. QED
    BY <1>1, <1>3, <2>1 DEF SaveFails, Refuse
<1>4. CASE Receive(r)
  <2>1. PICK c \in Commands :
          /\ command' = [command EXCEPT ![r] = c]
          /\ IF BadCommand(c)
               THEN pc' = [pc EXCEPT ![r] = "done"]
               ELSE /\ pc' = [pc EXCEPT ![r] = IF c.kind = "outbound" THEN "kyc"
                                               ELSE IF Keyed(c) THEN "replay" ELSE "work"]
                    /\ todo' = [todo EXCEPT ![r] = Route(c.kind)]
    BY <1>4 DEF Receive
  <2>2. pc[r] = "idle" /\ UNCHANGED <<held, seen, attempts>>
    BY <1>4 DEF Receive
  <2>3. CASE BadCommand(c)
    BY <2>1, <2>2, <2>3 DEF Ends, Typed, TypeOK
  <2>4. CASE ~BadCommand(c)
    <3>1. pc'[r] \in {"kyc", "replay", "work"} /\ todo'[r] = Route(c.kind) /\ command'[r] = c
      BY <2>1, <2>4 DEF Typed, TypeOK
    <3>. QED
      BY <2>2, <3>1 DEF Starts
  <2>. QED
    BY <2>3, <2>4
<1>5. CASE ReceiveReversal(r) \/ BeginWorker(r)
  <2>1. PICK t \in committed, k \in {"reverse", "worker"} :
          /\ command' = [command EXCEPT ![r] = [command[t] EXCEPT !.kind = k, !.of = t]]
          /\ pc' = [pc EXCEPT ![r] = "work"]
          /\ k # "worker" => todo' = [todo EXCEPT ![r] = Route(k)]
    BY <1>5 DEF ReceiveReversal, BeginWorker
  <2>2. pc[r] = "idle" /\ UNCHANGED <<held, seen, attempts>>
    BY <1>5 DEF ReceiveReversal, BeginWorker
  <2>3. command[t] \in CommandType
    BY DEF Typed, TypeOK, Begun
  <2>4. /\ command'[r].kind = k /\ pc'[r] = "work"
        /\ k # "worker" => todo'[r] = Route(k)
    BY <2>1, <2>3 DEF Typed, TypeOK, CommandType
  <2>. QED
    BY <2>2, <2>4 DEF Starts
<1>6. CASE ReadKyc(r) \/ ReplayMiss(r)
  <2>1. /\ pc[r] \in {"kyc", "replay"}
        /\ pc' = [pc EXCEPT ![r] = "replay"] \/ pc' = [pc EXCEPT ![r] = "work"]
        /\ UNCHANGED <<command, todo, held, seen, attempts>>
    BY <1>6 DEF ReadKyc, ReplayMiss
  <2>. QED
    BY <2>1 DEF Prepares, Typed, TypeOK
<1>7. CASE RetryVictim(r)
  <2>1. /\ command[r].kind = "outbound" /\ UNCHANGED command
        /\ pc'[r] = "replay" /\ todo'[r] = Route("outbound") /\ held'[r] = {}
    BY <1>7 DEF RetryVictim, Typed, TypeOK
  <2>2. attempts'[r] # 0
    BY <1>7, BoundAssumption DEF RetryVictim, Typed, TypeOK
  <2>. QED
    BY <2>1, <2>2 DEF Retries
<1>. QED
  BY <1>2, <1>3, <1>4, <1>5, <1>6, <1>7, ExecutesStatement DEF Acts, Step, Victim
-----------------------------------------------------------------------------
(* How far a request is on its route. *)

(* The first n statements of its route are executed: it holds the rows     *)
(* they took and no other.                                                 *)
Stage(p, n) ==
  LET route == Route(command[p].kind) IN
  /\ Len(todo[p]) = Len(route) - n
  /\ \A i \in 1 .. Len(todo[p]) : todo[p][i] = route[n + i]
  /\ \A x : x \in held[p] <=> \E i \in 1 .. n : TakenRow(p, route[i]) = x
  /\ \A i \in 1 .. n : route[i] = Lock("dest") => ~BadDestination(command[p])
  /\ pc[p] # "work" => n = 0

Active == {"kyc", "replay", "work"}

Progress ==
  \A p \in Request :
    /\ pc[p] = "idle" => seen[p] = NothingSeen
    /\ pc[p] \notin Active => held[p] = {}
    /\ pc[p] \in Active /\ command[p].kind # "worker" =>
         \E n \in 0 .. Len(Route(command[p].kind)) : Stage(p, n)

LEMMA RouteLength ==
  ASSUME NEW k \in Routed
  PROVE  Len(Route(k)) \in Nat
BY RouteType DEF Routed

(* A request is at the start of the route it is given. *)
LEMMA StageFirst ==
  ASSUME NEW p \in Request, command[p].kind \in Routed,
         todo[p] = Route(command[p].kind), held[p] = {}
  PROVE  \E n \in 0 .. Len(Route(command[p].kind)) : Stage(p, n)
<1>1. Len(Route(command[p].kind)) \in Nat
  BY RouteLength
<1>2. Stage(p, 0)
  BY <1>1 DEF Stage
<1>. QED
  BY <1>1, <1>2

LEMMA StageNext ==
  ASSUME Typed, Typed', NEW r \in Request, Executes(r), command[r].kind # "worker",
         NEW n \in 0 .. Len(Route(command[r].kind)), Stage(r, n)
  PROVE  /\ n + 1 \in 0 .. Len(Route(command[r].kind)) /\ Stage(r, n + 1)'
         /\ Head(todo[r]) = Route(command[r].kind)[n + 1]
<1>. DEFINE route == Route(command[r].kind)
            s == Head(todo[r])
<1>1. command[r].kind \in Routed /\ todo[r] \in Seq(Statement) /\ todo[r] # <<>>
  BY DEF Executes, Typed, TypeOK, Begun, CommandType, Routed
<1>2. Len(route) \in Nat
  BY <1>1, RouteLength
<1>3. Len(todo[r]) = Len(route) - n /\ Len(todo[r]) \in Nat \ {0}
  BY <1>1 DEF Stage
<1>4. s = route[n + 1] /\ n + 1 \in 0 .. Len(route)
  BY <1>1, <1>2, <1>3 DEF Stage
<1>5. /\ Len(todo'[r]) = Len(route) - (n + 1)
      /\ \A i \in 1 .. Len(todo'[r]) : todo'[r][i] = route[n + 1 + i]
  <2>1. /\ Len(Tail(todo[r])) = Len(todo[r]) - 1
        /\ \A i \in 1 .. Len(todo[r]) - 1 : Tail(todo[r])[i] = todo[r][i + 1]
    BY <1>1, <1>3
  <2>2. \A i \in 1 .. Len(todo[r]) - 1 : todo[r][i + 1] = route[n + 1 + i]
    <3>. TAKE i \in 1 .. Len(todo[r]) - 1
    <3>1. i + 1 \in 1 .. Len(todo[r]) /\ n + (i + 1) = n + 1 + i
      BY <1>3
    <3>. QED
      BY <3>1 DEF Stage
  <2>3. todo'[r] = Tail(todo[r])
    BY DEF Executes
  <2>4. Len(todo[r]) - 1 = Len(route) - (n + 1)
    BY <1>2, <1>3
  <2>. QED
    BY <2>1, <2>2, <2>3, <2>4
<1>6. command'[r] = command[r]
  BY DEF Executes
<1>7. \A i : i \in 1 .. n + 1 <=> i \in 1 .. n \/ i = n + 1
  BY <1>2
<1>. HIDE DEF s
<1>8. \A x : x \in held'[r] <=>
              \E i \in 1 .. n + 1 : TakenRow(r, route[i])' = x
  <2>1. \A x : x \in held'[r] <=> x \in held[r] \/ x = TakenRow(r, s)
    BY DEF Executes, s
  <2>2. \A x : x \in held[r] <=> \E i \in 1 .. n : TakenRow(r, route[i]) = x
    BY DEF Stage
  <2>. HIDE DEF route
  <2>3. ASSUME NEW x
        PROVE  x \in held'[r] <=>
                 \E i \in 1 .. n + 1 : TakenRow(r, route[i]) = x
    BY <1>4, <1>7, <2>1, <2>2, Zenon
  <2>4. route' = route /\ command'[r] = command[r] /\ chargeDay'[r] = chargeDay[r]
    BY DEF Executes, route
  <2>. QED
    BY <2>3, <2>4 DEF TakenRow, CounterOf, RowOf
<1>9. \A i \in 1 .. n + 1 : route[i] = Lock("dest") => ~BadDestination(command[r])
  BY <1>4, <1>7 DEF Stage, Executes, s
<1>10. pc'[r] = "work"
  BY DEF Executes
<1>. QED
  BY <1>4, <1>5, <1>6, <1>8, <1>9, <1>10 DEF Stage, s

LEMMA InitProgress == Init => Progress
BY DEF Init, Progress, Active
(* A stage depends on nothing of the other requests. *)
LEMMA StageKept ==
  ASSUME NEW p \in Request, NEW n, Stage(p, n),
         pc'[p] = pc[p], command'[p] = command[p], todo'[p] = todo[p],
         held'[p] = held[p], chargeDay'[p] = chargeDay[p]
  PROVE  Stage(p, n)'
BY DEF Stage, TakenRow, CounterOf, RowOf

LEMMA MoverProgress ==
  ASSUME Typed, Typed', Progress, NEW r \in Request, Acts(r)
  PROVE  /\ pc'[r] # "idle"
         /\ pc'[r] \notin Active => held'[r] = {}
         /\ pc'[r] \in Active /\ command'[r].kind # "worker" =>
              \E n \in 0 .. Len(Route(command'[r].kind)) : Stage(r, n)'
<1>. DEFINE Good == /\ pc'[r] # "idle"
                    /\ pc'[r] \notin Active => held'[r] = {}
                    /\ pc'[r] \in Active /\ command'[r].kind # "worker" =>
                         \E n \in 0 .. Len(Route(command'[r].kind)) : Stage(r, n)'
<1>. SUFFICES Good
  OBVIOUS
<1>1. CASE Ends(r)
  BY <1>1 DEF Ends, Progress, Active
<1>2. ASSUME command'[r].kind # "worker" => todo'[r] = Route(command'[r].kind),
             held'[r] = {}, pc'[r] \in Active
      PROVE  Good
  <2>. SUFFICES ASSUME command'[r].kind # "worker" PROVE Good
    BY <1>2 DEF Active
  <2>1. command'[r].kind \in Routed
    BY <1>2 DEF Active, Typed, Begun, CommandType, Routed
  <2>2. Len(Route(command'[r].kind)) \in Nat
    BY <2>1, RouteLength
  <2>3. Stage(r, 0)'
    BY <1>2, <2>2 DEF Stage
  <2>. QED
    BY <1>2, <2>2, <2>3 DEF Active
<1>3. CASE Starts(r)
  BY <1>2, <1>3 DEF Starts, Progress, Active
<1>4. CASE Retries(r)
  BY <1>2, <1>4 DEF Retries, Active
<1>5. CASE Prepares(r)
  <2>. SUFFICES ASSUME command[r].kind # "worker" PROVE Good
    BY <1>5 DEF Prepares, Active
  <2>1. PICK n \in 0 .. Len(Route(command[r].kind)) : Stage(r, n)
    BY <1>5 DEF Prepares, Progress, Active
  <2>2. n = 0
    BY <1>5, <2>1 DEF Prepares, Stage
  <2>3. Stage(r, 0)'
    BY <1>5, <2>1, <2>2 DEF Prepares, Stage
  <2>. QED
    BY <1>5, <2>1, <2>2, <2>3 DEF Prepares, Active
<1>6. CASE Executes(r)
  <2>. SUFFICES ASSUME command[r].kind # "worker" PROVE Good
    BY <1>6 DEF Executes, Active
  <2>1. PICK n \in 0 .. Len(Route(command[r].kind)) : Stage(r, n)
    BY <1>6 DEF Executes, Progress, Active
  <2>2. n + 1 \in 0 .. Len(Route(command[r].kind)) /\ Stage(r, n + 1)'
    BY <1>6, <2>1, StageNext
  <2>. QED
    BY <1>6, <2>2 DEF Executes, Active
<1>. QED
  BY <1>1, <1>3, <1>4, <1>5, <1>6, Moves

Advancing == Typed /\ Progress

LEMMA StepProgress == Advancing /\ [Next]_vars => Progress'
<1>. SUFFICES ASSUME Advancing, [Next]_vars, NEW p \in Request
              PROVE  /\ pc'[p] = "idle" => seen'[p] = NothingSeen
                     /\ pc'[p] \notin Active => held'[p] = {}
                     /\ pc'[p] \in Active /\ command'[p].kind # "worker" =>
                          \E n \in 0 .. Len(Route(command'[p].kind)) : Stage(p, n)'
  BY DEF Progress
<1>0. Typed /\ Typed' /\ Progress
  BY StepTyped DEF Advancing
<1>1. ASSUME seen'[p] = seen[p],
             pc'[p] = pc[p], command'[p] = command[p], todo'[p] = todo[p],
             held'[p] = held[p], chargeDay'[p] = chargeDay[p]
      PROVE  /\ pc'[p] = "idle" => seen'[p] = NothingSeen
             /\ pc'[p] \notin Active => held'[p] = {}
             /\ pc'[p] \in Active /\ command'[p].kind # "worker" =>
                  \E n \in 0 .. Len(Route(command'[p].kind)) : Stage(p, n)'
  BY <1>0, <1>1, StageKept DEF Progress
<1>2. ASSUME NEW r \in Request \ {p}, Acts(r)
      PROVE  /\ seen'[p] = seen[p]
             /\ pc'[p] = pc[p] /\ command'[p] = command[p] /\ todo'[p] = todo[p]
             /\ held'[p] = held[p] /\ chargeDay'[p] = chargeDay[p]
  BY <1>0, <1>2, OthersKept, OthersSeen
<1>3. CASE Acts(p)
  BY <1>0, <1>3, MoverProgress
<1>4. CASE KycDecision \/ Midnight \/ UNCHANGED vars
  BY <1>1, <1>4 DEF KycDecision, Midnight, vars, request
<1>5. CASE \E r \in Request \ {p} : Acts(r)
  BY <1>1, <1>2, <1>5
<1>. QED
  BY <1>3, <1>4, <1>5, NextActs
-----------------------------------------------------------------------------
(* Copies under a lock. *)

(* At its commit a request holds every row it touches. *)
LEMMA HeldAtCommit ==
  ASSUME Typed, Progress, NEW r \in Request, Ready(r), ~Worker(r)
  PROVE  Touched(command[r]) \subseteq held[r]
<1>. SUFFICES ASSUME NEW a \in Touched(command[r]) PROVE a \in held[r]
  OBVIOUS
<1>. DEFINE route == Route(command[r].kind)
<1>1. /\ command[r] \in CommandType /\ command[r].kind \in Routed
      /\ command[r].kind # "worker"
  BY DEF Ready, Worker, Typed, Begun, CommandType, Routed
<1>2. PICK n \in 0 .. Len(route) : Stage(r, n)
  BY <1>1 DEF Ready, Progress, Active
<1>3. Len(route) \in Nat
  BY <1>1, RouteLength
<1>4. n = Len(route)
  BY <1>2, <1>3 DEF Stage, Ready
<1>5. PICK i \in 1 .. Len(route) : TakenRow(r, route[i]) = a
  BY <1>1, RouteCovers
<1>. QED
  BY <1>2, <1>4, <1>5 DEF Stage

(* An API request on its first attempt holds every row it has a copy of,   *)
(* and no commit has happened to it since.                                 *)
Pinned ==
  \A p \in Request :
    pc[p] \in Active /\ command[p].kind # "worker" /\ attempts[p] = 0 =>
      \A a \in Account : seen[p][a] # None => a \in held[p] /\ seen[p][a].version = version[a]

Fresh == Typed /\ Progress /\ LocksExclusive /\ TrackedRowsGenuine /\ Pinned

LEMMA InitFresh == Init => Fresh
BY InitTyped, InitProgress, InitLocked, InitGenuine
   DEF Init, Fresh, Pinned, Active, Locked, Genuine

(* A step changes the version only of rows that its request, or the        *)
(* worker's transaction, holds.                                            *)
LEMMA VersionSteps ==
  ASSUME Typed, Progress, TrackedRowsGenuine, NEW r \in Request, Acts(r), NEW a \in Account
  PROVE  version'[a] = version[a] \/ (a \in held[r] /\ pc[r] = "work" /\ ~Executes(r))
<1>1. [Next]_vars
  BY NextActs
<1>2. CASE UNCHANGED db
  BY <1>2 DEF db
<1>3. ASSUME NEW q \in Request, Commit(q), version'[a] # version[a] PROVE q = r /\ a \in held[q]
  <2>1. pc[q] = "work" /\ pc'[q] = "done"
    BY <1>3 DEF Commit, Ready, Answer, Typed, TypeOK
  <2>2. q = r
    BY <2>1, OthersKept
  <2>3. a \in Touched(command[q])
    <3>1. version[a] \in Nat
      BY DEF Typed, TypeOK
    <3>2. version'[a] = version[a] + (IF a \in Touched(command[q]) THEN 1 ELSE 0)
      BY <1>3, CommitWrites
    <3>. QED
      BY <1>3, <3>1, <3>2
  <2>. QED
    BY <1>3, <2>2, <2>3, HeldAtCommit DEF Commit
<1>4. ASSUME NEW q \in Request, CommitWorker(q), version'[a] # version[a]
      PROVE  q = r /\ a \in held[q]
  <2>1. pc[q] = "work" /\ pc'[q] = "done"
    BY <1>4 DEF CommitWorker, Ready, Answer, Typed, TypeOK
  <2>2. q = r
    BY <2>1, OthersKept
  <2>. QED
    BY <1>4, <2>2, WorkerWrites
<1>5. ASSUME Commit(r) \/ CommitWorker(r) PROVE pc[r] = "work" /\ ~Executes(r)
  BY <1>5 DEF Commit, CommitWorker, Ready, Executes, Answer, Typed, TypeOK
<1>. QED
  BY <1>1, <1>2, <1>3, <1>4, <1>5, OnlyCommitWrites

LEMMA MoverPinned ==
  ASSUME Fresh, Typed', Progress', NEW r \in Request, Acts(r),
         pc'[r] \in Active, command'[r].kind # "worker", attempts'[r] = 0,
         NEW a \in Account, seen'[r][a] # None
  PROVE  a \in held'[r] /\ seen'[r][a].version = version'[a]
<1>0. Typed /\ Progress
  BY DEF Fresh
<1>1. CASE Ends(r)
  BY <1>1 DEF Ends, Active
<1>2. CASE Starts(r)
  <2>1. seen'[r] = NothingSeen
    BY <1>0, <1>2 DEF Starts, Progress
  <2>. QED
    BY <2>1 DEF NothingSeen
<1>3. CASE Retries(r)
  BY <1>3 DEF Retries
<1>4. CASE Prepares(r)
  <2>1. /\ seen'[r] = seen[r] /\ held'[r] = held[r]
        /\ a \in held[r] /\ seen[r][a].version = version[a]
    BY <1>4 DEF Prepares, Fresh, Pinned, Active
  <2>2. pc[r] # "work"
    BY <1>4 DEF Prepares
  <2>. QED
    BY <1>0, <2>1, <2>2, VersionSteps DEF Fresh
<1>5. CASE Executes(r)
  <2>1. version'[a] = version[a]
    BY <1>5 DEF Executes
  <2>6. CASE seen'[r][a] = seen[r][a]
    BY <1>5, <2>1, <2>6 DEF Executes, Fresh, Pinned, Active
  <2>7. CASE seen'[r][a] = CurrentRow(a) /\ a = TakenRow(r, Head(todo[r]))
    BY <1>5, <2>1, <2>7 DEF Executes, CurrentRow
  <2>. QED
    BY <1>5, <2>6, <2>7 DEF Executes
<1>. QED
  BY <1>0, <1>1, <1>2, <1>3, <1>4, <1>5, Moves

LEMMA StepFresh == Fresh /\ [Next]_vars => Fresh'
<1>. SUFFICES ASSUME Fresh, [Next]_vars PROVE Fresh'
  OBVIOUS
<1>1. Typed' /\ Progress' /\ LocksExclusive' /\ TrackedRowsGenuine'
  BY StepTyped, StepProgress, StepLocked, StepGenuine DEF Fresh, Advancing, Locked, Genuine
<1>2. ASSUME NEW p \in Request, NEW a \in Account,
             pc'[p] \in Active, command'[p].kind # "worker", attempts'[p] = 0,
             seen'[p][a] # None
      PROVE  a \in held'[p] /\ seen'[p][a].version = version'[a]
  <2>1. CASE Acts(p)
    BY <1>1, <1>2, <2>1, MoverPinned
  <2>2. ASSUME NEW r \in Request \ {p}, Acts(r)
        PROVE  a \in held'[p] /\ seen'[p][a].version = version'[a]
    <3>1. /\ seen'[p] = seen[p] /\ attempts'[p] = attempts[p]
          /\ pc'[p] = pc[p] /\ command'[p] = command[p] /\ held'[p] = held[p]
      BY <2>2, OthersKept, OthersSeen DEF Fresh
    <3>2. a \in held[p] /\ seen[p][a].version = version[a]
      BY <1>2, <3>1 DEF Fresh, Pinned
    <3>3. a \notin held[r]
      BY <3>2 DEF Fresh, LocksExclusive
    <3>4. version'[a] = version[a]
      BY <2>2, <3>3, VersionSteps DEF Fresh
    <3>. QED
      BY <3>1, <3>2, <3>4
  <2>3. CASE KycDecision \/ Midnight \/ UNCHANGED vars
    BY <1>2, <2>3 DEF KycDecision, Midnight, vars, db, request, Fresh, Pinned
  <2>. QED
    BY <2>1, <2>2, <2>3, NextActs
<1>. QED
  BY <1>1, <1>2 DEF Fresh, Pinned

LEMMA AlwaysFresh == Spec => []Fresh
BY InitFresh, StepFresh, PTL DEF Spec

(* The row locks suffice: whatever the worker's unlocked updates write, an *)
(* API request that has not been retried never fails at SaveChanges for a  *)
(* row that has changed under it.                                          *)
THEOREM LocksAreEnough == Spec => []LocksSuffice
<1>1. Fresh => LocksSuffice
  <2>. SUFFICES ASSUME Fresh, NEW r \in Request, Ready(r),
                       command[r].kind # "worker", attempts[r] = 0,
                       NEW a \in Touched(command[r])
                PROVE  Tracked(r, a).version = version[a]
    BY DEF LocksSuffice, StaleRow, Worker
  <2>1. a \in Account
    BY DEF Touched
  <2>2. seen[r][a] # None => seen[r][a].version = version[a]
    BY <2>1 DEF Fresh, Pinned, Ready, Active
  <2>. QED
    BY <2>2 DEF Tracked, CurrentRow
<1>. QED
  BY <1>1, AlwaysFresh, PTL
-----------------------------------------------------------------------------
(* The order of the locks. *)

(* A statement's place in the order is that of the row it takes. *)
LEMMA RankIsLevel ==
  ASSUME Typed, NEW r \in Request, pc[r] # "idle", NEW s \in Statement,
         s[1] \in {"merge", "lock"}, Level(s) \in 0 .. 4,
         s = Lock("dest") => command[r].dest \in Wallet
  PROVE  Rank(TakenRow(r, s)) = Level(s)
<1>1. command[r].source \in Wallet /\ CounterOf(r) \in Counter
  BY DEF Typed, TypeOK, Begun, CommandType, CounterOf, Counter
<1>2. CASE s[1] = "merge"
  <2>1. Level(s) = 0
    BY <1>2 DEF Level
  <2>2. TakenRow(r, s) \in Counter
    BY <1>1, <1>2 DEF TakenRow
  <2>3. Rank(TakenRow(r, s)) = 0
    BY <2>2, Names DEF Rank
  <2>. QED
    BY <2>1, <2>3
<1>3. CASE s[1] = "lock" /\ s[2] \in {"source", "dest"}
  <2>1. s[2] = "dest" => s = Lock("dest")
    BY <1>3 DEF Lock, Statement
  <2>2. TakenRow(r, s) \in Wallet
    BY <1>1, <1>3, <2>1 DEF TakenRow, RowOf
  <2>3. Rank(TakenRow(r, s)) = 1
    BY <2>2, Names DEF Rank
  <2>4. s[1] # "merge" /\ s[2] \notin System
    BY <1>3, Names
  <2>5. Level(s) = 1
    BY <1>3, <2>4, Names DEF Level
  <2>. QED
    BY <2>3, <2>5
<1>4. CASE s[1] = "lock" /\ s[2] \in System
  <2>1. TakenRow(r, s) = s[2]
    BY <1>4, Names DEF TakenRow, RowOf
  <2>. QED
    BY <1>4, <2>1, Names DEF Rank, Level, System
<1>. QED
  BY <1>2, <1>3, <1>4 DEF Statement, Payer

(* A request of an ordered kind that holds rows waits only for a row later *)
(* in the order than each of them.                                         *)
LEMMA WantsHigher ==
  ASSUME Typed, Progress, NEW r \in Request, command[r].kind \notin Unordered,
         NEW x \in Wants(r), NEW y \in held[r]
  PROVE  Rank(x) \in 0 .. 4 /\ Rank(y) \in 0 .. 4 /\ Rank(y) < Rank(x)
<1>. DEFINE route == Route(command[r].kind)
            s == Head(todo[r])
<1>1. pc[r] = "work" /\ todo[r] # <<>>
  BY DEF Wants, At
<1>2. /\ command[r].kind \in Kind \ Unordered /\ command[r].kind \in Routed
      /\ command[r].kind # "worker" /\ todo[r] \in Seq(Statement)
  BY <1>1 DEF Typed, TypeOK, Begun, CommandType, Unordered, Routed
<1>3. route \in Seq(Statement) /\ Len(route) \in Nat
  BY <1>2, RouteType, RouteLength DEF Routed
<1>4. PICK n \in 0 .. Len(route) : Stage(r, n)
  BY <1>1, <1>2 DEF Progress, Active
<1>5. Len(todo[r]) \in Nat \ {0} /\ Len(todo[r]) = Len(route) - n
  BY <1>1, <1>2, <1>4 DEF Stage
<1>6. n + 1 \in 1 .. Len(route) /\ s = route[n + 1]
  BY <1>2, <1>3, <1>4, <1>5 DEF Stage
<1>7. PICK i \in 1 .. n : TakenRow(r, route[i]) = y
  BY <1>4 DEF Stage
<1>8. i \in 1 .. Len(route) /\ i < n + 1 /\ n + 1 # 1
  BY <1>3, <1>6, <1>7
<1>. HIDE DEF s, route
<1>9. /\ Level(route[i]) < Level(s)
      /\ s[1] \in {"merge", "lock"} /\ route[i][1] \in {"merge", "lock"}
      /\ Level(s) \in 0 .. 4 /\ Level(route[i]) \in 0 .. 4
      /\ s # Lock("dest")
  BY <1>2, <1>6, <1>8, RouteOrder DEF route
<1>10. s \in Statement /\ route[i] \in Statement
  BY <1>3, <1>6, <1>8
<1>11. x = TakenRow(r, s)
  <2>1. \/ x \in {CounterOf(r)} /\ s[1] = "merge"
        \/ x \in {Operand(r)} /\ s[1] # "merge"
    BY <1>9 DEF Wants, At, s
  <2>. QED
    BY <2>1 DEF TakenRow, Operand, s
<1>12. route[i] = Lock("dest") => command[r].dest \in Wallet
  BY <1>4, <1>7 DEF Stage, BadDestination, route
<1>13. Rank(x) = Level(s)
  BY <1>1, <1>9, <1>10, <1>11, RankIsLevel
<1>14. Rank(y) = Level(route[i])
  BY <1>1, <1>7, <1>9, <1>10, <1>12, RankIsLevel
<1>. QED
  BY <1>9, <1>13, <1>14

(* The API's lock order, counter before wallet before Settlement before    *)
(* income before VAT, is free of deadlock: around a circle of requests     *)
(* that keep it the ranks of the rows waited for would have to rise for    *)
(* ever, so that an internal transfer or a worker is on it.                *)
THEOREM LockOrderIsSafe == Spec => []CyclesNeedInternalOrWorker
<1>1. Fresh => CyclesNeedInternalOrWorker
  <2>. SUFFICES ASSUME Fresh, NEW S \in SUBSET Request, WaitCycle(S),
                       \A r \in S : command[r].kind \notin Unordered
                PROVE  FALSE
    BY DEF CyclesNeedInternalOrWorker, Unordered
  <2>. DEFINE Waits(d) == \E r \in S : \E x \in Wants(r) : Rank(x) = d
  <2>1. ASSUME NEW r \in S
        PROVE  /\ \E y : y \in held[r]
               /\ \E p \in S : \E x : x \in Wants(r) /\ x \in held[p]
    BY DEF WaitCycle, BlockedBy
  <2>2. ASSUME NEW r \in S, NEW x \in Wants(r)
        PROVE  Rank(x) \in 0 .. 4
    BY <2>1, WantsHigher DEF Fresh
  <2>3. ASSUME NEW r \in S
        PROVE  \E x \in Wants(r), p \in S : x \in held[p] /\ \E z \in Wants(p) : Rank(x) < Rank(z)
    <3>1. PICK p \in S, x \in Wants(r) : x \in held[p]
      BY <2>1
    <3>2. PICK z : z \in Wants(p)
      BY <2>1
    <3>3. Rank(x) < Rank(z)
      BY <3>1, <3>2, WantsHigher DEF Fresh
    <3>. QED
      BY <3>1, <3>2, <3>3
  <2>4. ASSUME NEW r \in S, NEW x \in Wants(r)
        PROVE  \E p \in S : \E z \in Wants(p) : Rank(x) < Rank(z)
    <3>1. \A u, v \in Wants(r) : u = v
      BY DEF Wants
    <3>. QED
      BY <2>3, <3>1
  <2>5. ~Waits(4)
    BY <2>2, <2>4
  <2>6. ~Waits(3)
    BY <2>2, <2>4, <2>5
  <2>7. ~Waits(2)
    BY <2>2, <2>4, <2>5, <2>6
  <2>8. ~Waits(1)
    BY <2>2, <2>4, <2>5, <2>6, <2>7
  <2>9. ~Waits(0)
    BY <2>2, <2>4, <2>5, <2>6, <2>7, <2>8
  <2>10. \A r \in S : FALSE
    BY <2>1, <2>2, <2>5, <2>6, <2>7, <2>8, <2>9
  <2>. QED
    BY <2>10 DEF WaitCycle
<1>. QED
  BY <1>1, AlwaysFresh, PTL
==============================================================================
