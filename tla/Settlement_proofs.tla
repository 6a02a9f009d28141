--------------------------- MODULE Settlement_proofs ---------------------------
(***************************************************************************)
(* Proofs about Settlement, for any number of transfers and whatever the   *)
(* rail may answer: its types; what a settled status is worth, for any     *)
(* workers, queries, reposts and faults; that a settled payout is not      *)
(* refunded, for any workers and queries, crashes and failures of the      *)
(* rail; that an instruction is given once and refunded only if unpaid,    *)
(* for any workers and queries; and the life cycle, for one worker and any *)
(* faults but an exception in the middle of a reversal.                    *)
(***************************************************************************)
EXTENDS Settlement, TLAPS

-----------------------------------------------------------------------------
(* Rows, copies and changes. *)

(* A saved column has its old value or the new one, and the new one where  *)
(* that differs from the copy.                                             *)
LEMMA SavedTransfer ==
  ASSUME NEW row \in TransferRow, NEW copy, NEW new \in TransferRow
  PROVE  /\ Saved(row, copy, new) \in TransferRow
         /\ Saved(row, copy, new).status =
              (IF new.status = copy.status THEN row.status ELSE new.status)
         /\ Saved(row, copy, new).ref = (IF new.ref = copy.ref THEN row.ref ELSE new.ref)
<1>1. DOMAIN row = {"status", "ref"}
  BY DEF TransferRow
<1>2. Saved(row, copy, new) = [status |-> IF new.status = copy.status THEN row.status ELSE new.status,
                               ref |-> IF new.ref = copy.ref THEN row.ref ELSE new.ref]
  BY <1>1 DEF Saved
<1>. QED
  BY <1>2 DEF TransferRow

LEMMA SavedJob ==
  ASSUME NEW row \in JobRow, NEW copy, NEW new \in JobRow
  PROVE  Saved(row, copy, new) \in JobRow
<1>1. DOMAIN row = {"status", "attempts", "due"}
  BY DEF JobRow
<1>2. Saved(row, copy, new) =
        [status |-> IF new.status = copy.status THEN row.status ELSE new.status,
         attempts |-> IF new.attempts = copy.attempts THEN row.attempts ELSE new.attempts,
         due |-> IF new.due = copy.due /\ new = copy THEN row.due ELSE new.due]
  BY <1>1 DEF Saved
<1>. QED
  BY <1>2 DEF JobRow

LEMMA Changed ==
  ASSUME NEW j \in JobRow, NEW b \in BOOLEAN
  PROVE  Claim(j) \in JobRow /\ Succeed(j) \in JobRow /\ Fail(j, b) \in JobRow
<1>1. Claim(j) \in JobRow
  BY DEF JobRow, JobStatus, Claim
<1>2. Succeed(j) \in JobRow
  BY DEF JobRow, JobStatus, Succeed
<1>3. Fail(j, b) \in JobRow
  <2>1. ASSUME NEW st \in JobStatus
        PROVE  [j EXCEPT !.status = st, !.due = FALSE] \in JobRow
    BY DEF JobRow
  <2>. QED
    BY <2>1 DEF JobStatus, Fail
<1>. QED
  BY <1>1, <1>2, <1>3

LEMMA Constructed ==
  /\ Reposted \in JobRow
  /\ [status |-> "Submitted", ref |-> FALSE] \in TransferRow
  /\ NoAnswer \in [answer : Verdict, ref : BOOLEAN, pays : BOOLEAN]
  /\ \A s \in TransferStatus, tr \in TransferRow : Mark(tr, s) \in TransferRow /\ Mark(tr, s).status = s
  /\ Unchanged \in Change /\ NothingPending \in [Transfer -> Change]
  /\ Nothing \in [Transfer -> TransferRow \cup {None}] /\ Nothing \in [Transfer -> JobRow \cup {None}]
<1>1. Unchanged \in Change
  BY DEF Unchanged, Change
<1>. QED
  BY <1>1 DEF Reposted, JobRow, JobStatus, TransferRow, TransferStatus, NoAnswer, Verdict, Mark,
     NothingPending, Nothing

(* The types of what the DbContexts hold. *)
ContextTyped ==
  /\ transfer \in [Transfer -> TransferRow]
  /\ job \in [Transfer -> JobRow]
  /\ seenTransfer \in [Actor -> [Transfer -> TransferRow \cup {None}]]
  /\ seenJob \in [Actor -> [Transfer -> JobRow \cup {None}]]
  /\ pending \in [Actor -> [Transfer -> Change]]

LEMMA EntitiesTyped ==
  ASSUME ContextTyped, NEW a \in Actor, NEW t \in Transfer
  PROVE  /\ OriginalTransfer(a, t) \in TransferRow /\ TransferOf(a, t) \in TransferRow
         /\ OriginalJob(a, t) \in JobRow /\ JobOf(a, t) \in JobRow
<1>1. /\ transfer[t] \in TransferRow /\ job[t] \in JobRow
      /\ seenTransfer[a][t] \in TransferRow \cup {None} /\ seenJob[a][t] \in JobRow \cup {None}
      /\ pending[a][t] \in Change
  BY DEF ContextTyped
<1>2. pending[a][t].transfer \in TransferRow \cup {None} /\ pending[a][t].job \in JobRow \cup {None}
  BY <1>1 DEF Change
<1>3. OriginalTransfer(a, t) \in TransferRow /\ OriginalJob(a, t) \in JobRow
  BY <1>1 DEF OriginalTransfer, OriginalJob, Either
<1>. QED
  BY <1>2, <1>3 DEF TransferOf, JobOf, Either

LEMMA WriteTyped ==
  ASSUME ContextTyped, refunds \in [Transfer -> Nat], NEW a \in Actor,
         NEW changes \in [Transfer -> Change], Write(a, changes)
  PROVE  /\ transfer' \in [Transfer -> TransferRow]
         /\ job' \in [Transfer -> JobRow]
         /\ refunds' \in [Transfer -> Nat]
         /\ \A t \in Transfer :
              /\ refunds'[t] = refunds[t] + changes[t].credits
              /\ changes[t].transfer = None => transfer'[t] = transfer[t]
              /\ changes[t].transfer # None =>
                   transfer'[t].status =
                     IF changes[t].transfer.status = OriginalTransfer(a, t).status
                       THEN transfer[t].status ELSE changes[t].transfer.status
<1>1. ASSUME NEW t \in Transfer
      PROVE  /\ transfer'[t] \in TransferRow /\ job'[t] \in JobRow /\ refunds'[t] \in Nat
             /\ refunds'[t] = refunds[t] + changes[t].credits
             /\ changes[t].transfer = None => transfer'[t] = transfer[t]
             /\ changes[t].transfer # None =>
                  transfer'[t].status =
                    IF changes[t].transfer.status = OriginalTransfer(a, t).status
                      THEN transfer[t].status ELSE changes[t].transfer.status
  <2>1. /\ transfer[t] \in TransferRow /\ job[t] \in JobRow /\ refunds[t] \in Nat
        /\ changes[t] \in Change
    BY DEF ContextTyped
  <2>2. /\ changes[t].transfer \in TransferRow \cup {None}
        /\ changes[t].job \in JobRow \cup {None}
        /\ changes[t].credits \in Nat
    BY <2>1 DEF Change
  <2>3. /\ refunds'[t] = refunds[t] + changes[t].credits
        /\ transfer'[t] = IF changes[t].transfer = None THEN transfer[t]
                          ELSE Saved(transfer[t], OriginalTransfer(a, t), changes[t].transfer)
        /\ job'[t] = IF changes[t].job = None THEN job[t]
                     ELSE IF lockedBy[t] = a /\ at[a] = t THEN changes[t].job
                     ELSE Saved(job[t], OriginalJob(a, t), changes[t].job)
    BY DEF Write
  <2>4. job'[t] \in JobRow
    BY <2>1, <2>2, <2>3, SavedJob
  <2>5. /\ transfer'[t] \in TransferRow
        /\ changes[t].transfer = None => transfer'[t] = transfer[t]
        /\ changes[t].transfer # None =>
             transfer'[t].status =
               IF changes[t].transfer.status = OriginalTransfer(a, t).status
                 THEN transfer[t].status ELSE changes[t].transfer.status
    <3>1. CASE changes[t].transfer = None
      BY <2>1, <2>3, <3>1
    <3>2. CASE changes[t].transfer # None
      <4>1. changes[t].transfer \in TransferRow
        BY <2>2, <3>2
      <4>. QED
        BY <2>1, <2>3, <3>2, <4>1, SavedTransfer
    <3>. QED
      BY <3>1, <3>2
  <2>6. refunds'[t] \in Nat
    BY <2>1, <2>2, <2>3
  <2>7. refunds'[t] = refunds[t] + changes[t].credits
    BY <2>3
  <2>. QED
    BY <2>4, <2>5, <2>6, <2>7, ZenonT(30)
<1>2. transfer' = [t \in Transfer |-> transfer'[t]] /\ job' = [t \in Transfer |-> job'[t]]
      /\ refunds' = [t \in Transfer |-> refunds'[t]]
  BY DEF Write
<1>. QED
  BY <1>1, <1>2

LEMMA AcceptTyped ==
  ASSUME ContextTyped, NEW a \in Actor, NEW accepted \in [Transfer -> Change],
         NEW left \in [Transfer -> Change], Accept(a, accepted, left)
  PROVE  /\ seenTransfer' \in [Actor -> [Transfer -> TransferRow \cup {None}]]
         /\ seenJob' \in [Actor -> [Transfer -> JobRow \cup {None}]]
         /\ pending' \in [Actor -> [Transfer -> Change]]
         /\ pending'[a] = left
         /\ \A t \in Transfer : /\ seenTransfer'[a][t] = Either(accepted[t].transfer, seenTransfer[a][t])
                                /\ seenJob'[a][t] = Either(accepted[t].job, seenJob[a][t])
         /\ \A b \in Actor \ {a} : /\ seenTransfer'[b] = seenTransfer[b] /\ seenJob'[b] = seenJob[b]
                                   /\ pending'[b] = pending[b]
<1>. DEFINE trs == [t \in Transfer |-> Either(accepted[t].transfer, seenTransfer[a][t])]
            js == [t \in Transfer |-> Either(accepted[t].job, seenJob[a][t])]
<1>1. ASSUME NEW t \in Transfer
      PROVE  trs[t] \in TransferRow \cup {None} /\ js[t] \in JobRow \cup {None}
  <2>1. accepted[t].transfer \in TransferRow \cup {None} /\ accepted[t].job \in JobRow \cup {None}
    BY DEF Change
  <2>. QED
    BY <2>1 DEF Either, ContextTyped
<1>2. trs \in [Transfer -> TransferRow \cup {None}] /\ js \in [Transfer -> JobRow \cup {None}]
  BY <1>1
<1>3. /\ seenTransfer' = [seenTransfer EXCEPT ![a] = trs] /\ seenJob' = [seenJob EXCEPT ![a] = js]
      /\ pending' = [pending EXCEPT ![a] = left]
  BY DEF Accept
<1>4. \A t \in Transfer : /\ trs[t] = Either(accepted[t].transfer, seenTransfer[a][t])
                          /\ js[t] = Either(accepted[t].job, seenJob[a][t])
  OBVIOUS
<1>. HIDE DEF trs, js
<1>. QED
  BY <1>2, <1>3, <1>4 DEF ContextTyped

-----------------------------------------------------------------------------
(* Types.  TypeOK is not inductive: that a copy is a row, not None, where  *)
(* it is used depends on where its actor is.                               *)

WorkerAt(w) ==
  /\ pc[w] \in {"idle", "jobs", "claimed", "skipping", "sending", "sent", "status", "asking",
                "resolving"}
  /\ Dispatching(w) =>
       /\ lockedBy[at[w]] = w
       /\ at[w] \notin jobs[w]
       /\ seenJob[w][at[w]] \in JobRow
  /\ pc[w] \in {"status", "asking", "resolving"} => jobs[w] = {}
  /\ \A t \in jobs[w] : seenJob[w][t] \in JobRow
  /\ \A t \in unknowns[w] : seenTransfer[w][t] \in TransferRow

ResolverAt(a) ==
  /\ pc[a] \in {"claimed", "skipping", "sending", "sent", "asking", "resolving"} => at[a] \in Transfer
  /\ pc[a] \in {"skipping", "sending", "sent", "asking", "resolving"} =>
       seenTransfer[a][at[a]] \in TransferRow

QuerierAt(q) == pc[q] \in {"idle", "asking", "resolving"}

AdminAt(d) ==
  /\ pc[d] \in {"idle", "reading", "reposting"}
  /\ pc[d] # "idle" => at[d] \in Transfer

Placed ==
  /\ \A w \in Worker : WorkerAt(w)
  /\ \A a \in Resolver : ResolverAt(a)
  /\ \A q \in Querier : QuerierAt(q)
  /\ \A d \in Admin : AdminAt(d)

Typed == TypeOK /\ Placed

LEMMA TypedInit ==
  ASSUME Init
  PROVE  Typed
<1>1. TypeOK
  <2>1. /\ transfer \in [Transfer -> TransferRow] /\ job \in [Transfer -> JobRow]
    BY DEF Init, TransferRow, TransferStatus, JobRow, JobStatus
  <2>2. /\ seenTransfer \in [Actor -> [Transfer -> TransferRow \cup {None}]]
        /\ seenJob \in [Actor -> [Transfer -> JobRow \cup {None}]]
        /\ pending \in [Actor -> [Transfer -> Change]]
        /\ answer \in [Resolver -> [answer : Verdict, ref : BOOLEAN, pays : BOOLEAN]]
        /\ lockedBy \in [Transfer -> Worker \cup {None}]
    BY Constructed DEF Init, Nothing
  <2>. QED
    BY <2>1, <2>2, LimitAssumption DEF Init, TypeOK
<1>2. Placed
  BY ActorAssumption
     DEF Init, Placed, WorkerAt, ResolverAt, QuerierAt, AdminAt, Dispatching, Actor, Resolver
<1>. QED
  BY <1>1, <1>2 DEF Typed

(* Actors are told apart by their kind. *)
LEMMA Kinds ==
  /\ \A w \in Worker : w \in Resolver /\ w \in Actor /\ w \notin Querier /\ w \notin Admin
  /\ \A q \in Querier : q \in Resolver /\ q \in Actor /\ q \notin Worker /\ q \notin Admin
  /\ \A d \in Admin : d \in Actor /\ d \notin Worker /\ d \notin Querier /\ d \notin Resolver
  /\ \A a \in Resolver : a \in Actor
  /\ None \notin Worker /\ None \notin Transfer /\ None \notin TransferRow /\ None \notin JobRow
BY ActorAssumption DEF Actor, Resolver

LEMMA TypedContext ==
  ASSUME Typed
  PROVE  ContextTyped
BY DEF Typed, TypeOK, ContextTyped

(* What becomes of a transfer is a change; its status and its credits. *)
LEMMA ChangesTyped ==
  ASSUME Typed, NEW a \in Resolver, at[a] \in Transfer
  PROVE  /\ Skipped(a) \in Change /\ Skipped(a).transfer = None /\ Skipped(a).credits = 0
         /\ FailedJob(a) \in JobRow
         /\ Recorded(a) \in Change
         /\ Recorded(a).transfer \in TransferRow /\ Recorded(a).transfer.status = Outcome(answer[a])
         /\ Recorded(a).credits = (IF Outcome(answer[a]) = "Failed" THEN 1 ELSE 0)
         /\ Answered(a) \in Change
         /\ answer[a].answer = "Unknown" => Answered(a) = pending[a][at[a]]
         /\ answer[a].answer # "Unknown" =>
              /\ Answered(a).transfer \in TransferRow
              /\ Answered(a).transfer.status = (IF answer[a].answer = "Sent" THEN "Settled" ELSE "Failed")
              /\ Answered(a).credits =
                   pending[a][at[a]].credits + (IF answer[a].answer = "Failed" THEN 1 ELSE 0)
<1>. DEFINE t == at[a]
            j == JobOf(a, t)
            tr == TransferOf(a, t)
            change == pending[a][t]
<1>1. a \in Actor /\ ContextTyped
  BY Kinds, TypedContext
<1>2. j \in JobRow /\ tr \in TransferRow
  BY <1>1, EntitiesTyped
<1>3. /\ change \in Change /\ answer[a].answer \in Verdict /\ answer[a].ref \in BOOLEAN
  BY <1>1 DEF Typed, TypeOK
<1>. HIDE DEF j, tr, change
<1>4. (j.attempts >= MaxJobAttempts) \in BOOLEAN
  OBVIOUS
<1>5. /\ Succeed(j) \in JobRow /\ Fail(j, FALSE) \in JobRow /\ FailedJob(a) \in JobRow
  BY <1>2, <1>4, Changed DEF FailedJob, j
<1>6. Skipped(a) \in Change /\ Skipped(a).transfer = None /\ Skipped(a).credits = 0
  BY <1>5 DEF Skipped, Unchanged, Change, j
<1>7. /\ Recorded(a).transfer \in TransferRow /\ Recorded(a).transfer.status = Outcome(answer[a])
      /\ Recorded(a).credits = (IF Outcome(answer[a]) = "Failed" THEN 1 ELSE 0)
      /\ Recorded(a) \in Change
  <2>. DEFINE new == [status |-> Outcome(answer[a]), ref |-> tr.ref \/ answer[a].ref]
              newJob == CASE Outcome(answer[a]) = "Settled" -> Succeed(j)
                          [] Outcome(answer[a]) = "Failed"  -> FailedJob(a)
                          [] OTHER                          -> Fail(j, FALSE)
              credits == IF Outcome(answer[a]) = "Failed" THEN 1 ELSE 0
  <2>1. Outcome(answer[a]) \in TransferStatus
    BY DEF Outcome, TransferStatus
  <2>2. new \in TransferRow /\ new.status = Outcome(answer[a])
    BY <1>2, <1>3, <2>1 DEF TransferRow
  <2>3. newJob \in JobRow
    BY <1>5
  <2>4. Recorded(a) = [transfer |-> new, job |-> newJob, credits |-> credits]
    BY DEF Recorded, tr, j
  <2>5. credits \in Nat
    OBVIOUS
  <2>. HIDE DEF new, newJob, credits
  <2>6. Recorded(a) \in Change
    BY <2>2, <2>3, <2>4, <2>5 DEF Change
  <2>. QED
    BY <2>2, <2>4, <2>6 DEF credits
<1>8. /\ answer[a].answer = "Unknown" => Answered(a) = change
      /\ answer[a].answer # "Unknown" =>
              /\ Answered(a) \in Change
              /\ Answered(a).transfer \in TransferRow
              /\ Answered(a).transfer.status = (IF answer[a].answer = "Sent" THEN "Settled" ELSE "Failed")
              /\ Answered(a).credits = change.credits + (IF answer[a].answer = "Failed" THEN 1 ELSE 0)
  <2>1. /\ Mark(tr, "Settled") \in TransferRow /\ Mark(tr, "Failed") \in TransferRow
        /\ Mark(tr, "Settled").status = "Settled" /\ Mark(tr, "Failed").status = "Failed"
    BY <1>2, Constructed DEF TransferStatus
  <2>2. CASE answer[a].answer = "Unknown"
    BY <2>2 DEF Answered, change
  <2>3. CASE answer[a].answer = "Sent"
    <3>1. Answered(a) = [change EXCEPT !.transfer = Mark(tr, "Settled"), !.job = Succeed(j)]
      BY <2>3 DEF Answered, change, tr, j
    <3>2. Answered(a) = [transfer |-> Mark(tr, "Settled"), job |-> Succeed(j), credits |-> change.credits]
      BY <1>3, <3>1 DEF Change
    <3>3. change.credits \in Nat
      BY <1>3 DEF Change
    <3>4. Answered(a) \in Change
      BY <1>5, <2>1, <3>2, <3>3 DEF Change
    <3>. QED
      BY <2>1, <2>3, <3>2, <3>3, <3>4
  <2>4. CASE answer[a].answer = "Failed"
    <3>. DEFINE newJob == IF a \in Worker THEN FailedJob(a) ELSE change.job
    <3>1. Answered(a) = [change EXCEPT !.transfer = Mark(tr, "Failed"), !.credits = @ + 1, !.job = newJob]
      BY <2>4 DEF Answered, change, tr
    <3>2. newJob \in JobRow \cup {None}
      BY <1>3, <1>5 DEF Change
    <3>. HIDE DEF newJob
    <3>3. Answered(a) = [transfer |-> Mark(tr, "Failed"), job |-> newJob, credits |-> change.credits + 1]
      BY <1>3, <3>1 DEF Change
    <3>4. change.credits \in Nat
      BY <1>3 DEF Change
    <3>5. Answered(a) \in Change
      BY <2>1, <3>2, <3>3, <3>4 DEF Change
    <3>. QED
      BY <2>1, <2>4, <3>3, <3>5
  <2>. QED
    BY <1>3, <2>2, <2>3, <2>4 DEF Verdict
<1>9. Answered(a) \in Change
  BY <1>3, <1>8
<1>. QED
  BY <1>5, <1>6, <1>7, <1>8, <1>9 DEF t, change

LEMMA TypedLoadJobs ==
  ASSUME Typed, NEW w \in Worker, LoadJobs(w)
  PROVE  Typed'
<1>1. TypeOK'
  BY Kinds DEF Typed, TypeOK, LoadJobs, store, rail, bounds
<1>2. Placed'
  BY Kinds DEF Typed, TypeOK, Placed, WorkerAt, ResolverAt, QuerierAt, AdminAt, Dispatching, LoadJobs,
     store, rail, bounds, Resolver, Actor
<1>. QED
  BY <1>1, <1>2 DEF Typed

LEMMA TypedClaimJob ==
  ASSUME Typed, NEW w \in Worker, NEW t \in Transfer, ClaimJob(w, t)
  PROVE  Typed'
<1>. DEFINE saved == {t} \cup {u \in Transfer : pending[w][u].job # None}
<1>1. Claim(seenJob[w][t]) \in JobRow
  BY Changed DEF Typed, Placed, WorkerAt, ClaimJob
<1>2. /\ pc[w] = "jobs" /\ t \in jobs[w]
      /\ \A u \in saved : lockedBy[u] = None
      /\ lockedBy' = [u \in Transfer |-> IF u \in saved THEN w ELSE lockedBy[u]]
      /\ seenJob' = [seenJob EXCEPT ![w][t] = Claim(@)]
      /\ jobs' = [jobs EXCEPT ![w] = @ \ {t}]
      /\ at' = [at EXCEPT ![w] = t]
      /\ pc' = [pc EXCEPT ![w] = "claimed"]
      /\ UNCHANGED <<transfer, job, refunds, payouts, paid, unknowns, seenTransfer, pending, answer,
                     faults, reposts>>
  BY DEF ClaimJob, store, rail, bounds
<1>3. t \in saved
  OBVIOUS
<1>. HIDE DEF saved
<1>4. TypeOK'
  BY <1>1, <1>2, Kinds DEF Typed, TypeOK
<1>5. /\ pc'[w] = "claimed" /\ at'[w] = t /\ lockedBy'[t] = w /\ t \notin jobs'[w]
      /\ jobs'[w] \subseteq jobs[w]
      /\ \A u \in Transfer : seenJob[w][u] \in JobRow => seenJob'[w][u] \in JobRow
      /\ seenJob'[w][t] \in JobRow
      /\ \A u \in Transfer : lockedBy[u] # None => lockedBy'[u] = lockedBy[u]
      /\ \A b \in Actor \ {w} : pc'[b] = pc[b] /\ at'[b] = at[b] /\ seenJob'[b] = seenJob[b]
      /\ \A b \in Worker \ {w} : jobs'[b] = jobs[b]
  BY <1>1, <1>2, <1>3, Kinds DEF Typed, TypeOK
<1>6. ASSUME NEW v \in Worker PROVE WorkerAt(v)'
  <2>1. WorkerAt(v) /\ ResolverAt(v) /\ jobs[v] \subseteq Transfer
    BY Kinds DEF Typed, TypeOK, Placed
  <2>2. CASE v = w
    BY <1>2, <1>5, <2>1, <2>2 DEF WorkerAt, Dispatching
  <2>3. CASE v # w
    <3>1. pc'[v] = pc[v] /\ at'[v] = at[v] /\ seenJob'[v] = seenJob[v] /\ jobs'[v] = jobs[v]
      BY <1>5, <2>3, Kinds
    <3>2. Dispatching(v) => at[v] \in Transfer /\ lockedBy'[at[v]] = v
      BY <1>5, <2>1, Kinds DEF WorkerAt, ResolverAt, Dispatching
    <3>. QED
      BY <1>2, <2>1, <3>1, <3>2 DEF WorkerAt, Dispatching
  <2>. QED
    BY <2>2, <2>3
<1>7. ASSUME NEW b \in Resolver PROVE ResolverAt(b)'
  BY <1>2, <1>5, Kinds DEF Typed, TypeOK, Placed, ResolverAt
<1>8. \A q \in Querier : QuerierAt(q)'
  BY <1>5, Kinds DEF Typed, Placed, QuerierAt
<1>9. \A d \in Admin : AdminAt(d)'
  BY <1>5, Kinds DEF Typed, Placed, AdminAt
<1>. QED
  BY <1>4, <1>6, <1>7, <1>8, <1>9 DEF Typed, Placed

LEMMA TypedLoadTransfer ==
  ASSUME Typed, NEW w \in Worker, LoadTransfer(w)
  PROVE  Typed'
<1>. DEFINE t == at[w]
            tr == OriginalTransfer(w, t)
<1>1. t \in Transfer /\ pc[w] = "claimed"
  BY Kinds DEF Typed, Placed, ResolverAt, LoadTransfer
<1>2. tr \in TransferRow
  BY <1>1, Kinds, TypedContext, EntitiesTyped
<1>3. PICK p \in {"skipping", "sending"} : pc' = [pc EXCEPT ![w] = p]
  BY DEF LoadTransfer
<1>4. /\ seenTransfer' = [seenTransfer EXCEPT ![w][t] = tr]
      /\ UNCHANGED <<transfer, job, refunds, lockedBy, payouts, paid, at, jobs, unknowns, seenJob,
                     pending, answer, faults, reposts>>
  BY DEF LoadTransfer, store, rail, bounds
<1>. HIDE DEF tr
<1>5. TypeOK'
  BY <1>1, <1>2, <1>3, <1>4, Kinds DEF Typed, TypeOK
<1>6. Placed'
  BY <1>1, <1>2, <1>3, <1>4, Kinds
     DEF Typed, TypeOK, Placed, WorkerAt, ResolverAt, QuerierAt, AdminAt, Dispatching, Resolver, Actor
<1>. QED
  BY <1>5, <1>6 DEF Typed

LEMMA TypedSend ==
  ASSUME Typed, NEW w \in Worker, Send(w)
  PROVE  Typed'
<1>1. at[w] \in Transfer /\ w \in Resolver
  BY Kinds DEF Typed, Placed, ResolverAt, Send
<1>2. PICK a \in RailAnswers :
        /\ answer' = [answer EXCEPT ![w] = a]
        /\ payouts' = [payouts EXCEPT ![at[w]] = IF a.pays THEN @ + 1 ELSE @]
        /\ paid' = [paid EXCEPT ![at[w]] = a.pays]
  BY DEF Send
<1>3. a \in [answer : Verdict, ref : BOOLEAN, pays : BOOLEAN]
  BY RailAssumption DEF RailAnswerType
<1>4. pc[w] = "sending" /\ pc' = [pc EXCEPT ![w] = "sent"]
      /\ UNCHANGED <<transfer, job, refunds, lockedBy, at, jobs, unknowns, seenTransfer, seenJob,
                     pending, faults, reposts>>
  BY DEF Send, store, bounds, context
<1>5. payouts' \in [Transfer -> Nat] /\ paid' \in [Transfer -> BOOLEAN]
  BY <1>1, <1>2, <1>3 DEF Typed, TypeOK
<1>6. TypeOK'
  BY <1>1, <1>2, <1>3, <1>4, <1>5 DEF Typed, TypeOK
<1>7. Placed'
  BY <1>1, <1>4, Kinds
     DEF Typed, TypeOK, Placed, WorkerAt, ResolverAt, QuerierAt, AdminAt, Dispatching, Resolver, Actor
<1>. QED
  BY <1>6, <1>7 DEF Typed

(* A worker leaves a transaction, whatever becomes of it: it keeps its     *)
(* copies, and releases its locks if it has any.                           *)
Returned(w) ==
  /\ pc[w] \in {"claimed", "skipping", "sending", "sent", "asking", "resolving"}
  /\ Return(w, IF Dispatching(w) THEN "jobs" ELSE "status")
  /\ Unlock(w) \/ (UNCHANGED lockedBy /\ ~Dispatching(w))
  /\ UNCHANGED <<jobs, unknowns, reposts>>
  /\ \A x \in Transfer :
       /\ seenTransfer[w][x] \in TransferRow => seenTransfer'[w][x] \in TransferRow
       /\ seenJob[w][x] \in JobRow => seenJob'[w][x] \in JobRow
  /\ \A b \in Actor \ {w} :
       seenTransfer'[b] = seenTransfer[b] /\ seenJob'[b] = seenJob[b] /\ pending'[b] = pending[b]

LEMMA PlacedReturned ==
  ASSUME Typed, NEW w \in Worker, Returned(w)
  PROVE  Placed'
<1>1. /\ pc'[w] = (IF Dispatching(w) THEN "jobs" ELSE "status") /\ w \in Actor
      /\ \A b \in Actor \ {w} : pc'[b] = pc[b] /\ at'[b] = at[b]
  BY Kinds DEF Returned, Return, Typed, TypeOK
<1>2. \A x \in Transfer : lockedBy[x] # w => lockedBy'[x] = lockedBy[x]
  BY DEF Returned, Unlock
<1>3. ASSUME NEW v \in Worker PROVE WorkerAt(v)'
  <2>1. WorkerAt(v) /\ ResolverAt(v) /\ jobs[v] \subseteq Transfer /\ unknowns[v] \subseteq Transfer
    BY Kinds DEF Typed, TypeOK, Placed
  <2>2. CASE v = w
    <3>1. ~Dispatching(w) => jobs[w] = {}
      BY <2>1, <2>2 DEF Returned, Dispatching, WorkerAt
    <3>. QED
      BY <1>1, <2>1, <2>2, <3>1 DEF Returned, WorkerAt, Dispatching
  <2>3. CASE v # w
    <3>1. Dispatching(v) => at[v] \in Transfer /\ lockedBy[at[v]] = v
      BY <2>1 DEF WorkerAt, ResolverAt, Dispatching
    <3>2. /\ pc'[v] = pc[v] /\ at'[v] = at[v] /\ seenJob'[v] = seenJob[v]
          /\ seenTransfer'[v] = seenTransfer[v] /\ jobs' = jobs /\ unknowns' = unknowns
      BY <1>1, <2>3, Kinds DEF Returned
    <3>3. Dispatching(v) => lockedBy'[at[v]] = v
      BY <1>2, <2>3, <3>1
    <3>. QED
      BY <2>1, <3>2, <3>3 DEF WorkerAt, Dispatching
  <2>. QED
    BY <2>2, <2>3
<1>4. ASSUME NEW b \in Resolver PROVE ResolverAt(b)'
  BY <1>1, Kinds DEF Returned, Typed, Placed, ResolverAt
<1>5. \A q \in Querier : QuerierAt(q)'
  BY <1>1, Kinds DEF Typed, Placed, QuerierAt
<1>6. \A d \in Admin : AdminAt(d)'
  BY <1>1, Kinds DEF Typed, Placed, AdminAt
<1>. QED
  BY <1>3, <1>4, <1>5, <1>6 DEF Placed

(* The changes of a transaction that has got to its last save. *)
LEMMA ChangedTyped ==
  ASSUME Typed, NEW a \in Resolver, at[a] \in Transfer, NEW change \in Change
  PROVE  /\ [pending[a] EXCEPT ![at[a]] = change] \in [Transfer -> Change]
         /\ \A t \in Transfer :
              [pending[a] EXCEPT ![at[a]] = change][t] = IF t = at[a] THEN change ELSE pending[a][t]
         /\ [NothingPending EXCEPT ![at[a]] = change] \in [Transfer -> Change]
         /\ \A t \in Transfer :
              [NothingPending EXCEPT ![at[a]] = change][t] = IF t = at[a] THEN change ELSE Unchanged
BY Kinds, Constructed DEF Typed, TypeOK, NothingPending

(* SaveAndCommit, for its DbContext. *)
LEMMA AcceptReturns ==
  ASSUME Typed, NEW w \in Worker, NEW accepted \in [Transfer -> Change], NEW left \in [Transfer -> Change],
         Accept(w, accepted, left),
         pc[w] \in {"claimed", "skipping", "sending", "sent", "asking", "resolving"},
         Return(w, IF Dispatching(w) THEN "jobs" ELSE "status"),
         Unlock(w) \/ (UNCHANGED lockedBy /\ ~Dispatching(w)),
         UNCHANGED <<jobs, unknowns, reposts>>
  PROVE  Returned(w)
<1>1. /\ pending'[w] = left
      /\ \A t \in Transfer : /\ seenTransfer'[w][t] = Either(accepted[t].transfer, seenTransfer[w][t])
                             /\ seenJob'[w][t] = Either(accepted[t].job, seenJob[w][t])
      /\ \A b \in Actor \ {w} : /\ seenTransfer'[b] = seenTransfer[b] /\ seenJob'[b] = seenJob[b]
                                /\ pending'[b] = pending[b]
  BY AcceptTyped, TypedContext, Kinds
<1>2. ASSUME NEW t \in Transfer
      PROVE  /\ seenTransfer[w][t] \in TransferRow => seenTransfer'[w][t] \in TransferRow
             /\ seenJob[w][t] \in JobRow => seenJob'[w][t] \in JobRow
  <2>1. accepted[t].transfer \in TransferRow \cup {None} /\ accepted[t].job \in JobRow \cup {None}
    BY DEF Change
  <2>. QED
    BY <1>1, <2>1 DEF Either
<1>. QED
  BY <1>1, <1>2 DEF Returned

LEMMA TypedReturned ==
  ASSUME Typed, NEW w \in Worker, Returned(w),
         transfer' \in [Transfer -> TransferRow], job' \in [Transfer -> JobRow],
         refunds' \in [Transfer -> Nat], payouts' \in [Transfer -> Nat], paid' \in [Transfer -> BOOLEAN],
         seenTransfer' \in [Actor -> [Transfer -> TransferRow \cup {None}]],
         seenJob' \in [Actor -> [Transfer -> JobRow \cup {None}]],
         pending' \in [Actor -> [Transfer -> Change]],
         faults' \in 0 .. MaxFaults
  PROVE  Typed'
<1>1. Placed'
  BY PlacedReturned
<1>2. /\ \E p \in {"jobs", "status"} : pc' = [pc EXCEPT ![w] = p]
      /\ at' = [at EXCEPT ![w] = None] /\ answer' = [answer EXCEPT ![w] = NoAnswer]
      /\ UNCHANGED <<jobs, unknowns, reposts>>
  BY DEF Returned, Return
<1>3. lockedBy' \in [Transfer -> Worker \cup {None}]
  BY DEF Returned, Unlock, Typed, TypeOK
<1>4. answer' \in [Resolver -> [answer : Verdict, ref : BOOLEAN, pays : BOOLEAN]]
  BY <1>2, Constructed DEF Typed, TypeOK
<1>5. TypeOK'
  BY <1>2, <1>3, <1>4, Kinds DEF Typed, TypeOK
<1>. QED
  BY <1>1, <1>5 DEF Typed

(* The three last saves of a worker's transaction, and its failures. *)
LEMMA TypedSave ==
  ASSUME Typed, NEW w \in Worker, NEW change \in Change, pc[w] \in {"skipping", "sent", "resolving"},
         SaveAndCommit(w, [pending[w] EXCEPT ![at[w]] = change]),
         Return(w, IF Dispatching(w) THEN "jobs" ELSE "status"),
         Unlock(w) \/ (UNCHANGED lockedBy /\ ~Dispatching(w)),
         UNCHANGED <<payouts, paid, jobs, unknowns, faults, reposts>>
  PROVE  Typed' /\ Returned(w)
<1>. DEFINE changes == [pending[w] EXCEPT ![at[w]] = change]
<1>1. at[w] \in Transfer /\ w \in Actor /\ w \in Resolver
  BY Kinds DEF Typed, Placed, ResolverAt
<1>2. changes \in [Transfer -> Change] /\ NothingPending \in [Transfer -> Change]
  BY <1>1, ChangedTyped, Constructed
<1>3. Write(w, changes) /\ Accept(w, changes, NothingPending)
  BY DEF SaveAndCommit
<1>. HIDE DEF changes
<1>4. ContextTyped /\ refunds \in [Transfer -> Nat]
  BY TypedContext DEF Typed, TypeOK
<1>5. /\ transfer' \in [Transfer -> TransferRow] /\ job' \in [Transfer -> JobRow]
      /\ refunds' \in [Transfer -> Nat]
  BY <1>1, <1>2, <1>3, <1>4, WriteTyped
<1>6. /\ seenTransfer' \in [Actor -> [Transfer -> TransferRow \cup {None}]]
      /\ seenJob' \in [Actor -> [Transfer -> JobRow \cup {None}]]
      /\ pending' \in [Actor -> [Transfer -> Change]]
  BY <1>1, <1>2, <1>3, <1>4, AcceptTyped
<1>7. Returned(w)
  BY <1>2, <1>3, AcceptReturns
<1>8. payouts' \in [Transfer -> Nat] /\ paid' \in [Transfer -> BOOLEAN] /\ faults' \in 0 .. MaxFaults
  BY DEF Typed, TypeOK
<1>. QED
  BY <1>5, <1>6, <1>7, <1>8, TypedReturned

LEMMA TypedSaves ==
  ASSUME Typed, NEW w \in Worker, Skip(w) \/ Record(w) \/ Resolve(w)
  PROVE  Typed' /\ Returned(w)
<1>1. at[w] \in Transfer /\ w \in Resolver
  BY Kinds DEF Typed, Placed, ResolverAt, Skip, Record, Resolve
<1>2. Skipped(w) \in Change /\ Recorded(w) \in Change /\ Answered(w) \in Change
  BY <1>1, ChangesTyped
<1>3. CASE Skip(w)
  BY <1>2, <1>3, TypedSave DEF Skip, Dispatching, rail, bounds
<1>4. CASE Record(w)
  BY <1>2, <1>4, TypedSave DEF Record, Dispatching, rail, bounds
<1>5. CASE Resolve(w)
  BY <1>2, <1>5, TypedSave DEF Resolve, Dispatching, rail, bounds
<1>. QED
  BY <1>3, <1>4, <1>5

LEMMA TypedRollback ==
  ASSUME Typed, NEW w \in Worker, NEW left \in Change, Rollback(w, left),
         pc[w] \in {"claimed", "skipping", "sending", "sent", "asking", "resolving"},
         payouts' \in [Transfer -> Nat], paid' \in [Transfer -> BOOLEAN], faults' \in 0 .. MaxFaults
  PROVE  Typed' /\ Returned(w)
<1>1. at[w] \in Transfer /\ w \in Actor /\ w \in Resolver
  BY Kinds DEF Typed, Placed, ResolverAt
<1>2. /\ transfer' \in [Transfer -> TransferRow] /\ job' \in [Transfer -> JobRow]
      /\ refunds' \in [Transfer -> Nat]
  BY DEF Typed, TypeOK, Rollback, store
<1>3. CASE Dispatching(w)
  <2>. DEFINE rest == [NothingPending EXCEPT ![at[w]] = left]
  <2>1. rest \in [Transfer -> Change] /\ pending[w] \in [Transfer -> Change]
    BY <1>1, ChangedTyped DEF Typed, TypeOK
  <2>2. Accept(w, pending[w], rest)
    BY <1>3 DEF Rollback
  <2>. HIDE DEF rest
  <2>3. /\ seenTransfer' \in [Actor -> [Transfer -> TransferRow \cup {None}]]
        /\ seenJob' \in [Actor -> [Transfer -> JobRow \cup {None}]]
        /\ pending' \in [Actor -> [Transfer -> Change]]
    BY <1>1, <2>1, <2>2, AcceptTyped, TypedContext
  <2>4. Returned(w)
    BY <2>1, <2>2, AcceptReturns DEF Rollback
  <2>. QED
    BY <1>2, <2>3, <2>4, TypedReturned
<1>4. CASE ~Dispatching(w)
  <2>. DEFINE copy == IF left.job = None THEN seenJob[w][at[w]] ELSE OriginalJob(w, at[w])
  <2>1. /\ seenJob' = [seenJob EXCEPT ![w][at[w]] = copy]
        /\ pending' = [pending EXCEPT ![w][at[w]] = left]
        /\ UNCHANGED seenTransfer
    BY <1>1, <1>4 DEF Rollback, Typed, TypeOK
  <2>2. copy \in JobRow \cup {None} /\ (seenJob[w][at[w]] \in JobRow => copy \in JobRow)
    BY <1>1, TypedContext, EntitiesTyped DEF Typed, TypeOK
  <2>. HIDE DEF copy
  <2>3. /\ seenTransfer' \in [Actor -> [Transfer -> TransferRow \cup {None}]]
        /\ seenJob' \in [Actor -> [Transfer -> JobRow \cup {None}]]
        /\ pending' \in [Actor -> [Transfer -> Change]]
    BY <1>1, <2>1, <2>2 DEF Typed, TypeOK
  <2>4. /\ \A x \in Transfer : /\ seenTransfer[w][x] \in TransferRow => seenTransfer'[w][x] \in TransferRow
                               /\ seenJob[w][x] \in JobRow => seenJob'[w][x] \in JobRow
        /\ \A b \in Actor \ {w} : /\ seenTransfer'[b] = seenTransfer[b] /\ seenJob'[b] = seenJob[b]
                                  /\ pending'[b] = pending[b]
    BY <1>1, <2>1, <2>2 DEF Typed, TypeOK
  <2>5. Returned(w)
    BY <2>4 DEF Returned, Rollback
  <2>. QED
    BY <1>2, <2>3, <2>5, TypedReturned
<1>. QED
  BY <1>3, <1>4

LEMMA FaultTyped ==
  ASSUME Typed, faults < MaxFaults, faults' = faults + 1
  PROVE  faults' \in 0 .. MaxFaults
BY LimitAssumption DEF Typed, TypeOK

(* What a fault of a worker leaves of the transfer it was working on. *)
Leftover(w, left) ==
  \/ left = Unchanged
  \/ left.transfer = None /\ left.job \in JobRow
  \/ pc[w] \in {"asking", "resolving"} /\ left.transfer = pending[w][at[w]].transfer
  \/ pc[w] \in {"skipping", "sent", "resolving"} /\ left = Unsaved(w)
  \/ pc[w] = "resolving" /\ answer[w].answer # "Unknown" /\ left.transfer = Answered(w).transfer

LEMMA Rollbacks ==
  ASSUME Typed, NEW w \in Worker,
         SendThrows(w) \/ AskThrows(w) \/ ReadThrows(w) \/ ReversalThrows(w) \/ SaveFails(w)
  PROVE  /\ at[w] \in Transfer
         /\ pc[w] \in {"claimed", "skipping", "sending", "sent", "asking", "resolving"}
         /\ faults < MaxFaults /\ faults' = faults + 1
         /\ \E left \in Change : Rollback(w, left) /\ Leftover(w, left)
         /\ ~SendThrows(w) => UNCHANGED <<payouts, paid>>
<1>1. /\ at[w] \in Transfer /\ w \in Resolver
      /\ pc[w] \in {"claimed", "skipping", "sending", "sent", "asking", "resolving"}
      /\ faults < MaxFaults /\ faults' = faults + 1
  BY Kinds DEF SendThrows, AskThrows, ReadThrows, ReversalThrows, SaveFails, Fault, Typed, Placed,
     ResolverAt
<1>2. /\ Skipped(w) \in Change /\ FailedJob(w) \in JobRow /\ Recorded(w) \in Change
      /\ Answered(w) \in Change /\ Unchanged \in Change
      /\ pending[w][at[w]] \in Change
  BY <1>1, Kinds, ChangesTyped, Constructed DEF Typed, TypeOK
<1>3. CASE SendThrows(w)
  BY <1>1, <1>2, <1>3 DEF SendThrows, Leftover
<1>4. CASE AskThrows(w)
  BY <1>1, <1>2, <1>4 DEF AskThrows, Leftover, rail
<1>5. CASE ReadThrows(w)
  <2>. DEFINE left == [Answered(w) EXCEPT !.job = pending[w][at[w]].job]
  <2>1. CASE Rollback(w, Unchanged)
    BY <1>1, <1>2, <1>5, <2>1 DEF Leftover, ReadThrows, rail, SendThrows
  <2>2. CASE pc[w] = "resolving" /\ answer[w].answer # "Unknown" /\ Rollback(w, left)
    <3>1. left \in Change /\ left.transfer = Answered(w).transfer
      BY <1>2 DEF Change
    <3>. HIDE DEF left
    <3>. QED
      BY <1>1, <1>5, <2>2, <3>1 DEF Leftover, ReadThrows, rail, SendThrows
  <2>. QED
    BY <1>5, <2>1, <2>2 DEF ReadThrows
<1>6. CASE ReversalThrows(w)
  <2>1. PICK credits \in pending[w][at[w]].credits .. pending[w][at[w]].credits + 1 :
          Rollback(w, IF Dispatching(w)
                        THEN [Unchanged EXCEPT !.job = FailedJob(w), !.credits = credits]
                        ELSE [pending[w][at[w]] EXCEPT !.transfer = Answered(w).transfer,
                                                       !.credits = credits])
    BY <1>6 DEF ReversalThrows
  <2>2. credits \in Nat /\ answer[w].answer = "Failed" /\ pc[w] \in {"sent", "resolving"}
        /\ UNCHANGED <<payouts, paid>>
    <3>1. pending[w][at[w]].credits \in Nat
      BY <1>2 DEF Change
    <3>2. credits \in Nat
      BY <3>1
    <3>. QED
      BY <1>6, <3>2 DEF ReversalThrows, rail
  <2>3. CASE Dispatching(w)
    <3>. DEFINE left == [Unchanged EXCEPT !.job = FailedJob(w), !.credits = credits]
    <3>1. left \in Change /\ left.transfer = None /\ left.job \in JobRow
      BY <1>2, <2>2 DEF Change, Unchanged
    <3>2. Rollback(w, left)
      BY <2>1, <2>3
    <3>. HIDE DEF left
    <3>. QED
      BY <1>1, <2>2, <3>1, <3>2 DEF Leftover
  <2>4. CASE ~Dispatching(w)
    <3>. DEFINE left == [pending[w][at[w]] EXCEPT !.transfer = Answered(w).transfer, !.credits = credits]
    <3>1. Answered(w).transfer \in TransferRow \cup {None}
      BY <1>2 DEF Change
    <3>2. left \in Change /\ left.transfer = Answered(w).transfer
      BY <1>2, <2>2, <3>1 DEF Change
    <3>3. Rollback(w, left) /\ pc[w] = "resolving"
      BY <2>1, <2>2, <2>4 DEF Dispatching
    <3>. HIDE DEF left
    <3>. QED
      BY <1>1, <2>2, <3>2, <3>3 DEF Leftover
  <2>. QED
    BY <2>3, <2>4
<1>7. CASE SaveFails(w)
  <2>1. Unsaved(w) \in Change /\ Rollback(w, Unsaved(w))
    BY <1>2, <1>7 DEF Unsaved, SaveFails
  <2>. QED
    BY <1>1, <1>7, <2>1 DEF Leftover, SaveFails, rail, SendThrows
<1>. QED
  BY <1>3, <1>4, <1>5, <1>6, <1>7

LEMMA TypedRollbacks ==
  ASSUME Typed, NEW w \in Worker,
         SendThrows(w) \/ AskThrows(w) \/ ReadThrows(w) \/ ReversalThrows(w) \/ SaveFails(w)
  PROVE  Typed' /\ Returned(w)
<1>1. /\ at[w] \in Transfer
      /\ pc[w] \in {"claimed", "skipping", "sending", "sent", "asking", "resolving"}
      /\ faults' \in 0 .. MaxFaults
  BY Rollbacks, FaultTyped
<1>2. PICK left \in Change : Rollback(w, left)
  BY Rollbacks
<1>3. payouts' \in [Transfer -> Nat] /\ paid' \in [Transfer -> BOOLEAN]
  <2>1. CASE SendThrows(w)
    BY <1>1, <2>1 DEF SendThrows, Typed, TypeOK
  <2>2. CASE ~SendThrows(w)
    BY <2>2, Rollbacks DEF Typed, TypeOK
  <2>. QED
    BY <2>1, <2>2
<1>. QED
  BY <1>1, <1>2, <1>3, TypedRollback

LEMMA UnsavedTyped ==
  ASSUME Typed, NEW w \in Worker, at[w] \in Transfer
  PROVE  Unsaved(w) \in Change
BY Kinds, ChangesTyped DEF Unsaved

LEMMA TypedCommitFails ==
  ASSUME Typed, NEW w \in Worker, CommitFails(w)
  PROVE  Typed' /\ Returned(w)
<1>. DEFINE changes == [pending[w] EXCEPT ![at[w]] = Unsaved(w)]
<1>1. at[w] \in Transfer /\ w \in Actor /\ w \in Resolver
      /\ pc[w] \in {"claimed", "skipping", "sending", "sent", "asking", "resolving"}
      /\ faults' \in 0 .. MaxFaults
  BY Kinds, FaultTyped DEF Typed, Placed, ResolverAt, CommitFails, Fault
<1>2. changes \in [Transfer -> Change] /\ NothingPending \in [Transfer -> Change]
  BY <1>1, UnsavedTyped, ChangedTyped, Constructed
<1>3. Accept(w, changes, NothingPending)
  BY DEF CommitFails
<1>. HIDE DEF changes
<1>4. /\ seenTransfer' \in [Actor -> [Transfer -> TransferRow \cup {None}]]
      /\ seenJob' \in [Actor -> [Transfer -> JobRow \cup {None}]]
      /\ pending' \in [Actor -> [Transfer -> Change]]
  BY <1>1, <1>2, <1>3, AcceptTyped, TypedContext
<1>5. Returned(w)
  BY <1>1, <1>2, <1>3, AcceptReturns DEF CommitFails
<1>6. UNCHANGED <<transfer, job, refunds, payouts, paid>>
  BY DEF CommitFails, store, rail
<1>. QED
  BY <1>1, <1>4, <1>5, <1>6, TypedReturned DEF Typed, TypeOK

LEMMA TypedClaimFails ==
  ASSUME Typed, NEW w \in Worker, NEW t \in Transfer, ClaimFails(w, t)
  PROVE  Typed'
<1>1. Claim(seenJob[w][t]) \in JobRow /\ w \in Actor
  BY Changed, Kinds DEF Typed, Placed, WorkerAt, ClaimFails
<1>2. faults' \in 0 .. MaxFaults
  BY FaultTyped DEF ClaimFails, Fault
<1>3. pending' \in [Actor -> [Transfer -> Change]]
  <2>1. pending[w][t] \in Change /\ pending[w] \in [Transfer -> Change]
    BY <1>1 DEF Typed, TypeOK
  <2>2. [pending[w][t] EXCEPT !.job = Claim(seenJob[w][t])] \in Change
    BY <1>1, <2>1 DEF Change
  <2>3. pending' = [pending EXCEPT ![w] = [pending[w] EXCEPT ![t] =
                      [pending[w][t] EXCEPT !.job = Claim(seenJob[w][t])]]]
    BY DEF ClaimFails
  <2>. QED
    BY <2>1, <2>2, <2>3 DEF Typed, TypeOK
<1>4. /\ jobs' = [jobs EXCEPT ![w] = @ \ {t}] /\ pc[w] = "jobs"
      /\ UNCHANGED <<transfer, job, refunds, lockedBy, payouts, paid, pc, at, unknowns, seenTransfer,
                     seenJob, answer, reposts>>
  BY DEF ClaimFails, store, rail
<1>5. TypeOK'
  BY <1>2, <1>3, <1>4 DEF Typed, TypeOK
<1>6. Placed'
  BY <1>4 DEF Typed, TypeOK, Placed, WorkerAt, ResolverAt, QuerierAt, AdminAt, Dispatching
<1>. QED
  BY <1>5, <1>6 DEF Typed

(* The status loop's reading, the queriers, the admins, and the rest. *)
LEMMA TypedLoadUnknowns ==
  ASSUME Typed, NEW w \in Worker, LoadUnknowns(w)
  PROVE  Typed'
<1>. DEFINE copies == [t \in Transfer |-> IF Queried(t) THEN OriginalTransfer(w, t) ELSE seenTransfer[w][t]]
<1>1. \A t \in Transfer : copies[t] \in TransferRow \cup {None} /\ (Queried(t) => copies[t] \in TransferRow)
  BY Kinds, TypedContext, EntitiesTyped DEF Typed, TypeOK
<1>2. /\ pc[w] = "jobs" /\ jobs[w] = {}
      /\ unknowns' = [unknowns EXCEPT ![w] = {t \in Transfer : Queried(t)}]
      /\ seenTransfer' = [seenTransfer EXCEPT ![w] = copies]
      /\ pc' = [pc EXCEPT ![w] = "status"]
      /\ UNCHANGED <<transfer, job, refunds, lockedBy, payouts, paid, at, jobs, seenJob, pending, answer,
                     faults, reposts>>
  BY DEF LoadUnknowns, store, rail, bounds
<1>3. copies \in [Transfer -> TransferRow \cup {None}]
  BY <1>1
<1>. HIDE DEF copies
<1>4. TypeOK'
  BY <1>2, <1>3, Kinds DEF Typed, TypeOK
<1>5. \A t \in Transfer : seenTransfer[w][t] \in TransferRow => seenTransfer'[w][t] \in TransferRow
  BY <1>1, <1>2, Kinds DEF Typed, TypeOK, copies
<1>6. Placed'
  BY <1>1, <1>2, <1>3, Kinds
     DEF Typed, TypeOK, Placed, WorkerAt, ResolverAt, QuerierAt, AdminAt, Dispatching, Resolver, Actor
<1>. QED
  BY <1>4, <1>6 DEF Typed

LEMMA TypedAsking ==
  ASSUME Typed, NEW a \in Resolver,
         \/ a \in Worker /\ NextUnknown(a)
         \/ a \in Querier /\ LoadUnknown(a)
         \/ AskRail(a)
  PROVE  Typed'
<1>. USE Kinds DEF Typed, TypeOK
<1>1. CASE a \in Worker /\ NextUnknown(a)
  <2>1. PICK t \in unknowns[a] : unknowns' = [unknowns EXCEPT ![a] = @ \ {t}] /\ at' = [at EXCEPT ![a] = t]
    BY <1>1 DEF NextUnknown
  <2>2. /\ t \in Transfer /\ pc[a] = "status" /\ pc' = [pc EXCEPT ![a] = "asking"]
        /\ UNCHANGED <<transfer, job, refunds, lockedBy, payouts, paid, jobs, seenTransfer, seenJob,
                       pending, answer, faults, reposts>>
    BY <1>1 DEF NextUnknown, store, rail, bounds, context
  <2>3. TypeOK'
    BY <1>1, <2>1, <2>2
  <2>4. Placed'
    BY <1>1, <2>1, <2>2 DEF Placed, WorkerAt, ResolverAt, QuerierAt, AdminAt, Dispatching
  <2>. QED
    BY <2>3, <2>4
<1>2. CASE a \in Querier /\ LoadUnknown(a)
  <2>1. PICK t \in Transfer :
          /\ seenTransfer' = [seenTransfer EXCEPT ![a][t] = transfer[t]]
          /\ at' = [at EXCEPT ![a] = t] /\ pc' = [pc EXCEPT ![a] = "asking"]
    BY <1>2 DEF LoadUnknown
  <2>2. UNCHANGED <<transfer, job, refunds, lockedBy, payouts, paid, jobs, unknowns, seenJob, pending,
                    answer, faults, reposts>>
    BY <1>2 DEF LoadUnknown, store, rail, bounds
  <2>3. TypeOK'
    BY <1>2, <2>1, <2>2
  <2>4. Placed'
    BY <1>2, <2>1, <2>2 DEF Placed, WorkerAt, ResolverAt, QuerierAt, AdminAt, Dispatching
  <2>. QED
    BY <2>3, <2>4
<1>3. CASE AskRail(a)
  <2>1. PICK says \in {"Unknown", "Sent", "Failed"} :
          answer' = [answer EXCEPT ![a] = [answer |-> says, ref |-> FALSE, pays |-> FALSE]]
    BY <1>3 DEF AskRail
  <2>2. /\ pc[a] = "asking" /\ pc' = [pc EXCEPT ![a] = "resolving"]
        /\ UNCHANGED <<transfer, job, refunds, lockedBy, payouts, paid, at, jobs, unknowns, seenTransfer,
                       seenJob, pending, faults, reposts>>
    BY <1>3 DEF AskRail, store, rail, bounds, context
  <2>3. [answer |-> says, ref |-> FALSE, pays |-> FALSE] \in [answer : Verdict, ref : BOOLEAN, pays : BOOLEAN]
    BY DEF Verdict
  <2>4. TypeOK'
    BY <2>1, <2>2, <2>3
  <2>5. Placed'
    BY <2>2 DEF Placed, WorkerAt, ResolverAt, QuerierAt, AdminAt, Dispatching
  <2>. QED
    BY <2>4, <2>5
<1>. QED
  BY <1>1, <1>2, <1>3

(* An actor's scope ends, and with it what its DbContext holds. *)
LEMMA TypedLeave ==
  ASSUME Typed, NEW a \in Actor, Leave(a),
         a \in Worker => jobs'[a] = {} /\ unknowns'[a] = {},
         jobs' \in [Worker -> SUBSET Transfer], unknowns' \in [Worker -> SUBSET Transfer],
         \A b \in Worker \ {a} : jobs'[b] = jobs[b] /\ unknowns'[b] = unknowns[b],
         UNCHANGED lockedBy \/ Unlock(a),
         answer' \in [Resolver -> [answer : Verdict, ref : BOOLEAN, pays : BOOLEAN]],
         transfer' \in [Transfer -> TransferRow], job' \in [Transfer -> JobRow],
         refunds' \in [Transfer -> Nat], faults' \in 0 .. MaxFaults,
         UNCHANGED <<payouts, paid, reposts>>
  PROVE  Typed'
<1>1. /\ pc' = [pc EXCEPT ![a] = "idle"] /\ at' = [at EXCEPT ![a] = None]
      /\ seenTransfer' = [seenTransfer EXCEPT ![a] = Nothing]
      /\ seenJob' = [seenJob EXCEPT ![a] = Nothing]
      /\ pending' = [pending EXCEPT ![a] = NothingPending]
  BY DEF Leave
<1>2. lockedBy' \in [Transfer -> Worker \cup {None}]
      /\ \A t \in Transfer : lockedBy[t] # a => lockedBy'[t] = lockedBy[t]
  BY DEF Typed, TypeOK, Unlock
<1>3. TypeOK'
  BY <1>1, <1>2, Constructed DEF Typed, TypeOK
<1>4. pc'[a] = "idle" /\ \A b \in Actor \ {a} : /\ pc'[b] = pc[b] /\ at'[b] = at[b]
                                               /\ seenTransfer'[b] = seenTransfer[b] /\ seenJob'[b] = seenJob[b]
  BY <1>1 DEF Typed, TypeOK
<1>5. ASSUME NEW v \in Worker PROVE WorkerAt(v)'
  <2>1. WorkerAt(v) /\ ResolverAt(v) /\ v \in Actor
    BY Kinds DEF Typed, Placed
  <2>2. CASE v = a
    BY <1>4, <2>2 DEF WorkerAt, Dispatching
  <2>3. CASE v # a
    <3>1. Dispatching(v) => lockedBy'[at[v]] = v
      BY <1>2, <2>1, <2>3 DEF WorkerAt, ResolverAt, Dispatching
    <3>2. /\ pc'[v] = pc[v] /\ at'[v] = at[v] /\ seenTransfer'[v] = seenTransfer[v] /\ seenJob'[v] = seenJob[v]
          /\ jobs'[v] = jobs[v] /\ unknowns'[v] = unknowns[v]
      BY <1>4, <2>1, <2>3
    <3>. QED
      BY <2>1, <3>1, <3>2 DEF WorkerAt, Dispatching
  <2>. QED
    BY <2>2, <2>3
<1>6. Placed'
  BY <1>4, <1>5, Kinds DEF Typed, Placed, ResolverAt, QuerierAt, AdminAt
<1>. QED
  BY <1>3, <1>6 DEF Typed

LEMMA TypedLeaving ==
  ASSUME Typed,
         \/ \E w \in Worker : EndBatch(w) \/ Crash(w)
         \/ \E a \in Querier \cup Admin : RequestFails(a)
  PROVE  Typed'
<1>1. ASSUME NEW w \in Worker, EndBatch(w) PROVE Typed'
  <2>1. jobs[w] = {} /\ unknowns[w] = {} /\ w \in Actor
    BY <1>1, Kinds DEF EndBatch, Typed, Placed, WorkerAt
  <2>2. Leave(w) /\ UNCHANGED <<transfer, job, refunds, lockedBy, payouts, paid, jobs, unknowns, answer,
                               faults, reposts>>
    BY <1>1 DEF EndBatch, store, rail, bounds
  <2>. QED
    BY <2>1, <2>2, TypedLeave DEF Typed, TypeOK
<1>2. ASSUME NEW w \in Worker, Crash(w) PROVE Typed'
  <2>1. /\ Leave(w) /\ Unlock(w) /\ w \in Actor
        /\ jobs' = [jobs EXCEPT ![w] = {}] /\ unknowns' = [unknowns EXCEPT ![w] = {}]
        /\ answer' = [answer EXCEPT ![w] = NoAnswer]
        /\ UNCHANGED <<transfer, job, refunds, payouts, paid, reposts>>
    BY <1>2, Kinds DEF Crash, store, rail
  <2>2. faults' \in 0 .. MaxFaults
    BY <1>2, FaultTyped DEF Crash, Fault
  <2>3. answer' \in [Resolver -> [answer : Verdict, ref : BOOLEAN, pays : BOOLEAN]]
    BY <2>1, Constructed DEF Typed, TypeOK
  <2>4. /\ jobs' \in [Worker -> SUBSET Transfer] /\ unknowns' \in [Worker -> SUBSET Transfer]
        /\ jobs'[w] = {} /\ unknowns'[w] = {}
        /\ \A b \in Worker \ {w} : jobs'[b] = jobs[b] /\ unknowns'[b] = unknowns[b]
    BY <2>1 DEF Typed, TypeOK
  <2>. QED
    BY <2>1, <2>2, <2>3, <2>4, TypedLeave DEF Typed, TypeOK
<1>3. ASSUME NEW a \in Querier \cup Admin, RequestFails(a) PROVE Typed'
  <2>1. /\ Leave(a) /\ a \in Actor /\ a \notin Worker
        /\ answer' = [r \in Resolver |-> IF r = a THEN NoAnswer ELSE answer[r]]
        /\ UNCHANGED <<transfer, job, refunds, lockedBy, payouts, paid, jobs, unknowns, reposts>>
    BY <1>3, Kinds DEF RequestFails, store, rail
  <2>2. faults' \in 0 .. MaxFaults
    BY <1>3, FaultTyped DEF RequestFails
  <2>3. answer' \in [Resolver -> [answer : Verdict, ref : BOOLEAN, pays : BOOLEAN]]
    BY <2>1, Constructed DEF Typed, TypeOK
  <2>. QED
    BY <2>1, <2>2, <2>3, TypedLeave DEF Typed, TypeOK
<1>. QED
  BY <1>1, <1>2, <1>3

LEMMA TypedQuery ==
  ASSUME Typed, NEW q \in Querier, Resolve(q)
  PROVE  Typed'
<1>. DEFINE changes == [pending[q] EXCEPT ![at[q]] = Answered(q)]
<1>1. at[q] \in Transfer /\ q \in Actor /\ q \in Resolver /\ q \notin Worker
  BY Kinds DEF Typed, Placed, ResolverAt, Resolve
<1>2. changes \in [Transfer -> Change]
  BY <1>1, ChangesTyped, ChangedTyped
<1>3. /\ Write(q, changes) /\ Leave(q)
      /\ answer' = [answer EXCEPT ![q] = NoAnswer]
      /\ UNCHANGED <<lockedBy, payouts, paid, jobs, unknowns, faults, reposts>>
  BY <1>1 DEF Resolve, rail, bounds
<1>. HIDE DEF changes
<1>4. /\ transfer' \in [Transfer -> TransferRow] /\ job' \in [Transfer -> JobRow]
      /\ refunds' \in [Transfer -> Nat]
  BY <1>1, <1>2, <1>3, TypedContext, WriteTyped DEF Typed, TypeOK
<1>5. answer' \in [Resolver -> [answer : Verdict, ref : BOOLEAN, pays : BOOLEAN]]
  BY <1>3, Constructed DEF Typed, TypeOK
<1>. QED
  BY <1>1, <1>3, <1>4, <1>5, TypedLeave DEF Typed, TypeOK

LEMMA TypedReposts ==
  ASSUME Typed, NEW d \in Admin, ReadFailed(d) \/ ReadJob(d) \/ Repost(d)
  PROVE  Typed'
<1>. USE Kinds
<1>1. CASE ReadFailed(d)
  <2>1. PICK t \in Transfer :
          seenTransfer' = [seenTransfer EXCEPT ![d][t] = transfer[t]] /\ at' = [at EXCEPT ![d] = t]
    BY <1>1 DEF ReadFailed
  <2>2. reposts' \in 0 .. MaxReposts
    BY <1>1, LimitAssumption DEF Typed, TypeOK, ReadFailed
  <2>3. /\ pc' = [pc EXCEPT ![d] = "reading"]
        /\ UNCHANGED <<transfer, job, refunds, lockedBy, payouts, paid, jobs, unknowns, seenJob, pending,
                       answer, faults>>
    BY <1>1 DEF ReadFailed, store, rail
  <2>4. TypeOK'
    BY <2>1, <2>2, <2>3 DEF Typed, TypeOK
  <2>5. Placed'
    BY <2>1, <2>3 DEF Typed, TypeOK, Placed, WorkerAt, ResolverAt, QuerierAt, AdminAt, Dispatching, Resolver,
       Actor
  <2>. QED
    BY <2>4, <2>5 DEF Typed
<1>2. CASE ReadJob(d)
  <2>1. /\ at[d] \in Transfer /\ pc' = [pc EXCEPT ![d] = "reposting"]
        /\ seenJob' = [seenJob EXCEPT ![d][at[d]] = job[at[d]]]
        /\ UNCHANGED <<transfer, job, refunds, lockedBy, payouts, paid, at, jobs, unknowns, seenTransfer,
                       pending, answer, faults, reposts>>
    BY <1>2 DEF ReadJob, store, rail, bounds, Typed, Placed, AdminAt
  <2>2. TypeOK'
    BY <2>1 DEF Typed, TypeOK
  <2>3. Placed'
    BY <2>1 DEF Typed, TypeOK, Placed, WorkerAt, ResolverAt, QuerierAt, AdminAt, Dispatching, Resolver,
       Actor
  <2>. QED
    BY <2>2, <2>3 DEF Typed
<1>3. CASE Repost(d)
  <2>. DEFINE t == at[d]
  <2>1. t \in Transfer /\ d \in Actor
    BY <1>3 DEF Typed, Placed, AdminAt, Repost
  <2>2. /\ transfer' = [transfer EXCEPT ![t] =
             Saved(@, seenTransfer[d][t], [status |-> "Submitted", ref |-> FALSE])]
        /\ job' = [job EXCEPT ![t] = Saved(@, seenJob[d][t], Reposted)]
        /\ Leave(d)
        /\ UNCHANGED <<refunds, lockedBy, payouts, paid, jobs, unknowns, answer, faults, reposts>>
    BY <1>3 DEF Repost, rail, bounds
  <2>. HIDE DEF t
  <2>3. transfer' \in [Transfer -> TransferRow] /\ job' \in [Transfer -> JobRow]
    BY <2>1, <2>2, SavedTransfer, SavedJob, Constructed DEF Typed, TypeOK
  <2>. QED
    BY <2>1, <2>2, <2>3, TypedLeave DEF Typed, TypeOK
<1>. QED
  BY <1>1, <1>2, <1>3

LEMMA TypedOthers ==
  ASSUME Typed, (\E t \in Transfer : Elapse(t)) \/ UNCHANGED vars
  PROVE  Typed'
<1>1. ASSUME NEW t \in Transfer, Elapse(t) PROVE Typed'
  <2>1. job' \in [Transfer -> JobRow]
    <3>1. [job[t] EXCEPT !.due = TRUE] \in JobRow
      <4>1. job[t] \in JobRow
        BY DEF Typed, TypeOK
      <4>. QED
        BY <4>1 DEF JobRow
    <3>. QED
      BY <1>1, <3>1 DEF Elapse, Typed, TypeOK
  <2>2. TypeOK'
    BY <1>1, <2>1 DEF Typed, TypeOK, Elapse, rail, local, context, bounds
  <2>3. Placed'
    BY <1>1 DEF Typed, Placed, WorkerAt, ResolverAt, QuerierAt, AdminAt, Dispatching, Elapse, rail, local,
       context, bounds
  <2>. QED
    BY <2>2, <2>3 DEF Typed
<1>2. CASE UNCHANGED vars
  BY <1>2 DEF Typed, TypeOK, Placed, WorkerAt, ResolverAt, QuerierAt, AdminAt, Dispatching, vars, store,
     rail, local, context, bounds
<1>. QED
  BY <1>1, <1>2

LEMMA TypedStep ==
  ASSUME Typed, [Next]_vars
  PROVE  Typed'
<1>1. ASSUME NEW w \in Worker, WorkerStep(w) PROVE Typed'
  BY <1>1, Kinds, TypedLoadJobs, TypedClaimJob, TypedLoadTransfer, TypedSend, TypedSaves,
     TypedLoadUnknowns, TypedAsking, TypedLeaving DEF WorkerStep
<1>2. ASSUME NEW w \in Worker, WorkerFails(w) PROVE Typed'
  BY <1>2, TypedClaimFails, TypedRollbacks, TypedCommitFails, TypedLeaving DEF WorkerFails
<1>3. ASSUME NEW q \in Querier, QueryStep(q) PROVE Typed'
  BY <1>3, Kinds, TypedAsking, TypedQuery DEF QueryStep
<1>. QED
  BY <1>1, <1>2, <1>3, TypedReposts, TypedLeaving, TypedOthers DEF Next

(* A transfer keeps to the statuses of the source and a job to its own,    *)
(* for any workers, queries, reposts, faults and answers of the rail.      *)
THEOREM SettlementTyped == Spec => []TypeOK
<1>1. Typed => TypeOK
  BY DEF Typed
<1>. QED
  BY <1>1, TypedInit, TypedStep, PTL DEF Spec
-----------------------------------------------------------------------------
(* What the steps do to the database and to what is pending. *)

(* The last save of a transaction brings what has become of its transfer,  *)
(* and what earlier ones of the batch left behind.                         *)
Saving(a, t) == IF t = at[a] THEN Unsaved(a) ELSE pending[a][t]

LEMMA UnsavedChange ==
  ASSUME Typed, NEW a \in Resolver, at[a] \in Transfer, pc[a] \in {"skipping", "sent", "resolving"}
  PROVE  /\ Unsaved(a) \in Change
         /\ pc[a] = "skipping" => Unsaved(a).transfer = None /\ Unsaved(a).credits = 0
         /\ pc[a] = "sent" =>
              /\ Unsaved(a).transfer \in TransferRow
              /\ Unsaved(a).transfer.status = Outcome(answer[a])
              /\ Unsaved(a).credits = (IF Outcome(answer[a]) = "Failed" THEN 1 ELSE 0)
         /\ pc[a] = "resolving" => Unsaved(a) = Answered(a)
BY ChangesTyped DEF Unsaved

LEMMA SaveWrites ==
  ASSUME Typed, NEW a \in Resolver, (a \in Worker /\ (Skip(a) \/ Record(a))) \/ Resolve(a)
  PROVE  /\ at[a] \in Transfer /\ pc[a] \in {"skipping", "sent", "resolving"}
         /\ pc[a] # "resolving" => a \in Worker /\ lockedBy[at[a]] = a
         /\ pc' = [pc EXCEPT ![a] = IF pc[a] # "resolving" THEN "jobs"
                                    ELSE IF a \in Worker THEN "status" ELSE "idle"]
         /\ at' = [at EXCEPT ![a] = None]
         /\ answer' = [answer EXCEPT ![a] = NoAnswer]
         /\ UNCHANGED <<payouts, paid, jobs, unknowns>>
         /\ pending'[a] = NothingPending
         /\ \A b \in Actor \ {a} : pending'[b] = pending[b] /\ seenTransfer'[b] = seenTransfer[b]
         /\ \A t \in Transfer :
              /\ Saving(a, t) \in Change
              /\ refunds'[t] = refunds[t] + Saving(a, t).credits
              /\ Saving(a, t).transfer = None => transfer'[t] = transfer[t]
              /\ Saving(a, t).transfer # None =>
                   transfer'[t].status =
                     IF Saving(a, t).transfer.status = OriginalTransfer(a, t).status
                       THEN transfer[t].status ELSE Saving(a, t).transfer.status
         /\ a \in Worker => \A t \in Transfer :
              seenTransfer'[a][t] = Either(Saving(a, t).transfer, seenTransfer[a][t])
<1>. DEFINE changes == [pending[a] EXCEPT ![at[a]] = Unsaved(a)]
<1>1. /\ at[a] \in Transfer /\ pc[a] \in {"skipping", "sent", "resolving"} /\ a \in Actor
      /\ pc[a] # "resolving" => a \in Worker /\ lockedBy[at[a]] = a
  BY Kinds DEF Typed, Placed, ResolverAt, WorkerAt, Dispatching, Skip, Record, Resolve
<1>2. Unsaved(a) \in Change
  BY <1>1, UnsavedChange
<1>3. /\ changes \in [Transfer -> Change] /\ NothingPending \in [Transfer -> Change]
      /\ \A t \in Transfer : changes[t] = Saving(a, t)
  BY <1>1, <1>2, ChangedTyped, Constructed DEF Saving
<1>4. /\ Write(a, changes)
      /\ a \in Worker => Accept(a, changes, NothingPending)
      /\ a \notin Worker => Leave(a)
      /\ pc' = [pc EXCEPT ![a] = IF pc[a] # "resolving" THEN "jobs"
                                 ELSE IF a \in Worker THEN "status" ELSE "idle"]
      /\ at' = [at EXCEPT ![a] = None]
      /\ answer' = [answer EXCEPT ![a] = NoAnswer]
      /\ UNCHANGED <<payouts, paid, jobs, unknowns>>
  <2>1. CASE a \in Worker /\ Skip(a)
    BY <1>1, <2>1 DEF Skip, SaveAndCommit, Return, Unsaved, rail
  <2>2. CASE a \in Worker /\ Record(a)
    BY <1>1, <2>2 DEF Record, SaveAndCommit, Return, Unsaved, rail
  <2>3. CASE Resolve(a)
    BY <1>1, <2>3 DEF Resolve, SaveAndCommit, Return, Leave, Unsaved, rail
  <2>. QED
    BY <2>1, <2>2, <2>3
<1>. HIDE DEF changes
<1>5. ContextTyped /\ refunds \in [Transfer -> Nat]
  BY TypedContext DEF Typed, TypeOK
<1>6. \A t \in Transfer :
        /\ refunds'[t] = refunds[t] + changes[t].credits
        /\ changes[t].transfer = None => transfer'[t] = transfer[t]
        /\ changes[t].transfer # None =>
             transfer'[t].status =
               IF changes[t].transfer.status = OriginalTransfer(a, t).status
                 THEN transfer[t].status ELSE changes[t].transfer.status
  BY <1>1, <1>3, <1>4, <1>5, WriteTyped
<1>7. /\ pending'[a] = NothingPending
      /\ \A b \in Actor \ {a} : pending'[b] = pending[b] /\ seenTransfer'[b] = seenTransfer[b]
      /\ a \in Worker => \A t \in Transfer :
           seenTransfer'[a][t] = Either(changes[t].transfer, seenTransfer[a][t])
  <2>1. CASE a \in Worker
    BY <1>1, <1>3, <1>4, <1>5, <2>1, AcceptTyped
  <2>2. CASE a \notin Worker
    BY <1>1, <1>4, <2>2 DEF Leave, Typed, TypeOK
  <2>. QED
    BY <2>1, <2>2
<1>8. \A t \in Transfer : Saving(a, t) \in Change
  BY <1>3
<1>. QED
  BY <1>1, <1>3, <1>4, <1>6, <1>7, <1>8

LEMMA RollbackWrites ==
  ASSUME Typed, NEW w \in Worker, NEW left \in Change, Rollback(w, left), at[w] \in Transfer
  PROVE  /\ UNCHANGED <<transfer, refunds, jobs, unknowns>>
         /\ pc' = [pc EXCEPT ![w] = IF Dispatching(w) THEN "jobs" ELSE "status"]
         /\ at' = [at EXCEPT ![w] = None]
         /\ answer' = [answer EXCEPT ![w] = NoAnswer]
         /\ \A b \in Actor \ {w} : pending'[b] = pending[b] /\ seenTransfer'[b] = seenTransfer[b]
         /\ \A t \in Transfer :
              /\ pending'[w][t] = IF t = at[w] THEN left
                                  ELSE IF Dispatching(w) THEN Unchanged ELSE pending[w][t]
              /\ seenTransfer'[w][t] =
                   IF Dispatching(w) THEN Either(pending[w][t].transfer, seenTransfer[w][t])
                   ELSE seenTransfer[w][t]
<1>1. w \in Actor /\ w \in Resolver /\ ContextTyped
  BY Kinds, TypedContext
<1>2. /\ UNCHANGED <<transfer, refunds, jobs, unknowns>>
      /\ pc' = [pc EXCEPT ![w] = IF Dispatching(w) THEN "jobs" ELSE "status"]
      /\ at' = [at EXCEPT ![w] = None]
      /\ answer' = [answer EXCEPT ![w] = NoAnswer]
  BY DEF Rollback, Return, store
<1>3. CASE Dispatching(w)
  <2>. DEFINE rest == [NothingPending EXCEPT ![at[w]] = left]
  <2>1. /\ rest \in [Transfer -> Change] /\ pending[w] \in [Transfer -> Change]
        /\ \A t \in Transfer : rest[t] = IF t = at[w] THEN left ELSE Unchanged
    BY <1>1, ChangedTyped DEF Typed, TypeOK
  <2>2. Accept(w, pending[w], rest)
    BY <1>3 DEF Rollback
  <2>. HIDE DEF rest
  <2>. QED
    BY <1>1, <1>2, <1>3, <2>1, <2>2, AcceptTyped
<1>4. CASE ~Dispatching(w)
  <2>1. pending' = [pending EXCEPT ![w][at[w]] = left] /\ UNCHANGED seenTransfer
    BY <1>4 DEF Rollback
  <2>. QED
    BY <1>1, <1>2, <1>4, <2>1 DEF Typed, TypeOK
<1>. QED
  BY <1>3, <1>4

(* Steps that neither write nor ask the rail nor use an answer. *)
Quiet ==
  /\ UNCHANGED <<transfer, refunds, payouts, paid>>
  /\ \A a \in Resolver : pc'[a] \in {"sent", "resolving"} =>
       pc'[a] = pc[a] /\ at'[a] = at[a] /\ answer'[a] = answer[a]
  /\ \A a \in Actor : pending'[a] # NothingPending =>
       \A t \in Transfer : pending'[a][t].transfer = pending[a][t].transfer

LEMMA QuietSteps ==
  ASSUME Typed,
         \/ \E w \in Worker : \/ LoadJobs(w) \/ (\E t \in Transfer : ClaimJob(w, t) \/ ClaimFails(w, t))
                              \/ LoadTransfer(w) \/ LoadUnknowns(w) \/ NextUnknown(w)
                              \/ EndBatch(w) \/ Crash(w) \/ CommitFails(w)
         \/ \E q \in Querier : LoadUnknown(q)
         \/ \E d \in Admin : ReadFailed(d) \/ ReadJob(d)
         \/ \E a \in Querier \cup Admin : RequestFails(a)
         \/ \E t \in Transfer : Elapse(t)
         \/ UNCHANGED vars
  PROVE  Quiet
<1>. USE Kinds DEF Typed, TypeOK, Quiet
<1>1. ASSUME NEW w \in Worker, LoadJobs(w) \/ (\E t \in Transfer : ClaimJob(w, t))
                               \/ LoadTransfer(w) \/ LoadUnknowns(w) \/ NextUnknown(w)
      PROVE  Quiet
  <2>1. UNCHANGED <<transfer, refunds, payouts, paid, pending, answer>>
    BY <1>1 DEF LoadJobs, ClaimJob, LoadTransfer, LoadUnknowns, NextUnknown, store, rail, context
  <2>2. /\ pc'[w] \notin {"sent", "resolving"}
        /\ \A a \in Resolver \ {w} : pc'[a] = pc[a] /\ at'[a] = at[a]
    BY <1>1 DEF LoadJobs, ClaimJob, LoadTransfer, LoadUnknowns, NextUnknown, Resolver, Actor
  <2>. QED
    BY <2>1, <2>2
<1>2. ASSUME NEW w \in Worker, NEW t \in Transfer, ClaimFails(w, t)
      PROVE  Quiet
  <2>1. UNCHANGED <<transfer, refunds, payouts, paid, pc, at, answer>>
    BY <1>2 DEF ClaimFails, store, rail
  <2>2. pending' = [pending EXCEPT ![w][t].job = Claim(seenJob[w][t])]
    BY <1>2 DEF ClaimFails
  <2>3. pending[w][t] \in Change
    OBVIOUS
  <2>4. pending'[w][t].transfer = pending[w][t].transfer
    BY <2>2, <2>3 DEF Change
  <2>5. \A a \in Actor, x \in Transfer : pending'[a][x].transfer = pending[a][x].transfer
    BY <2>2, <2>4
  <2>. QED
    BY <2>1, <2>5
<1>3. ASSUME NEW a \in Actor, Leave(a), UNCHANGED <<transfer, refunds, payouts, paid>>,
             \A b \in Resolver \ {a} : answer'[b] = answer[b]
      PROVE  Quiet
  BY <1>3 DEF Leave, Resolver
<1>4. ASSUME NEW w \in Worker, EndBatch(w) \/ Crash(w)
      PROVE  Quiet
  BY <1>3, <1>4 DEF EndBatch, Crash, store, rail
<1>5. ASSUME NEW a \in Querier \cup Admin, RequestFails(a)
      PROVE  Quiet
  BY <1>3, <1>5 DEF RequestFails, store, rail, Actor
<1>6. ASSUME NEW w \in Worker, CommitFails(w)
      PROVE  Quiet
  <2>1. /\ UNCHANGED <<transfer, refunds, payouts, paid>>
        /\ pc' = [pc EXCEPT ![w] = IF Dispatching(w) THEN "jobs" ELSE "status"]
        /\ at' = [at EXCEPT ![w] = None]
        /\ answer' = [answer EXCEPT ![w] = NoAnswer]
        /\ pending' = [pending EXCEPT ![w] = NothingPending]
    BY <1>6 DEF CommitFails, Accept, Return, store, rail
  <2>. QED
    BY <2>1 DEF Resolver, Actor
<1>7. ASSUME (\E q \in Querier : LoadUnknown(q)) \/ (\E d \in Admin : ReadFailed(d) \/ ReadJob(d))
             \/ (\E t \in Transfer : Elapse(t)) \/ UNCHANGED vars
      PROVE  Quiet
  <2>1. UNCHANGED <<transfer, refunds, payouts, paid, pending, answer>>
    BY <1>7 DEF LoadUnknown, ReadFailed, ReadJob, Elapse, vars, local, store, rail, bounds, context
  <2>2. \A a \in Resolver : pc'[a] \in {"sent", "resolving"} => pc'[a] = pc[a] /\ at'[a] = at[a]
    BY <1>7 DEF LoadUnknown, ReadFailed, ReadJob, Elapse, vars, local, Resolver, Actor
  <2>. QED
    BY <2>1, <2>2
<1>. QED
  BY <1>1, <1>2, <1>4, <1>5, <1>6, <1>7
-----------------------------------------------------------------------------
(* What a settled status is worth.  Whoever is about to record or resolve  *)
(* an answer "Sent" has it from a rail that has paid, and so has whoever   *)
(* kept a change it could not save; a copy read long before cannot bring a *)
(* settled status back that was never true.                                *)

Evidence ==
  /\ SettledOnlyIfPaid
  /\ \A t \in Transfer : paid[t] => payouts[t] > 0
  /\ \A a \in Resolver :
       pc[a] \in {"sent", "resolving"} /\ answer[a].answer = "Sent" => payouts[at[a]] > 0
  /\ \A a \in Actor, t \in Transfer :
       pending[a][t].transfer # None /\ pending[a][t].transfer.status = "Settled" => payouts[t] > 0

LEMMA InitEvidence == Init => Evidence
BY DEF Init, Evidence, SettledOnlyIfPaid, Actor, NothingPending, Unchanged

LEMMA NothingIsPending == \A t \in Transfer : NothingPending[t].transfer = None /\ NothingPending[t].credits = 0
BY DEF NothingPending, Unchanged

(* What a worker has not saved is settled only if the rail has paid. *)
LEMMA UnsavedIsPaid ==
  ASSUME Typed, Evidence, NEW a \in Resolver, at[a] \in Transfer,
         pc[a] \in {"skipping", "sent", "resolving"},
         Unsaved(a).transfer # None, Unsaved(a).transfer.status = "Settled"
  PROVE  payouts[at[a]] > 0
<1>1. CASE pc[a] = "skipping"
  BY <1>1, UnsavedChange
<1>2. CASE pc[a] = "sent"
  BY <1>2, UnsavedChange DEF Outcome, Evidence
<1>3. CASE pc[a] = "resolving"
  <2>1. Answered(a).transfer # None /\ Answered(a).transfer.status = "Settled"
    BY <1>3, UnsavedChange
  <2>2. CASE answer[a].answer = "Unknown"
    BY <2>1, <2>2, ChangesTyped, Kinds DEF Evidence
  <2>3. CASE answer[a].answer # "Unknown"
    BY <1>3, <2>1, <2>3, ChangesTyped DEF Evidence
  <2>. QED
    BY <2>2, <2>3
<1>. QED
  BY <1>1, <1>2, <1>3

LEMMA EvidenceSaves ==
  ASSUME Typed, Evidence, NEW a \in Resolver, (a \in Worker /\ (Skip(a) \/ Record(a))) \/ Resolve(a)
  PROVE  Evidence'
<1>1. /\ at[a] \in Transfer /\ pc[a] \in {"skipping", "sent", "resolving"} /\ a \in Actor
      /\ pc'[a] \notin {"sent", "resolving"}
      /\ \A b \in Resolver \ {a} : pc'[b] = pc[b] /\ at'[b] = at[b] /\ answer'[b] = answer[b]
      /\ UNCHANGED <<payouts, paid>>
  BY SaveWrites, Kinds DEF Typed, TypeOK
<1>2. \A t \in Transfer : Saving(a, t).transfer # None /\ Saving(a, t).transfer.status = "Settled" =>
        payouts[t] > 0
  BY <1>1, UnsavedIsPaid DEF Saving, Evidence
<1>3. SettledOnlyIfPaid'
  <2>. SUFFICES ASSUME NEW t \in Transfer, transfer'[t].status = "Settled"
                PROVE  payouts[t] > 0
    BY <1>1 DEF SettledOnlyIfPaid
  <2>1. \/ transfer'[t].status = transfer[t].status
        \/ Saving(a, t).transfer # None /\ transfer'[t].status = Saving(a, t).transfer.status
    BY SaveWrites
  <2>. QED
    BY <1>2, <2>1 DEF Evidence, SettledOnlyIfPaid
<1>4. ASSUME NEW b \in Actor, NEW t \in Transfer, pending'[b][t].transfer # None,
             pending'[b][t].transfer.status = "Settled"
      PROVE  payouts[t] > 0
  <2>1. b # a
    BY <1>4, SaveWrites, NothingIsPending
  <2>. QED
    BY <1>4, <2>1, SaveWrites DEF Evidence
<1>. QED
  BY <1>1, <1>3, <1>4 DEF Evidence

LEMMA EvidenceRollbacks ==
  ASSUME Typed, Evidence, NEW w \in Worker,
         SendThrows(w) \/ AskThrows(w) \/ ReadThrows(w) \/ ReversalThrows(w) \/ SaveFails(w)
  PROVE  Evidence'
<1>1. at[w] \in Transfer /\ w \in Actor /\ w \in Resolver
  BY Rollbacks, Kinds
<1>2. PICK left \in Change : Rollback(w, left) /\ Leftover(w, left)
  BY Rollbacks
<1>3. /\ \A t \in Transfer : payouts[t] > 0 => payouts'[t] > 0
      /\ \A t \in Transfer : paid'[t] => payouts'[t] > 0
  <2>1. CASE SendThrows(w)
    <3>1. PICK pays \in BOOLEAN :
            /\ payouts' = [payouts EXCEPT ![at[w]] = IF pays THEN @ + 1 ELSE @]
            /\ paid' = [paid EXCEPT ![at[w]] = pays]
      BY <2>1 DEF SendThrows
    <3>. QED
      BY <1>1, <3>1 DEF Evidence, Typed, TypeOK
  <2>2. CASE ~SendThrows(w)
    BY <2>2, Rollbacks DEF Evidence
  <2>. QED
    BY <2>1, <2>2
<1>4. left.transfer # None /\ left.transfer.status = "Settled" => payouts[at[w]] > 0
  <2>. SUFFICES ASSUME left.transfer # None, left.transfer.status = "Settled"
                PROVE  payouts[at[w]] > 0
    OBVIOUS
  <2>1. CASE left = Unchanged \/ left.transfer = None
    BY <2>1 DEF Unchanged
  <2>2. CASE left.transfer = pending[w][at[w]].transfer
    BY <1>1, <2>2 DEF Evidence
  <2>3. CASE pc[w] \in {"skipping", "sent", "resolving"} /\ left = Unsaved(w)
    BY <1>1, <2>3, UnsavedIsPaid
  <2>4. CASE pc[w] = "resolving" /\ answer[w].answer # "Unknown" /\ left.transfer = Answered(w).transfer
    BY <1>1, <2>4, ChangesTyped DEF Evidence
  <2>. QED
    BY <1>2, <2>1, <2>2, <2>3, <2>4 DEF Leftover
<1>5. /\ UNCHANGED transfer
      /\ pc'[w] \notin {"sent", "resolving"}
      /\ \A b \in Resolver \ {w} : pc'[b] = pc[b] /\ at'[b] = at[b] /\ answer'[b] = answer[b]
  <2>1. /\ UNCHANGED transfer
        /\ pc' = [pc EXCEPT ![w] = IF Dispatching(w) THEN "jobs" ELSE "status"]
        /\ at' = [at EXCEPT ![w] = None] /\ answer' = [answer EXCEPT ![w] = NoAnswer]
    BY <1>1, <1>2, RollbackWrites
  <2>. QED
    BY <1>1, <2>1, Kinds DEF Typed, TypeOK
<1>6. SettledOnlyIfPaid'
  BY <1>3, <1>5 DEF Evidence, SettledOnlyIfPaid
<1>7. ASSUME NEW b \in Resolver, pc'[b] \in {"sent", "resolving"}, answer'[b].answer = "Sent"
      PROVE  payouts'[at'[b]] > 0
  BY <1>3, <1>5, <1>7 DEF Evidence, Typed, Placed, ResolverAt
<1>8. ASSUME NEW b \in Actor, NEW t \in Transfer, pending'[b][t].transfer # None,
             pending'[b][t].transfer.status = "Settled"
      PROVE  payouts'[t] > 0
  <2>1. CASE b # w
    BY <1>1, <1>2, <1>3, <1>8, <2>1, RollbackWrites DEF Evidence
  <2>2. CASE b = w
    <3>1. \/ t = at[w] /\ pending'[w][t] = left
          \/ pending'[w][t] = Unchanged \/ pending'[w][t] = pending[w][t]
      BY <1>1, <1>2, RollbackWrites
    <3>. QED
      BY <1>1, <1>3, <1>4, <1>8, <2>2, <3>1 DEF Evidence, Unchanged
  <2>. QED
    BY <2>1, <2>2
<1>. QED
  BY <1>3, <1>6, <1>7, <1>8 DEF Evidence

LEMMA EvidenceStep ==
  ASSUME Typed, Evidence, [Next]_vars
  PROVE  Evidence'
<1>1. CASE Quiet
  <2>1. ASSUME NEW a \in Actor, NEW t \in Transfer, pending'[a][t].transfer # None,
               pending'[a][t].transfer.status = "Settled"
        PROVE  payouts'[t] > 0
    <3>1. pending'[a] # NothingPending
      BY <2>1, NothingIsPending
    <3>. QED
      BY <1>1, <2>1, <3>1 DEF Quiet, Evidence
  <2>. QED
    BY <1>1, <2>1 DEF Evidence, SettledOnlyIfPaid, Quiet
<1>2. ASSUME NEW w \in Worker, Send(w) PROVE Evidence'
  <2>1. at[w] \in Transfer /\ w \in Resolver /\ w \in Actor
    BY <1>2, Kinds DEF Typed, Placed, ResolverAt, Send
  <2>2. PICK a \in RailAnswers :
          /\ answer' = [answer EXCEPT ![w] = a]
          /\ payouts' = [payouts EXCEPT ![at[w]] = IF a.pays THEN @ + 1 ELSE @]
          /\ paid' = [paid EXCEPT ![at[w]] = a.pays]
    BY <1>2 DEF Send
  <2>3. a \in RailAnswerType
    BY RailAssumption
  <2>4. pc' = [pc EXCEPT ![w] = "sent"] /\ UNCHANGED <<transfer, at, pending>>
    BY <1>2 DEF Send, store, context
  <2>5. payouts'[at[w]] > 0 \/ (payouts'[at[w]] = payouts[at[w]] /\ ~a.pays)
    BY <2>1, <2>2, <2>3 DEF Typed, TypeOK, RailAnswerType
  <2>6. \A t \in Transfer : payouts[t] > 0 => payouts'[t] > 0
    BY <2>1, <2>2 DEF Typed, TypeOK
  <2>7. SettledOnlyIfPaid'
    BY <2>4, <2>6 DEF Evidence, SettledOnlyIfPaid
  <2>8. \A t \in Transfer : paid'[t] => payouts'[t] > 0
    BY <2>1, <2>2, <2>5, <2>6 DEF Evidence, Typed, TypeOK
  <2>9. a.answer = "Sent" => payouts'[at[w]] > 0
    BY <2>1, <2>2, <2>3 DEF Typed, TypeOK, RailAnswerType
  <2>10. \A b \in Resolver \ {w} : pc'[b] = pc[b] /\ answer'[b] = answer[b]
    BY <2>2, <2>4 DEF Typed, TypeOK, Actor
  <2>11. answer'[w] = a
    BY <2>1, <2>2 DEF Typed, TypeOK
  <2>12. ASSUME NEW b \in Resolver, pc'[b] \in {"sent", "resolving"}, answer'[b].answer = "Sent"
         PROVE  payouts'[at'[b]] > 0
    <3>1. CASE b = w
      BY <2>4, <2>9, <2>11, <2>12, <3>1
    <3>2. CASE b # w
      <4>1. at[b] \in Transfer /\ payouts[at[b]] > 0
        BY <2>10, <2>12, <3>2 DEF Evidence, Typed, Placed, ResolverAt
      <4>. QED
        BY <2>4, <2>6, <4>1
    <3>. QED
      BY <3>1, <3>2
  <2>. QED
    BY <2>4, <2>6, <2>7, <2>8, <2>12 DEF Evidence
<1>3. ASSUME NEW a \in Resolver, AskRail(a) PROVE Evidence'
  <2>1. /\ pc[a] = "asking" /\ pc' = [pc EXCEPT ![a] = "resolving"]
        /\ UNCHANGED <<transfer, payouts, paid, at, pending>>
        /\ \E says \in {"Unknown", IF paid[at[a]] THEN "Sent" ELSE "Failed"} :
             answer' = [answer EXCEPT ![a] = [answer |-> says, ref |-> FALSE, pays |-> FALSE]]
    BY <1>3 DEF AskRail, store, rail, context
  <2>2. at[a] \in Transfer
    BY <2>1 DEF Typed, Placed, ResolverAt
  <2>3. answer'[a].answer = "Sent" => payouts[at[a]] > 0
    BY <2>1, <2>2 DEF Evidence, Typed, TypeOK
  <2>4. \A b \in Resolver \ {a} : pc'[b] = pc[b] /\ answer'[b] = answer[b]
    BY <2>1 DEF Typed, TypeOK, Actor
  <2>. QED
    BY <2>1, <2>3, <2>4 DEF Evidence, SettledOnlyIfPaid
<1>4. ASSUME NEW d \in Admin, Repost(d) PROVE Evidence'
  <2>. DEFINE t == at[d]
              new == [status |-> "Submitted", ref |-> FALSE]
  <2>1. t \in Transfer /\ transfer[t] \in TransferRow /\ d \in Actor
    BY <1>4 DEF Typed, TypeOK, Placed, AdminAt, Repost, Actor
  <2>2. /\ transfer' = [transfer EXCEPT ![t] = Saved(@, seenTransfer[d][t], new)]
        /\ pc' = [pc EXCEPT ![d] = "idle"] /\ at' = [at EXCEPT ![d] = None]
        /\ pending' = [pending EXCEPT ![d] = NothingPending]
        /\ UNCHANGED <<payouts, paid, answer>>
    BY <1>4 DEF Repost, Leave, rail
  <2>3. new \in TransferRow /\ new.status = "Submitted"
    BY Constructed
  <2>. HIDE DEF t, new
  <2>4. Saved(transfer[t], seenTransfer[d][t], new).status \in {transfer[t].status, "Submitted"}
    BY <2>1, <2>3, SavedTransfer
  <2>5. SettledOnlyIfPaid'
    BY <2>1, <2>2, <2>4 DEF Evidence, SettledOnlyIfPaid, Typed, TypeOK
  <2>6. \A b \in Resolver : pc'[b] = pc[b] /\ at'[b] = at[b]
    BY <2>2, Kinds DEF Typed, TypeOK, Actor
  <2>7. \A b \in Actor, x \in Transfer :
          pending'[b][x].transfer = None \/ pending'[b][x].transfer = pending[b][x].transfer
    BY <2>1, <2>2, NothingIsPending DEF Typed, TypeOK
  <2>. QED
    BY <2>2, <2>5, <2>6, <2>7 DEF Evidence
<1>. QED
  BY <1>1, <1>2, <1>3, <1>4, QuietSteps, EvidenceSaves, EvidenceRollbacks, Kinds
     DEF Next, WorkerStep, WorkerFails, QueryStep

(* For any workers, status queries, reposts and faults, and whatever is    *)
(* left in a worker's DbContext by a transaction that was rolled back, a   *)
(* transfer is marked settled only if the rail has paid.                   *)
THEOREM SettledIsPaid == Spec => []SettledOnlyIfPaid
<1>1. Evidence => SettledOnlyIfPaid
  BY DEF Evidence
<1>. QED
  BY <1>1, TypedInit, TypedStep, InitEvidence, EvidenceStep, PTL DEF Spec
-----------------------------------------------------------------------------
(* Nothing is left behind.  A crash ends the DbContext; a failure of the    *)
(* rail, or of a commit, leaves nothing in it that is still to be saved.   *)

Calm == MaxFaults = 0 \/ FaultKinds \subseteq {"crash", "rail", "commit"}

NoPending == \A a \in Actor : pending[a] = NothingPending

LEMMA NoPendingInit == Init => NoPending
BY DEF Init, NoPending

LEMMA CalmFaults ==
  ASSUME Calm, Typed, NEW w \in Worker
  PROVE  /\ ~ReadThrows(w) /\ ~ReversalThrows(w) /\ ~SaveFails(w)
         /\ \A t \in Transfer : ~ClaimFails(w, t)
         /\ MaxFaults = 0 => ~WorkerFails(w)
<1>1. \A kind : Fault(kind) => kind \in FaultKinds /\ MaxFaults # 0
  BY LimitAssumption DEF Fault, Typed, TypeOK
<1>2. \A kind \in {"read", "reversal", "save"} : ~Fault(kind)
  BY <1>1 DEF Calm
<1>3. ~ReadThrows(w) /\ ~ReversalThrows(w) /\ ~SaveFails(w) /\ \A t \in Transfer : ~ClaimFails(w, t)
  BY <1>2 DEF ReadThrows, ReversalThrows, SaveFails, ClaimFails
<1>. QED
  BY <1>1, <1>3 DEF WorkerFails, SendThrows, AskThrows, CommitFails, Crash

(* A save then touches no other transfer than the one at hand. *)
LEMMA SaveCalm ==
  ASSUME Typed, NoPending, NEW a \in Resolver, (a \in Worker /\ (Skip(a) \/ Record(a))) \/ Resolve(a)
  PROVE  /\ transfer' = [transfer EXCEPT ![at[a]] = transfer'[at[a]]]
         /\ refunds' = [refunds EXCEPT ![at[a]] = @ + Unsaved(a).credits]
         /\ Unsaved(a).transfer = None => transfer' = transfer
         /\ Unsaved(a).transfer # None =>
              transfer'[at[a]].status =
                IF Unsaved(a).transfer.status = seenTransfer[a][at[a]].status
                  THEN transfer[at[a]].status ELSE Unsaved(a).transfer.status
         /\ \A t \in Transfer \ {at[a]} : a \in Worker => seenTransfer'[a][t] = seenTransfer[a][t]
<1>1. a \in Actor /\ at[a] \in Transfer
  BY SaveWrites, Kinds
<1>2. \A t \in Transfer \ {at[a]} : Saving(a, t).transfer = None /\ Saving(a, t).credits = 0
  BY <1>1, NothingIsPending DEF Saving, NoPending
<1>3. Saving(a, at[a]) = Unsaved(a)
  BY DEF Saving
<1>4. OriginalTransfer(a, at[a]) = seenTransfer[a][at[a]]
  BY <1>1, SaveWrites, Kinds DEF OriginalTransfer, Either, Typed, Placed, ResolverAt
<1>5. Typed'
  BY TypedSaves, TypedQuery DEF Resolver
<1>6. transfer' \in [Transfer -> TransferRow] /\ refunds' \in [Transfer -> Nat]
      /\ transfer \in [Transfer -> TransferRow] /\ refunds \in [Transfer -> Nat]
  BY <1>5 DEF Typed, TypeOK
<1>7. \A t \in Transfer \ {at[a]} : transfer'[t] = transfer[t] /\ refunds'[t] = refunds[t]
  BY <1>2, <1>6, SaveWrites
<1>8. refunds'[at[a]] = refunds[at[a]] + Unsaved(a).credits
  BY <1>1, <1>3, SaveWrites
<1>9. /\ Unsaved(a).transfer = None => transfer'[at[a]] = transfer[at[a]]
      /\ Unsaved(a).transfer # None =>
              transfer'[at[a]].status =
                IF Unsaved(a).transfer.status = seenTransfer[a][at[a]].status
                  THEN transfer[at[a]].status ELSE Unsaved(a).transfer.status
  BY <1>1, <1>3, <1>4, SaveWrites
<1>10. /\ transfer' = [transfer EXCEPT ![at[a]] = transfer'[at[a]]]
       /\ refunds' = [refunds EXCEPT ![at[a]] = @ + Unsaved(a).credits]
       /\ Unsaved(a).transfer = None => transfer' = transfer
  BY <1>1, <1>6, <1>7, <1>8, <1>9
<1>11. \A t \in Transfer \ {at[a]} : a \in Worker => seenTransfer'[a][t] = seenTransfer[a][t]
  BY <1>2, SaveWrites DEF Either
<1>. QED
  BY <1>9, <1>10, <1>11

LEMMA RecordWrites ==
  ASSUME Typed, NoPending, NEW w \in Worker, Record(w)
  PROVE  /\ at[w] \in Transfer /\ pc[w] = "sent" /\ lockedBy[at[w]] = w
         /\ transfer' = [transfer EXCEPT ![at[w]] = transfer'[at[w]]]
         /\ transfer'[at[w]].status =
              IF Outcome(answer[w]) = seenTransfer[w][at[w]].status
                THEN transfer[at[w]].status ELSE Outcome(answer[w])
         /\ refunds' = [refunds EXCEPT ![at[w]] = @ + IF Outcome(answer[w]) = "Failed" THEN 1 ELSE 0]
         /\ pc' = [pc EXCEPT ![w] = "jobs"] /\ at' = [at EXCEPT ![w] = None]
         /\ answer' = [answer EXCEPT ![w] = NoAnswer]
         /\ UNCHANGED <<payouts, paid, unknowns>>
<1>1. pc[w] = "sent" /\ w \in Resolver /\ at[w] \in Transfer
  BY Kinds, SaveWrites DEF Record
<1>2. /\ Unsaved(w).transfer # None /\ Unsaved(w).transfer.status = Outcome(answer[w])
      /\ Unsaved(w).credits = (IF Outcome(answer[w]) = "Failed" THEN 1 ELSE 0)
  BY <1>1, Kinds, UnsavedChange
<1>. QED
  BY <1>1, <1>2, SaveCalm, SaveWrites

LEMMA ResolveWrites ==
  ASSUME Typed, NoPending, NEW a \in Resolver, Resolve(a)
  PROVE  /\ at[a] \in Transfer /\ pc[a] = "resolving"
         /\ transfer' = [transfer EXCEPT ![at[a]] = transfer'[at[a]]]
         /\ transfer'[at[a]].status \in
              {transfer[at[a]].status,
               CASE answer[a].answer = "Sent" -> "Settled" [] answer[a].answer = "Failed" -> "Failed"
                 [] OTHER -> transfer[at[a]].status}
         /\ refunds' = [refunds EXCEPT ![at[a]] = @ + IF answer[a].answer = "Failed" THEN 1 ELSE 0]
         /\ pc' = [pc EXCEPT ![a] = IF a \in Worker THEN "status" ELSE "idle"]
         /\ at' = [at EXCEPT ![a] = None]
         /\ answer' = [answer EXCEPT ![a] = NoAnswer]
         /\ UNCHANGED <<payouts, paid, unknowns>>
<1>1. pc[a] = "resolving" /\ at[a] \in Transfer /\ a \in Actor
  BY Kinds, SaveWrites DEF Resolve
<1>2. Unsaved(a) = Answered(a) /\ answer[a].answer \in Verdict
  BY <1>1, UnsavedChange DEF Typed, TypeOK
<1>3. pending[a][at[a]] = Unchanged
  BY <1>1 DEF NoPending, NothingPending
<1>4. /\ pc' = [pc EXCEPT ![a] = IF a \in Worker THEN "status" ELSE "idle"]
      /\ at' = [at EXCEPT ![a] = None] /\ answer' = [answer EXCEPT ![a] = NoAnswer]
      /\ UNCHANGED <<payouts, paid, unknowns>>
  BY <1>1, SaveWrites
<1>5. CASE answer[a].answer = "Unknown"
  <2>1. Unsaved(a).transfer = None /\ Unsaved(a).credits = 0
    BY <1>1, <1>2, <1>3, <1>5, ChangesTyped DEF Unchanged
  <2>. QED
    BY <1>1, <1>4, <1>5, <2>1, SaveCalm
<1>6. CASE answer[a].answer # "Unknown"
  <2>1. /\ Unsaved(a).transfer # None
        /\ Unsaved(a).transfer.status = (IF answer[a].answer = "Sent" THEN "Settled" ELSE "Failed")
        /\ Unsaved(a).credits = 0 + (IF answer[a].answer = "Failed" THEN 1 ELSE 0)
    BY <1>1, <1>2, <1>3, <1>6, ChangesTyped, Kinds DEF Unchanged
  <2>2. Unsaved(a).credits = IF answer[a].answer = "Failed" THEN 1 ELSE 0
    BY <2>1
  <2>. QED
    BY <1>1, <1>2, <1>4, <1>6, <2>1, <2>2, SaveCalm DEF Verdict
<1>. QED
  BY <1>5, <1>6

LEMMA SkipWrites ==
  ASSUME Typed, NoPending, NEW w \in Worker, Skip(w)
  PROVE  Quiet
<1>1. pc[w] = "skipping" /\ w \in Resolver /\ w \in Actor /\ at[w] \in Transfer
  BY Kinds, SaveWrites DEF Skip
<1>2. Unsaved(w).transfer = None /\ Unsaved(w).credits = 0
  BY <1>1, UnsavedChange
<1>3. UNCHANGED <<transfer, refunds, payouts, paid>>
  BY <1>1, <1>2, SaveCalm, SaveWrites DEF Typed, TypeOK
<1>4. /\ pc' = [pc EXCEPT ![w] = "jobs"] /\ at' = [at EXCEPT ![w] = None]
      /\ answer' = [answer EXCEPT ![w] = NoAnswer]
  BY <1>1, SaveWrites
<1>5. \A a \in Resolver : pc'[a] \in {"sent", "resolving"} =>
        pc'[a] = pc[a] /\ at'[a] = at[a] /\ answer'[a] = answer[a]
  BY <1>1, <1>4 DEF Typed, TypeOK, Actor
<1>6. \A a \in Actor : pending'[a] # NothingPending =>
        \A t \in Transfer : pending'[a][t].transfer = pending[a][t].transfer
  BY <1>1, SaveWrites
<1>. QED
  BY <1>3, <1>5, <1>6 DEF Quiet

LEMMA RollbackCalm ==
  ASSUME Typed, NoPending, NEW w \in Worker, SendThrows(w) \/ AskThrows(w)
  PROVE  /\ at[w] \in Transfer
         /\ UNCHANGED <<transfer, refunds, jobs, unknowns, seenTransfer, pending>>
         /\ pc' = [pc EXCEPT ![w] = IF SendThrows(w) THEN "jobs" ELSE "status"]
         /\ at' = [at EXCEPT ![w] = None]
         /\ answer' = [answer EXCEPT ![w] = NoAnswer]
<1>1. w \in Actor /\ at[w] \in Transfer /\ pending[w] = NothingPending
      /\ pending[w][at[w]] = Unchanged
  BY Kinds, Rollbacks DEF NoPending, NothingPending
<1>2. Rollback(w, Unchanged) /\ Unchanged \in Change
  BY <1>1, Constructed DEF SendThrows, AskThrows
<1>3. Typed'
  BY TypedRollbacks
<1>4. ASSUME NEW t \in Transfer
      PROVE  pending'[w][t] = Unchanged /\ seenTransfer'[w][t] = seenTransfer[w][t]
  <2>1. pending[w][t] = Unchanged
    BY <1>1 DEF NothingPending
  <2>. QED
    BY <1>1, <1>2, <2>1, RollbackWrites DEF Either, Unchanged
<1>5. \A b \in Actor : /\ \A t \in Transfer : /\ pending'[b][t] = pending[b][t]
                                              /\ seenTransfer'[b][t] = seenTransfer[b][t]
                       /\ pending'[b] \in [Transfer -> Change] /\ pending[b] \in [Transfer -> Change]
                       /\ seenTransfer'[b] \in [Transfer -> TransferRow \cup {None}]
                       /\ seenTransfer[b] \in [Transfer -> TransferRow \cup {None}]
  <2>1. \A b \in Actor : /\ pending'[b] \in [Transfer -> Change] /\ pending[b] \in [Transfer -> Change]
                         /\ seenTransfer'[b] \in [Transfer -> TransferRow \cup {None}]
                         /\ seenTransfer[b] \in [Transfer -> TransferRow \cup {None}]
    BY <1>3 DEF Typed, TypeOK
  <2>2. \A t \in Transfer : pending[w][t] = Unchanged
    BY <1>1 DEF NothingPending
  <2>. QED
    BY <1>1, <1>2, <1>4, <2>1, <2>2, RollbackWrites
<1>6. \A b \in Actor : pending'[b] = pending[b] /\ seenTransfer'[b] = seenTransfer[b]
  BY <1>5
<1>7. pending' = pending /\ seenTransfer' = seenTransfer
  BY <1>3, <1>6 DEF Typed, TypeOK
<1>8. Dispatching(w) <=> SendThrows(w)
  BY DEF SendThrows, AskThrows, Dispatching
<1>. QED
  BY <1>1, <1>2, <1>7, <1>8, RollbackWrites

LEMMA NoPendingStep ==
  ASSUME Calm, Typed, NoPending, [Next]_vars
  PROVE  NoPending'
<1>. USE Kinds DEF NoPending
<1>1. ASSUME UNCHANGED pending PROVE NoPending'
  BY <1>1
<1>2. ASSUME NEW a \in Actor, pending' = [pending EXCEPT ![a] = NothingPending] PROVE NoPending'
  BY <1>2 DEF Typed, TypeOK
<1>3. ASSUME NEW w \in Worker, WorkerStep(w) PROVE NoPending'
  <2>1. CASE Skip(w) \/ Record(w) \/ Resolve(w)
    BY <2>1, SaveWrites
  <2>2. CASE EndBatch(w)
    BY <1>2, <2>2 DEF EndBatch, Leave
  <2>3. CASE ~Skip(w) /\ ~Record(w) /\ ~Resolve(w) /\ ~EndBatch(w)
    BY <1>1, <1>3, <2>3 DEF WorkerStep, LoadJobs, ClaimJob, LoadTransfer, Send, LoadUnknowns, NextUnknown,
       AskRail, context
  <2>. QED
    BY <2>1, <2>2, <2>3
<1>4. ASSUME NEW w \in Worker, WorkerFails(w) PROVE NoPending'
  <2>1. SendThrows(w) \/ AskThrows(w) \/ CommitFails(w) \/ Crash(w)
    BY <1>4, CalmFaults DEF WorkerFails
  <2>2. CASE SendThrows(w) \/ AskThrows(w)
    BY <1>1, <2>2, RollbackCalm
  <2>3. CASE CommitFails(w) \/ Crash(w)
    BY <1>2, <2>3 DEF CommitFails, Accept, Crash, Leave
  <2>. QED
    BY <2>1, <2>2, <2>3
<1>5. ASSUME NEW q \in Querier, QueryStep(q) PROVE NoPending'
  <2>1. CASE Resolve(q)
    BY <2>1, SaveWrites
  <2>2. CASE ~Resolve(q)
    BY <1>1, <1>5, <2>2 DEF QueryStep, LoadUnknown, AskRail, context
  <2>. QED
    BY <2>1, <2>2
<1>6. ASSUME NEW d \in Admin, ReadFailed(d) \/ ReadJob(d) \/ Repost(d) PROVE NoPending'
  BY <1>1, <1>2, <1>6 DEF ReadFailed, ReadJob, Repost, Leave
<1>7. ASSUME NEW a \in Querier \cup Admin, RequestFails(a) PROVE NoPending'
  BY <1>2, <1>7 DEF RequestFails, Leave
<1>8. ASSUME (\E t \in Transfer : Elapse(t)) \/ UNCHANGED vars PROVE NoPending'
  BY <1>1, <1>8 DEF Elapse, vars, local, context
<1>. QED
  BY <1>3, <1>4, <1>5, <1>6, <1>7, <1>8 DEF Next
-----------------------------------------------------------------------------
(* A worker reads a transfer after it has claimed its job, and has no copy *)
(* of it from before: its batch works on a job once, and its status loop   *)
(* comes after its jobs.                                                   *)

FreshFor(w) ==
  /\ pc[w] = "idle" => seenTransfer[w] = Nothing
  /\ pc[w] = "claimed" => seenTransfer[w][at[w]] = None
  /\ \A t \in jobs[w] : seenTransfer[w][t] = None

Fresh == \A w \in Worker : FreshFor(w)

LEMMA FreshInit == Init => Fresh
BY DEF Init, Fresh, FreshFor, Nothing, Actor, Resolver

LEMMA FreshStep ==
  ASSUME Calm, Typed, NoPending, Fresh, [Next]_vars
  PROVE  Fresh'
<1>. USE Kinds DEF Typed, TypeOK, Fresh, FreshFor
<1>1. ASSUME NEW w \in Worker, LoadJobs(w) PROVE Fresh'
  BY <1>1 DEF LoadJobs, Nothing
<1>2. ASSUME NEW w \in Worker, NEW t \in Transfer, ClaimJob(w, t) PROVE Fresh'
  <2>1. /\ pc' = [pc EXCEPT ![w] = "claimed"] /\ at' = [at EXCEPT ![w] = t] /\ t \in jobs[w]
        /\ jobs' = [jobs EXCEPT ![w] = @ \ {t}] /\ UNCHANGED seenTransfer
    BY <1>2 DEF ClaimJob
  <2>. QED
    BY <2>1
<1>3. ASSUME NEW w \in Worker, LoadTransfer(w) PROVE Fresh'
  <2>1. /\ at[w] \in Transfer /\ at[w] \notin jobs[w]
        /\ seenTransfer' = [seenTransfer EXCEPT ![w][at[w]] = OriginalTransfer(w, at[w])]
        /\ UNCHANGED jobs
    BY <1>3 DEF LoadTransfer, Placed, WorkerAt, ResolverAt, Dispatching
  <2>2. /\ pc'[w] \in {"skipping", "sending"}
        /\ \A v \in Worker \ {w} : pc'[v] = pc[v] /\ at'[v] = at[v]
    BY <1>3 DEF LoadTransfer
  <2>. QED
    BY <2>1, <2>2
<1>4. ASSUME NEW w \in Worker, Send(w) PROVE Fresh'
  BY <1>4 DEF Send, context
<1>5. ASSUME NEW w \in Worker, SendThrows(w) \/ AskThrows(w) PROVE Fresh'
  <2>1. /\ UNCHANGED <<jobs, seenTransfer>> /\ at' = [at EXCEPT ![w] = None]
        /\ pc' = [pc EXCEPT ![w] = IF SendThrows(w) THEN "jobs" ELSE "status"]
    BY <1>5, RollbackCalm
  <2>. QED
    BY <2>1
<1>6. ASSUME NEW w \in Worker, LoadUnknowns(w) PROVE Fresh'
  BY <1>6 DEF LoadUnknowns
<1>7. ASSUME NEW w \in Worker, NextUnknown(w) PROVE Fresh'
  BY <1>7 DEF NextUnknown, context
<1>8. ASSUME NEW w \in Worker, EndBatch(w) \/ Crash(w) PROVE Fresh'
  <2>1. pc' = [pc EXCEPT ![w] = "idle"] /\ seenTransfer' = [seenTransfer EXCEPT ![w] = Nothing]
        /\ at' = [at EXCEPT ![w] = None]
    BY <1>8 DEF EndBatch, Crash, Leave
  <2>2. jobs'[w] = {} /\ \A v \in Worker \ {w} : jobs'[v] = jobs[v]
    BY <1>8 DEF EndBatch, Crash, Placed, WorkerAt
  <2>. QED
    BY <2>1, <2>2
<1>9. ASSUME NEW q \in Querier, LoadUnknown(q) PROVE Fresh'
  BY <1>9 DEF LoadUnknown
<1>10. ASSUME NEW a \in Resolver, AskRail(a) PROVE Fresh'
  BY <1>10 DEF AskRail, context
<1>11. ASSUME NEW w \in Worker, CommitFails(w) PROVE Fresh'
  <2>. DEFINE changes == [pending[w] EXCEPT ![at[w]] = Unsaved(w)]
  <2>1. /\ at[w] \in Transfer /\ w \in Actor /\ pc[w] \in {"skipping", "sent", "resolving"}
        /\ pc' = [pc EXCEPT ![w] = IF Dispatching(w) THEN "jobs" ELSE "status"]
        /\ at' = [at EXCEPT ![w] = None] /\ UNCHANGED jobs
    BY <1>11 DEF CommitFails, Return, Placed, ResolverAt
  <2>2. changes \in [Transfer -> Change] /\ NothingPending \in [Transfer -> Change]
    BY <2>1, UnsavedTyped, ChangedTyped, Constructed
  <2>3. Accept(w, changes, NothingPending)
    BY <1>11 DEF CommitFails
  <2>4. \A t \in Transfer \ {at[w]} : changes[t].transfer = None
    BY <2>1, NothingIsPending DEF NoPending
  <2>. HIDE DEF changes
  <2>. HIDE DEF Typed, TypeOK, Fresh
  <2>5. /\ \A b \in Actor \ {w} : seenTransfer'[b] = seenTransfer[b]
        /\ \A t \in Transfer : seenTransfer'[w][t] = Either(changes[t].transfer, seenTransfer[w][t])
    BY <2>1, <2>2, <2>3, AcceptTyped, TypedContext
  <2>6. \A t \in Transfer \ {at[w]} : seenTransfer'[w][t] = seenTransfer[w][t]
    BY <2>4, <2>5 DEF Either
  <2>7. at[w] \notin jobs[w] /\ pc'[w] \in {"jobs", "status"}
        /\ \A b \in Actor \ {w} : pc'[b] = pc[b] /\ at'[b] = at[b]
    BY <2>1 DEF Typed, TypeOK, Placed, WorkerAt, Dispatching
  <2>8. ASSUME NEW v \in Worker, v # w PROVE FreshFor(v)'
    BY <2>1, <2>5, <2>7, <2>8 DEF Fresh
  <2>9. FreshFor(w)'
    <3>1. \A t \in jobs'[w] : t \in Transfer /\ t # at[w] /\ seenTransfer[w][t] = None
      BY <2>1, <2>7 DEF Typed, TypeOK, Fresh
    <3>. QED
      BY <2>6, <2>7, <3>1
  <2>. QED
    BY <2>8, <2>9 DEF Fresh
<1>12. ASSUME NEW a \in Resolver, (a \in Worker /\ (Skip(a) \/ Record(a))) \/ Resolve(a) PROVE Fresh'
  <2>1. /\ at[a] \in Transfer /\ pc[a] \in {"skipping", "sent", "resolving"} /\ a \in Actor
        /\ pc' = [pc EXCEPT ![a] = IF pc[a] # "resolving" THEN "jobs"
                                   ELSE IF a \in Worker THEN "status" ELSE "idle"]
        /\ at' = [at EXCEPT ![a] = None] /\ UNCHANGED jobs
        /\ \A b \in Actor \ {a} : seenTransfer'[b] = seenTransfer[b]
        /\ pc[a] # "resolving" => a \in Worker
    BY <1>12, SaveWrites
  <2>2. \A t \in Transfer \ {at[a]} : a \in Worker => seenTransfer'[a][t] = seenTransfer[a][t]
    BY <1>12, SaveCalm
  <2>3. a \in Worker => at[a] \notin jobs[a]
    BY <2>1 DEF Placed, WorkerAt, Dispatching
  <2>4. /\ a \in Worker => pc'[a] \in {"jobs", "status"}
        /\ \A b \in Actor \ {a} : pc'[b] = pc[b] /\ at'[b] = at[b]
    BY <2>1
  <2>5. ASSUME NEW v \in Worker, v # a PROVE FreshFor(v)'
    <3>1. pc'[v] = pc[v] /\ at'[v] = at[v] /\ seenTransfer'[v] = seenTransfer[v] /\ jobs' = jobs
      BY <2>1, <2>4, <2>5
    <3>. QED
      BY <3>1
  <2>6. ASSUME a \in Worker PROVE FreshFor(a)'
    BY <2>1, <2>2, <2>3, <2>4, <2>6
  <2>. HIDE DEF FreshFor
  <2>. QED
    BY <2>5, <2>6
<1>13. ASSUME NEW a \in Actor, a \notin Worker,
              ReadFailed(a) \/ ReadJob(a) \/ Repost(a) \/ RequestFails(a)
       PROVE  Fresh'
  <2>1. /\ UNCHANGED jobs
        /\ \A v \in Worker : pc'[v] = pc[v] /\ at'[v] = at[v] /\ seenTransfer'[v] = seenTransfer[v]
    BY <1>13 DEF ReadFailed, ReadJob, Repost, RequestFails, Leave
  <2>. QED
    BY <2>1
<1>14. CASE (\E t \in Transfer : Elapse(t)) \/ UNCHANGED vars
  BY <1>14 DEF Elapse, vars, local, context
<1>. HIDE DEF Typed, TypeOK, Fresh, FreshFor
<1>15. ASSUME NEW w \in Worker, WorkerFails(w) PROVE Fresh'
  BY <1>5, <1>8, <1>11, <1>15, CalmFaults DEF WorkerFails
<1>16. ASSUME NEW a \in Querier \cup Admin, RequestFails(a) PROVE Fresh'
  BY <1>13, <1>16
<1>17. ASSUME NEW d \in Admin, ReadFailed(d) \/ ReadJob(d) \/ Repost(d) PROVE Fresh'
  BY <1>13, <1>17
<1>18. ASSUME NEW w \in Worker, WorkerStep(w) PROVE Fresh'
  BY <1>1, <1>2, <1>3, <1>4, <1>6, <1>7, <1>8, <1>10, <1>12, <1>18 DEF WorkerStep
<1>19. ASSUME NEW q \in Querier, QueryStep(q) PROVE Fresh'
  BY <1>9, <1>10, <1>12, <1>19 DEF QueryStep
<1>. QED
  BY <1>14, <1>15, <1>16, <1>17, <1>18, <1>19 DEF Next

(* So only a transfer that is Submitted now is sent. *)
LEMMA LoadedNow ==
  ASSUME Typed, Fresh, NoPending, NEW w \in Worker, LoadTransfer(w), pc'[w] = "sending"
  PROVE  /\ at[w] \in Transfer /\ at' = at
         /\ transfer[at[w]].status = "Submitted"
         /\ seenTransfer'[w][at[w]] = transfer[at[w]]
<1>1. at[w] \in Transfer /\ pc[w] = "claimed" /\ w \in Actor
  BY Kinds DEF LoadTransfer, Typed, Placed, ResolverAt
<1>2. OriginalTransfer(w, at[w]) = transfer[at[w]] /\ TransferOf(w, at[w]) = transfer[at[w]]
  BY <1>1, NothingIsPending DEF OriginalTransfer, TransferOf, Either, Fresh, FreshFor, NoPending
<1>3. ~NothingToSend(transfer[at[w]]) /\ UNCHANGED at
  BY <1>1, <1>2 DEF LoadTransfer, Typed, TypeOK
<1>4. transfer[at[w]].status = "Submitted"
  BY <1>1, <1>3 DEF NothingToSend, Typed, TypeOK, TransferRow, TransferStatus
<1>5. seenTransfer'[w][at[w]] = transfer[at[w]]
  BY <1>1, <1>2 DEF LoadTransfer, Typed, TypeOK
<1>. QED
  BY <1>1, <1>3, <1>4, <1>5
-----------------------------------------------------------------------------
(* Without reposts. *)

NoReposts == MaxReposts = 0

(* Whoever sends, sends a transfer that is Submitted; whoever asks about   *)
(* one, or is about to, asks about one that no longer is.                  *)
SubmittedWhileSending ==
  \A w \in Worker : pc[w] \in {"sending", "sent"} =>
    transfer[at[w]].status = "Submitted" /\ seenTransfer[w][at[w]].status = "Submitted"

AskedWhenSent ==
  /\ \A t \in Transfer : transfer[t].ref => transfer[t].status # "Submitted"
  /\ \A w \in Worker : \A t \in unknowns[w] : transfer[t].status # "Submitted"
  /\ \A a \in Resolver : pc[a] \in {"asking", "resolving"} => transfer[at[a]].status # "Submitted"

(* An answer that is about to be used is still true of the transfer's last *)
(* instruction, and so is a refund, and a settled status.                  *)
AnswersTrue ==
  /\ \A a \in Resolver : pc[a] \in {"sent", "resolving"} =>
       /\ answer[a].answer = "Failed" => ~paid[at[a]]
       /\ answer[a].answer = "Sent" => paid[at[a]]
  /\ \A t \in Transfer : refunds[t] > 0 => ~paid[t] /\ transfer[t].status # "Submitted"
  /\ \A t \in Transfer : transfer[t].status = "Settled" => paid[t]

Decided ==
  /\ Fresh /\ NoPending
  /\ \A d \in Admin : pc[d] = "idle"
  /\ SubmittedWhileSending /\ AskedWhenSent /\ AnswersTrue

(* Where no call fails either, that instruction is the only one there has  *)
(* been, the one that put an end to Submitted or is about to.              *)
Undisturbed == MaxFaults = 0 /\ MaxReposts = 0

OneInstruction ==
  \A t \in Transfer :
    /\ payouts[t] = IF paid[t] THEN 1 ELSE 0
    /\ paid[t] /\ transfer[t].status = "Submitted" => \E w \in Worker : pc[w] = "sent" /\ at[w] = t

LEMMA DecidedInit == Init => Decided /\ OneInstruction
<1>1. Init => SubmittedWhileSending /\ AskedWhenSent
  BY DEF Init, SubmittedWhileSending, AskedWhenSent, Actor, Resolver
<1>2. Init => OneInstruction /\ AnswersTrue /\ \A d \in Admin : pc[d] = "idle"
  BY DEF Init, OneInstruction, AnswersTrue, Actor, Resolver
<1>. QED
  BY <1>1, <1>2, FreshInit, NoPendingInit DEF Decided

(* Two workers never send one transfer: the row of its job is locked.      *)
LEMMA OneSender ==
  ASSUME Typed, NEW v \in Worker, NEW w \in Worker, at[v] = at[w],
         Dispatching(v), Dispatching(w)
  PROVE  v = w
BY DEF Typed, Placed, WorkerAt

LEMMA OnceLoading ==
  ASSUME Typed, Decided, NEW w \in Worker,
         LoadJobs(w) \/ (\E t \in Transfer : ClaimJob(w, t)) \/ LoadTransfer(w) \/ Skip(w)
           \/ LoadUnknowns(w) \/ NextUnknown(w) \/ EndBatch(w)
  PROVE  /\ SubmittedWhileSending' /\ AskedWhenSent' /\ AnswersTrue'
         /\ OneInstruction => OneInstruction'
<1>1. Quiet
  BY QuietSteps, SkipWrites DEF Decided
<1>2. /\ \A v \in Actor \ {w} : pc'[v] = pc[v] /\ at'[v] = at[v] /\ seenTransfer'[v] = seenTransfer[v]
      /\ \A v \in Worker \ {w} : unknowns'[v] = unknowns[v]
      /\ pc[w] \notin {"sending", "sent"} /\ w \in Actor /\ w \in Resolver
      /\ pc'[w] \in {"jobs", "claimed", "skipping", "sending", "status", "asking", "idle"}
  <2>1. CASE Skip(w)
    <3>1. /\ pc' = [pc EXCEPT ![w] = "jobs"] /\ at' = [at EXCEPT ![w] = None] /\ unknowns' = unknowns
          /\ \A v \in Actor \ {w} : seenTransfer'[v] = seenTransfer[v]
          /\ pc[w] = "skipping"
      BY <2>1, SaveWrites, Kinds DEF Skip
    <3>. QED
      BY <3>1, Kinds DEF Typed, TypeOK
  <2>2. CASE ~Skip(w)
    BY <2>2, Kinds DEF LoadJobs, ClaimJob, LoadTransfer, LoadUnknowns, NextUnknown, EndBatch, Leave,
       context, Typed, TypeOK
  <2>. QED
    BY <2>1, <2>2
<1>3. pc'[w] = "sending" => LoadTransfer(w)
  BY <1>2 DEF LoadJobs, ClaimJob, Skip, Return, LoadUnknowns, NextUnknown, EndBatch, Leave, Typed, TypeOK
<1>4. \A t \in unknowns'[w] : transfer[t].status # "Submitted"
  BY <1>2 DEF LoadJobs, ClaimJob, LoadTransfer, Skip, LoadUnknowns, NextUnknown, EndBatch, Queried,
     Typed, TypeOK, Decided, AskedWhenSent
<1>5. pc'[w] = "asking" => transfer[at'[w]].status # "Submitted"
  <2>1. CASE NextUnknown(w)
    BY <1>2, <2>1 DEF NextUnknown, Typed, TypeOK, Decided, AskedWhenSent
  <2>2. CASE ~NextUnknown(w)
    BY <1>2, <2>2 DEF LoadJobs, ClaimJob, LoadTransfer, Skip, LoadUnknowns, EndBatch, Return, Leave,
       Typed, TypeOK
  <2>. QED
    BY <2>1, <2>2
<1>6. pc'[w] = "sending" =>
        transfer[at'[w]].status = "Submitted" /\ seenTransfer'[w][at'[w]].status = "Submitted"
  BY <1>3, LoadedNow DEF Decided
<1>7. SubmittedWhileSending'
  BY <1>1, <1>2, <1>6, Kinds DEF Decided, SubmittedWhileSending, Quiet
<1>8. AskedWhenSent'
  BY <1>1, <1>2, <1>4, <1>5 DEF Decided, AskedWhenSent, Quiet, Actor
<1>9. OneInstruction => OneInstruction'
  BY <1>1, <1>2, Kinds DEF OneInstruction, Quiet
<1>10. AnswersTrue'
  BY <1>1 DEF Decided, AnswersTrue, Quiet
<1>. QED
  BY <1>7, <1>8, <1>9, <1>10

LEMMA OnceSend ==
  ASSUME Typed, Decided, NEW w \in Worker, Send(w)
  PROVE  /\ SubmittedWhileSending' /\ AskedWhenSent' /\ AnswersTrue'
         /\ OneInstruction => OneInstruction'
<1>. DEFINE t == at[w]
<1>1. t \in Transfer /\ w \in Resolver /\ w \in Actor /\ pc[w] = "sending"
  BY Kinds DEF Typed, Placed, ResolverAt, Send
<1>2. PICK a \in RailAnswers :
        /\ answer' = [answer EXCEPT ![w] = a]
        /\ payouts' = [payouts EXCEPT ![t] = IF a.pays THEN @ + 1 ELSE @]
        /\ paid' = [paid EXCEPT ![t] = a.pays]
  BY DEF Send
<1>3. a \in RailAnswerType
  BY RailAssumption
<1>4. /\ pc' = [pc EXCEPT ![w] = "sent"]
      /\ UNCHANGED <<transfer, refunds, at, unknowns, seenTransfer>>
  BY DEF Send, store, context
<1>5. transfer[t].status = "Submitted"
  BY <1>1 DEF Decided, SubmittedWhileSending
<1>6. OneInstruction => ~paid[t]
  <2>. SUFFICES ASSUME OneInstruction, paid[t] PROVE FALSE
    OBVIOUS
  <2>1. PICK v \in Worker : pc[v] = "sent" /\ at[v] = t
    BY <1>1, <1>5 DEF OneInstruction
  <2>. QED
    BY <1>1, <2>1, OneSender DEF Dispatching
<1>7. \A b \in Resolver \ {w} : pc'[b] = pc[b] /\ answer'[b] = answer[b]
  BY <1>2, <1>4 DEF Typed, TypeOK, Actor
<1>8. pc'[w] = "sent" /\ answer'[w] = a
  BY <1>1, <1>2, <1>4 DEF Typed, TypeOK
<1>9. \A x \in Transfer : payouts'[x] = (IF x = t /\ a.pays THEN payouts[x] + 1 ELSE payouts[x])
                          /\ paid'[x] = (IF x = t THEN a.pays ELSE paid[x])
  BY <1>1, <1>2 DEF Typed, TypeOK
<1>. HIDE DEF t
<1>10. SubmittedWhileSending'
  BY <1>1, <1>4, <1>7, Kinds DEF Decided, SubmittedWhileSending
<1>11. AskedWhenSent'
  BY <1>4, <1>7, <1>8 DEF Decided, AskedWhenSent
<1>12. ASSUME OneInstruction PROVE OneInstruction'
  <2>1. ASSUME NEW x \in Transfer
        PROVE  payouts'[x] = IF paid'[x] THEN 1 ELSE 0
    BY <1>3, <1>6, <1>9, <1>12 DEF OneInstruction, RailAnswerType
  <2>2. ASSUME NEW x \in Transfer, paid'[x], transfer'[x].status = "Submitted"
        PROVE  \E v \in Worker : pc'[v] = "sent" /\ at'[v] = x
    <3>1. CASE x = t
      BY <1>4, <1>8, <3>1 DEF t
    <3>2. CASE x # t
      <4>1. paid[x] /\ transfer[x].status = "Submitted"
        BY <1>4, <1>9, <2>2, <3>2
      <4>2. PICK v \in Worker : pc[v] = "sent" /\ at[v] = x
        BY <1>12, <4>1 DEF OneInstruction
      <4>. QED
        BY <1>1, <1>4, <1>7, <4>2, Kinds
    <3>. QED
      BY <3>1, <3>2
  <2>. QED
    BY <2>1, <2>2 DEF OneInstruction
<1>13. AnswersTrue'
  <2>1. ASSUME NEW b \in Resolver, pc'[b] \in {"sent", "resolving"}
        PROVE  /\ answer'[b].answer = "Failed" => ~paid'[at'[b]]
               /\ answer'[b].answer = "Sent" => paid'[at'[b]]
    <3>1. CASE b = w
      BY <1>1, <1>3, <1>4, <1>8, <1>9, <2>1, <3>1 DEF RailAnswerType, t
    <3>2. CASE b # w
      <4>1. pc[b] \in {"sent", "resolving"} /\ answer'[b] = answer[b] /\ at'[b] = at[b]
        BY <1>4, <1>7, <2>1, <3>2
      <4>2. /\ at[b] \in Transfer
            /\ answer[b].answer = "Failed" => ~paid[at[b]]
            /\ answer[b].answer = "Sent" => paid[at[b]]
        BY <4>1 DEF Typed, Placed, ResolverAt, Decided, AnswersTrue
      <4>3. at[b] # t
        <5>1. CASE pc[b] = "resolving"
          BY <1>5, <5>1 DEF Decided, AskedWhenSent
        <5>2. CASE pc[b] = "sent"
          <6>1. b \in Worker
            BY <5>2 DEF Typed, Placed, QuerierAt, Resolver
          <6>. QED
            BY <1>1, <3>2, <5>2, <6>1, OneSender DEF t, Dispatching
        <5>. QED
          BY <4>1, <5>1, <5>2
      <4>. QED
        BY <1>9, <4>1, <4>2, <4>3
    <3>. QED
      BY <3>1, <3>2
  <2>2. ASSUME NEW x \in Transfer, refunds'[x] > 0
        PROVE  ~paid'[x] /\ transfer'[x].status # "Submitted"
    <3>1. ~paid[x] /\ transfer[x].status # "Submitted"
      BY <1>4, <2>2 DEF Decided, AnswersTrue
    <3>. QED
      BY <1>4, <1>5, <1>9, <3>1
  <2>3. ASSUME NEW x \in Transfer, transfer'[x].status = "Settled"
        PROVE  paid'[x]
    <3>1. x # t /\ paid[x]
      BY <1>4, <1>5, <2>3 DEF Decided, AnswersTrue
    <3>. QED
      BY <1>9, <3>1
  <2>. QED
    BY <2>1, <2>2, <2>3 DEF AnswersTrue
<1>. QED
  BY <1>10, <1>11, <1>12, <1>13

(* Once a transfer is no longer Submitted it never is again, so a step     *)
(* that only writes answers of one actor has little left to show.          *)
LEMMA OnceAnswered ==
  ASSUME Typed, Decided, NEW a \in Resolver, NEW t \in Transfer,
         transfer' = [transfer EXCEPT ![t] = transfer'[t]],
         transfer'[t].status # "Submitted",
         pc'[a] \notin {"sending", "sent", "asking", "resolving"},
         pc[a] = "sent" => at[a] = t,
         \A b \in Resolver \ {a} : pc'[b] = pc[b] /\ at'[b] = at[b] /\ answer'[b] = answer[b],
         \A v \in Worker \ {a} : seenTransfer'[v] = seenTransfer[v],
         \A v \in Worker : pc'[v] \in {"sending", "sent"} => at[v] # t,
         UNCHANGED <<payouts, paid, unknowns>>,
         \A x \in Transfer : refunds'[x] > 0 => refunds[x] > 0 \/ (x = t /\ ~paid[t]),
         transfer'[t].status = "Settled" => paid[t]
  PROVE  /\ SubmittedWhileSending' /\ AskedWhenSent' /\ AnswersTrue'
         /\ OneInstruction => OneInstruction'
<1>1. \A x \in Transfer : transfer'[x] = (IF x = t THEN transfer'[t] ELSE transfer[x])
  BY DEF Typed, TypeOK
<1>2. \A x \in Transfer : transfer[x].status # "Submitted" => transfer'[x].status # "Submitted"
  BY <1>1
<1>3. SubmittedWhileSending'
  <2>1. ASSUME NEW v \in Worker, pc'[v] \in {"sending", "sent"}
        PROVE  /\ transfer'[at'[v]].status = "Submitted"
               /\ seenTransfer'[v][at'[v]].status = "Submitted"
    <3>1. v # a /\ v \in Resolver
      BY <2>1, Kinds
    <3>2. pc[v] \in {"sending", "sent"} /\ at'[v] = at[v] /\ seenTransfer'[v] = seenTransfer[v]
      BY <2>1, <3>1
    <3>3. at[v] \in Transfer /\ at[v] # t
      BY <2>1, <3>1, <3>2 DEF Typed, Placed, ResolverAt
    <3>. QED
      BY <1>1, <3>2, <3>3 DEF Decided, SubmittedWhileSending
  <2>. QED
    BY <2>1 DEF SubmittedWhileSending
<1>4. AskedWhenSent'
  <2>1. ASSUME NEW x \in Transfer, transfer'[x].ref PROVE transfer'[x].status # "Submitted"
    BY <1>1, <2>1 DEF Decided, AskedWhenSent
  <2>2. ASSUME NEW v \in Worker, NEW x \in unknowns'[v] PROVE transfer'[x].status # "Submitted"
    BY <1>2, <2>2 DEF Decided, AskedWhenSent, Typed, TypeOK
  <2>3. ASSUME NEW b \in Resolver, pc'[b] \in {"asking", "resolving"}
        PROVE  transfer'[at'[b]].status # "Submitted"
    <3>1. b # a
      BY <2>3
    <3>2. pc[b] \in {"asking", "resolving"} /\ at'[b] = at[b]
      BY <2>3, <3>1
    <3>3. at[b] \in Transfer
      BY <3>2 DEF Typed, Placed, ResolverAt
    <3>. QED
      BY <1>2, <3>2, <3>3 DEF Decided, AskedWhenSent
  <2>. QED
    BY <2>1, <2>2, <2>3 DEF AskedWhenSent
<1>5. ASSUME OneInstruction PROVE OneInstruction'
  <2>1. ASSUME NEW x \in Transfer, paid'[x], transfer'[x].status = "Submitted"
        PROVE  \E v \in Worker : pc'[v] = "sent" /\ at'[v] = x
    <3>1. x # t /\ paid[x] /\ transfer[x].status = "Submitted"
      BY <1>1, <2>1
    <3>2. PICK v \in Worker : pc[v] = "sent" /\ at[v] = x
      BY <1>5, <3>1 DEF OneInstruction
    <3>3. v # a
      BY <3>1, <3>2
    <3>. QED
      BY <3>2, <3>3, Kinds
  <2>. QED
    BY <1>5, <2>1 DEF OneInstruction
<1>6. AnswersTrue'
  <2>1. ASSUME NEW b \in Resolver, pc'[b] \in {"sent", "resolving"}
        PROVE  /\ answer'[b].answer = "Failed" => ~paid'[at'[b]]
               /\ answer'[b].answer = "Sent" => paid'[at'[b]]
    <3>1. b # a
      BY <2>1
    <3>. QED
      BY <2>1, <3>1 DEF Decided, AnswersTrue
  <2>2. ASSUME NEW x \in Transfer, refunds'[x] > 0
        PROVE  ~paid'[x] /\ transfer'[x].status # "Submitted"
    BY <1>2, <2>2 DEF Decided, AnswersTrue
  <2>3. ASSUME NEW x \in Transfer, transfer'[x].status = "Settled" PROVE paid'[x]
    BY <1>1, <2>3 DEF Decided, AnswersTrue
  <2>. QED
    BY <2>1, <2>2, <2>3 DEF AnswersTrue
<1>. QED
  BY <1>3, <1>4, <1>5, <1>6

LEMMA OnceRecord ==
  ASSUME Typed, Decided, NEW w \in Worker, Record(w)
  PROVE  /\ SubmittedWhileSending' /\ AskedWhenSent' /\ AnswersTrue'
         /\ OneInstruction => OneInstruction'
<1>. DEFINE t == at[w]
<1>1. /\ t \in Transfer /\ pc[w] = "sent" /\ w \in Resolver /\ w \in Actor
      /\ transfer' = [transfer EXCEPT ![t] = transfer'[t]]
      /\ transfer'[t].status =
           IF Outcome(answer[w]) = seenTransfer[w][t].status
             THEN transfer[t].status ELSE Outcome(answer[w])
      /\ refunds' = [refunds EXCEPT ![t] = @ + IF Outcome(answer[w]) = "Failed" THEN 1 ELSE 0]
      /\ pc' = [pc EXCEPT ![w] = "jobs"] /\ at' = [at EXCEPT ![w] = None]
      /\ answer' = [answer EXCEPT ![w] = NoAnswer]
      /\ UNCHANGED <<payouts, paid, unknowns>>
  BY RecordWrites, Kinds DEF Decided
<1>2. transfer[t].status = "Submitted" /\ seenTransfer[w][t].status = "Submitted"
  BY <1>1 DEF Decided, SubmittedWhileSending
<1>3. /\ Outcome(answer[w]) # "Submitted"
      /\ Outcome(answer[w]) = "Failed" => answer[w].answer = "Failed"
      /\ Outcome(answer[w]) = "Settled" => answer[w].answer = "Sent"
  BY <1>1 DEF Outcome, Typed, TypeOK, Verdict
<1>4. transfer'[t].status # "Submitted"
  BY <1>1, <1>2, <1>3
<1>5. /\ Outcome(answer[w]) = "Failed" => ~paid[t]
      /\ transfer'[t].status = "Settled" => paid[t]
  BY <1>1, <1>2, <1>3 DEF Decided, AnswersTrue
<1>6. \A v \in Worker \ {w} : seenTransfer'[v] = seenTransfer[v]
  BY SaveWrites, Kinds
<1>. HIDE DEF t
<1>7. \A b \in Resolver \ {w} : pc'[b] = pc[b] /\ at'[b] = at[b] /\ answer'[b] = answer[b]
  BY <1>1 DEF Typed, TypeOK, Actor
<1>8. pc'[w] = "jobs"
  BY <1>1 DEF Typed, TypeOK
<1>9. ASSUME NEW v \in Worker, pc'[v] \in {"sending", "sent"} PROVE at[v] # t
  <2>1. v # w /\ pc[v] \in {"sending", "sent"}
    BY <1>7, <1>8, <1>9, Kinds
  <2>. QED
    BY <1>1, <2>1, OneSender DEF t, Dispatching
<1>10. \A x \in Transfer : refunds'[x] > 0 => refunds[x] > 0 \/ (x = t /\ ~paid[t])
  BY <1>1, <1>5 DEF Typed, TypeOK
<1>11. pc[w] = "sent" => at[w] = t
  BY DEF t
<1>. QED
  BY <1>1, <1>4, <1>5, <1>6, <1>7, <1>8, <1>9, <1>10, <1>11, OnceAnswered

LEMMA OnceResolve ==
  ASSUME Typed, Decided, NEW a \in Resolver, Resolve(a)
  PROVE  /\ SubmittedWhileSending' /\ AskedWhenSent' /\ AnswersTrue'
         /\ OneInstruction => OneInstruction'
<1>. DEFINE t == at[a]
<1>1. /\ t \in Transfer /\ pc[a] = "resolving" /\ a \in Actor
      /\ transfer' = [transfer EXCEPT ![t] = transfer'[t]]
      /\ transfer'[t].status \in {transfer[t].status, "Settled", "Failed"}
      /\ transfer'[t].status = "Settled" =>
           transfer[t].status = "Settled" \/ answer[a].answer = "Sent"
      /\ refunds' = [refunds EXCEPT ![t] = @ + IF answer[a].answer = "Failed" THEN 1 ELSE 0]
      /\ pc' = [pc EXCEPT ![a] = IF a \in Worker THEN "status" ELSE "idle"]
      /\ at' = [at EXCEPT ![a] = None]
      /\ answer' = [answer EXCEPT ![a] = NoAnswer]
      /\ UNCHANGED <<payouts, paid, unknowns>>
  BY ResolveWrites DEF Decided, Actor
<1>2. transfer[t].status # "Submitted" /\ (answer[a].answer = "Failed" => ~paid[t])
  BY <1>1 DEF Decided, AskedWhenSent, AnswersTrue
<1>3. transfer'[t].status # "Submitted" /\ (transfer'[t].status = "Settled" => paid[t])
  BY <1>1, <1>2 DEF Decided, AnswersTrue
<1>4. \A v \in Worker \ {a} : seenTransfer'[v] = seenTransfer[v]
  BY SaveWrites, Kinds
<1>5. pc[a] = "sent" => at[a] = t
  BY DEF t
<1>. HIDE DEF t
<1>6. \A b \in Resolver \ {a} : pc'[b] = pc[b] /\ at'[b] = at[b] /\ answer'[b] = answer[b]
  BY <1>1 DEF Typed, TypeOK, Actor
<1>7. pc'[a] \notin {"sending", "sent", "asking", "resolving"}
  BY <1>1 DEF Typed, TypeOK
<1>8. ASSUME NEW v \in Worker, pc'[v] \in {"sending", "sent"} PROVE at[v] # t
  <2>1. v # a /\ v \in Resolver
    BY <1>7, <1>8, Kinds
  <2>2. pc[v] \in {"sending", "sent"}
    BY <1>6, <1>8, <2>1
  <2>. QED
    BY <1>2, <2>2 DEF Decided, SubmittedWhileSending
<1>9. \A x \in Transfer : refunds'[x] > 0 => refunds[x] > 0 \/ (x = t /\ ~paid[t])
  BY <1>1, <1>2 DEF Typed, TypeOK
<1>. QED
  BY <1>1, <1>3, <1>4, <1>5, <1>6, <1>7, <1>8, <1>9, OnceAnswered

LEMMA OnceAsking ==
  ASSUME Typed, Decided,
         (\E q \in Querier : LoadUnknown(q)) \/ (\E a \in Resolver : AskRail(a))
  PROVE  /\ SubmittedWhileSending' /\ AskedWhenSent' /\ AnswersTrue'
         /\ OneInstruction => OneInstruction'
<1>1. ASSUME NEW q \in Querier, LoadUnknown(q)
      PROVE  /\ SubmittedWhileSending' /\ AskedWhenSent' /\ AnswersTrue'
             /\ OneInstruction => OneInstruction'
  <2>1. PICK t \in Transfer :
          /\ transfer[t].ref
          /\ at' = [at EXCEPT ![q] = t] /\ pc' = [pc EXCEPT ![q] = "asking"]
          /\ seenTransfer' = [seenTransfer EXCEPT ![q][t] = transfer[t]]
    BY <1>1 DEF LoadUnknown
  <2>2. UNCHANGED <<transfer, refunds, payouts, paid, unknowns, answer>>
    BY <1>1 DEF LoadUnknown, store, rail
  <2>3. \A b \in Actor \ {q} : pc'[b] = pc[b] /\ at'[b] = at[b] /\ seenTransfer'[b] = seenTransfer[b]
    BY <2>1 DEF Typed, TypeOK
  <2>4. q \in Actor /\ pc'[q] = "asking" /\ at'[q] = t /\ transfer[t].status # "Submitted"
    BY <2>1, Kinds DEF Typed, TypeOK, Decided, AskedWhenSent
  <2>5. SubmittedWhileSending' /\ AskedWhenSent'
    BY <2>2, <2>3, <2>4, Kinds DEF Decided, SubmittedWhileSending, AskedWhenSent, Actor
  <2>6. OneInstruction => OneInstruction'
    BY <2>2, <2>3, Kinds DEF OneInstruction
  <2>7. AnswersTrue'
    BY <2>2, <2>3, <2>4 DEF Decided, AnswersTrue, Actor
  <2>. QED
    BY <2>5, <2>6, <2>7
<1>2. ASSUME NEW a \in Resolver, AskRail(a)
      PROVE  /\ SubmittedWhileSending' /\ AskedWhenSent' /\ AnswersTrue'
             /\ OneInstruction => OneInstruction'
  <2>1. PICK says \in {"Unknown", IF paid[at[a]] THEN "Sent" ELSE "Failed"} :
          answer' = [answer EXCEPT ![a] = [answer |-> says, ref |-> FALSE, pays |-> FALSE]]
    BY <1>2 DEF AskRail
  <2>2. /\ pc[a] = "asking" /\ pc' = [pc EXCEPT ![a] = "resolving"]
        /\ UNCHANGED <<transfer, refunds, payouts, paid, at, unknowns, seenTransfer>>
    BY <1>2 DEF AskRail, store, rail, context
  <2>3. a \in Actor /\ at[a] \in Transfer
    BY <2>2 DEF Typed, Placed, ResolverAt, Actor
  <2>4. /\ answer'[a].answer = "Failed" => ~paid[at[a]]
        /\ answer'[a].answer = "Sent" => paid[at[a]]
    BY <2>1, <2>3 DEF Typed, TypeOK
  <2>5. pc'[a] = "resolving"
        /\ \A b \in Resolver \ {a} : pc'[b] = pc[b] /\ answer'[b] = answer[b]
    BY <2>1, <2>2, <2>3 DEF Typed, TypeOK, Actor
  <2>6. SubmittedWhileSending' /\ AskedWhenSent'
    BY <2>2, <2>5, Kinds DEF Decided, SubmittedWhileSending, AskedWhenSent
  <2>7. OneInstruction => OneInstruction'
    BY <2>2, <2>5, Kinds DEF OneInstruction
  <2>8. AnswersTrue'
    BY <2>2, <2>4, <2>5 DEF Decided, AnswersTrue
  <2>. QED
    BY <2>6, <2>7, <2>8
<1>. QED
  BY <1>1, <1>2

LEMMA AdminsIdle ==
  ASSUME Typed, MaxReposts = 0, \A d \in Admin : pc[d] = "idle", [Next]_vars
  PROVE  \A d \in Admin : pc'[d] = "idle"
<1>. USE Kinds DEF Typed, TypeOK
<1>1. \A d \in Admin : ~ReadFailed(d) /\ ~ReadJob(d) /\ ~Repost(d)
  BY DEF ReadFailed, ReadJob, Repost
<1>2. ASSUME NEW a \in Actor, pc' = [pc EXCEPT ![a] = pc'[a]], a \in Admin => pc'[a] = "idle"
      PROVE  \A d \in Admin : pc'[d] = "idle"
  BY <1>2
<1>3. ASSUME NEW w \in Worker, WorkerStep(w)
      PROVE  \A d \in Admin : pc'[d] = "idle"
  <2>1. pc' = [pc EXCEPT ![w] = pc'[w]]
    <3>1. CASE Skip(w) \/ Record(w) \/ Resolve(w)
      BY <3>1, SaveWrites
    <3>2. CASE ~Skip(w) /\ ~Record(w) /\ ~Resolve(w)
      BY <1>3, <3>2 DEF WorkerStep, LoadJobs, ClaimJob, LoadTransfer, Send, LoadUnknowns, NextUnknown,
         AskRail, EndBatch, Leave
    <3>. QED
      BY <3>1, <3>2
  <2>. QED
    BY <1>2, <2>1
<1>4. ASSUME NEW w \in Worker, WorkerFails(w)
      PROVE  \A d \in Admin : pc'[d] = "idle"
  <2>1. CASE \E t \in Transfer : ClaimFails(w, t)
    BY <2>1 DEF ClaimFails
  <2>2. CASE CommitFails(w) \/ Crash(w)
    BY <1>2, <2>2 DEF CommitFails, Return, Crash, Leave
  <2>3. CASE SendThrows(w) \/ AskThrows(w) \/ ReadThrows(w) \/ ReversalThrows(w) \/ SaveFails(w)
    <3>1. PICK left \in Change : Rollback(w, left)
      BY <2>3, Rollbacks
    <3>2. pc' = [pc EXCEPT ![w] = pc'[w]]
      BY <3>1 DEF Rollback, Return
    <3>. QED
      BY <1>2, <3>2
  <2>. QED
    BY <1>4, <2>1, <2>2, <2>3 DEF WorkerFails
<1>5. ASSUME NEW q \in Querier, QueryStep(q)
      PROVE  \A d \in Admin : pc'[d] = "idle"
  <2>1. CASE Resolve(q)
    BY <1>2, <2>1, SaveWrites
  <2>2. CASE ~Resolve(q)
    BY <1>2, <1>5, <2>2 DEF QueryStep, LoadUnknown, AskRail
  <2>. QED
    BY <2>1, <2>2
<1>6. ASSUME NEW a \in Querier \cup Admin, RequestFails(a)
      PROVE  \A d \in Admin : pc'[d] = "idle"
  BY <1>6 DEF RequestFails, Leave
<1>7. (\E t \in Transfer : Elapse(t)) \/ UNCHANGED vars => UNCHANGED pc
  BY DEF Elapse, vars, local
<1>. QED
  BY <1>1, <1>3, <1>4, <1>5, <1>6, <1>7 DEF Next

(* What a fault leaves behind: a transfer that is still Submitted, whether *)
(* or not the rail has paid, or one whose outcome was being asked for.     *)
LEMMA OnceFault ==
  ASSUME Typed, Decided,
         \/ \E w \in Worker : SendThrows(w) \/ AskThrows(w) \/ CommitFails(w) \/ Crash(w)
         \/ \E a \in Querier \cup Admin : RequestFails(a)
  PROVE  SubmittedWhileSending' /\ AskedWhenSent' /\ AnswersTrue'
<1>1. ASSUME NEW a \in Actor, Quiet, pc'[a] \in {"idle", "jobs", "status"},
             \A v \in Actor \ {a} : pc'[v] = pc[v] /\ at'[v] = at[v] /\ seenTransfer'[v] = seenTransfer[v],
             \A v \in Worker : unknowns'[v] \subseteq unknowns[v]
      PROVE  SubmittedWhileSending' /\ AskedWhenSent' /\ AnswersTrue'
  <2>1. SubmittedWhileSending'
    BY <1>1, Kinds DEF Decided, SubmittedWhileSending, Quiet
  <2>2. AskedWhenSent'
    BY <1>1, Kinds DEF Decided, AskedWhenSent, Quiet, Actor
  <2>3. AnswersTrue'
    BY <1>1 DEF Decided, AnswersTrue, Quiet
  <2>. QED
    BY <2>1, <2>2, <2>3
<1>2. ASSUME NEW w \in Worker, Crash(w)
      PROVE  SubmittedWhileSending' /\ AskedWhenSent' /\ AnswersTrue'
  <2>1. Quiet
    BY <1>2, QuietSteps
  <2>2. /\ w \in Actor /\ pc'[w] = "idle"
        /\ \A v \in Actor \ {w} :
             pc'[v] = pc[v] /\ at'[v] = at[v] /\ seenTransfer'[v] = seenTransfer[v]
        /\ \A v \in Worker : unknowns'[v] \subseteq unknowns[v]
    BY <1>2, Kinds DEF Crash, Leave, Typed, TypeOK
  <2>. QED
    BY <1>1, <2>1, <2>2
<1>3. ASSUME NEW a \in Querier \cup Admin, RequestFails(a)
      PROVE  SubmittedWhileSending' /\ AskedWhenSent' /\ AnswersTrue'
  <2>1. Quiet
    BY <1>3, QuietSteps
  <2>2. /\ a \in Actor /\ pc'[a] = "idle" /\ unknowns' = unknowns
        /\ \A v \in Actor \ {a} :
             pc'[v] = pc[v] /\ at'[v] = at[v] /\ seenTransfer'[v] = seenTransfer[v]
    BY <1>3, Kinds DEF RequestFails, Leave, Typed, TypeOK
  <2>. QED
    BY <1>1, <2>1, <2>2
<1>4. ASSUME NEW w \in Worker, CommitFails(w) \/ AskThrows(w)
      PROVE  SubmittedWhileSending' /\ AskedWhenSent' /\ AnswersTrue'
  <2>1. /\ w \in Actor /\ unknowns' = unknowns /\ UNCHANGED <<payouts, paid, transfer, refunds>>
        /\ pc' = [pc EXCEPT ![w] = IF Dispatching(w) THEN "jobs" ELSE "status"]
        /\ at' = [at EXCEPT ![w] = None] /\ answer' = [answer EXCEPT ![w] = NoAnswer]
        /\ \A v \in Actor \ {w} : seenTransfer'[v] = seenTransfer[v]
        /\ \A v \in Actor : pending'[v] \in {pending[v], NothingPending}
    <3>1. CASE CommitFails(w)
      BY <3>1, Kinds DEF CommitFails, Accept, Return, store, rail, Typed, TypeOK
    <3>2. CASE AskThrows(w)
      BY <3>2, RollbackCalm, Kinds DEF AskThrows, SendThrows, Dispatching, rail, Decided
    <3>. QED
      BY <1>4, <3>1, <3>2
  <2>2. /\ pc'[w] \in {"jobs", "status"}
        /\ \A v \in Actor \ {w} : pc'[v] = pc[v] /\ at'[v] = at[v]
        /\ \A v \in Resolver \ {w} : answer'[v] = answer[v]
    BY <2>1 DEF Typed, TypeOK
  <2>3. Quiet
    BY <2>1, <2>2, Kinds DEF Quiet
  <2>. QED
    BY <1>1, <2>1, <2>2, <2>3
<1>5. ASSUME NEW w \in Worker, SendThrows(w)
      PROVE  SubmittedWhileSending' /\ AskedWhenSent' /\ AnswersTrue'
  <2>. DEFINE t == at[w]
  <2>1. t \in Transfer /\ w \in Actor /\ w \in Resolver /\ pc[w] = "sending"
    BY <1>5, Kinds DEF Typed, Placed, ResolverAt, SendThrows
  <2>2. transfer[t].status = "Submitted"
    BY <2>1 DEF Decided, SubmittedWhileSending
  <2>3. /\ pc' = [pc EXCEPT ![w] = "jobs"] /\ at' = [at EXCEPT ![w] = None]
        /\ answer' = [answer EXCEPT ![w] = NoAnswer]
        /\ UNCHANGED <<transfer, refunds, unknowns, seenTransfer>>
    BY <1>5, RollbackCalm DEF Decided
  <2>4. \A x \in Transfer \ {t} : paid'[x] = paid[x]
    BY <1>5 DEF SendThrows, Typed, TypeOK
  <2>5. /\ pc'[w] = "jobs"
        /\ \A b \in Actor \ {w} : pc'[b] = pc[b] /\ at'[b] = at[b]
        /\ \A b \in Resolver \ {w} : answer'[b] = answer[b]
    BY <2>1, <2>3 DEF Typed, TypeOK
  <2>6. SubmittedWhileSending'
    BY <2>3, <2>5, Kinds DEF Decided, SubmittedWhileSending
  <2>7. AskedWhenSent'
    BY <2>3, <2>5, Kinds DEF Decided, AskedWhenSent, Actor
  <2>8. ASSUME NEW b \in Resolver, pc'[b] \in {"sent", "resolving"}
        PROVE  /\ answer'[b].answer = "Failed" => ~paid'[at'[b]]
               /\ answer'[b].answer = "Sent" => paid'[at'[b]]
    <3>1. b # w /\ b \in Actor
      BY <2>5, <2>8 DEF Actor
    <3>2. pc[b] \in {"sent", "resolving"} /\ answer'[b] = answer[b] /\ at'[b] = at[b]
      BY <2>5, <2>8, <3>1
    <3>3. at[b] \in Transfer
      BY <3>2 DEF Typed, Placed, ResolverAt
    <3>4. at[b] # t
      <4>1. CASE pc[b] = "resolving"
        BY <2>2, <4>1 DEF Decided, AskedWhenSent
      <4>2. CASE pc[b] = "sent"
        <5>1. b \in Worker
          BY <4>2 DEF Typed, Placed, QuerierAt, Resolver
        <5>. QED
          BY <2>1, <3>1, <4>2, <5>1, OneSender DEF Dispatching
      <4>. QED
        BY <3>2, <4>1, <4>2
    <3>. QED
      BY <2>4, <3>2, <3>3, <3>4 DEF Decided, AnswersTrue
  <2>9. AnswersTrue'
    BY <2>2, <2>3, <2>4, <2>8 DEF Decided, AnswersTrue
  <2>. QED
    BY <2>6, <2>7, <2>9
<1>. QED
  BY <1>2, <1>3, <1>4, <1>5

LEMMA DecidedStep ==
  ASSUME NoReposts, Calm, Typed, Decided, [Next]_vars
  PROVE  Decided' /\ (MaxFaults = 0 /\ OneInstruction => OneInstruction')
<1>1. Fresh' /\ NoPending'
  BY FreshStep, NoPendingStep DEF Decided
<1>2. reposts = 0 /\ faults \in 0 .. MaxFaults
  BY DEF NoReposts, Typed, TypeOK
<1>3. \A d \in Admin : ~ReadFailed(d) /\ ~ReadJob(d) /\ ~Repost(d)
  BY <1>2 DEF NoReposts, Decided, ReadFailed, ReadJob, Repost
<1>. DEFINE Rest == /\ SubmittedWhileSending' /\ AskedWhenSent' /\ AnswersTrue'
                    /\ MaxFaults = 0 /\ OneInstruction => OneInstruction'
<1>4. ASSUME NEW t \in Transfer, Elapse(t) PROVE Rest
  BY <1>4 DEF Elapse, rail, local, context, Decided, SubmittedWhileSending, AskedWhenSent, OneInstruction,
     AnswersTrue
<1>5. ASSUME UNCHANGED vars PROVE Rest
  <2>1. UNCHANGED <<transfer, refunds, payouts, paid, pc, at, unknowns, seenTransfer, answer>>
    BY <1>5 DEF vars, store, rail, local, context
  <2>. QED
    BY <2>1 DEF Decided, SubmittedWhileSending, AskedWhenSent, OneInstruction, AnswersTrue
<1>6. ASSUME NEW w \in Worker, WorkerStep(w) PROVE Rest
  BY <1>6, Kinds, OnceLoading, OnceSend, OnceRecord, OnceAsking, OnceResolve DEF WorkerStep
<1>7. ASSUME NEW q \in Querier, QueryStep(q) PROVE Rest
  BY <1>7, Kinds, OnceAsking, OnceResolve DEF QueryStep
<1>8. ASSUME (\E w \in Worker : WorkerFails(w)) \/ (\E a \in Querier \cup Admin : RequestFails(a))
      PROVE  Rest
  <2>1. SubmittedWhileSending' /\ AskedWhenSent' /\ AnswersTrue'
    BY <1>8, OnceFault, CalmFaults DEF WorkerFails
  <2>2. MaxFaults # 0
    BY <1>2, <1>8, CalmFaults DEF RequestFails
  <2>. QED
    BY <2>1, <2>2
<1>9. Rest
  <2>. HIDE DEF Rest
  <2>. QED
    BY <1>3, <1>4, <1>5, <1>6, <1>7, <1>8 DEF Next
<1>10. \A d \in Admin : pc'[d] = "idle"
  BY AdminsIdle DEF Decided, NoReposts
<1>. QED
  BY <1>1, <1>9, <1>10 DEF Decided

(* As long as nobody reposts, a payout that is settled keeps its legs: for *)
(* any workers and status queries with copies of their own, and wherever   *)
(* crashes, timeouts of the rail and lost commits send a transfer round    *)
(* the loop again.  It takes RepostAsync, or what a failed read, save or   *)
(* reversal leaves in a DbContext, to settle a transfer that was refunded. *)
THEOREM SettledKeepsLegs ==
  ASSUME NoReposts, Calm
  PROVE  Spec => []SettledIsNotRefunded
<1>1. Typed /\ Decided => SettledIsNotRefunded
  <2>. SUFFICES ASSUME Typed, Decided, NEW t \in Transfer, transfer[t].status = "Settled"
                PROVE  refunds[t] = 0
    BY DEF SettledIsNotRefunded
  <2>1. ~(refunds[t] > 0)
    BY DEF Decided, AnswersTrue
  <2>. QED
    BY <2>1 DEF Typed, TypeOK
<1>2. Init => Typed /\ Decided
  BY TypedInit, DecidedInit
<1>3. Typed /\ Decided /\ [Next]_vars => (Typed /\ Decided)'
  BY TypedStep, DecidedStep
<1>. QED
  BY <1>1, <1>2, <1>3, PTL DEF Spec

(* SentOnce: the invariant where nothing fails. *)
SentOnce == Decided /\ OneInstruction

LEMMA SentOnceStep ==
  ASSUME Undisturbed, Typed, SentOnce, [Next]_vars
  PROVE  SentOnce'
BY DecidedStep DEF Undisturbed, NoReposts, Calm, SentOnce

(* With any number of workers on one queue and of status queries, each     *)
(* with copies of its own, the rail is given an instruction once, as long  *)
(* as no call fails and nobody reposts.                                    *)
THEOREM PaidOnce ==
  ASSUME Undisturbed
  PROVE  Spec => []NeverPaidTwice
<1>1. Typed /\ SentOnce => NeverPaidTwice
  BY DEF SentOnce, OneInstruction, NeverPaidTwice
<1>2. Init => Typed /\ SentOnce
  BY TypedInit, DecidedInit DEF SentOnce
<1>3. Typed /\ SentOnce /\ [Next]_vars => (Typed /\ SentOnce)'
  BY TypedStep, SentOnceStep
<1>. QED
  BY <1>1, <1>2, <1>3, PTL DEF Spec

(* Nor do the workers and the status queries refund a customer whose       *)
(* payout was carried out, whatever the rail answered at first.            *)
THEOREM RefundedIsUnpaid ==
  ASSUME Undisturbed
  PROVE  Spec => []RefundOnlyIfUnpaid
<1>1. Typed /\ SentOnce => RefundOnlyIfUnpaid
  BY DEF Typed, TypeOK, SentOnce, Decided, OneInstruction, AnswersTrue, RefundOnlyIfUnpaid
<1>2. Init => Typed /\ SentOnce
  BY TypedInit, DecidedInit DEF SentOnce
<1>3. Typed /\ SentOnce /\ [Next]_vars => (Typed /\ SentOnce)'
  BY TypedStep, SentOnceStep
<1>. QED
  BY <1>1, <1>2, <1>3, PTL DEF Spec
-----------------------------------------------------------------------------
(* One worker and no status queries, whatever fails but a reversal half    *)
(* way.  What it could not save stays in its DbContext, and a later save   *)
(* of the batch brings it; so nothing may be kept there but what would     *)
(* have been right to save, and no transfer be taken up again meanwhile.   *)

Alone ==
  /\ Querier = {} /\ MaxReposts = 0 /\ \A v, w \in Worker : v = w
  /\ "reversal" \notin FaultKinds

Open == {"Submitted", "Unknown"}

(* A change that may be saved: it decides a transfer that is still as its  *)
(* copy says, and brings a refund with a failure.                          *)
Legitimate(w, t, change) ==
  IF change.transfer = None THEN change.credits = 0
  ELSE /\ seenTransfer[w][t] \in TransferRow
       /\ seenTransfer[w][t].status = transfer[t].status /\ transfer[t].status \in Open
       /\ change.transfer.status \in {"Settled", "Failed", "Unknown"}
       /\ change.transfer.status = "Unknown" => transfer[t].status = "Submitted"
       /\ change.credits = IF change.transfer.status = "Failed" THEN 1 ELSE 0

Loop(w) == pc[w] \in {"jobs", "claimed", "skipping", "sending", "sent"}

(* Of a transfer's row and copy: a copy of the first loop is the row, or   *)
(* has got ahead of a row that is still Submitted.                         *)
LoopCopy(w, t) ==
  /\ seenTransfer[w][t] # None => transfer[t].status \in {seenTransfer[w][t].status, "Submitted"}
  /\ pending[w][t].transfer # None => transfer[t].status = "Submitted"

(* A transfer whose job is still to be dispatched has not been touched.    *)
Untouched(w, t) == seenTransfer[w][t] = None

AboutToSend(w, t) ==
  /\ transfer[t].status = "Submitted"
  /\ seenTransfer[w][t] \in TransferRow /\ seenTransfer[w][t].status = "Submitted"
  /\ pending[w][t].transfer = None

AboutToAsk(w, t) ==
  /\ transfer[t].status = "Unknown"
  /\ seenTransfer[w][t] \in TransferRow /\ seenTransfer[w][t].status = "Unknown"
  /\ pending[w][t].transfer = None

Sound(w) ==
  /\ \A t \in Transfer : Legitimate(w, t, pending[w][t])
  /\ pc[w] = "idle" => \A t \in Transfer : Untouched(w, t)
  /\ Loop(w) => \A t \in Transfer : LoopCopy(w, t)
  /\ \A t \in jobs[w] : Untouched(w, t)
  /\ pc[w] = "claimed" => Untouched(w, at[w])
  /\ pc[w] = "skipping" => pending[w][at[w]].transfer = None
  /\ pc[w] \in {"sending", "sent"} => AboutToSend(w, at[w])
  /\ \A t \in unknowns[w] : AboutToAsk(w, t)
  /\ pc[w] \in {"asking", "resolving"} => AboutToAsk(w, at[w]) /\ at[w] \notin unknowns[w]
  /\ pc[w] \notin {"status", "asking", "resolving"} => unknowns[w] = {}

(* A refund comes with its failure. *)
RefundPerFailure == \A t \in Transfer : refunds[t] = IF transfer[t].status = "Failed" THEN 1 ELSE 0

Faithful ==
  /\ \A d \in Admin : pc[d] = "idle"
  /\ \A w \in Worker : Sound(w)
  /\ RefundPerFailure

(* What a step may make of a transfer. *)
Kept(t) == transfer'[t].status = transfer[t].status /\ refunds'[t] = refunds[t]
Takes(t, s) ==
  /\ transfer[t].status \in Open /\ (s = "Unknown" => transfer[t].status = "Submitted")
  /\ transfer'[t].status = s
  /\ refunds'[t] = refunds[t] + IF s = "Failed" THEN 1 ELSE 0
Moves == \A t \in Transfer : Kept(t) \/ \E s \in {"Settled", "Failed", "Unknown"} : Takes(t, s)

LEMMA SoundInit == Init => Faithful
<1>1. Init => RefundPerFailure
  BY DEF Init, RefundPerFailure
<1>2. ASSUME Init, NEW w \in Worker PROVE Sound(w)
  <2>1. /\ pc[w] = "idle" /\ jobs[w] = {} /\ unknowns[w] = {}
        /\ \A t \in Transfer : seenTransfer[w][t] = None /\ pending[w][t] = Unchanged
    BY <1>2, Kinds DEF Init, Nothing, NothingPending
  <2>. QED
    BY <2>1 DEF Sound, Legitimate, Untouched, Loop, Unchanged
<1>. QED
  BY <1>1, <1>2, Kinds DEF Init, Faithful

LEMMA RefundsFollow ==
  ASSUME Typed, RefundPerFailure, Moves
  PROVE  RefundPerFailure'
<1>. SUFFICES ASSUME NEW t \in Transfer
              PROVE  refunds'[t] = IF transfer'[t].status = "Failed" THEN 1 ELSE 0
  BY DEF RefundPerFailure
<1>1. refunds[t] = IF transfer[t].status = "Failed" THEN 1 ELSE 0
  BY DEF RefundPerFailure
<1>2. CASE Kept(t)
  BY <1>1, <1>2 DEF Kept
<1>3. ASSUME NEW s \in {"Settled", "Failed", "Unknown"}, Takes(t, s)
      PROVE  refunds'[t] = IF transfer'[t].status = "Failed" THEN 1 ELSE 0
  BY <1>1, <1>3 DEF Takes, Open
<1>. QED
  BY <1>2, <1>3 DEF Moves

(* The change a worker is about to save may be saved; so may be what a     *)
(* failed read or save leaves of it.                                       *)
LEMMA UnsavedLegitimate ==
  ASSUME Typed, NEW w \in Worker, Sound(w), pc[w] \in {"skipping", "sent", "resolving"}
  PROVE  /\ Legitimate(w, at[w], Unsaved(w))
         /\ pending[w][at[w]].transfer = None
         /\ pc[w] = "skipping" => Unsaved(w).transfer = None
         /\ pc[w] = "sent" => Unsaved(w).transfer # None
<1>1. at[w] \in Transfer /\ w \in Resolver /\ w \in Actor
  BY Kinds DEF Typed, Placed, ResolverAt
<1>2. pending[w][at[w]].transfer = None /\ pending[w][at[w]].credits = 0
  BY <1>1 DEF Sound, AboutToSend, AboutToAsk, Legitimate
<1>3. CASE pc[w] = "skipping"
  BY <1>1, <1>2, <1>3, UnsavedChange DEF Legitimate
<1>4. CASE pc[w] = "sent"
  <2>1. AboutToSend(w, at[w])
    BY <1>4 DEF Sound
  <2>2. /\ Unsaved(w).transfer # None /\ Unsaved(w).transfer.status = Outcome(answer[w])
        /\ Unsaved(w).credits = (IF Outcome(answer[w]) = "Failed" THEN 1 ELSE 0)
    BY <1>1, <1>4, UnsavedChange, Kinds
  <2>3. Outcome(answer[w]) \in {"Settled", "Failed", "Unknown"}
    BY DEF Outcome
  <2>. QED
    BY <1>2, <1>4, <2>1, <2>2, <2>3 DEF AboutToSend, Legitimate, Open
<1>5. CASE pc[w] = "resolving"
  <2>1. AboutToAsk(w, at[w]) /\ Unsaved(w) = Answered(w) /\ answer[w].answer \in Verdict
    BY <1>1, <1>5, UnsavedChange DEF Sound, Typed, TypeOK
  <2>2. CASE answer[w].answer = "Unknown"
    <3>1. Unsaved(w) = pending[w][at[w]]
      BY <1>1, <2>1, <2>2, ChangesTyped
    <3>. QED
      BY <1>2, <1>5, <3>1 DEF Legitimate
  <2>3. CASE answer[w].answer # "Unknown"
    <3>1. /\ Unsaved(w).transfer # None
          /\ Unsaved(w).transfer.status = (IF answer[w].answer = "Sent" THEN "Settled" ELSE "Failed")
          /\ Unsaved(w).credits = 0 + (IF answer[w].answer = "Failed" THEN 1 ELSE 0)
      BY <1>1, <1>2, <2>1, <2>3, ChangesTyped, Kinds
    <3>. QED
      BY <1>2, <1>5, <2>1, <2>3, <3>1 DEF AboutToAsk, Legitimate, Open, Verdict
  <2>. QED
    BY <2>2, <2>3
<1>. QED
  BY <1>2, <1>3, <1>4, <1>5

LEMMA SavingLegitimate ==
  ASSUME Typed, NEW w \in Worker, Sound(w), pc[w] \in {"skipping", "sent", "resolving"},
         NEW t \in Transfer
  PROVE  /\ Legitimate(w, t, Saving(w, t))
         /\ t \in jobs[w] \cup unknowns[w] => Saving(w, t).transfer = None
         /\ Loop(w) /\ Saving(w, t).transfer # None => transfer[t].status = "Submitted"
<1>1. Legitimate(w, t, Saving(w, t))
  BY UnsavedLegitimate DEF Saving, Sound
<1>2. ASSUME t \in jobs[w] PROVE Saving(w, t).transfer = None
  BY <1>1, <1>2, Kinds DEF Sound, Untouched, Legitimate
<1>3. ASSUME t \in unknowns[w] PROVE Saving(w, t).transfer = None
  <2>1. t # at[w]
    BY <1>3, UnsavedLegitimate DEF Sound
  <2>. QED
    BY <1>3, <2>1 DEF Sound, AboutToAsk, Saving
<1>4. ASSUME Loop(w), Saving(w, t).transfer # None PROVE transfer[t].status = "Submitted"
  <2>1. CASE t = at[w]
    <3>1. pc[w] = "sent"
      BY <1>4, <2>1, UnsavedLegitimate DEF Loop, Saving
    <3>. QED
      BY <2>1, <3>1 DEF Sound, AboutToSend
  <2>2. CASE t # at[w]
    BY <1>4, <2>2 DEF Sound, LoopCopy, Saving
  <2>. QED
    BY <2>1, <2>2
<1>. QED
  BY <1>1, <1>2, <1>3, <1>4

LEMMA SoundSaves ==
  ASSUME Typed, NEW w \in Worker, Sound(w), Skip(w) \/ Record(w) \/ Resolve(w)
  PROVE  Sound(w)' /\ Moves
<1>1. /\ at[w] \in Transfer /\ pc[w] \in {"skipping", "sent", "resolving"} /\ w \in Actor
      /\ w \in Resolver
      /\ pc'[w] = (IF pc[w] # "resolving" THEN "jobs" ELSE "status")
      /\ UNCHANGED <<jobs, unknowns>>
      /\ jobs[w] \subseteq Transfer /\ unknowns[w] \subseteq Transfer
  BY SaveWrites, Kinds DEF Typed, TypeOK
<1>2. \A t \in Transfer : pending'[w][t].transfer = None /\ pending'[w][t].credits = 0
  BY <1>1, SaveWrites, NothingIsPending
<1>3. ASSUME NEW t \in Transfer
      PROVE  /\ Kept(t) \/ \E s \in {"Settled", "Failed", "Unknown"} : Takes(t, s)
             /\ Saving(w, t).transfer = None =>
                  transfer'[t] = transfer[t] /\ seenTransfer'[w][t] = seenTransfer[w][t]
             /\ Saving(w, t).transfer # None =>
                  /\ seenTransfer'[w][t] = Saving(w, t).transfer
                  /\ transfer'[t].status = seenTransfer'[w][t].status
  <2>1. Legitimate(w, t, Saving(w, t))
    BY <1>1, SavingLegitimate
  <2>2. /\ Saving(w, t) \in Change
        /\ refunds'[t] = refunds[t] + Saving(w, t).credits
        /\ Saving(w, t).transfer = None => transfer'[t] = transfer[t]
        /\ Saving(w, t).transfer # None =>
             transfer'[t].status =
               IF Saving(w, t).transfer.status = OriginalTransfer(w, t).status
                 THEN transfer[t].status ELSE Saving(w, t).transfer.status
        /\ seenTransfer'[w][t] = Either(Saving(w, t).transfer, seenTransfer[w][t])
        /\ refunds[t] \in Nat
    BY <1>1, SaveWrites DEF Typed, TypeOK
  <2>3. CASE Saving(w, t).transfer = None
    BY <2>1, <2>2, <2>3 DEF Legitimate, Kept, Either
  <2>4. CASE Saving(w, t).transfer # None
    <3>1. OriginalTransfer(w, t) = seenTransfer[w][t]
      BY <2>1, <2>4, Kinds DEF Legitimate, OriginalTransfer, Either
    <3>2. /\ seenTransfer'[w][t] = Saving(w, t).transfer
          /\ transfer'[t].status = Saving(w, t).transfer.status
      BY <2>1, <2>2, <2>4, <3>1 DEF Legitimate, Either, Open
    <3>3. Takes(t, Saving(w, t).transfer.status)
      BY <2>1, <2>2, <2>4, <3>2 DEF Legitimate, Takes
    <3>4. Saving(w, t).transfer.status \in {"Settled", "Failed", "Unknown"}
      BY <2>1, <2>4 DEF Legitimate
    <3>. QED
      BY <2>4, <3>2, <3>3, <3>4
  <2>. QED
    BY <2>3, <2>4
<1>4. Moves
  BY <1>3 DEF Moves
<1>5. \A t \in jobs[w] : Untouched(w, t)'
  BY <1>1, <1>3, SavingLegitimate DEF Sound, Untouched
<1>6. \A t \in unknowns[w] : AboutToAsk(w, t)'
  BY <1>1, <1>2, <1>3, SavingLegitimate DEF Sound, AboutToAsk
<1>7. ASSUME Loop(w), NEW t \in Transfer PROVE LoopCopy(w, t)'
  BY <1>2, <1>3, <1>7 DEF Sound, LoopCopy
<1>8. Loop(w)' => Loop(w) /\ unknowns[w] = {}
  BY <1>1 DEF Loop, Sound
<1>9. \A t \in Transfer : Legitimate(w, t, pending[w][t])'
  BY <1>2 DEF Legitimate
<1>10. Sound(w)'
  BY <1>1, <1>5, <1>6, <1>7, <1>8, <1>9 DEF Sound, Loop
<1>. QED
  BY <1>4, <1>10

(* A failed commit takes for saved what it has not, but decides nothing. *)
LEMMA SoundCommitFails ==
  ASSUME Typed, NEW w \in Worker, Sound(w), CommitFails(w)
  PROVE  Sound(w)' /\ UNCHANGED <<transfer, refunds>>
<1>. DEFINE changes == [pending[w] EXCEPT ![at[w]] = Unsaved(w)]
<1>1. /\ at[w] \in Transfer /\ pc[w] \in {"skipping", "sent", "resolving"} /\ w \in Actor
      /\ w \in Resolver
      /\ pc' = [pc EXCEPT ![w] = IF Dispatching(w) THEN "jobs" ELSE "status"]
      /\ UNCHANGED <<transfer, refunds, jobs, unknowns>>
      /\ jobs[w] \subseteq Transfer /\ unknowns[w] \subseteq Transfer
  BY Kinds DEF CommitFails, Return, store, Typed, TypeOK, Placed, ResolverAt
<1>2. pc'[w] = IF pc[w] # "resolving" THEN "jobs" ELSE "status"
  BY <1>1 DEF Dispatching, Typed, TypeOK
<1>3. /\ changes \in [Transfer -> Change] /\ NothingPending \in [Transfer -> Change]
      /\ \A t \in Transfer : changes[t] = Saving(w, t)
  BY <1>1, UnsavedTyped, ChangedTyped, Constructed DEF Saving
<1>4. Accept(w, changes, NothingPending)
  BY DEF CommitFails
<1>. HIDE DEF changes
<1>5. /\ \A t \in Transfer : seenTransfer'[w][t] = Either(Saving(w, t).transfer, seenTransfer[w][t])
      /\ pending'[w] = NothingPending
  BY <1>1, <1>3, <1>4, AcceptTyped, TypedContext
<1>6. \A t \in Transfer : pending'[w][t].transfer = None /\ pending'[w][t].credits = 0
  BY <1>5, NothingIsPending
<1>7. \A t \in jobs[w] \cup unknowns[w] : seenTransfer'[w][t] = seenTransfer[w][t]
  BY <1>1, <1>5, SavingLegitimate DEF Either
<1>8. \A t \in jobs[w] : Untouched(w, t)'
  BY <1>7 DEF Sound, Untouched
<1>9. \A t \in unknowns[w] : AboutToAsk(w, t)'
  BY <1>1, <1>6, <1>7 DEF Sound, AboutToAsk
<1>10. ASSUME Loop(w), NEW t \in Transfer PROVE LoopCopy(w, t)'
  <2>1. Saving(w, t).transfer # None => transfer[t].status = "Submitted"
    BY <1>1, <1>10, SavingLegitimate
  <2>. QED
    BY <1>1, <1>5, <1>6, <1>10, <2>1 DEF Sound, LoopCopy, Either
<1>11. Loop(w)' => Loop(w) /\ unknowns[w] = {}
  BY <1>1, <1>2 DEF Loop, Sound
<1>12. \A t \in Transfer : Legitimate(w, t, pending[w][t])'
  BY <1>6 DEF Legitimate
<1>13. Sound(w)'
  BY <1>1, <1>2, <1>8, <1>9, <1>10, <1>11, <1>12 DEF Sound, Loop
<1>. QED
  BY <1>1, <1>13

(* What a rollback leaves pending is legitimate still. *)
LEMMA SoundRollback ==
  ASSUME Typed, NEW w \in Worker, Sound(w), NEW left \in Change, Rollback(w, left), at[w] \in Transfer,
         pc[w] \in {"claimed", "skipping", "sending", "sent", "asking", "resolving"},
         Legitimate(w, at[w], left),
         left.transfer # None => pc[w] \in {"sent", "resolving"}
  PROVE  Sound(w)' /\ UNCHANGED <<transfer, refunds>>
<1>1. /\ UNCHANGED <<transfer, refunds, jobs, unknowns>> /\ w \in Actor
      /\ pc'[w] = (IF Dispatching(w) THEN "jobs" ELSE "status")
      /\ jobs[w] \subseteq Transfer /\ unknowns[w] \subseteq Transfer
  BY RollbackWrites, Kinds DEF Typed, TypeOK
<1>2. \A t \in Transfer :
        /\ pending'[w][t] = IF t = at[w] THEN left
                            ELSE IF Dispatching(w) THEN Unchanged ELSE pending[w][t]
        /\ seenTransfer'[w][t] =
             IF Dispatching(w) THEN Either(pending[w][t].transfer, seenTransfer[w][t])
             ELSE seenTransfer[w][t]
  BY RollbackWrites
<1>3. pending[w][at[w]].transfer = None
  <2>1. CASE pc[w] = "claimed"
    BY <2>1, Kinds DEF Sound, Untouched, Legitimate
  <2>2. CASE pc[w] # "claimed"
    BY <2>2 DEF Sound, AboutToSend, AboutToAsk
  <2>. QED
    BY <2>1, <2>2
<1>4. CASE Dispatching(w)
  <2>1. Loop(w) /\ pc'[w] = "jobs" /\ unknowns[w] = {}
    BY <1>1, <1>4 DEF Dispatching, Loop, Sound
  <2>2. \A t \in Transfer : /\ seenTransfer'[w][t] = Either(pending[w][t].transfer, seenTransfer[w][t])
                            /\ pending'[w][t] = IF t = at[w] THEN left ELSE Unchanged
    BY <1>2, <1>4
  <2>3. seenTransfer'[w][at[w]] = seenTransfer[w][at[w]]
    BY <1>3, <2>2 DEF Either
  <2>4. ASSUME NEW t \in Transfer PROVE Legitimate(w, t, pending[w][t])'
    <3>1. CASE t = at[w]
      BY <1>1, <2>2, <2>3, <3>1 DEF Legitimate
    <3>2. CASE t # at[w]
      BY <2>2, <3>2 DEF Legitimate, Unchanged
    <3>. QED
      BY <3>1, <3>2
  <2>5. ASSUME NEW t \in Transfer PROVE LoopCopy(w, t)'
    <3>1. seenTransfer'[w][t] # None => transfer[t].status \in {seenTransfer'[w][t].status, "Submitted"}
      BY <2>1, <2>2 DEF Sound, LoopCopy, Either
    <3>2. pending'[w][t].transfer # None => transfer[t].status = "Submitted"
      <4>1. CASE t = at[w] /\ left.transfer # None
        <5>1. pc[w] = "sent"
          BY <1>4, <4>1 DEF Dispatching
        <5>. QED
          BY <4>1, <5>1 DEF Sound, AboutToSend
      <4>2. CASE t # at[w] \/ left.transfer = None
        BY <2>2, <4>2 DEF Unchanged
      <4>. QED
        BY <4>1, <4>2
    <3>. QED
      BY <1>1, <3>1, <3>2 DEF LoopCopy
  <2>6. \A t \in jobs[w] : Untouched(w, t)'
    <3>1. \A t \in jobs[w] : seenTransfer[w][t] = None /\ pending[w][t].transfer = None
      BY <1>1, Kinds DEF Sound, Untouched, Legitimate
    <3>. QED
      BY <1>1, <2>2, <3>1 DEF Untouched, Either
  <2>. QED
    BY <1>1, <2>1, <2>4, <2>5, <2>6 DEF Sound, Loop
<1>5. CASE ~Dispatching(w)
  <2>1. pc[w] \in {"asking", "resolving"} /\ pc'[w] = "status"
    BY <1>1, <1>5 DEF Dispatching
  <2>2. \A t \in Transfer : /\ seenTransfer'[w][t] = seenTransfer[w][t]
                            /\ pending'[w][t] = IF t = at[w] THEN left ELSE pending[w][t]
    BY <1>2, <1>5
  <2>3. \A t \in Transfer : Legitimate(w, t, pending[w][t])'
    BY <1>1, <2>2 DEF Sound, Legitimate
  <2>4. \A t \in unknowns[w] : t # at[w] /\ AboutToAsk(w, t)'
    BY <1>1, <2>1, <2>2 DEF Sound, AboutToAsk
  <2>5. \A t \in jobs[w] : Untouched(w, t)'
    BY <1>1, <2>2 DEF Sound, Untouched
  <2>. QED
    BY <1>1, <2>1, <2>3, <2>4, <2>5 DEF Sound, Loop
<1>. QED
  BY <1>1, <1>4, <1>5

LEMMA SoundRollbacks ==
  ASSUME Alone, Typed, NEW w \in Worker, Sound(w),
         SendThrows(w) \/ AskThrows(w) \/ ReadThrows(w) \/ ReversalThrows(w) \/ SaveFails(w)
  PROVE  Sound(w)' /\ UNCHANGED <<transfer, refunds>>
<1>1. /\ at[w] \in Transfer /\ w \in Resolver /\ w \in Actor /\ pending[w][at[w]] \in Change
      /\ pc[w] \in {"claimed", "skipping", "sending", "sent", "asking", "resolving"}
  BY Rollbacks, Kinds DEF Typed, TypeOK
<1>2. /\ Unchanged \in Change /\ Unchanged.transfer = None
      /\ Legitimate(w, at[w], Unchanged) /\ Legitimate(w, at[w], pending[w][at[w]])
  BY <1>1, Constructed DEF Unchanged, Legitimate, Sound
<1>3. CASE SendThrows(w)
  BY <1>1, <1>2, <1>3, SoundRollback DEF SendThrows
<1>4. CASE AskThrows(w)
  <2>1. pending[w][at[w]].transfer = None
    BY <1>4 DEF AskThrows, Sound, AboutToAsk
  <2>. QED
    BY <1>1, <1>2, <1>4, <2>1, SoundRollback DEF AskThrows
<1>5. CASE ReadThrows(w)
  <2>1. CASE Rollback(w, Unchanged)
    BY <1>1, <1>2, <2>1, SoundRollback
  <2>2. CASE pc[w] = "resolving" /\ Rollback(w, [Answered(w) EXCEPT !.job = pending[w][at[w]].job])
    <3>. DEFINE left == [Answered(w) EXCEPT !.job = pending[w][at[w]].job]
    <3>1. Answered(w) \in Change /\ Answered(w) = Unsaved(w)
      BY <1>1, <2>2, ChangesTyped, UnsavedChange
    <3>2. left \in Change /\ left.transfer = Unsaved(w).transfer /\ left.credits = Unsaved(w).credits
      BY <1>1, <3>1 DEF Change
    <3>3. Rollback(w, left)
      BY <2>2
    <3>. HIDE DEF left
    <3>4. Legitimate(w, at[w], left)
      BY <2>2, <3>2, UnsavedLegitimate DEF Legitimate
    <3>. QED
      BY <1>1, <2>2, <3>2, <3>3, <3>4, SoundRollback
  <2>. QED
    BY <1>5, <2>1, <2>2 DEF ReadThrows
<1>6. CASE ReversalThrows(w)
  BY <1>6 DEF Alone, ReversalThrows, Fault
<1>7. CASE SaveFails(w)
  <2>1. Unsaved(w) \in Change /\ Rollback(w, Unsaved(w)) /\ pc[w] \in {"skipping", "sent", "resolving"}
    BY <1>1, <1>7, UnsavedTyped DEF SaveFails
  <2>. QED
    BY <1>1, <2>1, UnsavedLegitimate, SoundRollback
<1>. QED
  BY <1>3, <1>4, <1>5, <1>6, <1>7

LEMMA SoundClaims ==
  ASSUME Typed, NEW w \in Worker, Sound(w),
         \/ LoadJobs(w) \/ LoadTransfer(w)
         \/ \E t \in Transfer : ClaimJob(w, t) \/ ClaimFails(w, t)
  PROVE  Sound(w)' /\ UNCHANGED <<transfer, refunds>>
<1>. USE Kinds DEF Typed, TypeOK
<1>1. CASE LoadJobs(w)
  <2>1. /\ pc[w] = "idle" /\ pc'[w] = "jobs"
        /\ UNCHANGED <<transfer, refunds, seenTransfer, pending, unknowns>>
    BY <1>1 DEF LoadJobs, store
  <2>2. \A t \in Transfer : seenTransfer[w][t] = None /\ pending[w][t].transfer = None
    BY <2>1 DEF Sound, Untouched, Legitimate
  <2>3. jobs'[w] \subseteq Transfer
    BY <1>1 DEF LoadJobs
  <2>. HIDE DEF Typed, TypeOK
  <2>4. \A t \in Transfer : Untouched(w, t)' /\ LoopCopy(w, t)' /\ Legitimate(w, t, pending[w][t])'
    BY <2>1, <2>2 DEF Untouched, LoopCopy, Sound, Legitimate
  <2>. QED
    BY <2>1, <2>3, <2>4 DEF Sound, Loop
<1>2. ASSUME NEW t \in Transfer, ClaimJob(w, t)
      PROVE  Sound(w)' /\ UNCHANGED <<transfer, refunds>>
  <2>1. /\ pc[w] = "jobs" /\ t \in jobs[w] /\ pc'[w] = "claimed" /\ at'[w] = t
        /\ jobs'[w] \subseteq jobs[w]
        /\ UNCHANGED <<transfer, refunds, seenTransfer, pending, unknowns>>
    BY <1>2 DEF ClaimJob, store
  <2>. HIDE DEF Typed, TypeOK
  <2>. QED
    BY <2>1 DEF Sound, Loop, LoopCopy, Untouched, Legitimate, AboutToAsk
<1>3. ASSUME NEW t \in Transfer, ClaimFails(w, t)
      PROVE  Sound(w)' /\ UNCHANGED <<transfer, refunds>>
  <2>1. /\ pc[w] = "jobs" /\ pc'[w] = "jobs" /\ jobs'[w] \subseteq jobs[w]
        /\ UNCHANGED <<transfer, refunds, seenTransfer, unknowns>>
    BY <1>3 DEF ClaimFails, store
  <2>2. pending' = [pending EXCEPT ![w][t].job = Claim(seenJob[w][t])] /\ pending[w][t] \in Change
    BY <1>3 DEF ClaimFails
  <2>3. \A x \in Transfer : /\ pending'[w][x].transfer = pending[w][x].transfer
                            /\ pending'[w][x].credits = pending[w][x].credits
    BY <2>2 DEF Change
  <2>. HIDE DEF Typed, TypeOK
  <2>4. \A x \in Transfer : Legitimate(w, x, pending[w][x])' /\ LoopCopy(w, x)'
    BY <2>1, <2>3 DEF Sound, Loop, LoopCopy, Legitimate
  <2>. QED
    BY <2>1, <2>4 DEF Sound, Loop, Untouched
<1>4. CASE LoadTransfer(w)
  <2>1. /\ at[w] \in Transfer /\ pc[w] = "claimed" /\ at[w] \notin jobs[w] /\ jobs[w] \subseteq Transfer
        /\ seenTransfer' = [seenTransfer EXCEPT ![w][at[w]] = OriginalTransfer(w, at[w])]
        /\ pc'[w] = (IF NothingToSend(TransferOf(w, at[w])) THEN "skipping" ELSE "sending")
        /\ UNCHANGED <<transfer, refunds, at, jobs, pending, unknowns>>
    BY <1>4 DEF LoadTransfer, store, Placed, ResolverAt, WorkerAt, Dispatching
  <2>2. seenTransfer[w][at[w]] = None /\ pending[w][at[w]].transfer = None /\ unknowns[w] = {}
    BY <2>1 DEF Sound, Untouched, Legitimate
  <2>3. /\ OriginalTransfer(w, at[w]) = transfer[at[w]] /\ TransferOf(w, at[w]) = transfer[at[w]]
        /\ transfer[at[w]] \in TransferRow
    BY <2>1, <2>2 DEF OriginalTransfer, TransferOf, Either
  <2>4. \A t \in Transfer :
          seenTransfer'[w][t] = IF t = at[w] THEN transfer[t] ELSE seenTransfer[w][t]
    BY <2>1, <2>3
  <2>. HIDE DEF Typed, TypeOK
  <2>5. ~NothingToSend(transfer[at[w]]) => transfer[at[w]].status = "Submitted"
    BY <2>3 DEF NothingToSend, TransferRow, TransferStatus
  <2>6. \A t \in Transfer : Legitimate(w, t, pending[w][t])'
    BY <2>1, <2>2, <2>4 DEF Sound, Legitimate
  <2>7. \A t \in Transfer : LoopCopy(w, t)'
    BY <2>1, <2>4 DEF Sound, Loop, LoopCopy
  <2>8. \A t \in jobs[w] : Untouched(w, t)'
    BY <2>1, <2>4 DEF Sound, Untouched
  <2>9. pc'[w] = "sending" => AboutToSend(w, at[w])'
    BY <2>1, <2>2, <2>3, <2>4, <2>5 DEF AboutToSend
  <2>10. pc'[w] \in {"skipping", "sending"}
    BY <2>1
  <2>. QED
    BY <2>1, <2>2, <2>6, <2>7, <2>8, <2>9, <2>10 DEF Sound
<1>. QED
  BY <1>1, <1>2, <1>3, <1>4

LEMMA SoundAsks ==
  ASSUME Typed, NEW w \in Worker, Sound(w),
         Send(w) \/ AskRail(w) \/ LoadUnknowns(w) \/ NextUnknown(w) \/ EndBatch(w) \/ Crash(w)
  PROVE  Sound(w)' /\ UNCHANGED <<transfer, refunds>>
<1>. USE Kinds DEF Typed, TypeOK
<1>1. CASE Send(w) \/ AskRail(w)
  <2>1. /\ UNCHANGED <<transfer, refunds, at, jobs, unknowns, seenTransfer, pending>>
        /\ \/ pc[w] = "sending" /\ pc'[w] = "sent"
           \/ pc[w] = "asking" /\ pc'[w] = "resolving"
    BY <1>1 DEF Send, AskRail, store, context
  <2>. HIDE DEF Typed, TypeOK
  <2>2. \A t \in Transfer : /\ Legitimate(w, t, pending[w][t])' <=> Legitimate(w, t, pending[w][t])
                            /\ LoopCopy(w, t)' <=> LoopCopy(w, t)
    BY <2>1 DEF Legitimate, LoopCopy
  <2>3. /\ \A t : Untouched(w, t)' <=> Untouched(w, t)
        /\ \A t : (AboutToAsk(w, t)' <=> AboutToAsk(w, t)) /\ (AboutToSend(w, t)' <=> AboutToSend(w, t))
    BY <2>1 DEF Untouched, AboutToAsk, AboutToSend
  <2>. QED
    BY <2>1, <2>2, <2>3 DEF Sound, Loop
<1>2. CASE LoadUnknowns(w)
  <2>1. /\ pc[w] = "jobs" /\ jobs[w] = {} /\ pc'[w] = "status"
        /\ UNCHANGED <<transfer, refunds, jobs, pending>>
        /\ unknowns'[w] = {t \in Transfer : Queried(t)}
        /\ \A t \in Transfer : seenTransfer'[w][t] =
             IF Queried(t) THEN OriginalTransfer(w, t) ELSE seenTransfer[w][t]
    BY <1>2 DEF LoadUnknowns, store
  <2>2. \A t \in Transfer : transfer[t] \in TransferRow /\ seenTransfer[w][t] \in TransferRow \cup {None}
    OBVIOUS
  <2>. HIDE DEF Typed, TypeOK
  <2>3. \A t \in Transfer : LoopCopy(w, t) /\ Legitimate(w, t, pending[w][t])
    BY <2>1 DEF Sound, Loop
  <2>4. ASSUME NEW t \in Transfer, Queried(t) PROVE AboutToAsk(w, t)'
    <3>1. transfer[t].status = "Unknown"
      BY <2>4 DEF Queried
    <3>2. pending[w][t].transfer = None
      BY <2>3, <3>1 DEF LoopCopy
    <3>3. OriginalTransfer(w, t) \in TransferRow /\ OriginalTransfer(w, t).status = "Unknown"
      BY <2>2, <2>3, <3>1 DEF LoopCopy, OriginalTransfer, Either
    <3>. QED
      BY <2>1, <2>4, <3>1, <3>2, <3>3 DEF AboutToAsk
  <2>5. ASSUME NEW t \in Transfer PROVE Legitimate(w, t, pending[w][t])'
    <3>1. Queried(t) => pending[w][t].transfer = None
      BY <2>3 DEF LoopCopy, Queried
    <3>. QED
      BY <2>1, <2>3, <3>1 DEF Legitimate
  <2>. QED
    BY <2>1, <2>4, <2>5 DEF Sound, Loop
<1>3. CASE NextUnknown(w)
  <2>1. PICK t \in unknowns[w] : unknowns'[w] = unknowns[w] \ {t} /\ at'[w] = t
    BY <1>3 DEF NextUnknown
  <2>2. /\ pc[w] = "status" /\ pc'[w] = "asking"
        /\ UNCHANGED <<transfer, refunds, jobs, seenTransfer, pending>>
    BY <1>3 DEF NextUnknown, store, context
  <2>. HIDE DEF Typed, TypeOK
  <2>. QED
    BY <2>1, <2>2 DEF Sound, Loop, Legitimate, Untouched, AboutToAsk
<1>4. CASE EndBatch(w) \/ Crash(w)
  <2>1. /\ UNCHANGED <<transfer, refunds>> /\ pc'[w] = "idle" /\ unknowns'[w] = {}
        /\ jobs'[w] \subseteq Transfer
        /\ seenTransfer'[w] = Nothing /\ pending'[w] = NothingPending
    BY <1>4 DEF EndBatch, Crash, Leave, store
  <2>. HIDE DEF Typed, TypeOK
  <2>2. \A t \in Transfer : Untouched(w, t)' /\ Legitimate(w, t, pending[w][t])'
    BY <2>1, NothingIsPending DEF Untouched, Legitimate, Nothing
  <2>. QED
    BY <2>1, <2>2 DEF Sound, Loop
<1>. QED
  BY <1>1, <1>2, <1>3, <1>4

LEMMA FaithfulStep ==
  ASSUME Alone, Typed, Faithful, [Next]_vars
  PROVE  Faithful' /\ Moves
<1>1. \A d \in Admin : pc'[d] = "idle"
  BY AdminsIdle DEF Alone, Faithful
<1>2. \A d \in Admin : ~ReadFailed(d) /\ ~ReadJob(d) /\ ~Repost(d) /\ ~RequestFails(d)
  BY DEF Faithful, Alone, Typed, TypeOK, ReadFailed, ReadJob, Repost, RequestFails
<1>3. UNCHANGED <<transfer, refunds>> => Moves
  BY DEF Moves, Kept
<1>4. ASSUME NEW w \in Worker, WorkerStep(w) \/ WorkerFails(w)
      PROVE  (\A v \in Worker : Sound(v)') /\ Moves
  <2>1. Sound(w) /\ \A v \in Worker : v = w
    BY DEF Alone, Faithful
  <2>2. Sound(w)' /\ Moves
    BY <1>3, <1>4, <2>1, SoundSaves, SoundCommitFails, SoundRollbacks, SoundClaims, SoundAsks
       DEF WorkerStep, WorkerFails
  <2>. QED
    BY <2>1, <2>2
<1>5. ASSUME (\E t \in Transfer : Elapse(t)) \/ UNCHANGED vars
      PROVE  (\A v \in Worker : Sound(v)') /\ Moves
  <2>1. UNCHANGED <<transfer, refunds, pc, at, jobs, unknowns, seenTransfer, pending>>
    BY <1>5 DEF Elapse, vars, store, local, context
  <2>2. \A v \in Worker : Sound(v)'
    BY <2>1 DEF Faithful, Sound, Loop, Legitimate, LoopCopy, Untouched, AboutToSend, AboutToAsk
  <2>. QED
    BY <1>3, <2>1, <2>2
<1>6. (\A v \in Worker : Sound(v)') /\ Moves
  <2>. HIDE DEF Moves, Sound
  <2>. QED
    BY <1>2, <1>4, <1>5 DEF Next, Alone
<1>7. RefundPerFailure'
  BY <1>6, RefundsFollow DEF Faithful
<1>. QED
  BY <1>1, <1>6, <1>7 DEF Faithful

LEMMA FaithfulAlways ==
  ASSUME Alone
  PROVE  Spec => [](Typed /\ Faithful)
<1>1. Init => Typed /\ Faithful
  BY TypedInit, SoundInit
<1>2. Typed /\ Faithful /\ [Next]_vars => (Typed /\ Faithful)'
  BY TypedStep, FaithfulStep
<1>. QED
  BY <1>1, <1>2, PTL DEF Spec

(* With one worker, whatever crashes, timeouts, failed reads, saves and    *)
(* commits send a transfer round its loop again, and whatever of it the    *)
(* next save brings, its customer is refunded at most once.                *)
THEOREM RefundedAtMostOnce ==
  ASSUME Alone
  PROVE  Spec => []RefundedOnce
<1>1. Typed /\ Faithful => RefundedOnce
  BY DEF Faithful, RefundPerFailure, RefundedOnce
<1>. QED
  BY <1>1, FaithfulAlways, PTL

(* So a payout that is settled keeps its legs. *)
THEOREM AloneKeepsLegs ==
  ASSUME Alone
  PROVE  Spec => []SettledIsNotRefunded
<1>1. Typed /\ Faithful => SettledIsNotRefunded
  BY DEF Faithful, RefundPerFailure, SettledIsNotRefunded
<1>. QED
  BY <1>1, FaithfulAlways, PTL

LEMMA MovesAreAbstract ==
  ASSUME Typed, Typed', Moves
  PROVE  Abstract!Next
<1>. DEFINE status == [t \in Transfer |-> transfer[t].status]
<1>1. status' \in [Transfer -> Abstract!Status] /\ refunds' \in [Transfer -> Nat]
  BY DEF Typed, TypeOK, TransferRow, TransferStatus, Abstract!Status
<1>2. \A t \in Transfer : status[t] = transfer[t].status /\ status'[t] = transfer'[t].status
  OBVIOUS
<1>. HIDE DEF status
<1>3. ASSUME NEW t \in Transfer
      PROVE  \/ status'[t] = status[t] /\ refunds'[t] = refunds[t]
             \/ status[t] \in Abstract!Open /\ status'[t] = "Settled" /\ refunds'[t] = refunds[t]
             \/ status[t] = "Submitted" /\ status'[t] = "Unknown" /\ refunds'[t] = refunds[t]
             \/ status[t] \in Abstract!Open /\ status'[t] = "Failed" /\ refunds'[t] = refunds[t] + 1
  <2>1. refunds[t] \in Nat
    BY DEF Typed, TypeOK
  <2>2. CASE Kept(t)
    BY <1>2, <2>2 DEF Kept
  <2>3. ASSUME NEW s \in {"Settled", "Failed", "Unknown"}, Takes(t, s)
        PROVE  \/ status[t] \in Abstract!Open /\ status'[t] = "Settled" /\ refunds'[t] = refunds[t]
               \/ status[t] = "Submitted" /\ status'[t] = "Unknown" /\ refunds'[t] = refunds[t]
               \/ status[t] \in Abstract!Open /\ status'[t] = "Failed" /\ refunds'[t] = refunds[t] + 1
    BY <1>2, <2>1, <2>3 DEF Takes, Open, Abstract!Open
  <2>. QED
    BY <2>2, <2>3 DEF Moves
<1>. QED
  BY <1>1, <1>3 DEF Abstract!Next, Abstract!Keep, Abstract!Settle, Abstract!Suspend, Abstract!Fail, status

(* With one worker, the claims, copies, retries and status queries of the  *)
(* worker, and the saves that bring what an earlier transaction left,      *)
(* implement the abstract life cycle: each step is a stutter or a step of  *)
(* Lifecycle.                                                              *)
THEOREM LifecycleImplemented ==
  ASSUME Alone
  PROVE  Spec => ImplementsLifecycle
<1>1. Init => Abstract!Init
  BY DEF Init, Abstract!Init
<1>2. Init => Typed /\ Faithful
  BY TypedInit, SoundInit
<1>3. Typed /\ Faithful /\ [Next]_vars => (Typed /\ Faithful)'
  BY TypedStep, FaithfulStep
<1>4. Typed /\ Faithful /\ [Next]_vars => [Abstract!Next]_(Abstract!vars)
  <2>. SUFFICES ASSUME Typed, Faithful, [Next]_vars
                PROVE  [Abstract!Next]_(Abstract!vars)
    OBVIOUS
  <2>. QED
    BY TypedStep, FaithfulStep, MovesAreAbstract
<1>. QED
  BY <1>1, <1>2, <1>3, <1>4, PTL DEF Spec, ImplementsLifecycle, Abstract!Spec
=============================================================================
