------------------------------ MODULE Settlement ------------------------------
(***************************************************************************)
(* What becomes of a committed outbound transfer: the settlement workers   *)
(* claim its job and dispatch it to the payment rail, their status loop    *)
(* and the API's status query resolve an unknown outcome, and an           *)
(* administrator may repost a failed one.                                  *)
(*                                                                         *)
(* A worker's Claim is an UPDATE, so the job row stays locked until its    *)
(* transaction ends; Transfers rows carry no concurrency token and are     *)
(* read without locks.  EF keeps the copy of a row it read first, and      *)
(* writes back only the columns that differ from it.  A worker keeps one   *)
(* DbContext for a batch: what a transaction changed and could not save    *)
(* stays in it, and is written by the next SaveChanges of the batch.  The  *)
(* wallet side of a reversal is counted in refunds; TransferService has    *)
(* its rows and locks, WorkerBatch the versions of the worker's copies.    *)
(***************************************************************************)
EXTENDS Integers, FiniteSets

CONSTANTS
  Transfer,        \* outbound transfers, committed as Submitted
  Worker,          \* instances of SettlementBackgroundService
  Querier,         \* API requests in QueryTransferStatusAsync
  Admin,           \* requests in RepostAsync
  RailAnswers,     \* what SendAsync may answer: a subset of RailAnswerType
  None,
  MaxJobAttempts,  \* the worker's MaxAttempts
  FaultKinds,      \* what may go wrong: a subset of FaultType
  MaxFaults,       \* bound: faults in a run
  MaxReposts       \* bound: reposts in a run

TransferStatus == {"Submitted", "Settled", "Failed", "Unknown"}
JobStatus == {"Pending", "Processing", "Succeeded", "Failed", "DeadLetter"}

(* ref: is there an ExternalReference; due: NextAttemptAt, or LeaseUntil   *)
(* while Processing, has passed.                                           *)
TransferRow == [status : TransferStatus, ref : BOOLEAN]
JobRow      == [status : JobStatus, attempts : Nat, due : BOOLEAN]
Change      == [transfer : TransferRow \cup {None}, job : JobRow \cup {None}, credits : Nat]

(* An answer of SendAsync and whether the rail paid: it may not know.      *)
Verdict == {"Sent", "Failed", "Unknown"}
RailAnswerType ==
  {a \in [answer : Verdict, ref : BOOLEAN, pays : BOOLEAN] :
     /\ a.answer = "Sent" => a.ref /\ a.pays
     /\ a.answer = "Failed" => ~a.ref /\ ~a.pays}

(* A crash of the worker, an exception of the rail, of a read, of          *)
(* SaveChanges, of the commit, or in the middle of ReverseOutboundAsync.   *)
FaultType == {"crash", "rail", "read", "save", "commit", "reversal"}

Resolver == Worker \cup Querier

ASSUME ActorAssumption ==
  /\ Worker \cap Querier = {} /\ Worker \cap Admin = {} /\ Querier \cap Admin = {}
  /\ None \notin Transfer \cup Worker \cup TransferRow \cup JobRow
ASSUME RailAssumption  == RailAnswers \subseteq RailAnswerType
ASSUME FaultAssumption == FaultKinds \subseteq FaultType
ASSUME LimitAssumption ==
  MaxJobAttempts \in Nat \ {0} /\ MaxFaults \in Nat /\ MaxReposts \in Nat

VARIABLES
  \* the database
  transfer, job,
  refunds,         \* how often the customer has been credited with the amount again
  lockedBy,        \* the worker whose transaction holds the job row
  \* the rail
  payouts,         \* instructions it carried out
  paid,            \* did it carry out the last instruction it was given
  \* the actors
  pc,
  at,              \* the transfer an actor is working on
  jobs, unknowns,  \* what is left of a worker's two lists
  seenTransfer, seenJob,   \* the rows an actor's DbContext tracks, as read or saved
  pending,         \* what it has changed since, and credits of a customer not yet saved
  answer,          \* the rail's answer being acted upon
  faults, reposts

store  == <<transfer, job, refunds>>
rail   == <<payouts, paid>>
context == <<seenTransfer, seenJob, pending>>
local  == <<pc, at, jobs, unknowns, context, answer>>
bounds == <<faults, reposts>>
vars   == <<store, lockedBy, rail, local, bounds>>

Actor == Resolver \cup Admin
NoAnswer == [answer |-> "Unknown", ref |-> FALSE, pays |-> FALSE]
Nothing == [t \in Transfer |-> None]
Unchanged == [transfer |-> None, job |-> None, credits |-> 0]
NothingPending == [t \in Transfer |-> Unchanged]
-----------------------------------------------------------------------------
(* Rows and tracked copies. *)

Either(first, second) == IF first # None THEN first ELSE second

(* The value a save compares with, and the value of the entity. *)
OriginalTransfer(a, t) == Either(seenTransfer[a][t], transfer[t])
OriginalJob(a, t)      == Either(seenJob[a][t], job[t])
TransferOf(a, t) == Either(pending[a][t].transfer, OriginalTransfer(a, t))
JobOf(a, t)      == Either(pending[a][t].job, OriginalJob(a, t))

JobFree(a, t) == lockedBy[t] \in {None, a}

(* Saving a changed copy: a column equal to the copy read is not written;  *)
(* the times behind due always differ from the ones read.                  *)
Saved(row, copy, new) ==
  [c \in DOMAIN row |-> IF new[c] = copy[c] /\ (c # "due" \/ new = copy) THEN row[c] ELSE new[c]]

(* The methods of SettlementJob and Transfer. *)
Claim(j)   == [status |-> "Processing", attempts |-> j.attempts + 1, due |-> FALSE]
Succeed(j) == [j EXCEPT !.status = "Succeeded"]
Fail(j, deadLetter) ==
  [j EXCEPT !.status = IF deadLetter THEN "DeadLetter" ELSE "Failed", !.due = FALSE]
Reposted == [status |-> "Pending", attempts |-> 0, due |-> TRUE]

Mark(tr, status) == [tr EXCEPT !.status = status]

Claimable(t) ==
  \/ job[t].status = "Pending"
  \/ job[t].status \in {"Failed", "Processing"} /\ job[t].due

(* Mutated form: only transfers without a reference are queried. *)
QueriedUnreferenced(t) == transfer[t].status = "Unknown" /\ ~transfer[t].ref

Queried(t) == transfer[t].status = "Unknown" /\ transfer[t].ref
-----------------------------------------------------------------------------
Init ==
  /\ transfer = [t \in Transfer |-> [status |-> "Submitted", ref |-> FALSE]]
  /\ job = [t \in Transfer |-> [status |-> "Pending", attempts |-> 0, due |-> TRUE]]
  /\ refunds = [t \in Transfer |-> 0]
  /\ lockedBy = Nothing
  /\ payouts = [t \in Transfer |-> 0]
  /\ paid = [t \in Transfer |-> FALSE]
  /\ pc = [a \in Actor |-> "idle"]
  /\ at = [a \in Actor |-> None]
  /\ jobs = [w \in Worker |-> {}]
  /\ unknowns = [w \in Worker |-> {}]
  /\ seenTransfer = [a \in Actor |-> Nothing]
  /\ seenJob = [a \in Actor |-> Nothing]
  /\ pending = [a \in Actor |-> NothingPending]
  /\ answer = [a \in Resolver |-> NoAnswer]
  /\ faults = 0
  /\ reposts = 0

(* The actor's scope, with its DbContext, ends here. *)
Leave(a) ==
  /\ pc' = [pc EXCEPT ![a] = "idle"]
  /\ at' = [at EXCEPT ![a] = None]
  /\ seenTransfer' = [seenTransfer EXCEPT ![a] = Nothing]
  /\ seenJob' = [seenJob EXCEPT ![a] = Nothing]
  /\ pending' = [pending EXCEPT ![a] = NothingPending]

(* The transaction of actor a on t ends; its DbContext lives on. *)
Return(a, where) ==
  /\ pc' = [pc EXCEPT ![a] = where]
  /\ at' = [at EXCEPT ![a] = None]
  /\ answer' = [answer EXCEPT ![a] = NoAnswer]

Unlock(a) == lockedBy' = [t \in Transfer |-> IF lockedBy[t] = a THEN None ELSE lockedBy[t]]

(* SaveChanges writes all that is pending in the DbContext, and from then  *)
(* on takes it for the rows' values: accepted is what it has written, left *)
(* what is still to be saved.                                              *)
Accept(a, accepted, left) ==
  /\ seenTransfer' = [seenTransfer EXCEPT ![a] =
       [t \in Transfer |-> Either(accepted[t].transfer, seenTransfer[a][t])]]
  /\ seenJob' = [seenJob EXCEPT ![a] = [t \in Transfer |-> Either(accepted[t].job, seenJob[a][t])]]
  /\ pending' = [pending EXCEPT ![a] = left]

(* The claim of job at[a] has written the columns that Saved leaves out. *)
Write(a, changes) ==
  /\ transfer' = [t \in Transfer |->
       IF changes[t].transfer = None THEN transfer[t]
       ELSE Saved(transfer[t], OriginalTransfer(a, t), changes[t].transfer)]
  /\ job' = [t \in Transfer |->
       IF changes[t].job = None THEN job[t]
       ELSE IF lockedBy[t] = a /\ at[a] = t THEN changes[t].job
       ELSE Saved(job[t], OriginalJob(a, t), changes[t].job)]
  /\ refunds' = [t \in Transfer |-> refunds[t] + changes[t].credits]

(* The last SaveChanges of a transaction, and its commit. *)
SaveAndCommit(a, changes) ==
  /\ \A t \in Transfer : changes[t].job # None => JobFree(a, t)
  /\ Write(a, changes)
  /\ Accept(a, changes, NothingPending)

(* The backoff of a failed job, or the lease of a claimed one, runs out.   *)
Elapse(t) ==
  /\ ~job[t].due /\ job[t].status \in {"Failed", "Processing"} /\ lockedBy[t] = None
  /\ job' = [job EXCEPT ![t].due = TRUE]
  /\ UNCHANGED <<transfer, refunds, lockedBy, rail, local, bounds>>
-----------------------------------------------------------------------------
(* ProcessBatchAsync, first loop: claim and dispatch. *)

LoadJobs(w) ==
  /\ pc[w] = "idle"
  /\ pc' = [pc EXCEPT ![w] = "jobs"]
  /\ jobs' = [jobs EXCEPT ![w] = {t \in Transfer : Claimable(t)}]
  /\ seenJob' = [seenJob EXCEPT ![w] = [t \in Transfer |-> IF Claimable(t) THEN job[t] ELSE None]]
  /\ UNCHANGED <<store, lockedBy, rail, at, unknowns, seenTransfer, pending, answer, bounds>>

(* job.Claim and SaveChanges: the row is locked from here on, with those   *)
(* of other jobs that are pending; new values are only visible to others   *)
(* once the transaction commits.                                           *)
ClaimJob(w, t) ==
  LET saved == {t} \cup {u \in Transfer : pending[w][u].job # None} IN
  /\ pc[w] = "jobs" /\ t \in jobs[w]
  /\ \A u \in saved : lockedBy[u] = None
  /\ lockedBy' = [u \in Transfer |-> IF u \in saved THEN w ELSE lockedBy[u]]
  /\ seenJob' = [seenJob EXCEPT ![w][t] = Claim(@)]
  /\ jobs' = [jobs EXCEPT ![w] = @ \ {t}]
  /\ at' = [at EXCEPT ![w] = t]
  /\ pc' = [pc EXCEPT ![w] = "claimed"]
  /\ UNCHANGED <<store, rail, unknowns, seenTransfer, pending, answer, bounds>>

(* A transfer that is already resolved, or awaits a status query, is not   *)
(* sent again; two mutated forms that forget one of the cases.             *)
NothingToSendExceptUnknown(tr) == tr.status \in {"Failed", "Settled"}
NothingToSendExceptFailed(tr)  == tr.status \in {"Settled", "Unknown"}
NothingToSend(tr)              == tr.status \in {"Failed", "Settled", "Unknown"}

(* The transfer is read after the claim. *)
LoadTransfer(w) ==
  LET t == at[w]  tr == TransferOf(w, t) IN
  /\ pc[w] = "claimed"
  /\ seenTransfer' = [seenTransfer EXCEPT ![w][t] = OriginalTransfer(w, t)]
  /\ pc' = [pc EXCEPT ![w] = IF NothingToSend(tr) THEN "skipping" ELSE "sending"]
  /\ UNCHANGED <<store, lockedBy, rail, at, jobs, unknowns, seenJob, pending, answer, bounds>>

(* SendAsync, called with the transaction open. *)
Send(w) ==
  /\ pc[w] = "sending"
  /\ \E a \in RailAnswers :
       /\ answer' = [answer EXCEPT ![w] = a]
       /\ payouts' = [payouts EXCEPT ![at[w]] = IF a.pays THEN @ + 1 ELSE @]
       /\ paid' = [paid EXCEPT ![at[w]] = a.pays]
  /\ pc' = [pc EXCEPT ![w] = "sent"]
  /\ UNCHANGED <<store, lockedBy, at, jobs, unknowns, context, bounds>>

(* The status an answer leads to, and mutated forms: the rail's own word is *)
(* stored; a timeout is a failure; a timeout is a success.                 *)
OutcomeVerbatim(a)    == a.answer
OutcomeTimeoutFails(a) == IF a.answer = "Sent" THEN "Settled" ELSE "Failed"
OutcomeTimeoutSent(a)  == IF a.answer = "Failed" THEN "Failed" ELSE "Settled"
Outcome(a) ==
  CASE a.answer = "Sent" -> "Settled" [] a.answer = "Failed" -> "Failed" [] OTHER -> "Unknown"

(* What becomes of the entities of at[a] when there is nothing to send; *)
Skipped(w) == [Unchanged EXCEPT !.job = Succeed(JobOf(w, at[w]))]

(* after an answer of SendAsync; *)
FailedJob(w) == Fail(JobOf(w, at[w]), JobOf(w, at[w]).attempts >= MaxJobAttempts)

Recorded(w) ==
  LET t == at[w]  a == answer[w]  j == JobOf(w, t)  outcome == Outcome(a) IN
  [transfer |-> [status |-> outcome, ref |-> TransferOf(w, t).ref \/ a.ref],
   job      |-> CASE outcome = "Settled" -> Succeed(j)
                  [] outcome = "Failed"  -> FailedJob(w)
                  [] OTHER               -> Fail(j, FALSE),
   credits  |-> IF outcome = "Failed" THEN 1 ELSE 0]

(* and after one of GetStatusAsync, applied to the copy read before the    *)
(* rail was asked.  The API leaves the job of a failed transfer alone.     *)
Answered(a) ==
  LET t == at[a]  tr == TransferOf(a, t)  change == pending[a][t] IN
  CASE answer[a].answer = "Sent" ->
         [change EXCEPT !.transfer = Mark(tr, "Settled"), !.job = Succeed(JobOf(a, t))]
    [] answer[a].answer = "Failed" ->
         [change EXCEPT !.transfer = Mark(tr, "Failed"), !.credits = @ + 1,
                        !.job = IF a \in Worker THEN FailedJob(a) ELSE @]
    [] OTHER -> change

Skip(w) ==
  /\ pc[w] = "skipping"
  /\ SaveAndCommit(w, [pending[w] EXCEPT ![at[w]] = Skipped(w)])
  /\ Unlock(w)
  /\ Return(w, "jobs")
  /\ UNCHANGED <<rail, jobs, unknowns, bounds>>

Record(w) ==
  /\ pc[w] = "sent"
  /\ SaveAndCommit(w, [pending[w] EXCEPT ![at[w]] = Recorded(w)])
  /\ Unlock(w)
  /\ Return(w, "jobs")
  /\ UNCHANGED <<rail, jobs, unknowns, bounds>>
-----------------------------------------------------------------------------
(* The status loop of the worker, and the API's status query. *)

LoadUnknowns(w) ==
  /\ pc[w] = "jobs" /\ jobs[w] = {}
  /\ unknowns' = [unknowns EXCEPT ![w] = {t \in Transfer : Queried(t)}]
  /\ seenTransfer' = [seenTransfer EXCEPT ![w] =
       [t \in Transfer |-> IF Queried(t) THEN OriginalTransfer(w, t) ELSE seenTransfer[w][t]]]
  /\ pc' = [pc EXCEPT ![w] = "status"]
  /\ UNCHANGED <<store, lockedBy, rail, at, jobs, seenJob, pending, answer, bounds>>

EndBatch(w) ==
  /\ pc[w] = "status" /\ unknowns[w] = {}
  /\ Leave(w)
  /\ UNCHANGED <<store, lockedBy, rail, jobs, unknowns, answer, bounds>>

LoadUnknown(q) ==
  /\ pc[q] = "idle"
  /\ \E t \in Transfer :
       /\ transfer[t].status \in {"Submitted", "Unknown"} /\ transfer[t].ref
       /\ seenTransfer' = [seenTransfer EXCEPT ![q][t] = transfer[t]]
       /\ at' = [at EXCEPT ![q] = t]
       /\ pc' = [pc EXCEPT ![q] = "asking"]
  /\ UNCHANGED <<store, lockedBy, rail, jobs, unknowns, seenJob, pending, answer, bounds>>

NextUnknown(w) ==
  /\ pc[w] = "status"
  /\ \E t \in unknowns[w] :
       /\ unknowns' = [unknowns EXCEPT ![w] = @ \ {t}]
       /\ at' = [at EXCEPT ![w] = t]
  /\ pc' = [pc EXCEPT ![w] = "asking"]
  /\ UNCHANGED <<store, lockedBy, rail, jobs, context, answer, bounds>>

(* GetStatusAsync: the truth, or nothing yet. *)
AskRail(a) ==
  /\ pc[a] = "asking"
  /\ \E says \in {"Unknown", IF paid[at[a]] THEN "Sent" ELSE "Failed"} :
       answer' = [answer EXCEPT ![a] = [answer |-> says, ref |-> FALSE, pays |-> FALSE]]
  /\ pc' = [pc EXCEPT ![a] = "resolving"]
  /\ UNCHANGED <<store, lockedBy, rail, at, jobs, unknowns, context, bounds>>

Resolve(a) ==
  LET changes == [pending[a] EXCEPT ![at[a]] = Answered(a)] IN
  /\ pc[a] = "resolving"
  /\ IF a \in Worker
       THEN SaveAndCommit(a, changes) /\ Return(a, "status")
       ELSE /\ JobFree(a, at[a]) \/ changes[at[a]].job = None
            /\ Write(a, changes)
            /\ Leave(a)
            /\ answer' = [answer EXCEPT ![a] = NoAnswer]
  /\ UNCHANGED <<lockedBy, rail, jobs, unknowns, bounds>>
-----------------------------------------------------------------------------
(* RepostAsync: two reads, a check, and a save without a transaction.      *)

Repostable(t) == transfer[t].status = "Failed"

ReadFailed(d) ==
  /\ pc[d] = "idle" /\ reposts < MaxReposts
  /\ \E t \in Transfer :
       /\ Repostable(t)
       /\ seenTransfer' = [seenTransfer EXCEPT ![d][t] = transfer[t]]
       /\ at' = [at EXCEPT ![d] = t]
  /\ pc' = [pc EXCEPT ![d] = "reading"]
  /\ reposts' = reposts + 1
  /\ UNCHANGED <<store, lockedBy, rail, jobs, unknowns, seenJob, pending, answer, faults>>

ReadJob(d) ==
  /\ pc[d] = "reading"
  /\ seenJob' = [seenJob EXCEPT ![d][at[d]] = job[at[d]]]
  /\ pc' = [pc EXCEPT ![d] = "reposting"]
  /\ UNCHANGED <<store, lockedBy, rail, at, jobs, unknowns, seenTransfer, pending, answer, bounds>>

Repost(d) ==
  LET t == at[d] IN
  /\ pc[d] = "reposting"
  /\ lockedBy[t] = None
  /\ transfer' = [transfer EXCEPT ![t] =
       Saved(@, seenTransfer[d][t], [status |-> "Submitted", ref |-> FALSE])]
  /\ job' = [job EXCEPT ![t] = Saved(@, seenJob[d][t], Reposted)]
  /\ Leave(d)
  /\ UNCHANGED <<refunds, lockedBy, rail, jobs, unknowns, answer, bounds>>
-----------------------------------------------------------------------------
(* Faults.  Each of the worker's is caught in its loop, which rolls the    *)
(* transaction back, goes on, and leaves the DbContext as it is.           *)

Fault(kind) ==
  /\ kind \in FaultKinds /\ faults < MaxFaults
  /\ faults' = faults + 1

Dispatching(w) == pc[w] \in {"claimed", "skipping", "sending", "sent"}

(* What the claim's save wrote counts as saved; left are the last changes  *)
(* of the transfer, which no save has taken.                               *)
Rollback(w, left) ==
  LET t == at[w] IN
  /\ IF Dispatching(w)
       THEN Accept(w, pending[w], [NothingPending EXCEPT ![t] = left])
       ELSE /\ seenJob' = [seenJob EXCEPT ![w][t] = IF left.job = None THEN @ ELSE OriginalJob(w, t)]
            /\ pending' = [pending EXCEPT ![w][t] = left]
            /\ UNCHANGED seenTransfer
  /\ Unlock(w)
  /\ Return(w, IF Dispatching(w) THEN "jobs" ELSE "status")
  /\ UNCHANGED <<store, jobs, unknowns, reposts>>

(* The first SaveChanges: nothing is written, and the claim is left. *)
ClaimFails(w, t) ==
  /\ pc[w] = "jobs" /\ t \in jobs[w]
  /\ Fault("save")
  /\ pending' = [pending EXCEPT ![w][t].job = Claim(seenJob[w][t])]
  /\ jobs' = [jobs EXCEPT ![w] = @ \ {t}]
  /\ UNCHANGED <<store, lockedBy, rail, pc, at, unknowns, seenTransfer, seenJob, answer, reposts>>

(* SendAsync throws, a timeout say, and the rail may have paid or not. *)
SendThrows(w) ==
  /\ pc[w] = "sending" /\ Fault("rail")
  /\ \E pays \in BOOLEAN :
       /\ payouts' = [payouts EXCEPT ![at[w]] = IF pays THEN @ + 1 ELSE @]
       /\ paid' = [paid EXCEPT ![at[w]] = pays]
  /\ Rollback(w, Unchanged)

(* GetStatusAsync throws. *)
AskThrows(w) ==
  /\ pc[w] = "asking" /\ Fault("rail")
  /\ Rollback(w, pending[w][at[w]])
  /\ UNCHANGED rail

(* The transfer cannot be read; or the job, when the transfer is marked    *)
(* and perhaps refunded already.                                           *)
ReadThrows(w) ==
  /\ Fault("read")
  /\ \/ pc[w] = "claimed" /\ Rollback(w, Unchanged)
     \/ /\ pc[w] = "resolving" /\ answer[w].answer # "Unknown"
        /\ Rollback(w, [Answered(w) EXCEPT !.job = pending[w][at[w]].job])
  /\ UNCHANGED rail

(* ReverseOutboundAsync throws, before or after its Credit of the customer. *)
(* The dispatch has failed the job by then, the query marked the transfer. *)
ReversalThrows(w) ==
  LET change == pending[w][at[w]] IN
  /\ pc[w] \in {"sent", "resolving"} /\ answer[w].answer = "Failed" /\ Fault("reversal")
  /\ \E credits \in change.credits .. change.credits + 1 :
       Rollback(w, IF Dispatching(w)
                     THEN [Unchanged EXCEPT !.job = FailedJob(w), !.credits = credits]
                     ELSE [change EXCEPT !.transfer = Answered(w).transfer, !.credits = credits])
  /\ UNCHANGED rail

(* The last SaveChanges of a transaction fails, or its commit. *)
Unsaved(w) ==
  CASE pc[w] = "skipping" -> Skipped(w) [] pc[w] = "sent" -> Recorded(w) [] OTHER -> Answered(w)

SaveFails(w) ==
  /\ pc[w] \in {"skipping", "sent", "resolving"} /\ Fault("save")
  /\ Rollback(w, Unsaved(w))
  /\ UNCHANGED rail

CommitFails(w) ==
  /\ pc[w] \in {"skipping", "sent", "resolving"} /\ Fault("commit")
  /\ Accept(w, [pending[w] EXCEPT ![at[w]] = Unsaved(w)], NothingPending)
  /\ Unlock(w)
  /\ Return(w, IF Dispatching(w) THEN "jobs" ELSE "status")
  /\ UNCHANGED <<store, rail, jobs, unknowns, reposts>>

(* The worker process dies and is started again; or its cycle ends with an *)
(* exception that the loops do not catch, and with it the DbContext.       *)
Crash(w) ==
  /\ pc[w] # "idle" /\ Fault("crash")
  /\ Unlock(w)
  /\ Leave(w)
  /\ jobs' = [jobs EXCEPT ![w] = {}]
  /\ unknowns' = [unknowns EXCEPT ![w] = {}]
  /\ answer' = [answer EXCEPT ![w] = NoAnswer]
  /\ UNCHANGED <<store, rail, reposts>>

(* A status query or a repost fails before it has committed. *)
RequestFails(a) ==
  /\ pc[a] # "idle" /\ faults < MaxFaults
  /\ faults' = faults + 1
  /\ Leave(a)
  /\ answer' = [r \in Resolver |-> IF r = a THEN NoAnswer ELSE answer[r]]
  /\ UNCHANGED <<store, lockedBy, rail, jobs, unknowns, reposts>>

WorkerStep(w) ==
  \/ LoadJobs(w) \/ (\E t \in Transfer : ClaimJob(w, t)) \/ LoadTransfer(w) \/ Skip(w)
  \/ Send(w) \/ Record(w)
  \/ LoadUnknowns(w) \/ NextUnknown(w) \/ AskRail(w) \/ Resolve(w) \/ EndBatch(w)

WorkerFails(w) ==
  \/ (\E t \in Transfer : ClaimFails(w, t)) \/ SendThrows(w) \/ AskThrows(w) \/ ReadThrows(w)
  \/ ReversalThrows(w) \/ SaveFails(w) \/ CommitFails(w) \/ Crash(w)

QueryStep(q) == LoadUnknown(q) \/ AskRail(q) \/ Resolve(q)

Next ==
  \/ \E w \in Worker : WorkerStep(w) \/ WorkerFails(w)
  \/ \E q \in Querier : QueryStep(q)
  \/ \E d \in Admin : ReadFailed(d) \/ ReadJob(d) \/ Repost(d)
  \/ \E a \in Querier \cup Admin : RequestFails(a)
  \/ \E t \in Transfer : Elapse(t)

Spec == Init /\ [][Next]_vars

(* A worker's loop never stops for good, time passes, and a status that is *)
(* asked for again and again is known in the end.                          *)
Fairness ==
  /\ \A w \in Worker :
       /\ WF_vars(WorkerStep(w))
       /\ \A t \in Transfer : SF_vars(AskRail(w) /\ at[w] = t /\ answer'[w].answer # "Unknown")
  /\ \A t \in Transfer : WF_vars(Elapse(t))

FairSpec == Spec /\ Fairness
-----------------------------------------------------------------------------
(* Properties. *)

(* Every variable holds values of its kind: in particular a transfer keeps *)
(* to the statuses of the source, whatever word the rail uses.             *)
TypeOK ==
  /\ transfer \in [Transfer -> TransferRow]
  /\ job \in [Transfer -> JobRow]
  /\ refunds \in [Transfer -> Nat]
  /\ lockedBy \in [Transfer -> Worker \cup {None}]
  /\ payouts \in [Transfer -> Nat]
  /\ paid \in [Transfer -> BOOLEAN]
  /\ pc \in [Actor -> {"idle", "jobs", "claimed", "sending", "sent", "status", "asking",
                       "skipping", "resolving", "reading", "reposting"}]
  /\ at \in [Actor -> Transfer \cup {None}]
  /\ jobs \in [Worker -> SUBSET Transfer]
  /\ unknowns \in [Worker -> SUBSET Transfer]
  /\ seenTransfer \in [Actor -> [Transfer -> TransferRow \cup {None}]]
  /\ seenJob \in [Actor -> [Transfer -> JobRow \cup {None}]]
  /\ pending \in [Actor -> [Transfer -> Change]]
  /\ answer \in [Resolver -> [answer : Verdict, ref : BOOLEAN, pays : BOOLEAN]]
  /\ faults \in 0 .. MaxFaults
  /\ reposts \in 0 .. MaxReposts

(* However many workers share the queue, and whatever they read before     *)
(* they claimed, an instruction reaches the rail once, as long as nothing  *)
(* fails between the rail's answer and the commit.                         *)
NeverPaidTwice == \A t \in Transfer : payouts[t] <= 1

(* A timeout is not a failure: the worker and the status query refund a    *)
(* customer only if the rail did not pay.                                  *)
RefundOnlyIfUnpaid == \A t \in Transfer : refunds[t] > 0 => payouts[t] = 0
(* A timeout is not a success: a transfer is marked settled only if the    *)
(* rail paid, whatever fails and whatever is left in a DbContext.          *)
SettledOnlyIfPaid == \A t \in Transfer : transfer[t].status = "Settled" => payouts[t] > 0

(* A transfer is refunded at most once, though its job is claimed again    *)
(* after a failure and may be dispatched after a crash, and though a save  *)
(* may bring what an earlier transfer left in the DbContext.  So it is for *)
(* one worker whose ReverseOutboundAsync does not throw: a credit that is  *)
(* left without its status is the subject of WorkerBatch.                  *)
RefundedOnce == \A t \in Transfer : refunds[t] <= 1

(* Every submitted or reposted transfer is settled or failed in the end:   *)
(* the retries, backoffs and status queries of the workers reach an        *)
(* outcome, whoever claims the job and whatever copies they resolve.       *)
Resolved ==
  \A t \in Transfer :
    transfer[t].status \in {"Submitted", "Unknown"} ~> transfer[t].status \in {"Settled", "Failed"}

Abstract == INSTANCE Lifecycle WITH status <- [t \in Transfer |-> transfer[t].status]

(* Under the same condition, and without reposts, every commit takes its   *)
(* transfers through the abstract life cycle: each refund comes with its   *)
(* failure, and no outcome is ever revised.                                *)
ImplementsLifecycle == Abstract!Spec
-----------------------------------------------------------------------------
(* A statement of the documentation that the code does not keep. *)

(* README: reversing the ledger legs is what a failed payout does; a payout *)
(* that is settled has its legs in place.  A repost breaks it; so may two  *)
(* workers, when a save of one fails and a later one of it brings both.    *)
SettledIsNotRefunded ==
  \A t \in Transfer : transfer[t].status = "Settled" => refunds[t] = 0
=============================================================================
