------------------------------ MODULE Lifecycle ------------------------------
(***************************************************************************)
(* The state machine of an outbound transfer as its callers understand it: *)
(* it is submitted, its outcome may be unknown for a while, and it ends    *)
(* settled and kept, or failed and refunded once.                          *)
(***************************************************************************)
EXTENDS Integers

CONSTANT Transfer

VARIABLES status,    \* Transfers.Status
          refunds    \* how often the transfer's ledger legs were reversed

vars == <<status, refunds>>

Status == {"Submitted", "Unknown", "Settled", "Failed"}
Open == {"Submitted", "Unknown"}

Init ==
  /\ status = [t \in Transfer |-> "Submitted"]
  /\ refunds = [t \in Transfer |-> 0]

Keep(t) == status'[t] = status[t] /\ refunds'[t] = refunds[t]

Settle(t) == status[t] \in Open /\ status'[t] = "Settled" /\ refunds'[t] = refunds[t]

Suspend(t) == status[t] = "Submitted" /\ status'[t] = "Unknown" /\ refunds'[t] = refunds[t]

Fail(t) == status[t] \in Open /\ status'[t] = "Failed" /\ refunds'[t] = refunds[t] + 1

(* One commit may decide several transfers. *)
Next ==
  /\ status' \in [Transfer -> Status]
  /\ refunds' \in [Transfer -> Nat]
  /\ \A t \in Transfer : Keep(t) \/ Settle(t) \/ Suspend(t) \/ Fail(t)

Spec == Init /\ [][Next]_vars
=============================================================================
