------------------------------- MODULE Ledger -------------------------------
(***************************************************************************)
(* What the wallet ledger promises its callers: money moves in indivisible *)
(* postings, each applied once, to the balances as they are at that        *)
(* moment, and never below zero.  Beside them, the settlement worker       *)
(* adjusts balances; how is not this specification's concern, only that    *)
(* the account of it is kept.  The API requests, their transactions, row   *)
(* locks, tracked entities and retries are invisible here; see             *)
(* TransferService, which implements this specification.                   *)
(***************************************************************************)
EXTENDS Integers

CONSTANTS Account,   \* the rows of Wallets, customer and system accounts
          Opening,   \* their seeded balances
          NoKey      \* the key of a posting that carries no Idempotency-Key

VARIABLES balance,   \* Account -> kobo
          posted,    \* the postings applied so far: [id, key, legs]
          adjusted   \* Account -> what adjustments have added so far

vars == <<balance, posted, adjusted>>

Init ==
  /\ balance = Opening
  /\ posted = {}
  /\ adjusted = [a \in Account |-> 0]

(* One posting: its legs reach the balances together, its idempotency key  *)
(* has not been used before, and no account is overdrawn by it.            *)
Post ==
  /\ \E p \in posted' \ posted :
       /\ posted' = posted \cup {p}
       /\ \A q \in posted : p.key # NoKey => q.key # p.key
       /\ balance' = [a \in Account |-> balance[a] + p.legs[a]]
  /\ \A a \in Account : balance'[a] >= 0
  /\ UNCHANGED adjusted

(* One adjustment, of any accounts, which leaves the postings as they are. *)
Adjust ==
  /\ balance' = [a \in Account |-> balance[a] + (adjusted'[a] - adjusted[a])]
  /\ \A a \in Account : balance'[a] >= 0
  /\ UNCHANGED posted

Next == Post \/ Adjust

Spec == Init /\ [][Next]_vars
=============================================================================
