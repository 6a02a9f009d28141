-------------------------- MODULE WorkerBatch_proofs --------------------------
(***************************************************************************)
(* When the tracker of a worker does no harm.  The run of WorkerBatch      *)
(* shows a refund that is in a balance without its legs, after a Debit of  *)
(* Settlement that was short.  That is the only way: as long as Settlement *)
(* covers the refunds, saves and calls of the rail may fail wherever they  *)
(* like and whatever the API does to the same wallets, for any transfers.  *)
(***************************************************************************)
EXTENDS WorkerBatch, TLAPS

(* The numbers are numbers, and the model values are what they stand for.  *)
WalletValue == [balance : Int, version : Int]

Separate ==
  /\ Opening \in Int /\ Float \in Int
  /\ Settlement \notin Transfer
  /\ None \notin WalletValue \cup {"Submitted", "Settled", "Failed", "Unknown"}

(* The Debit of Settlement is not short where a refund may be due.         *)
Covered == pc \in {"claimed", "asking"} => Read(WalletRow(Settlement)).balance >= 1

-----------------------------------------------------------------------------
(* What the tracker, the transaction and the database know of the source   *)
(* wallet of t.  Its leg is Added exactly while its balance is modified.   *)

Untracked(t) ==
  /\ current[WalletRow(t)] = None /\ original[WalletRow(t)] = None /\ tx[WalletRow(t)] = None
  /\ added[t] = 0 /\ txLegs[t] = 0

Pending(t) ==
  /\ original[WalletRow(t)] \in WalletValue
  /\ current[WalletRow(t)] = [balance |-> original[WalletRow(t)].balance + 1,
                              version |-> original[WalletRow(t)].version + 1]
  /\ original[WalletRow(t)].version <= db[WalletRow(t)].version
  /\ original[WalletRow(t)].version = db[WalletRow(t)].version
       => original[WalletRow(t)] = db[WalletRow(t)]
  /\ tx[WalletRow(t)] = None
  /\ added[t] = 1 /\ txLegs[t] = 0

InTransaction(t) ==
  /\ current[WalletRow(t)] \in WalletValue
  /\ current[WalletRow(t)].balance = db[WalletRow(t)].balance + 1
  /\ original[WalletRow(t)] = current[WalletRow(t)] /\ tx[WalletRow(t)] = current[WalletRow(t)]
  /\ added[t] = 0 /\ txLegs[t] = 1

(* Saved once, and committed or rolled back since: never modified again.   *)
Unmodified(t) ==
  /\ current[WalletRow(t)] \in WalletValue
  /\ original[WalletRow(t)] = current[WalletRow(t)] /\ tx[WalletRow(t)] = None
  /\ added[t] = 0 /\ txLegs[t] = 0

Tracked(t) == Untracked(t) \/ Pending(t) \/ InTransaction(t) \/ Unmodified(t)

(* A transfer is reversed once in a batch: the status loop does not meet   *)
(* one that the first loop has reversed, even where that was not saved.    *)
ToDispatch(t) ==
  loop = "jobs" /\ (t \in todo \/ (t = at /\ pc \in {"claiming", "claimed"}))
ToAsk(t) == loop = "status" /\ (t \in todo \/ (t = at /\ pc = "asking"))

Turn(t) ==
  /\ ToDispatch(t) =>
       /\ current[WalletRow(t)] = None
       /\ current[TransferRow(t)] = None /\ original[TransferRow(t)] = None
       /\ tx[TransferRow(t)] = None
  /\ ToAsk(t) => current[WalletRow(t)] = None
  /\ loop = "jobs" /\ current[WalletRow(t)] # None =>
       /\ current[TransferRow(t)] = "Failed"
       /\ tx[TransferRow(t)] # "Unknown" /\ db[TransferRow(t)] # "Unknown"

(* Where the worker is, and what it holds there. *)
Place ==
  /\ pc \in {"idle", "jobs", "claiming", "claimed", "recorded", "status", "asking"}
  /\ loop \in {"jobs", "status"}
  /\ pc \in {"jobs", "claiming", "claimed"} => loop = "jobs"
  /\ pc \in {"status", "asking"} => loop = "status"
  /\ todo \subseteq Transfer
  /\ pc \in {"claiming", "claimed", "asking"} => at \in Transfer \ todo
  /\ pc \notin {"claimed", "recorded"} => tx = NoRows /\ txLegs = NoLegs
  /\ pc = "idle" =>
       todo = {} /\ current = NoRows /\ original = NoRows /\ added = NoLegs

Shape ==
  /\ DOMAIN db = Row
  /\ \A t \in Transfer : db[WalletRow(t)] \in WalletValue
  /\ added \in [Transfer -> Int] /\ txLegs \in [Transfer -> Int]
  /\ legs \in [Transfer -> Int] /\ moved \in [Transfer -> Int]

Consistent == Shape /\ Place /\ \A t \in Transfer : Tracked(t) /\ Turn(t)
-----------------------------------------------------------------------------
(* Rows. *)

LEMMA Rows ==
  ASSUME Separate, NEW t \in Transfer
  PROVE  /\ WalletRow(t) \in Row /\ WalletRow(t) \in Wallets /\ TransferRow(t) \in Row
         /\ WalletRow(t) # WalletRow(Settlement)
         /\ TransferRow(t) # WalletRow(Settlement)
         /\ \A s \in Transfer :
              /\ WalletRow(s) = WalletRow(t) => s = t
              /\ TransferRow(s) = TransferRow(t) => s = t
              /\ WalletRow(t) # TransferRow(s) /\ WalletRow(t) # JobRow(s)
              /\ TransferRow(t) # JobRow(s)
BY DEF Separate, Row, Wallets, WalletRow, TransferRow, JobRow

LEMMA Values ==
  ASSUME Separate
  PROVE  /\ \A v \in WalletValue : v # None /\ v.balance \in Int /\ v.version \in Int
         /\ \A v \in WalletValue :
              /\ [balance |-> v.balance + 1, version |-> v.version + 1] \in WalletValue
              /\ [balance |-> v.balance - 1, version |-> v.version + 1] \in WalletValue
         /\ None # "Unknown" /\ None # "Failed" /\ None # "Submitted"
BY DEF Separate, WalletValue

LEMMA Assigned ==
  ASSUME NEW new, Assign(new), NEW r \in Row
  PROVE  /\ r \in DOMAIN new =>
              /\ current'[r] = new[r]
              /\ original'[r] = IF original[r] = None THEN Visible(r) ELSE original[r]
         /\ r \notin DOMAIN new => current'[r] = current[r] /\ original'[r] = original[r]
BY DEF Assign

(* What is assigned to other rows does not concern the wallet of t. *)
LEMMA Elsewhere ==
  ASSUME Separate, NEW t \in Transfer, Tracked(t), NEW new, Assign(new),
         WalletRow(t) \notin DOMAIN new, UNCHANGED <<database, transaction>>, added'[t] = added[t]
  PROVE  Tracked(t)' /\ current'[WalletRow(t)] = current[WalletRow(t)]
<1>1. /\ current'[WalletRow(t)] = current[WalletRow(t)]
      /\ original'[WalletRow(t)] = original[WalletRow(t)]
  BY Rows, Assigned
<1>2. db' = db /\ tx' = tx /\ txLegs' = txLegs
  BY DEF database, transaction
<1>. QED
  BY <1>1, <1>2 DEF Tracked, Untracked, Pending, InTransaction, Unmodified

(* The first save after a reversal finds the wallet as it was read, or     *)
(* fails; a wallet it does not write stays as it is in the transaction.    *)
LEMMA SavedWallet ==
  ASSUME Separate, Shape, NEW t \in Transfer, ~Conflict
  PROVE  /\ Untracked(t) => Written[WalletRow(t)] = None
         /\ Pending(t) =>
              /\ Written[WalletRow(t)] = current[WalletRow(t)]
              /\ current[WalletRow(t)] \in WalletValue
              /\ current[WalletRow(t)].balance = db[WalletRow(t)].balance + 1
         /\ InTransaction(t) => Written[WalletRow(t)] = current[WalletRow(t)]
         /\ Unmodified(t) => Written[WalletRow(t)] = None
<1>. DEFINE w == WalletRow(t)
<1>1. w \in Row /\ w \in Wallets
  BY Rows
<1>2. Written[w] = IF w \in Modified THEN current[w] ELSE tx[w]
  BY <1>1 DEF Written
<1>3. w \in Modified <=> current[w] # original[w]
  BY <1>1 DEF Modified
<1>4. ASSUME Pending(t)
      PROVE  /\ Written[w] = current[w]
             /\ current[w] \in WalletValue
             /\ current[w].balance = db[w].balance + 1
  <2>1. /\ original[w].balance \in Int /\ original[w].version \in Int
        /\ current[w] = [balance |-> original[w].balance + 1, version |-> original[w].version + 1]
        /\ current[w] \in WalletValue
    BY <1>4, Values DEF Pending
  <2>2. current[w] # original[w]
    <3>1. current[w].balance = original[w].balance + 1
      BY <2>1
    <3>. QED
      BY <3>1, <2>1
  <2>3. w \in Modified \cap Wallets
    BY <2>2, <1>3, <1>1
  <2>4. Visible(w).version = original[w].version
    BY <2>3 DEF Conflict
  <2>5. Visible(w) = db[w]
    BY <1>4 DEF Pending, Visible
  <2>6. original[w] = db[w]
    BY <1>4, <2>4, <2>5 DEF Pending
  <2>. QED
    BY <2>1, <2>3, <2>6, <1>2
<1>5. ~Pending(t) /\ Tracked(t) => current[w] = original[w]
  BY DEF Tracked, Untracked, InTransaction, Unmodified
<1>. QED
  BY <1>2, <1>3, <1>4, <1>5 DEF Untracked, InTransaction, Unmodified, Tracked
-----------------------------------------------------------------------------
(* The steps that keep the transaction and the database as they are. *)

LEMMA TurnKept ==
  ASSUME NEW t \in Transfer, Turn(t), loop' = loop,
         ToDispatch(t)' => ToDispatch(t), ToAsk(t)' => ToAsk(t),
         current'[WalletRow(t)] = current[WalletRow(t)],
         current'[TransferRow(t)] = current[TransferRow(t)],
         original'[TransferRow(t)] = original[TransferRow(t)],
         tx'[TransferRow(t)] = tx[TransferRow(t)],
         db'[TransferRow(t)] = db[TransferRow(t)]
  PROVE  Turn(t)'
BY DEF Turn

LEMMA KeepLoadJobs ==
  ASSUME Separate, Consistent, LoadJobs
  PROVE  Consistent'
<1>. DEFINE claimable == {t \in Transfer : db[JobRow(t)] # "Succeeded"}
            new == [r \in {JobRow(t) : t \in claimable} |-> Read(r)]
<1>1. Assign(new) /\ UNCHANGED <<database, transaction, added>> /\ pc' = "jobs" /\ loop' = "jobs"
      /\ todo' = claimable
  BY DEF LoadJobs
<1>2. tx = NoRows /\ txLegs = NoLegs /\ current = NoRows /\ original = NoRows
  BY DEF LoadJobs, Consistent, Place
<1>3. Shape'
  BY <1>1 DEF Consistent, Shape, database, transaction
<1>4. Place'
  BY <1>1, <1>2 DEF Place, transaction
<1>5. ASSUME NEW t \in Transfer PROVE Tracked(t)' /\ Turn(t)'
  <2>1. WalletRow(t) \notin DOMAIN new /\ TransferRow(t) \notin DOMAIN new
    BY Rows
  <2>2. Tracked(t)' /\ current'[WalletRow(t)] = current[WalletRow(t)]
    BY <1>1, <2>1, Elsewhere DEF Consistent
  <2>3. /\ current'[TransferRow(t)] = current[TransferRow(t)]
        /\ original'[TransferRow(t)] = original[TransferRow(t)]
    BY <1>1, <2>1, Rows, Assigned
  <2>4. /\ current[WalletRow(t)] = None
        /\ current[TransferRow(t)] = None /\ original[TransferRow(t)] = None
        /\ tx'[TransferRow(t)] = None
    BY <1>1, <1>2, Rows DEF NoRows, transaction
  <2>. QED
    BY <1>1, <2>2, <2>3, <2>4 DEF Turn, ToAsk
<1>. QED
  BY <1>3, <1>4, <1>5 DEF Consistent

LEMMA KeepClaimJob ==
  ASSUME Separate, Consistent, NEW c \in Transfer, ClaimJob(c)
  PROVE  Consistent'
<1>. DEFINE new == JobRow(c) :> "Processing"
<1>1. /\ Assign(new) /\ UNCHANGED <<database, transaction, added, loop>>
      /\ pc = "jobs" /\ pc' = "claiming" /\ c \in todo /\ todo' = todo \ {c} /\ at' = c
  BY DEF ClaimJob
<1>2. DOMAIN new = {JobRow(c)}
  BY DEF :>
<1>3. Shape'
  BY <1>1 DEF Consistent, Shape, database, transaction
<1>4. Place'
  BY <1>1 DEF Consistent, Place, transaction
<1>5. ASSUME NEW t \in Transfer PROVE Tracked(t)' /\ Turn(t)'
  <2>1. WalletRow(t) \notin DOMAIN new /\ TransferRow(t) \notin DOMAIN new
    BY <1>2, Rows
  <2>2. Tracked(t)' /\ current'[WalletRow(t)] = current[WalletRow(t)]
    BY <1>1, <2>1, Elsewhere DEF Consistent
  <2>3. /\ current'[TransferRow(t)] = current[TransferRow(t)]
        /\ original'[TransferRow(t)] = original[TransferRow(t)]
    BY <1>1, <2>1, Rows, Assigned
  <2>4. (ToDispatch(t)' => ToDispatch(t)) /\ (ToAsk(t)' => ToAsk(t))
    BY <1>1 DEF ToDispatch, ToAsk, Consistent, Place
  <2>. QED
    BY <1>1, <2>2, <2>3, <2>4, TurnKept DEF Consistent, database, transaction
<1>. QED
  BY <1>3, <1>4, <1>5 DEF Consistent

LEMMA KeepLoadUnknowns ==
  ASSUME Separate, Consistent, LoadUnknowns
  PROVE  Consistent'
<1>. DEFINE unknown == {t \in Transfer : db[TransferRow(t)] = "Unknown"}
            new == [r \in {TransferRow(t) : t \in unknown} |-> Read(r)]
<1>1. /\ Assign(new) /\ UNCHANGED <<database, transaction, added>>
      /\ pc = "jobs" /\ pc' = "status" /\ loop' = "status" /\ todo' = unknown
  BY DEF LoadUnknowns
<1>2. Shape'
  BY <1>1 DEF Consistent, Shape, database, transaction
<1>3. Place'
  BY <1>1 DEF Consistent, Place, transaction
<1>4. ASSUME NEW t \in Transfer PROVE Tracked(t)' /\ Turn(t)'
  <2>1. WalletRow(t) \notin DOMAIN new
    BY Rows
  <2>2. Tracked(t)' /\ current'[WalletRow(t)] = current[WalletRow(t)]
    BY <1>1, <2>1, Elsewhere DEF Consistent
  <2>3. t \in todo' => current[WalletRow(t)] = None
    BY <1>1 DEF Consistent, Place, Turn
  <2>. QED
    BY <1>1, <2>2, <2>3 DEF Turn, ToAsk, ToDispatch
<1>. QED
  BY <1>2, <1>3, <1>4 DEF Consistent

LEMMA KeepNextUnknown ==
  ASSUME Separate, Consistent, NEW c \in Transfer, NextUnknown(c)
  PROVE  Consistent'
<1>1. UNCHANGED <<database, transaction, context, loop>>
  BY DEF NextUnknown
<1>2. Shape'
  BY <1>1 DEF Consistent, Shape, database, transaction, context
<1>3. Place'
  BY <1>1 DEF Consistent, Place, NextUnknown, transaction
<1>4. ASSUME NEW t \in Transfer PROVE Tracked(t)' /\ Turn(t)'
  <2>1. Tracked(t)'
    BY <1>1 DEF Consistent, Tracked, Untracked, Pending, InTransaction, Unmodified,
       database, transaction, context
  <2>2. (ToDispatch(t)' => ToDispatch(t)) /\ (ToAsk(t)' => ToAsk(t))
    BY <1>1 DEF ToDispatch, ToAsk, NextUnknown, Consistent, Place
  <2>. QED
    BY <1>1, <2>1, <2>2, TurnKept DEF Consistent, database, transaction, context
<1>. QED
  BY <1>2, <1>3, <1>4 DEF Consistent
-----------------------------------------------------------------------------
(* The steps that end or extend the transaction. *)

LEMMA Outside ==
  ASSUME Separate, NEW t \in Transfer
  PROVE  /\ NoRows[WalletRow(t)] = None /\ NoRows[TransferRow(t)] = None
         /\ NoLegs \in [Transfer -> Int] /\ NoLegs[t] = 0
BY Rows DEF NoRows, NoLegs

(* What a save writes of a transfer that is not unknown is not "Unknown".  *)
LEMMA SavedTransfer ==
  ASSUME NEW t \in Transfer, TransferRow(t) \in Row
  PROVE  /\ current[TransferRow(t)] = original[TransferRow(t)] =>
              Written[TransferRow(t)] = tx[TransferRow(t)]
         /\ Written[TransferRow(t)] \in {current[TransferRow(t)], tx[TransferRow(t)]}
BY DEF Written, Modified

LEMMA KeepSaveClaim ==
  ASSUME Separate, Consistent, SaveClaim
  PROVE  Consistent'
<1>1. /\ pc = "claiming" /\ pc' = "claimed" /\ ~Conflict
      /\ tx' = Written /\ txLegs' = added /\ original' = current /\ added' = NoLegs
      /\ UNCHANGED <<database, current, at, loop, todo>>
  BY DEF SaveClaim
<1>2. tx = NoRows /\ txLegs = NoLegs
  BY <1>1 DEF Consistent, Place
<1>3. Shape'
  <2>1. NoLegs \in [Transfer -> Int]
    BY DEF NoLegs
  <2>. QED
    BY <1>1, <2>1 DEF Consistent, Shape, database
<1>4. Place'
  BY <1>1 DEF Consistent, Place
<1>5. ASSUME NEW t \in Transfer PROVE Tracked(t)' /\ Turn(t)'
  <2>1. db' = db /\ current' = current
    BY <1>1 DEF database
  <2>2. Tracked(t)'
    <3>1. CASE Untracked(t)
      <4>1. Written[WalletRow(t)] = None
        BY <3>1, <1>1, SavedWallet DEF Consistent
      <4>2. Untracked(t)'
        BY <3>1, <4>1, <1>1, <2>1, Outside DEF Untracked
      <4>. QED
        BY <4>2 DEF Tracked
    <3>2. CASE Pending(t)
      <4>1. /\ Written[WalletRow(t)] = current[WalletRow(t)]
            /\ current[WalletRow(t)] \in WalletValue
            /\ current[WalletRow(t)].balance = db[WalletRow(t)].balance + 1
        BY <3>2, <1>1, SavedWallet DEF Consistent
      <4>2. added[t] = 1
        BY <3>2 DEF Pending
      <4>3. InTransaction(t)'
        BY <4>1, <4>2, <1>1, <2>1, Outside DEF InTransaction
      <4>. QED
        BY <4>3 DEF Tracked
    <3>3. CASE InTransaction(t)
      BY <3>3, <1>2, Outside, Values DEF InTransaction
    <3>4. CASE Unmodified(t)
      <4>1. Written[WalletRow(t)] = None
        BY <3>4, <1>1, SavedWallet DEF Consistent
      <4>2. Unmodified(t)'
        BY <3>4, <4>1, <1>1, <2>1, Outside DEF Unmodified
      <4>. QED
        BY <4>2 DEF Tracked
    <3>. QED
      BY <3>1, <3>2, <3>3, <3>4 DEF Consistent, Tracked
  <2>3. Turn(t)'
    <3>1. (ToDispatch(t)' => ToDispatch(t)) /\ (ToAsk(t)' => ToAsk(t)) /\ loop' = loop
      BY <1>1 DEF ToDispatch, ToAsk
    <3>2. ToDispatch(t) => tx'[TransferRow(t)] = None /\ original'[TransferRow(t)] = None
      BY <1>1, SavedTransfer, Rows DEF Consistent, Turn
    <3>3. loop = "jobs" /\ current[WalletRow(t)] # None => tx'[TransferRow(t)] # "Unknown"
      BY <1>1, SavedTransfer, Rows DEF Consistent, Turn
    <3>. QED
      BY <2>1, <3>1, <3>2, <3>3 DEF Consistent, Turn
  <2>. QED
    BY <2>2, <2>3
<1>. QED
  BY <1>3, <1>4, <1>5 DEF Consistent

LEMMA KeepRollback ==
  ASSUME Separate, Consistent, Rollback, UNCHANGED context,
         pc \in {"claimed", "asking", "claiming", "recorded"}
  PROVE  Consistent'
<1>1. /\ tx' = NoRows /\ txLegs' = NoLegs /\ pc' = loop /\ UNCHANGED <<database, loop, todo>>
      /\ UNCHANGED <<db, legs, moved, current, original, added>>
  BY DEF Rollback, NoTransaction, context, database
<1>2. Shape'
  <2>1. NoLegs \in [Transfer -> Int]
    BY DEF NoLegs
  <2>. QED
    BY <1>1, <2>1 DEF Consistent, Shape
<1>3. Place'
  BY <1>1 DEF Consistent, Place
<1>4. ASSUME NEW t \in Transfer PROVE Tracked(t)' /\ Turn(t)'
  <2>1. tx'[WalletRow(t)] = None /\ tx'[TransferRow(t)] = None /\ txLegs'[t] = 0
    BY <1>1, Outside
  <2>2. Tracked(t)'
    <3>1. Untracked(t) => Untracked(t)'
      BY <1>1, <2>1 DEF Untracked
    <3>2. Pending(t) => Pending(t)'
      BY <1>1, <2>1 DEF Pending
    <3>3. InTransaction(t) \/ Unmodified(t) => Unmodified(t)'
      BY <1>1, <2>1 DEF Unmodified, InTransaction
    <3>. QED
      BY <3>1, <3>2, <3>3 DEF Consistent, Tracked
  <2>3. (ToDispatch(t)' => ToDispatch(t)) /\ (ToAsk(t)' => ToAsk(t))
    BY <1>1 DEF ToDispatch, ToAsk, Consistent, Place
  <2>4. Turn(t)'
    BY <1>1, <2>1, <2>3, Values DEF Consistent, Turn
  <2>. QED
    BY <2>2, <2>4
<1>. QED
  BY <1>2, <1>3, <1>4 DEF Consistent

LEMMA KeepEndBatch ==
  ASSUME Separate, Consistent, EndBatch
  PROVE  Consistent'
<1>1. /\ pc = "status" /\ pc' = "idle" /\ todo = {} /\ todo' = {}
      /\ current' = NoRows /\ original' = NoRows /\ added' = NoLegs
      /\ UNCHANGED <<db, legs, moved, tx, txLegs, at, loop>>
  BY DEF EndBatch, database, transaction
<1>2. tx = NoRows /\ txLegs = NoLegs
  BY <1>1 DEF Consistent, Place
<1>3. Shape'
  <2>1. NoLegs \in [Transfer -> Int]
    BY DEF NoLegs
  <2>. QED
    BY <1>1, <2>1 DEF Consistent, Shape
<1>4. Place'
  BY <1>1, <1>2 DEF Consistent, Place
<1>5. ASSUME NEW t \in Transfer PROVE Tracked(t)' /\ Turn(t)'
  <2>1. Untracked(t)'
    BY <1>1, <1>2, Outside DEF Untracked
  <2>2. Turn(t)'
    BY <1>1, Outside DEF Turn, ToDispatch, ToAsk
  <2>. QED
    BY <2>1, <2>2 DEF Tracked
<1>. QED
  BY <1>3, <1>4, <1>5 DEF Consistent

(* The commit brings the balance and the leg of a refund into the database *)
(* together.                                                               *)
LEMMA Committed ==
  ASSUME Separate, Consistent, SaveAndCommit, NEW t \in Transfer
  PROVE  /\ Tracked(t)'
         /\ legs'[t] = legs[t] + txLegs[t] + added[t]
         /\ db'[WalletRow(t)] \in WalletValue
         /\ db'[WalletRow(t)].balance = db[WalletRow(t)].balance + txLegs[t] + added[t]
<1>. DEFINE w == WalletRow(t)
<1>1. /\ ~Conflict /\ tx' = NoRows /\ txLegs' = NoLegs
      /\ original' = current /\ current' = current /\ added' = NoLegs
  BY DEF SaveAndCommit, NoTransaction
<1>2. tx'[w] = None /\ txLegs'[t] = 0 /\ added'[t] = 0
  BY <1>1, Outside
<1>3. db'[w] = IF Written[w] # None THEN Written[w] ELSE db[w]
  BY Rows DEF SaveAndCommit
<1>4. legs'[t] = legs[t] + txLegs[t] + added[t]
  BY DEF SaveAndCommit
<1>5. db[w] \in WalletValue /\ db[w].balance \in Int
  BY Values DEF Consistent, Shape
<1>6. /\ Tracked(t)'
      /\ db'[w] \in WalletValue
      /\ db'[w].balance = db[w].balance + txLegs[t] + added[t]
  <2>1. CASE Untracked(t)
    <3>1. Written[w] = None
      BY <2>1, <1>1, SavedWallet DEF Consistent
    <3>2. Untracked(t)'
      BY <2>1, <1>1, <1>2 DEF Untracked
    <3>3. txLegs[t] = 0 /\ added[t] = 0
      BY <2>1 DEF Untracked
    <3>. QED
      BY <3>1, <3>2, <3>3, <1>3, <1>5 DEF Tracked
  <2>2. CASE Pending(t)
    <3>1. /\ Written[w] = current[w] /\ current[w] \in WalletValue
          /\ current[w].balance = db[w].balance + 1
      BY <2>2, <1>1, SavedWallet DEF Consistent
    <3>2. Unmodified(t)'
      BY <3>1, <1>1, <1>2 DEF Unmodified
    <3>3. txLegs[t] = 0 /\ added[t] = 1
      BY <2>2 DEF Pending
    <3>. QED
      BY <3>1, <3>2, <3>3, <1>3, <1>5, Values DEF Tracked
  <2>3. CASE InTransaction(t)
    <3>1. /\ Written[w] = current[w] /\ current[w] \in WalletValue
          /\ current[w].balance = db[w].balance + 1
      BY <2>3, <1>1, SavedWallet DEF Consistent, InTransaction
    <3>2. Unmodified(t)'
      BY <3>1, <1>1, <1>2 DEF Unmodified
    <3>3. txLegs[t] = 1 /\ added[t] = 0
      BY <2>3 DEF InTransaction
    <3>. QED
      BY <3>1, <3>2, <3>3, <1>3, <1>5, Values DEF Tracked
  <2>4. CASE Unmodified(t)
    <3>1. Written[w] = None
      BY <2>4, <1>1, SavedWallet DEF Consistent
    <3>2. Unmodified(t)'
      BY <2>4, <1>1, <1>2 DEF Unmodified
    <3>3. txLegs[t] = 0 /\ added[t] = 0
      BY <2>4 DEF Unmodified
    <3>. QED
      BY <3>1, <3>2, <3>3, <1>3, <1>5 DEF Tracked
  <2>. QED
    BY <2>1, <2>2, <2>3, <2>4 DEF Consistent, Tracked
<1>. QED
  BY <1>4, <1>6

LEMMA KeepSaveAndCommit ==
  ASSUME Separate, Consistent, SaveAndCommit
  PROVE  Consistent'
<1>1. /\ pc = "recorded" /\ pc' = loop
      /\ tx' = NoRows /\ txLegs' = NoLegs /\ original' = current /\ added' = NoLegs
      /\ UNCHANGED <<moved, current, loop, todo>>
  BY DEF SaveAndCommit, NoTransaction
<1>2. Shape'
  <2>1. NoLegs \in [Transfer -> Int]
    BY DEF NoLegs
  <2>2. DOMAIN db' = Row
    BY DEF SaveAndCommit
  <2>3. legs' \in [Transfer -> Int]
    BY DEF SaveAndCommit, Consistent, Shape
  <2>. QED
    BY <1>1, <2>1, <2>2, <2>3, Committed DEF Consistent, Shape
<1>3. Place'
  BY <1>1 DEF Consistent, Place
<1>4. ASSUME NEW t \in Transfer PROVE Turn(t)'
  <2>1. (ToDispatch(t)' => ToDispatch(t)) /\ (ToAsk(t)' => ToAsk(t))
    BY <1>1 DEF ToDispatch, ToAsk, Consistent, Place
  <2>2. tx'[TransferRow(t)] = None
    BY <1>1, Outside
  <2>3. db'[TransferRow(t)] \in {Written[TransferRow(t)], db[TransferRow(t)]}
    BY Rows DEF SaveAndCommit
  <2>4. Written[TransferRow(t)] \in {current[TransferRow(t)], tx[TransferRow(t)]}
    BY SavedTransfer, Rows
  <2>. QED
    BY <1>1, <2>1, <2>2, <2>3, <2>4, Values DEF Consistent, Turn
<1>. QED
  BY <1>2, <1>3, <1>4, Committed DEF Consistent

(* The API moves money between two wallets the transaction has not written. *)
LEMMA Moved ==
  ASSUME Separate, Consistent, NEW from, NEW to, Move(from, to), from # to,
         WalletRow(from) # WalletRow(to), WalletRow(from) \in Row, WalletRow(to) \in Row,
         NEW t \in Transfer
  PROVE  /\ db'[TransferRow(t)] = db[TransferRow(t)]
         /\ Tracked(t)'
         /\ db'[WalletRow(t)] \in WalletValue
         /\ db'[WalletRow(t)].balance = db[WalletRow(t)].balance
              + (IF WalletRow(t) = WalletRow(to) THEN 1 ELSE 0)
              - (IF WalletRow(t) = WalletRow(from) THEN 1 ELSE 0)
<1>. DEFINE w == WalletRow(t)
<1>1. /\ tx[WalletRow(from)] = None /\ tx[WalletRow(to)] = None
      /\ UNCHANGED <<legs, tx, txLegs, current, original, added>>
      /\ db' = [db EXCEPT ![WalletRow(from)] = [balance |-> @.balance - 1, version |-> @.version + 1],
                          ![WalletRow(to)] = [balance |-> @.balance + 1, version |-> @.version + 1]]
  BY DEF Move, transaction, context
<1>2. w \in Row /\ TransferRow(t) \in Row /\ DOMAIN db = Row /\ db[w] \in WalletValue
  BY Rows DEF Consistent, Shape
<1>3. TransferRow(t) # WalletRow(from) /\ TransferRow(t) # WalletRow(to)
  BY DEF TransferRow, WalletRow
<1>4. CASE w \notin {WalletRow(from), WalletRow(to)}
  <2>1. db'[w] = db[w]
    BY <1>1, <1>2, <1>4
  <2>2. Tracked(t)'
    BY <1>1, <2>1 DEF Consistent, Tracked, Untracked, Pending, InTransaction, Unmodified
  <2>. QED
    BY <1>1, <1>2, <1>3, <1>4, <2>1, <2>2, Values
<1>5. CASE w \in {WalletRow(from), WalletRow(to)}
  <2>1. PICK d \in {1, -1} :
          /\ db'[w] = [balance |-> db[w].balance + d, version |-> db[w].version + 1]
          /\ d = (IF w = WalletRow(to) THEN 1 ELSE 0) - (IF w = WalletRow(from) THEN 1 ELSE 0)
    <3>1. CASE w = WalletRow(to)
      BY <1>1, <1>2, <3>1
    <3>2. CASE w = WalletRow(from)
      <4>1. db[w].balance \in Int
        BY <1>2, Values
      <4>2. db'[w] = [balance |-> db[w].balance - 1, version |-> db[w].version + 1]
        BY <1>1, <1>2, <3>2
      <4>3. db[w].balance - 1 = db[w].balance + (-1)
        BY <4>1
      <4>. QED
        BY <3>2, <4>2, <4>3
    <3>. QED
      BY <1>5, <3>1, <3>2
  <2>2. db[w].balance \in Int /\ db[w].version \in Int
    BY <1>2, Values
  <2>3. tx[w] = None
    BY <1>1, <1>5
  <2>4. db'[w].version = db[w].version + 1 /\ db'[w].balance = db[w].balance + d
    BY <2>1
  <2>5. db'[w] \in WalletValue
    BY <2>1, <2>2 DEF WalletValue
  <2>6. Tracked(t)'
    <3>1. Untracked(t) => Untracked(t)'
      BY <1>1 DEF Untracked
    <3>2. Pending(t) => Pending(t)'
      <4>1. original[w] \in WalletValue => original[w].version \in Int
        BY Values
      <4>. QED
        BY <1>1, <2>2, <2>4, <4>1 DEF Pending
    <3>3. ~InTransaction(t)
      BY <2>3, Values DEF InTransaction
    <3>4. Unmodified(t) => Unmodified(t)'
      BY <1>1 DEF Unmodified
    <3>. QED
      BY <3>1, <3>2, <3>3, <3>4 DEF Consistent, Tracked
  <2>. QED
    BY <1>1, <1>2, <1>3, <2>1, <2>2, <2>4, <2>5, <2>6
<1>. QED
  BY <1>4, <1>5

LEMMA KeepMove ==
  ASSUME Separate, Consistent, NEW c \in Transfer, Receive(c) \/ Pay(c)
  PROVE  Consistent' /\ (RefundsHaveLegs => RefundsHaveLegs')
<1>1. /\ WalletRow(c) # WalletRow(Settlement) /\ c # Settlement
      /\ WalletRow(c) \in Row /\ WalletRow(Settlement) \in Row
  BY Rows DEF Separate, Row, Wallets
<1>2. PICK from \in {c, Settlement}, to \in {c, Settlement}, d \in {1, -1} :
        /\ Move(from, to) /\ moved' = [moved EXCEPT ![c] = @ + d]
        /\ {from, to} = {c, Settlement} /\ from # to
        /\ d = (IF c = to THEN 1 ELSE 0) - (IF c = from THEN 1 ELSE 0)
  <2>1. CASE Receive(c)
    BY <2>1, <1>1 DEF Receive
  <2>2. CASE Pay(c)
    <3>1. moved[c] \in Int
      BY DEF Consistent, Shape
    <3>2. moved[c] - 1 = moved[c] + (-1)
      BY <3>1
    <3>3. Move(c, Settlement) /\ moved' = [moved EXCEPT ![c] = @ - 1]
      BY <2>2 DEF Pay
    <3>4. moved' = [moved EXCEPT ![c] = @ + (-1)]
      BY <3>2, <3>3
    <3>5. -1 = (IF c = Settlement THEN 1 ELSE 0) - (IF c = c THEN 1 ELSE 0)
      BY <1>1
    <3>. QED
      BY <1>1, <3>3, <3>4, <3>5
  <2>. QED
    BY <2>1, <2>2
<1>3. /\ WalletRow(from) # WalletRow(to)
      /\ WalletRow(from) \in Row /\ WalletRow(to) \in Row
  BY <1>1, <1>2
<1>4. /\ legs' = legs /\ UNCHANGED <<tx, txLegs, current, original, added, pc, at, loop, todo>>
      /\ DOMAIN db' = DOMAIN db
  BY <1>2 DEF Move, transaction, context, worker
<1>5. ASSUME NEW t \in Transfer
      PROVE  /\ Tracked(t)' /\ Turn(t)' /\ db'[WalletRow(t)] \in WalletValue
             /\ db'[WalletRow(t)].balance - db[WalletRow(t)].balance = moved'[t] - moved[t]
             /\ moved'[t] \in Int
  <2>1. /\ db'[TransferRow(t)] = db[TransferRow(t)]
        /\ Tracked(t)'
        /\ db'[WalletRow(t)] \in WalletValue
        /\ db'[WalletRow(t)].balance = db[WalletRow(t)].balance
             + (IF WalletRow(t) = WalletRow(to) THEN 1 ELSE 0)
             - (IF WalletRow(t) = WalletRow(from) THEN 1 ELSE 0)
    BY <1>2, <1>3, Moved
  <2>2. Turn(t)'
    BY <2>1, <1>4 DEF Consistent, Turn, ToDispatch, ToAsk
  <2>3. moved[t] \in Int /\ db[WalletRow(t)].balance \in Int /\ db'[WalletRow(t)].balance \in Int
    BY <2>1, Values DEF Consistent, Shape
  <2>4. moved'[t] = IF t = c THEN moved[t] + d ELSE moved[t]
    BY <1>2 DEF Consistent, Shape
  <2>5. CASE t = c
    BY <2>1, <2>2, <2>3, <2>4, <2>5, <1>1, <1>2
  <2>6. CASE t # c
    <3>1. WalletRow(t) # WalletRow(from) /\ WalletRow(t) # WalletRow(to)
      BY <2>6, <1>2, Rows
    <3>. QED
      BY <2>1, <2>2, <2>3, <2>4, <2>6, <3>1
  <2>. QED
    BY <2>5, <2>6
<1>6. Consistent'
  <2>1. moved' \in [Transfer -> Int]
    BY <1>2 DEF Consistent, Shape
  <2>2. Shape'
    BY <1>4, <1>5, <2>1 DEF Consistent, Shape
  <2>3. Place'
    BY <1>4 DEF Consistent, Place
  <2>. QED
    BY <1>5, <2>2, <2>3 DEF Consistent
<1>7. ASSUME RefundsHaveLegs PROVE RefundsHaveLegs'
  <2>1. ASSUME NEW t \in Transfer
        PROVE  db'[WalletRow(t)].balance = Opening + moved'[t] + legs'[t]
    <3>1. /\ moved[t] \in Int /\ moved'[t] \in Int /\ legs[t] \in Int /\ Opening \in Int
          /\ db[WalletRow(t)].balance \in Int /\ db'[WalletRow(t)].balance \in Int
      BY <1>5, Values DEF Consistent, Shape, Separate
    <3>2. db[WalletRow(t)].balance = Opening + moved[t] + legs[t]
      BY <1>7 DEF RefundsHaveLegs
    <3>. QED
      BY <1>4, <1>5, <3>1, <3>2
  <2>. QED
    BY <2>1 DEF RefundsHaveLegs
<1>. QED
  BY <1>6, <1>7
-----------------------------------------------------------------------------
(* The outcomes. *)

LEMMA KeepResolve ==
  ASSUME Separate, Consistent, pc \in {"claimed", "asking"}, NEW x, NEW y, Resolve(x, at, y)
  PROVE  Consistent'
<1>. DEFINE new == TransferRow(at) :> y @@ JobRow(at) :> x
<1>1. /\ Assign(new) /\ pc' = "recorded"
      /\ UNCHANGED <<database, transaction, added, at, loop, todo>>
  BY DEF Resolve
<1>2. at \in Transfer \ todo /\ DOMAIN new = {TransferRow(at), JobRow(at)}
  BY DEF Consistent, Place, :>, @@
<1>3. Shape'
  BY <1>1 DEF Consistent, Shape, database, transaction
<1>4. Place'
  BY <1>1 DEF Consistent, Place, transaction
<1>5. ASSUME NEW t \in Transfer PROVE Tracked(t)' /\ Turn(t)'
  <2>1. WalletRow(t) \notin DOMAIN new
    BY <1>2, Rows
  <2>2. Tracked(t)' /\ current'[WalletRow(t)] = current[WalletRow(t)]
    BY <1>1, <2>1, Elsewhere DEF Consistent
  <2>3. Turn(t)'
    <3>1. CASE t = at
      <4>1. ~ToDispatch(t)' /\ ~ToAsk(t)'
        BY <3>1, <1>1, <1>2 DEF ToDispatch, ToAsk
      <4>2. current[WalletRow(t)] = None
        BY <3>1 DEF Consistent, Turn, Place, ToDispatch, ToAsk
      <4>. QED
        BY <4>1, <4>2, <2>2 DEF Turn
    <3>2. CASE t # at
      <4>1. TransferRow(t) \notin DOMAIN new
        BY <3>2, <1>2, Rows
      <4>2. /\ current'[TransferRow(t)] = current[TransferRow(t)]
            /\ original'[TransferRow(t)] = original[TransferRow(t)]
        BY <1>1, <4>1, Rows, Assigned
      <4>3. (ToDispatch(t)' => ToDispatch(t)) /\ (ToAsk(t)' => ToAsk(t))
        BY <1>1 DEF ToDispatch, ToAsk
      <4>. QED
        BY <1>1, <2>2, <4>2, <4>3, TurnKept DEF Consistent, database, transaction
    <3>. QED
      BY <3>1, <3>2
  <2>. QED
    BY <2>2, <2>3
<1>. QED
  BY <1>3, <1>4, <1>5 DEF Consistent

(* A reversal that Settlement covers: the wallet is modified and the leg is *)
(* added, and the transfer is marked so that the status loop passes it by. *)
LEMMA KeepReverse ==
  ASSUME Separate, Consistent, Covered, NEW c, c = at, pc \in {"claimed", "asking"},
         NEW before, NEW after, Reverse(c, before, after),
         DOMAIN before \subseteq {TransferRow(c), JobRow(c)},
         DOMAIN after \subseteq {TransferRow(c), JobRow(c)},
         pc = "claimed" =>
           /\ TransferRow(c) \in DOMAIN after /\ after[TransferRow(c)] = "Failed"
           /\ Read(TransferRow(c)) = "Submitted"
  PROVE  Consistent'
<1>. DEFINE w == WalletRow(c)
            new == after @@ before @@ w :> Credited(c)
                     @@ WalletRow(Settlement) :> Debited(Settlement)
<1>1. /\ Assign(new) /\ added' = [added EXCEPT ![c] = @ + 1] /\ pc' = "recorded"
      /\ UNCHANGED <<database, transaction, at, loop, todo>>
  BY DEF Reverse, Covered
<1>2. c \in Transfer \ todo
  BY DEF Consistent, Place
<1>3. /\ DOMAIN new \subseteq {TransferRow(c), JobRow(c), w, WalletRow(Settlement)}
      /\ w \in DOMAIN new
      /\ TransferRow(c) \in DOMAIN after =>
           TransferRow(c) \in DOMAIN new /\ new[TransferRow(c)] = after[TransferRow(c)]
  BY DEF :>, @@
<1>4. new[w] = Credited(c)
  <2>1. w \notin DOMAIN before /\ w \notin DOMAIN after
    BY <1>2, Rows
  <2>. QED
    BY <2>1 DEF :>, @@
<1>5. /\ Untracked(c)
      /\ pc = "claimed" => /\ current[TransferRow(c)] = None /\ tx[TransferRow(c)] = None
                           /\ loop = "jobs"
      /\ pc = "asking" => loop = "status"
  <2>1. current[w] = None
    BY <1>2 DEF Consistent, Place, Turn, ToDispatch, ToAsk
  <2>2. Untracked(c)
    BY <1>2, <2>1, Values DEF Consistent, Tracked, Pending, InTransaction, Unmodified
  <2>. QED
    BY <1>2, <2>2 DEF Consistent, Place, Turn, ToDispatch
<1>. HIDE DEF new
<1>6. Shape'
  <2>1. added' \in [Transfer -> Int]
    BY <1>1, <1>2 DEF Consistent, Shape
  <2>. QED
    BY <1>1, <2>1 DEF Consistent, Shape, database, transaction
<1>7. Place'
  BY <1>1 DEF Consistent, Place, transaction
<1>8. Tracked(c)' /\ Turn(c)'
  <2>1. Read(w) = db[w] /\ Visible(w) = db[w] /\ db[w] \in WalletValue
    BY <1>2, <1>5 DEF Untracked, Read, Visible, Consistent, Shape
  <2>2. /\ current'[w] = [balance |-> db[w].balance + 1, version |-> db[w].version + 1]
        /\ original'[w] = db[w]
    <3>1. original[w] = None
      BY <1>5 DEF Untracked
    <3>. QED
      BY <1>1, <1>2, <1>3, <1>4, <2>1, <3>1, Rows, Assigned DEF Credited
  <2>3. added'[c] = 1 /\ txLegs'[c] = 0 /\ tx'[w] = None
    BY <1>1, <1>2, <1>5 DEF Untracked, Consistent, Shape, transaction
  <2>4. db'[w] = db[w] /\ db[w].version \in Int
    BY <1>1, <2>1, Values DEF database
  <2>5. Pending(c)'
    <3>1. db[w].version <= db[w].version
      BY <2>4
    <3>. QED
      BY <1>1, <2>1, <2>2, <2>3, <2>4, <3>1 DEF Pending
  <2>6. Turn(c)'
    <3>1. ~ToDispatch(c)' /\ ~ToAsk(c)'
      BY <1>1, <1>2 DEF ToDispatch, ToAsk
    <3>2. CASE pc = "claimed"
      <4>1. current'[TransferRow(c)] = "Failed"
        BY <3>2, <1>1, <1>2, <1>3, Rows, Assigned
      <4>2. db[TransferRow(c)] = "Submitted"
        BY <3>2, <1>5 DEF Read, Visible
      <4>3. tx'[TransferRow(c)] # "Unknown" /\ db'[TransferRow(c)] # "Unknown"
        BY <3>2, <1>1, <1>5, <4>2, Values DEF database, transaction
      <4>. QED
        BY <1>1, <3>1, <4>1, <4>3 DEF Turn
    <3>3. CASE pc = "asking"
      BY <1>1, <1>5, <3>1, <3>3 DEF Turn
    <3>. QED
      BY <3>2, <3>3
  <2>. QED
    BY <2>5, <2>6 DEF Tracked
<1>9. ASSUME NEW t \in Transfer, t # c PROVE Tracked(t)' /\ Turn(t)'
  <2>1. WalletRow(t) \notin DOMAIN new /\ TransferRow(t) \notin DOMAIN new
    BY <1>2, <1>3, <1>9, Rows
  <2>2. added'[t] = added[t]
    BY <1>1, <1>2, <1>9 DEF Consistent, Shape
  <2>3. Tracked(t)' /\ current'[WalletRow(t)] = current[WalletRow(t)]
    BY <1>1, <2>1, <2>2, Elsewhere DEF Consistent
  <2>4. /\ current'[TransferRow(t)] = current[TransferRow(t)]
        /\ original'[TransferRow(t)] = original[TransferRow(t)]
    BY <1>1, <2>1, Rows, Assigned
  <2>5. (ToDispatch(t)' => ToDispatch(t)) /\ (ToAsk(t)' => ToAsk(t))
    BY <1>1, <1>9 DEF ToDispatch, ToAsk
  <2>. QED
    BY <1>1, <2>3, <2>4, <2>5, TurnKept DEF Consistent, database, transaction
<1>. QED
  BY <1>6, <1>7, <1>8, <1>9 DEF Consistent

LEMMA KeepDispatch ==
  ASSUME Separate, Consistent, Covered, Dispatch
  PROVE  Consistent'
<1>. DEFINE status == Read(TransferRow(at))
            before == TransferRow(at) :> status @@ JobRow(at) :> "Failed"
            after == TransferRow(at) :> "Failed"
<1>1. pc = "claimed"
  BY DEF Dispatch
<1>2. \/ \E x, y : Resolve(x, at, y)
      \/ status = "Submitted" /\ Reverse(at, before, after)
  BY DEF Dispatch
<1>3. /\ DOMAIN before = {TransferRow(at), JobRow(at)} /\ DOMAIN after = {TransferRow(at)}
      /\ after[TransferRow(at)] = "Failed"
  BY DEF :>, @@
<1>. HIDE DEF status, before, after
<1>4. CASE \E x, y : Resolve(x, at, y)
  BY <1>1, <1>4, KeepResolve
<1>5. CASE status = "Submitted" /\ Reverse(at, before, after)
  BY <1>1, <1>3, <1>5, KeepReverse DEF status
<1>. QED
  BY <1>2, <1>4, <1>5

LEMMA KeepQuery ==
  ASSUME Separate, Consistent, Covered, Query
  PROVE  Consistent'
<1>. DEFINE before == TransferRow(at) :> "Failed"
            after == JobRow(at) :> "Failed"
<1>1. pc = "asking"
  BY DEF Query
<1>2. \/ \E x, y : Resolve(x, at, y)
      \/ Reverse(at, before, after)
      \/ pc' = "recorded" /\ UNCHANGED <<database, transaction, context, at, loop, todo>>
  BY DEF Query
<1>3. DOMAIN before = {TransferRow(at)} /\ DOMAIN after = {JobRow(at)}
  BY DEF :>
<1>. HIDE DEF before, after
<1>4. CASE \E x, y : Resolve(x, at, y)
  BY <1>1, <1>4, KeepResolve
<1>5. CASE Reverse(at, before, after)
  BY <1>1, <1>3, <1>5, KeepReverse
<1>6. CASE pc' = "recorded" /\ UNCHANGED <<database, transaction, context, at, loop, todo>>
  <2>1. Shape' /\ Place'
    BY <1>1, <1>6 DEF Consistent, Shape, Place, database, transaction, context
  <2>2. ASSUME NEW t \in Transfer PROVE Tracked(t)' /\ Turn(t)'
    <3>1. Tracked(t)'
      BY <1>6 DEF Consistent, Tracked, Untracked, Pending, InTransaction, Unmodified,
         database, transaction, context
    <3>2. (ToDispatch(t)' => ToDispatch(t)) /\ (ToAsk(t)' => ToAsk(t))
      BY <1>6 DEF ToDispatch, ToAsk
    <3>. QED
      BY <1>6, <3>1, <3>2, TurnKept DEF Consistent, database, transaction, context
  <2>. QED
    BY <2>1, <2>2 DEF Consistent
<1>. QED
  BY <1>2, <1>4, <1>5, <1>6

LEMMA ConsistentInit ==
  ASSUME Separate, Init
  PROVE  Consistent /\ RefundsHaveLegs
<1>1. NoLegs \in [Transfer -> Int] /\ \A t \in Transfer : NoLegs[t] = 0
  BY DEF NoLegs
<1>2. ASSUME NEW t \in Transfer PROVE db[WalletRow(t)] = [balance |-> Opening, version |-> 1]
  <2>1. WalletRow(t)[1] = "wallet" /\ WalletRow(t)[2] = t /\ WalletRow(t) \in Row /\ t # Settlement
    BY Rows DEF WalletRow, Separate
  <2>. QED
    BY <2>1 DEF Init
<1>3. Shape
  <2>1. \A t \in Transfer : db[WalletRow(t)] \in WalletValue
    BY <1>2 DEF Separate, WalletValue
  <2>. QED
    BY <1>1, <2>1 DEF Init, Shape
<1>4. Place
  BY DEF Init, Place
<1>5. ASSUME NEW t \in Transfer PROVE Tracked(t) /\ Turn(t)
  <2>1. Untracked(t)
    BY Outside DEF Init, Untracked
  <2>2. Turn(t)
    BY Outside DEF Init, Turn, ToDispatch, ToAsk
  <2>. QED
    BY <2>1, <2>2 DEF Tracked
<1>6. RefundsHaveLegs
  <2>1. ASSUME NEW t \in Transfer PROVE db[WalletRow(t)].balance = Opening + moved[t] + legs[t]
    <3>1. legs[t] = 0 /\ moved[t] = 0 /\ db[WalletRow(t)].balance = Opening /\ Opening \in Int
      <4>1. legs = NoLegs /\ moved = NoLegs
        BY DEF Init
      <4>2. db[WalletRow(t)].balance = Opening
        BY <1>2
      <4>. QED
        BY <1>1, <4>1, <4>2 DEF Separate
    <3>. QED
      BY <3>1
  <2>. QED
    BY <2>1 DEF RefundsHaveLegs
<1>. QED
  BY <1>3, <1>4, <1>5, <1>6 DEF Consistent

LEMMA ConsistentStep ==
  ASSUME Separate, Consistent, Covered, [Next]_vars
  PROVE  Consistent'
<1>1. CASE UNCHANGED vars
  BY <1>1 DEF vars, database, transaction, context, worker, Consistent, Shape, Place,
     Tracked, Untracked, Pending, InTransaction, Unmodified, Turn, ToDispatch, ToAsk
<1>2. ASSUME NEW t \in Transfer, ClaimJob(t) \/ NextUnknown(t) \/ Receive(t) \/ Pay(t)
      PROVE  Consistent'
  BY <1>2, KeepClaimJob, KeepNextUnknown, KeepMove
<1>3. CASE RailThrows \/ SaveFails
  BY <1>3, KeepRollback DEF RailThrows, SaveFails
<1>4. CASE LoadJobs \/ SaveClaim \/ LoadUnknowns \/ SaveAndCommit \/ EndBatch
  BY <1>4, KeepLoadJobs, KeepSaveClaim, KeepLoadUnknowns, KeepSaveAndCommit, KeepEndBatch
<1>5. CASE Dispatch \/ Query
  BY <1>5, KeepDispatch, KeepQuery
<1>. QED
  BY <1>1, <1>2, <1>3, <1>4, <1>5 DEF Next

LEMMA LegsFollow ==
  ASSUME Separate, Consistent, RefundsHaveLegs, [Next]_vars
  PROVE  RefundsHaveLegs'
<1>1. CASE \E t \in Transfer : Receive(t) \/ Pay(t)
  BY <1>1, KeepMove
<1>2. CASE SaveAndCommit
  <2>1. ASSUME NEW t \in Transfer
        PROVE  db'[WalletRow(t)].balance = Opening + moved'[t] + legs'[t]
    <3>1. /\ legs'[t] = legs[t] + txLegs[t] + added[t]
          /\ db'[WalletRow(t)].balance = db[WalletRow(t)].balance + txLegs[t] + added[t]
      BY <1>2, Committed
    <3>2. db[WalletRow(t)].balance = Opening + moved[t] + legs[t] /\ moved' = moved
      BY <1>2 DEF RefundsHaveLegs, SaveAndCommit
    <3>3. /\ legs[t] \in Int /\ moved[t] \in Int /\ txLegs[t] \in Int /\ added[t] \in Int
          /\ Opening \in Int
      BY DEF Consistent, Shape, Separate
    <3>. QED
      BY <3>1, <3>2, <3>3
  <2>. QED
    BY <2>1 DEF RefundsHaveLegs
<1>3. CASE UNCHANGED <<db, legs, moved>>
  BY <1>3 DEF RefundsHaveLegs
<1>4. UNCHANGED vars \/ LoadJobs \/ SaveClaim \/ LoadUnknowns \/ EndBatch \/ RailThrows \/ SaveFails
        => UNCHANGED <<db, legs, moved>>
  BY DEF vars, database, LoadJobs, SaveClaim, LoadUnknowns, EndBatch, RailThrows, SaveFails, Rollback
<1>5. Dispatch \/ Query => UNCHANGED <<db, legs, moved>>
  BY DEF database, Dispatch, Query, Resolve, Reverse, Rollback
<1>6. (\E t \in Transfer : ClaimJob(t) \/ NextUnknown(t)) => UNCHANGED <<db, legs, moved>>
  BY DEF database, ClaimJob, NextUnknown
<1>. QED
  BY <1>1, <1>2, <1>3, <1>4, <1>5, <1>6 DEF Next

(* As long as Settlement covers each refund that may fall due, no refund   *)
(* is in a customer's balance without its legs, nor legs without their     *)
(* refund: a rolled back transaction leaves in the tracker either both or  *)
(* neither, and the version of the wallet keeps out what was read too      *)
(* early.  So a failed payout reverses its ledger legs (README, line 155)  *)
(* unless ReverseOutboundAsync's Debit throws after its Credit.            *)
THEOREM CoveredRefundsHaveLegs ==
  ASSUME Separate
  PROVE  Spec /\ []Covered => []RefundsHaveLegs
<1>1. Init => Consistent /\ RefundsHaveLegs
  BY ConsistentInit
<1>2. Consistent /\ RefundsHaveLegs /\ Covered /\ [Next]_vars => (Consistent /\ RefundsHaveLegs)'
  BY ConsistentStep, LegsFollow
<1>. QED
  BY <1>1, <1>2, PTL DEF Spec
=============================================================================
