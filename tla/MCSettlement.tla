----------------------------- MODULE MCSettlement -----------------------------
(***************************************************************************)
(* Settlement with a few workers, status queries and reposts on one or two *)
(* transfers.                                                              *)
(***************************************************************************)
EXTENDS Settlement, TLC

(* Everything a rail may answer; and a rail that never times out without   *)
(* handing out a reference.                                                *)
AnyAnswer == RailAnswerType
ReferencedAnswers == {a \in RailAnswerType : a.answer = "Unknown" => a.ref}

Symmetry == Permutations(Transfer) \cup Permutations(Worker)
=============================================================================
