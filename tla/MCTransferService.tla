-------------------------- MODULE MCTransferService --------------------------
(***************************************************************************)
(* TransferService with small constants.  Alice owns two wallets, Bob one. *)
(* Each configuration names the menu of commands its clients choose from;  *)
(* every request picks any command of the menu, so a run covers every mix  *)
(* and every interleaving of that many requests.                           *)
(***************************************************************************)
EXTENDS TransferService, TLC

CONSTANTS r1, r2, r3, w1, w2, w3, S, I, V, alice, bob, k1, k2

MCRequests2 == {r1, r2}
MCRequests3 == {r1, r2, r3}
MCWallet    == {w1, w2, w3}
MCOwner     == [w \in MCWallet |-> IF w = w3 THEN bob ELSE alice]
MCOpening   == [a \in MCWallet \cup {S, I, V} |->
                  CASE a = w1 -> 9 [] a = w2 -> 6 [] a = w3 -> 2 [] a = S -> 3 [] OTHER -> 0]

(* A worker's saves update one wallet, or it and Settlement, against the   *)
(* order of the API's locks; a row gains or loses.                         *)
MCRoutes  == {<<w1>>, <<S, w1>>}
MCRoute   == {<<S, w2, w1>>}
MCEffects == {[balance |-> -1, version |-> 1], [balance |-> 2, version |-> 2]}
MCEffect  == {[balance |-> 1, version |-> 1]}

Internal(c, k, from, to, n) ==
  [kind |-> "internal", customer |-> c, key |-> k, source |-> from, dest |-> to,
   amount |-> n, of |-> None]
Outbound(c, k, from, n) ==
  [kind |-> "outbound", customer |-> c, key |-> k, source |-> from, dest |-> None,
   amount |-> n, of |-> None]
Inbound(k, to, n) ==
  [kind |-> "inbound", customer |-> Owner[w1], key |-> k, source |-> w1, dest |-> to,
   amount |-> n, of |-> None]
Credit(to, n) ==
  [kind |-> "credit", customer |-> alice, key |-> None, source |-> w1, dest |-> to,
   amount |-> n, of |-> None]
Fund(n) ==
  [kind |-> "fund", customer |-> alice, key |-> None, source |-> w1, dest |-> None,
   amount |-> n, of |-> None]

(* One of everything, with keys that collide across kinds and payloads.    *)
MenuAll ==
  {Internal(alice, k1, w1, w3, 2), Internal(bob, k1, w3, w1, 2),
   Internal(alice, k2, w3, w1, 1), Internal(alice, k2, w1, S, 1), Internal(alice, k2, w1, w2, 9),
   Outbound(alice, k1, w1, 2), Outbound(alice, k2, w1, 2), Outbound(bob, k2, w3, 2),
   Inbound(k1, w1, 2), Inbound(k1, S, 1), Credit(w1, 2), Credit(I, 1), Fund(2)}

(* Payouts and their reversals. *)
MenuPayout == {Outbound(alice, k1, w1, 2), Outbound(alice, k2, w1, 1),
               Outbound(alice, k2, w1, 3), Inbound(k2, w1, 2)}

(* Transfers that meet on the same rows in opposite orders. *)
MenuContended ==
  {Internal(alice, k1, w1, w2, 2), Outbound(alice, k1, w1, 2), Outbound(alice, k2, w1, 2)}

(* One customer pays out of two wallets. *)
MenuTwoWallets == {Outbound(alice, k1, w1, 3), Outbound(alice, k2, w2, 3)}

Requests == Permutations(MCRequests3)
=============================================================================
