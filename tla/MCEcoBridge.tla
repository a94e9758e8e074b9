---------------------------- MODULE MCEcoBridge ----------------------------
(* Two wallets; each call may be any of the four requests: what it asks for  *)
(* may exceed what the wallet holds, be negative, or go to the same wallet.  *)
EXTENDS EcoBridge, TLC

CONSTANTS ann, bob, c1, c2

MCPlayer == {ann, bob}
MCStart  == ann :> 2 @@ bob :> 1

MCRequest ==
  {[action |-> "deduct",   player |-> ann, to |-> ann, amount |-> 1],
   [action |-> "credit",   player |-> bob, to |-> bob, amount |-> 2],
   [action |-> "credit",   player |-> bob, to |-> bob, amount |-> -2],
   [action |-> "set",      player |-> bob, to |-> bob, amount |-> 0],
   [action |-> "transfer", player |-> bob, to |-> ann, amount |-> 2],
   [action |-> "transfer", player |-> ann, to |-> bob, amount |-> -1],
   [action |-> "transfer", player |-> ann, to |-> ann, amount |-> 1]}

MCTwoCalls == {c1, c2}
=============================================================================
