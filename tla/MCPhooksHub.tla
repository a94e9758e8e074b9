---------------------------- MODULE MCPhooksHub ----------------------------
(* Two clients and one event; one of the clients registers once at most.     *)
EXTENDS PhooksHub, TLC

CONSTANTS c1, c2, e1

MCClient == {c1, c2}
MCEvent  == {e1}

MCMaxLetters == c1 :> 2 @@ c2 :> 1
=============================================================================
