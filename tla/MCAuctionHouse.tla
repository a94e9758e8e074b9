--------------------------- MODULE MCAuctionHouse ---------------------------
(***************************************************************************)
(* Instances of AuctionHouse for TLC.                                      *)
(***************************************************************************)
EXTENDS AuctionHouse, TLC

CONSTANTS seller, ann, bob, c1, c2, l1

MCPurse == seller :> 0 @@ ann :> 2 @@ bob :> 2
MCRich  == seller :> 9 @@ ann :> 9 @@ bob :> 9

\* Taking one item less than none puts one in: the listing of one becomes one of two.
MCQuantities == {-1, 2}

\* What a client in the middle of an operation still needs of what it has read.
Needed(k) ==
  CASE k.step \in {"buy_check", "buy_take"} ->
         <<k.step, k.player, k.listing, k.amount, k.row.status, k.row.seller, k.row.count>>
    [] k.step \in {"buy_pay", "buy_credit", "buy_give"} ->
         <<k.step, k.player, k.listing, k.amount, k.row.seller>>
    [] k.step \in {"bid_read", "bid_take", "bid_escrow", "bid_refund"} ->
         <<k.step, k.player, k.listing, k.amount, k.row.bid, k.row.bidder>>
    [] k.step \in ListSteps \cup {"cancel_give", "cancel_fee"} -> <<k.step, k.player, k.listing>>
    [] OTHER -> <<>>

\* What was read and is not looked at again, what was taken for bids on a listing
\* that has ended, and the items handed out are of no further consequence, nor
\* does a property of the run that uses this view depend on them.
View ==
  << rows, wallet, claims, {l \in due : Active(l)},
     [c \in Clients |-> Needed(call[c])],
     {<<e.listing, e.row.bid, e.row.bidder>> : e \in batch},
     [l \in Listings |-> IF Active(l) THEN <<held[l], unpaid[l]>> ELSE <<>>] >>

Symmetry == Permutations(Clients) \cup Permutations({ann, bob})
=============================================================================
