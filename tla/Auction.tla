------------------------------- MODULE Auction -------------------------------
(* What the auction house keeps to for every listing, without threads, reads *)
(* or wallets: nobody bids for or buys what they sell, bids only rise, one   *)
(* party ends the listing, and what it is sold for has been bid or is asked. *)
(*                                                                           *)
(* This is less than the documents of the auction house say: a listing may   *)
(* be sold for a bid that is not the highest one, and expire with a bid.     *)
EXTENDS Integers

CONSTANTS
  Listings, Players, Sellers, Bids, StartPrice, None,
  Prices      \* what buying a whole listing may cost

VARIABLES
  lots,       \* per listing: its status, seller, highest bid and its bidder, price
  takers      \* per listing: how many were told that it is theirs

vars == <<lots, takers>>

Init ==
  /\ lots = [l \in Listings |->
       [status |-> "none", seller |-> None, bid |-> 0, bidder |-> None, price |-> 0]]
  /\ takers = [l \in Listings |-> 0]

Open(l) ==
  /\ lots[l].status = "none"
  /\ \E p \in Sellers :
       lots' = [lots EXCEPT ![l] =
         [status |-> "active", seller |-> p, bid |-> 0, bidder |-> None, price |-> 0]]
  /\ UNCHANGED takers

Others(l) == Players \ {lots[l].seller}

Raise(l) ==
  /\ lots[l].status = "active"
  /\ \E p \in Others(l), n \in Bids :
       /\ n > lots[l].bid /\ n >= StartPrice
       /\ lots' = [lots EXCEPT ![l] = [@ EXCEPT !.bid = n, !.bidder = p]]
  /\ UNCHANGED takers

\* One party ends the listing, and it becomes such a lot.
End(l, lot) ==
  /\ takers' = [takers EXCEPT ![l] = @ + 1]
  /\ lots' = [lots EXCEPT ![l] = lot]

Buy(l) ==
  /\ lots[l].status = "active"
  /\ \E p \in Others(l), n \in Prices :
       End(l, [lots[l] EXCEPT !.status = "sold", !.bid = n, !.bidder = p, !.price = n])

\* The last bidder pays some bid that is at most the highest.
SellToBidder(l) ==
  /\ lots[l].status = "active"
  /\ \E n \in Bids :
       /\ StartPrice <= n /\ n <= lots[l].bid
       /\ End(l, [lots[l] EXCEPT !.status = "sold", !.price = n])

Withdraw(l) ==
  /\ lots[l].status = "active"
  /\ \E s \in {"cancelled", "expired"} : End(l, [lots[l] EXCEPT !.status = s])

Next ==
  \E l \in Listings : Open(l) \/ Raise(l) \/ Buy(l) \/ SellToBidder(l) \/ Withdraw(l)

Spec == Init /\ [][Next]_vars
=============================================================================
