---------------------- MODULE AuctionRefinementProofs ----------------------
(***************************************************************************)
(* The auction house is an auction: every step of AuctionHouse, whatever   *)
(* its threads have read before it, is a step of Auction or none at all.   *)
(*                                                                         *)
(* The clients decide on what they have read, so the inductive invariant   *)
(* says what of that is still true when they write: a listing that was     *)
(* seen stays there and keeps its seller, and its bids have not fallen.    *)
(* That in turn follows from the steps of Auction: see Settled.            *)
(*                                                                         *)
(* With that invariant the coins that belong to an active listing cover    *)
(* its highest bid: see Covered. With one client and a reliable bridge no  *)
(* coins come out of nothing: see NoNewCoins.                              *)
(***************************************************************************)
EXTENDS AuctionHouseProofs, SumTheorems

\* What the outside sees of the rows; the same as lots in House
LotOf(row) ==
  [status |-> row.status, seller |-> row.seller, bid |-> row.bid,
   bidder |-> row.bidder, price |-> row.price]
Lots == [l \in Listings |-> LotOf(rows[l])]

GoodBid(n) == n \in Bids /\ n >= StartPrice

\* An active listing has no bid, or one by somebody other than its seller.
RowSane(row) ==
  row.status = "active" =>
    \/ row.bid = 0 /\ row.bidder = None
    \/ GoodBid(row.bid) /\ row.bidder \in Players \ {row.seller}

RowsSane == \A l \in Listings : RowSane(rows[l])

\* What holds of the row and the player when a client is about to use them
CallSane(c) ==
  LET k == call[c]
      row == rows[k.listing] IN
  /\ k.step \in ListSteps => k.player \in Sellers
  /\ k.step \in {"bid_take", "buy_check", "buy_take"} => row.status # "none"
  /\ k.step = "buy_check" => k.row.seller = row.seller
  /\ k.step \in {"bid_take", "buy_take"} => k.player # row.seller
  /\ k.step = "bid_take" => k.amount >= StartPrice

CallsSane == \A c \in Clients : CallSane(c)

\* What was selected as expired: its bid was a good one, and is not above the
\* bid of the row as long as that is active.
SeenSane(e) ==
  LET row == rows[e.listing] IN
  /\ row.status # "none"
  /\ e.row.bidder # None => GoodBid(e.row.bid)
  /\ row.status = "active" => e.row.bid <= row.bid

BatchSane == \A e \in batch : SeenSane(e)

RInv == TypeOK /\ Asks /\ RowsSane /\ CallsSane /\ BatchSane

-----------------------------------------------------------------------------
(* One row changes *)

\* The lots follow the row.
LEMMA LotChanges ==
  ASSUME TypeOK, NEW l \in Listings, NEW row, rows' = [rows EXCEPT ![l] = row]
  PROVE  /\ Lots' = [Lots EXCEPT ![l] = LotOf(row)]
         /\ Lots[l] = LotOf(rows[l])
BY DEF Lots, TypeOK

Lot ==
  [status : {"none", "active", "sold", "cancelled", "expired"},
   seller : Players \cup {None}, bid : Price, bidder : Players \cup {None}, price : Price]

\* Lots are equal when their fields are; what the UPDATEs do to a row, they do to
\* its lot.
LEMMA EqualLots ==
  ASSUME NEW x \in Lot, NEW y \in Lot, x.status = y.status, x.seller = y.seller,
         x.bid = y.bid, x.bidder = y.bidder, x.price = y.price
  PROVE  x = y
BY DEF Lot

\* How a bid and a sale show in a lot
Bid(r, p, n) == [r EXCEPT !.bid = n, !.bidder = p]

\* An UPDATE that stores a bid,
LEMMA LotRaised ==
  ASSUME NEW r \in Row, NEW n \in Price, NEW p \in Players
  PROVE  LotOf(Bid(r, p, n)) = Bid(LotOf(r), p, n)
<1>. DEFINE row == Bid(r, p, n)
            lot == LotOf(r)
            new == Bid(lot, p, n)
<1>1. /\ row.status = r.status /\ row.seller = r.seller /\ row.price = r.price
      /\ row.bid = n /\ row.bidder = p /\ row \in Row
  BY DEF Bid, Row
<1>2. /\ lot \in Lot
      /\ lot.status = r.status /\ lot.seller = r.seller /\ lot.price = r.price
  BY DEF LotOf, Lot, Row
<1>. HIDE DEF row, lot
<1>3. /\ LotOf(row) \in Lot
      /\ LotOf(row).status = r.status /\ LotOf(row).seller = r.seller
      /\ LotOf(row).bid = n /\ LotOf(row).bidder = p /\ LotOf(row).price = r.price
  BY <1>1 DEF LotOf, Lot, Row
<1>4. /\ new \in Lot
      /\ new.status = r.status /\ new.seller = r.seller
      /\ new.bid = n /\ new.bidder = p /\ new.price = r.price
  BY <1>2 DEF Bid, Lot
<1>. HIDE DEF new
<1>5. LotOf(row) = new
  BY <1>3, <1>4, EqualLots
<1>. QED  BY <1>5 DEF row, lot, new

\* one that sells at the price of a purchase,
LEMMA LotSold ==
  ASSUME NEW r \in Row, NEW n \in Price, NEW p \in Players
  PROVE  LotOf(Sold(r, p, n))
           = [LotOf(r) EXCEPT !.status = "sold", !.bid = n, !.bidder = p, !.price = n]
<1>. DEFINE row == Sold(r, p, n)
            lot == LotOf(r)
            new == [lot EXCEPT !.status = "sold", !.bid = n, !.bidder = p, !.price = n]
<1>1. /\ row.status = "sold" /\ row.seller = r.seller /\ row.price = n
      /\ row.bid = n /\ row.bidder = p /\ row \in Row
  BY DEF Sold, Row
<1>2. lot \in Lot /\ lot.seller = r.seller
  BY DEF LotOf, Lot, Row
<1>. HIDE DEF row, lot
<1>3. /\ LotOf(row) \in Lot
      /\ LotOf(row).status = "sold" /\ LotOf(row).seller = r.seller
      /\ LotOf(row).bid = n /\ LotOf(row).bidder = p /\ LotOf(row).price = n
  BY <1>1 DEF LotOf, Lot, Row
<1>4. /\ new \in Lot
      /\ new.status = "sold" /\ new.seller = r.seller
      /\ new.bid = n /\ new.bidder = p /\ new.price = n
  BY <1>2 DEF Lot
<1>. HIDE DEF new
<1>5. LotOf(row) = new
  BY <1>3, <1>4, EqualLots
<1>. QED  BY <1>5 DEF row, lot, new

\* The same for the statements that write the status only, and the price
LEMMA LotWithdrawn ==
  ASSUME NEW r \in Row, NEW s
  PROVE  LotOf([r EXCEPT !.status = s]) = [LotOf(r) EXCEPT !.status = s]
<1>. DEFINE row == [r EXCEPT !.status = s]
<1>1. /\ row.status = s /\ row.seller = r.seller /\ row.price = r.price
      /\ row.bid = r.bid /\ row.bidder = r.bidder
  BY DEF Row
<1>. HIDE DEF row
<1>2. LotOf(row) = [status |-> s, seller |-> r.seller, bid |-> r.bid,
                    bidder |-> r.bidder, price |-> r.price]
  BY <1>1 DEF LotOf
<1>. QED  BY <1>2 DEF LotOf, row

\* one that sells to the bidder.
LEMMA LotSoldToBidder ==
  ASSUME NEW r \in Row, NEW n \in Price
  PROVE  LotOf([r EXCEPT !.status = "sold", !.price = n])
           = [LotOf(r) EXCEPT !.status = "sold", !.price = n]
<1>. DEFINE row == [r EXCEPT !.status = "sold", !.price = n]
            lot == LotOf(r)
            new == [lot EXCEPT !.status = "sold", !.price = n]
<1>1. /\ row.status = "sold" /\ row.seller = r.seller /\ row.price = n
      /\ row.bid = r.bid /\ row.bidder = r.bidder /\ row \in Row
  BY DEF Row
<1>2. lot \in Lot /\ lot.seller = r.seller /\ lot.bid = r.bid /\ lot.bidder = r.bidder
  BY DEF LotOf, Lot, Row
<1>. HIDE DEF row, lot
<1>3. /\ LotOf(row) \in Lot
      /\ LotOf(row).status = "sold" /\ LotOf(row).seller = r.seller
      /\ LotOf(row).bid = r.bid /\ LotOf(row).bidder = r.bidder /\ LotOf(row).price = n
  BY <1>1 DEF LotOf, Lot, Row
<1>4. /\ new \in Lot
      /\ new.status = "sold" /\ new.seller = r.seller
      /\ new.bid = r.bid /\ new.bidder = r.bidder /\ new.price = n
  BY <1>2 DEF Lot
<1>. HIDE DEF new
<1>5. LotOf(row) = new
  BY <1>3, <1>4, EqualLots
<1>. QED  BY <1>5 DEF row, lot, new

\* Nothing to see where only a count, or no row at all, has changed.
LEMMA SameLots ==
  ASSUME TypeOK, UNCHANGED claims,
         \/ UNCHANGED rows
         \/ \E l \in Listings, n \in Int : rows' = [rows EXCEPT ![l].count = n]
  PROVE  UNCHANGED House!vars
<1>1. Lots' = Lots
  <2>1. CASE UNCHANGED rows
    BY <2>1 DEF Lots
  <2>2. CASE \E l \in Listings, n \in Int : rows' = [rows EXCEPT ![l].count = n]
    <3>1. PICK l \in Listings, n \in Int : rows' = [rows EXCEPT ![l].count = n]
      BY <2>2
    <3>. DEFINE row == [rows[l] EXCEPT !.count = n]
    <3>2. rows' = [rows EXCEPT ![l] = row]
      BY <3>1 DEF TypeOK
    <3>3. rows[l] \in Row
      BY DEF TypeOK
    <3>4. LotOf(row) = LotOf(rows[l])
      BY <3>3 DEF LotOf, Row
    <3>. HIDE DEF row
    <3>5. Lots' = [Lots EXCEPT ![l] = LotOf(row)] /\ Lots[l] = LotOf(rows[l])
      BY <3>2, LotChanges
    <3>6. Lots' = [Lots EXCEPT ![l] = Lots[l]]
      BY <3>4, <3>5
    <3>. QED  BY <3>6 DEF Lots
  <2>. QED  BY <2>1, <2>2
<1>. QED  BY <1>1 DEF House!vars, Lots, LotOf

-----------------------------------------------------------------------------
(* The steps of Auction *)

\* The INSERT of list_item opens a lot.
LEMMA InsertOpens ==
  ASSUME RInv, NEW c \in Clients, ListInsert(c)
  PROVE  House!Next
<1>. DEFINE new == [ status |-> "active", seller |-> call[c].player, count |-> ItemCount,
                     bid |-> 0, bidder |-> None, price |-> 0 ]
<1>1. PICK l \in Listings : rows[l] = Absent /\ rows' = [rows EXCEPT ![l] = new]
  BY DEF ListInsert
<1>2. call[c].player \in Sellers
  BY DEF RInv, CallsSane, CallSane, ListInsert, At, ListSteps
<1>3. Lots' = [Lots EXCEPT ![l] = LotOf(new)] /\ Lots[l] = LotOf(rows[l])
  BY <1>1, LotChanges DEF RInv
<1>4. LotOf(new) = [status |-> "active", seller |-> call[c].player, bid |-> 0,
                    bidder |-> None, price |-> 0]
  BY DEF LotOf
<1>5. Lots[l].status = "none"
  BY <1>1, <1>3 DEF LotOf, Absent
<1>6. claims' = claims
  BY DEF ListInsert
<1>. HIDE DEF new
<1>7. House!Open(l)
  BY <1>2, <1>3, <1>4, <1>5, <1>6 DEF House!Open, Lots, LotOf
<1>. QED  BY <1>7 DEF House!Next

\* The UPDATE of place_bid raises its bid, or affects no row.
LEMMA TakeRaises ==
  ASSUME RInv, NEW c \in Clients, BidTake(c)
  PROVE  House!Next \/ UNCHANGED House!vars
<1>1. PICK l \in Listings, p \in Players, n \in Bids :
        call[c].listing = l /\ call[c].player = p /\ call[c].amount = n
  BY TradeCall DEF RInv, BidTake, At, TradeSteps, BidSteps
<1>. n \in Nat /\ n \in Price
  BY StockTypes, ConstantsAssumption
<1>2. /\ claims' = claims
      /\ IF Active(l) /\ rows[l].bid < n THEN rows' = [rows EXCEPT ![l] = Bid(@, p, n)]
                                         ELSE rows' = rows
  BY <1>1 DEF BidTake, Bid
<1>3. CASE Active(l) /\ rows[l].bid < n
  <2>1. rows[l] \in Row
    BY DEF RInv, TypeOK
  <2>2. /\ Lots' = [Lots EXCEPT ![l] = LotOf(Bid(rows[l], p, n))]
        /\ Lots[l] = LotOf(rows[l])
    BY <1>2, <1>3, LotChanges DEF RInv
  <2>3. Lots' = [Lots EXCEPT ![l] = [Lots[l] EXCEPT !.bid = n, !.bidder = p]]
    <3>1. LotOf(Bid(rows[l], p, n)) = Bid(LotOf(rows[l]), p, n)
      BY <2>1, LotRaised
    <3>2. Lots' = [Lots EXCEPT ![l] = Bid(Lots[l], p, n)]
      BY <2>2, <3>1
    <3>. QED  BY <3>2 DEF Bid
  <2>4. n >= StartPrice /\ p # rows[l].seller
    BY <1>1 DEF RInv, CallsSane, CallSane, BidTake, At
  <2>5. /\ Lots[l].status = "active" /\ n > Lots[l].bid
        /\ p \in Players \ {Lots[l].seller}
    <3>1. rows[l].bid \in Int
      BY <2>1, RowTypes
    <3>. QED  BY <1>3, <2>2, <2>4, <3>1 DEF Active, LotOf
  <2>6. House!Raise(l)
    BY <1>2, <2>3, <2>4, <2>5 DEF House!Raise, House!Others, Lots, LotOf
  <2>. QED  BY <2>6 DEF House!Next
<1>4. CASE ~(Active(l) /\ rows[l].bid < n)
  BY <1>2, <1>4, SameLots DEF RInv
<1>. QED  BY <1>3, <1>4

\* What is sold as a whole costs what a listing may be sold for.
LEMMA SalePrices == \A q \in Stock : BinPrice * q \in Price
<1>. SUFFICES ASSUME NEW q \in Stock PROVE BinPrice * q \in Price
  OBVIOUS
<1>1. CASE q \in Nat
  BY <1>1, PriceTypes, StockTypes
<1>2. CASE q = ItemCount
  BY <1>2 DEF Price
<1>. QED  BY <1>1, <1>2 DEF Stock

\* The UPDATE of buy_now sells it, or changes no more than the count.
LEMMA TakeBuys ==
  ASSUME RInv, NEW c \in Clients, BuyTake(c)
  PROVE  House!Next \/ UNCHANGED House!vars
<1>1. PICK l \in Listings, p \in Players, q \in Quantities :
        /\ call[c].listing = l /\ call[c].player = p /\ call[c].amount = q
        /\ call[c].row \in Row
  BY TradeCall DEF RInv, BuyTake, At, TradeSteps, BuySteps
<1>. q \in Int /\ call[c].row.count \in Int
  BY <1>1, RowTypes, ConstantsAssumption
<1>2. CASE TakePart(c)
  <2>1. call[c].row.count - q \in Int
    OBVIOUS
  <2>. QED  BY <1>1, <1>2, <2>1, SameLots DEF TakePart, RInv
<1>3. CASE TakeWhole(c) /\ ~Active(l)
  BY <1>1, <1>3, SameLots DEF TakeWhole, RInv
<1>4. CASE TakeWhole(c) /\ Active(l)
  <2>. DEFINE n == BinPrice * q
  <2>1. /\ rows' = [rows EXCEPT ![l] = Sold(rows[l], p, n)]
        /\ claims' = [claims EXCEPT ![l] = @ + 1]
    BY <1>1, <1>4 DEF TakeWhole
  <2>2. q \in Stock
    <3>1. q = call[c].row.count
      BY <1>1, <1>4 DEF RInv, Asks, BuyTake, At, TakeWhole
    <3>. QED  BY <1>1, <3>1 DEF Row
  <2>3. rows[l] \in Row
    BY DEF RInv, TypeOK
  <2>4. p # rows[l].seller
    BY <1>1 DEF RInv, CallsSane, CallSane, BuyTake, At
  <2>5. n \in {BinPrice * m : m \in Quantities \cap Stock} /\ n \in Price
    BY <2>2, SalePrices
  <2>. HIDE DEF n
  <2>6. /\ Lots' = [Lots EXCEPT ![l] = LotOf(Sold(rows[l], p, n))]
        /\ Lots[l] = LotOf(rows[l])
    BY <2>1, LotChanges DEF RInv
  <2>7. Lots' = [Lots EXCEPT ![l] = [Lots[l] EXCEPT !.status = "sold", !.bid = n,
                                                   !.bidder = p, !.price = n]]
    <3>1. LotOf(Sold(rows[l], p, n)) = [LotOf(rows[l]) EXCEPT !.status = "sold", !.bid = n,
                                                              !.bidder = p, !.price = n]
      BY <2>3, <2>5, LotSold
    <3>. QED  BY <2>6, <3>1
  <2>8. Lots[l].status = "active" /\ p \in Players \ {Lots[l].seller}
    BY <1>4, <2>4, <2>6 DEF Active, LotOf
  <2>9. House!Buy(l)
    BY <2>1, <2>5, <2>7, <2>8 DEF House!Buy, House!End, House!Others, Lots, LotOf
  <2>. QED  BY <2>9 DEF House!Next
<1>. QED  BY <1>2, <1>3, <1>4 DEF BuyTake

\* The UPDATE of cancel_listing withdraws it.
LEMMA CancelWithdraws ==
  ASSUME TypeOK, NEW c \in Clients, CancelBegin(c)
  PROVE  House!Next
<1>1. PICK l \in Listings :
        /\ Active(l)
        /\ rows' = [rows EXCEPT ![l] = [@ EXCEPT !.status = "cancelled"]]
        /\ claims' = [claims EXCEPT ![l] = @ + 1]
  BY DEF CancelBegin
<1>2. rows[l] \in Row
  BY DEF TypeOK
<1>3. /\ Lots' = [Lots EXCEPT ![l] = LotOf([rows[l] EXCEPT !.status = "cancelled"])]
      /\ Lots[l] = LotOf(rows[l])
  BY <1>1, LotChanges
<1>4. Lots' = [Lots EXCEPT ![l] = [Lots[l] EXCEPT !.status = "cancelled"]]
  <2>1. LotOf([rows[l] EXCEPT !.status = "cancelled"])
          = [LotOf(rows[l]) EXCEPT !.status = "cancelled"]
    BY <1>2, LotWithdrawn
  <2>. QED  BY <1>3, <2>1
<1>5. Lots[l].status = "active"
  BY <1>1, <1>3 DEF Active, LotOf
<1>6. House!Withdraw(l)
  BY <1>1, <1>4, <1>5 DEF House!Withdraw, House!End, Lots, LotOf
<1>. QED  BY <1>6 DEF House!Next

\* The scheduler decides on the selected row: its bid has been made, and by now
\* the highest one is not below it.
LEMMA ExpiryEnds ==
  ASSUME RInv, ExpireNext
  PROVE  House!Next \/ UNCHANGED House!vars
<1>1. PICK e \in batch :
        IF Active(e.listing)
          THEN /\ rows' = [rows EXCEPT ![e.listing] = Ended(@, e.row)]
               /\ claims' = [claims EXCEPT ![e.listing] = @ + 1]
          ELSE UNCHANGED <<rows, claims>>
  BY DEF ExpireNext
<1>2. PICK l \in Listings : e.listing = l /\ e.row \in Row
  BY DEF RInv, TypeOK
<1>3. rows[l] \in Row /\ SeenSane(e)
  BY DEF RInv, TypeOK, BatchSane
<1>4. CASE Active(l) /\ e.row.bidder # None
  <2>1. PICK n \in Price : e.row.bid = n
    BY <1>2 DEF Row
  <2>2. rows' = [rows EXCEPT ![l] = [rows[l] EXCEPT !.status = "sold", !.price = n]]
    BY <1>1, <1>2, <1>4, <2>1 DEF Ended
  <2>3. claims' = [claims EXCEPT ![l] = @ + 1]
    BY <1>1, <1>2, <1>4
  <2>4. /\ Lots' = [Lots EXCEPT ![l] =
             LotOf([rows[l] EXCEPT !.status = "sold", !.price = n])]
        /\ Lots[l] = LotOf(rows[l])
    BY <2>2, LotChanges DEF RInv
  <2>5. Lots' = [Lots EXCEPT ![l] = [Lots[l] EXCEPT !.status = "sold", !.price = n]]
    <3>1. LotOf([rows[l] EXCEPT !.status = "sold", !.price = n])
            = [LotOf(rows[l]) EXCEPT !.status = "sold", !.price = n]
      BY <1>3, LotSoldToBidder
    <3>. QED  BY <2>4, <3>1
  <2>6. n \in Bids /\ StartPrice <= n /\ n <= rows[l].bid
    BY <1>2, <1>3, <1>4, <2>1 DEF SeenSane, GoodBid, Active
  <2>7. Lots[l].status = "active" /\ n <= Lots[l].bid
    BY <1>4, <2>4, <2>6 DEF Active, LotOf
  <2>8. House!SellToBidder(l)
    BY <2>3, <2>5, <2>6, <2>7 DEF House!SellToBidder, House!End, Lots, LotOf
  <2>. QED  BY <2>8 DEF House!Next
<1>5. CASE Active(l) /\ e.row.bidder = None
  <2>1. /\ rows' = [rows EXCEPT ![l] = [rows[l] EXCEPT !.status = "expired"]]
        /\ claims' = [claims EXCEPT ![l] = @ + 1]
    BY <1>1, <1>2, <1>5 DEF Ended
  <2>2. /\ Lots' = [Lots EXCEPT ![l] = LotOf([rows[l] EXCEPT !.status = "expired"])]
        /\ Lots[l] = LotOf(rows[l])
    BY <2>1, LotChanges DEF RInv
  <2>3. Lots' = [Lots EXCEPT ![l] = [Lots[l] EXCEPT !.status = "expired"]]
    <3>1. LotOf([rows[l] EXCEPT !.status = "expired"])
            = [LotOf(rows[l]) EXCEPT !.status = "expired"]
      BY <1>3, LotWithdrawn
    <3>. QED  BY <2>2, <3>1
  <2>4. Lots[l].status = "active"
    BY <1>5, <2>2 DEF Active, LotOf
  <2>5. House!Withdraw(l)
    BY <2>1, <2>3, <2>4 DEF House!Withdraw, House!End, Lots, LotOf
  <2>. QED  BY <2>5 DEF House!Next
<1>6. CASE ~Active(l)
  BY <1>1, <1>2, <1>6, SameLots DEF RInv
<1>. QED  BY <1>4, <1>5, <1>6

\* The other steps write neither rows nor claims.
LEMMA StepRefines ==
  ASSUME RInv, [Next]_vars
  PROVE  [House!Next]_(House!vars)
<1>1. CASE UNCHANGED <<rows, claims>>
  BY <1>1, SameLots DEF RInv
<1>2. CASE ~UNCHANGED <<rows, claims>>
  <2>1. Next
    BY <1>2 DEF vars
  <2>2. ASSUME NEW c \in Clients, Operation(c)
        PROVE  ListInsert(c) \/ BidTake(c) \/ BuyTake(c) \/ CancelBegin(c)
    BY <1>2, <2>2
       DEF Operation, ListBegin, ListSelect, ListRecheck, ListFee, BidBegin, BidRead,
           BidEscrow, BidRefund, BuyBegin, BuyCheck, BuyPay, BuyCredit, BuyGive,
           CancelGive, CancelPay
  <2>3. \A l \in Listings : ~TimePasses(l)
    BY <1>2 DEF TimePasses
  <2>4. ~ExpireBegin
    BY <1>2 DEF ExpireBegin
  <2>5. ASSUME NEW c \in Clients, Operation(c)
        PROVE  House!Next \/ UNCHANGED House!vars
    BY <2>2, <2>5, InsertOpens, TakeRaises, TakeBuys, CancelWithdraws DEF RInv
  <2>. QED  BY <2>1, <2>3, <2>4, <2>5, ExpiryEnds DEF Next, Scheduler
<1>. QED  BY <1>1, <1>2

-----------------------------------------------------------------------------
(* What stays true between a read and a write *)

Kept(old, new) ==
  /\ old.status # "none" => new.status # "none" /\ new.seller = old.seller
  /\ old.status # "none" /\ new.status = "active" =>
       old.status = "active" /\ old.bid <= new.bid
  /\ RowSane(old) => RowSane(new)

\* Of an auction it is true by its actions that what was seen stays.
LEMMA LotsKept ==
  ASSUME TypeOK, [House!Next]_(House!vars), NEW m \in Listings
  PROVE  Kept(Lots[m], Lots'[m])
<1>1. Lots[m].bid \in Int /\ Lots \in [Listings -> Lot]
  BY StockTypes DEF TypeOK, Row, Lots, LotOf, Lot
<1>2. ASSUME Lots'[m] = Lots[m] PROVE Kept(Lots[m], Lots'[m])
  BY <1>1, <1>2 DEF Kept
<1>3. CASE UNCHANGED House!vars
  <2>1. Lots' = Lots
    BY <1>3 DEF House!vars, Lots, LotOf
  <2>. QED  BY <1>2, <2>1
<1>4. ASSUME NEW l \in Listings, House!Open(l) PROVE Kept(Lots[m], Lots'[m])
  <2>1. PICK p \in Sellers : Lots' = [Lots EXCEPT ![l] =
           [status |-> "active", seller |-> p, bid |-> 0, bidder |-> None, price |-> 0]]
    BY <1>4 DEF House!Open, Lots, LotOf
  <2>2. Lots[l].status = "none"
    BY <1>4 DEF House!Open, Lots, LotOf
  <2>3. CASE m = l
    <3>1. Lots'[m] = [status |-> "active", seller |-> p, bid |-> 0,
                      bidder |-> None, price |-> 0]
      BY <1>1, <2>1, <2>3
    <3>2. RowSane(Lots'[m])
      BY <3>1 DEF RowSane
    <3>. QED  BY <2>2, <2>3, <3>2 DEF Kept
  <2>4. CASE m # l
    BY <1>1, <1>2, <2>1, <2>4
  <2>. QED  BY <2>3, <2>4
<1>5. ASSUME NEW l \in Listings, House!Raise(l) PROVE Kept(Lots[m], Lots'[m])
  <2>1. PICK p \in Players, n \in Bids :
          /\ p # Lots[l].seller /\ n > Lots[l].bid /\ n >= StartPrice
          /\ Lots' = [Lots EXCEPT ![l] = [Lots[l] EXCEPT !.bid = n, !.bidder = p]]
    BY <1>5 DEF House!Raise, House!Others, Lots, LotOf
  <2>2. Lots[l].status = "active"
    BY <1>5 DEF House!Raise, Lots, LotOf
  <2>3. CASE m = l
    <3>. DEFINE new == [Lots[m] EXCEPT !.bid = n, !.bidder = p]
    <3>1. Lots'[m] = new
      BY <1>1, <2>1, <2>3
    <3>2. /\ new.status = "active" /\ new.seller = Lots[m].seller
          /\ new.bid = n /\ new.bidder = p
      BY <1>1, <2>2, <2>3 DEF Lot
    <3>. HIDE DEF new
    <3>3. RowSane(new)
      BY <2>1, <2>3, <3>2 DEF RowSane, GoodBid
    <3>4. n \in Int
      BY ConstantsAssumption
    <3>. QED  BY <1>1, <2>1, <2>2, <2>3, <3>1, <3>2, <3>3, <3>4 DEF Kept
  <2>4. CASE m # l
    BY <1>1, <1>2, <2>1, <2>4
  <2>. QED  BY <2>3, <2>4
<1>6. ASSUME NEW l \in Listings, NEW new \in Lot, Lots' = [Lots EXCEPT ![l] = new],
             new.seller = Lots[l].seller, new.status \notin {"none", "active"}
      PROVE  Kept(Lots[m], Lots'[m])
  <2>1. CASE m = l
    <3>1. Lots'[m] = new
      BY <1>1, <1>6, <2>1
    <3>2. RowSane(new)
      BY <1>6 DEF RowSane
    <3>. QED  BY <1>6, <2>1, <3>1, <3>2 DEF Kept
  <2>2. CASE m # l
    BY <1>1, <1>2, <1>6, <2>2
  <2>. QED  BY <2>1, <2>2
<1>7. ASSUME NEW l \in Listings, House!Buy(l) PROVE Kept(Lots[m], Lots'[m])
  <2>1. PICK p \in Players, n \in {BinPrice * q : q \in Quantities \cap Stock} :
          Lots' = [Lots EXCEPT ![l] =
            [Lots[l] EXCEPT !.status = "sold", !.bid = n, !.bidder = p, !.price = n]]
    BY <1>7 DEF House!Buy, House!End, House!Others, Lots, LotOf
  <2>. DEFINE new == [Lots[l] EXCEPT !.status = "sold", !.bid = n, !.bidder = p, !.price = n]
  <2>2. n \in Price
    BY SalePrices
  <2>3. Lots' = [Lots EXCEPT ![l] = new]
    BY <2>1
  <2>4. new \in Lot /\ new.seller = Lots[l].seller /\ new.status = "sold"
    BY <1>1, <2>2 DEF Lot
  <2>. HIDE DEF new
  <2>. QED  BY <1>6, <2>3, <2>4
<1>8. ASSUME NEW l \in Listings, House!SellToBidder(l) PROVE Kept(Lots[m], Lots'[m])
  <2>1. PICK n \in Bids :
          Lots' = [Lots EXCEPT ![l] = [Lots[l] EXCEPT !.status = "sold", !.price = n]]
    BY <1>8 DEF House!SellToBidder, House!End, Lots, LotOf
  <2>. DEFINE new == [Lots[l] EXCEPT !.status = "sold", !.price = n]
  <2>2. n \in Price
    BY StockTypes, ConstantsAssumption
  <2>3. Lots' = [Lots EXCEPT ![l] = new]
    BY <2>1
  <2>4. new \in Lot /\ new.seller = Lots[l].seller /\ new.status = "sold"
    BY <1>1, <2>2 DEF Lot
  <2>. HIDE DEF new
  <2>. QED  BY <1>6, <2>3, <2>4
<1>9. ASSUME NEW l \in Listings, House!Withdraw(l) PROVE Kept(Lots[m], Lots'[m])
  <2>1. PICK s \in {"cancelled", "expired"} :
          Lots' = [Lots EXCEPT ![l] = [Lots[l] EXCEPT !.status = s]]
    BY <1>9 DEF House!Withdraw, House!End, Lots, LotOf
  <2>. DEFINE new == [Lots[l] EXCEPT !.status = s]
  <2>2. Lots' = [Lots EXCEPT ![l] = new]
    BY <2>1
  <2>3. new \in Lot /\ new.seller = Lots[l].seller /\ new.status = s
    BY <1>1 DEF Lot
  <2>. HIDE DEF new
  <2>. QED  BY <1>6, <2>2, <2>3
<1>. QED  BY <1>3, <1>4, <1>5, <1>7, <1>8, <1>9 DEF House!Next

\* By the refinement it is true of the rows.
LEMMA Settled ==
  ASSUME RInv, [Next]_vars, NEW m \in Listings
  PROVE  Kept(rows[m], rows'[m])
<1>1. Kept(Lots[m], Lots'[m])
  BY StepRefines, LotsKept DEF RInv
<1>2. /\ Lots[m].status = rows[m].status /\ Lots[m].seller = rows[m].seller
      /\ Lots[m].bid = rows[m].bid /\ Lots[m].bidder = rows[m].bidder
  BY DEF Lots, LotOf
<1>3. /\ Lots'[m].status = rows'[m].status /\ Lots'[m].seller = rows'[m].seller
      /\ Lots'[m].bid = rows'[m].bid /\ Lots'[m].bidder = rows'[m].bidder
  BY DEF Lots, LotOf
<1>. QED  BY <1>1, <1>2, <1>3 DEF Kept, RowSane

-----------------------------------------------------------------------------
(* The calls *)

\* What a client knows stays true while others act.
LEMMA WaitingSane ==
  ASSUME RInv, [Next]_vars, NEW c \in Clients, call'[c] = call[c]
  PROVE  CallSane(c)'
<1>1. CallSane(c)
  BY DEF RInv, CallsSane
<1>2. CASE call[c].step \in {"bid_take", "buy_check", "buy_take"}
  <2>1. PICK l \in Listings : call[c].listing = l
    BY <1>2, TradeCall DEF RInv, TradeSteps
  <2>2. rows[l].status # "none" /\ Kept(rows[l], rows'[l])
    BY <1>1, <1>2, <2>1, Settled DEF CallSane
  <2>3. rows'[l].status # "none" /\ rows'[l].seller = rows[l].seller
    BY <2>2 DEF Kept
  <2>. QED  BY <1>1, <2>1, <2>3 DEF CallSane
<1>3. CASE call[c].step \notin {"bid_take", "buy_check", "buy_take"}
  BY <1>1, <1>3 DEF CallSane
<1>. QED  BY <1>2, <1>3

\* A call that is over or has no row to rely on has nothing to be sane about.
LEMMA ReturnSane ==
  ASSUME TypeOK, NEW c \in Clients, Return(c)
  PROVE  CallSane(c)'
<1>1. call'[c].step = "idle"
  BY DEF TypeOK, Return, Idle
<1>. QED  BY <1>1 DEF CallSane, ListSteps

Careless ==
  {"bid_escrow", "bid_refund", "buy_pay", "buy_credit", "buy_give",
   "cancel_give", "cancel_fee"}

\* The same of the steps that rely on nothing they have read.
LEMMA CarelessSane ==
  ASSUME TypeOK, NEW c \in Clients, NEW step \in Careless, Goto(c, step),
         call[c].step \in TradeSteps
  PROVE  CallSane(c)'
<1>1. call'[c].step = step
  BY GotoStep
<1>. QED  BY <1>1 DEF CallSane, Careless, ListSteps

\* The operations keep what their next step relies on: listing,
LEMMA ListSane ==
  ASSUME RInv, NEW c \in Clients,
         \/ ListBegin(c) \/ ListSelect(c) \/ ListRecheck(c)
         \/ ListFee(c) \/ ListInsert(c)
  PROVE  CallSane(c)'
<1>1. CASE ListBegin(c)
  <2>1. PICK p \in Sellers : call' = [call EXCEPT ![c] =
          [step |-> "list_select", player |-> p, listing |-> None,
           amount |-> 0, row |-> Absent]]
    BY <1>1 DEF ListBegin, Begin
  <2>2. call'[c].step = "list_select" /\ call'[c].player = p
    BY <2>1 DEF RInv, TypeOK
  <2>. QED  BY <2>2 DEF CallSane, ListSteps
<1>2. CASE Return(c)
  BY <1>2, ReturnSane DEF RInv
<1>3. ASSUME NEW step \in {"list_recheck", "list_fee", "list_insert"}, Goto(c, step),
             call[c].step \in ListSteps
      PROVE  CallSane(c)'
  <2>1. call'[c].step = step /\ call'[c].player = call[c].player
    BY <1>3, GotoStep DEF RInv
  <2>2. call[c].player \in Sellers
    BY <1>3 DEF RInv, CallsSane, CallSane
  <2>. QED  BY <2>1, <2>2 DEF CallSane, ListSteps
<1>4. CASE ListSelect(c)
  BY <1>2, <1>3, <1>4 DEF ListSelect, At, ListSteps
<1>5. CASE ListRecheck(c)
  BY <1>2, <1>3, <1>5 DEF ListRecheck, At, ListSteps
<1>6. CASE ListFee(c)
  BY <1>3, <1>6 DEF ListFee, At, ListSteps
<1>. QED  BY <1>1, <1>2, <1>4, <1>5, <1>6 DEF ListInsert

\* A bid that is high enough for a row is at least the start price.
LEMMA HighIsGood ==
  ASSUME NEW row \in Row, RowSane(row), row.status = "active",
         NEW n \in Nat, HighEnough(n, row)
  PROVE  n >= StartPrice
<1>1. PICK m \in Nat : m = Current(row) /\ m >= StartPrice
  <2>1. CASE row.bid = 0
    BY <2>1, ConstantsAssumption DEF Current
  <2>2. CASE row.bid # 0
    <3>1. row.bid \in Nat /\ row.bid >= StartPrice
      BY <2>2, ConstantsAssumption DEF RowSane, GoodBid
    <3>. QED  BY <2>2, <3>1 DEF Current
  <2>. QED  BY <2>1, <2>2
<1>. DEFINE more == Increment * m
<1>2. more \in Nat
  BY ConstantsAssumption
<1>3. (100 + Increment) * m = 100 * m + more
  BY ConstantsAssumption
<1>. HIDE DEF more
<1>4. 100 * n >= 100 * m + more
  BY <1>1, <1>3 DEF HighEnough
<1>5. n >= m
  BY <1>2, <1>4
<1>. QED  BY <1>1, <1>5, ConstantsAssumption

\* bidding,
LEMMA BidSane ==
  ASSUME RInv, NEW c \in Clients,
         \/ BidBegin(c) \/ BidRead(c) \/ BidTake(c)
         \/ BidEscrow(c) \/ BidRefund(c)
  PROVE  CallSane(c)'
<1>1. CASE Return(c)
  BY <1>1, ReturnSane DEF RInv
<1>2. CASE BidBegin(c)
  <2>1. PICK p \in Players, l \in Listings, n \in Bids : call' = [call EXCEPT ![c] =
          [step |-> "bid_read", player |-> p, listing |-> l, amount |-> n, row |-> Absent]]
    BY <1>2 DEF BidBegin, Begin
  <2>2. call'[c].step = "bid_read"
    BY <2>1 DEF RInv, TypeOK
  <2>. QED  BY <2>2 DEF CallSane, ListSteps
<1>3. CASE BidRead(c)
  <2>1. PICK l \in Listings, p \in Players, n \in Nat :
          /\ call[c].listing = l /\ call[c].player = p /\ call[c].amount = n
          /\ call[c] \in Call /\ call[c].step = "bid_read"
    BY <1>3, TradeCall DEF RInv, BidRead, At, TradeSteps, BidSteps
  <2>2. CASE /\ rows[l].status = "active" /\ rows[l].seller # p /\ HighEnough(n, rows[l])
             /\ call' = [call EXCEPT ![c] =
                  [call[c] EXCEPT !.step = "bid_take", !.row = rows[l]]]
    <3>1. call'[c] = [call[c] EXCEPT !.step = "bid_take", !.row = rows[l]]
      BY <2>2 DEF RInv, TypeOK
    <3>2. /\ call'[c].step = "bid_take" /\ call'[c].listing = l
          /\ call'[c].player = p /\ call'[c].amount = n
      BY <2>1, <3>1 DEF Call
    <3>3. n >= StartPrice
      <4>1. rows[l] \in Row /\ RowSane(rows[l])
        BY DEF RInv, TypeOK, RowsSane
      <4>. QED  BY <2>2, <4>1, HighIsGood
    <3>4. rows' = rows
      BY <1>3 DEF BidRead
    <3>. QED  BY <2>2, <3>2, <3>3, <3>4 DEF CallSane, ListSteps
  <2>. QED  BY <1>1, <1>3, <2>1, <2>2 DEF BidRead
<1>4. CASE Goto(c, "bid_escrow") /\ BidTake(c)
  BY <1>4, CarelessSane DEF RInv, BidTake, At, TradeSteps, Careless
<1>5. CASE Goto(c, "bid_refund") /\ BidEscrow(c)
  BY <1>5, CarelessSane DEF RInv, BidEscrow, At, TradeSteps, Careless
<1>6. CASE BidTake(c)
  BY <1>1, <1>4, <1>6 DEF BidTake
<1>7. CASE BidEscrow(c)
  BY <1>1, <1>5, <1>7 DEF BidEscrow
<1>. QED  BY <1>1, <1>2, <1>3, <1>6, <1>7 DEF BidRefund

\* buying,
LEMMA BuySane ==
  ASSUME RInv, NEW c \in Clients,
         \/ BuyBegin(c) \/ BuyCheck(c) \/ BuyTake(c)
         \/ BuyPay(c) \/ BuyCredit(c) \/ BuyGive(c)
  PROVE  CallSane(c)'
<1>1. CASE Return(c)
  BY <1>1, ReturnSane DEF RInv
<1>2. CASE BuyBegin(c)
  <2>1. PICK p \in Players, l \in Listings, q \in Quantities :
          /\ rows[l].status # "none"
          /\ call' = [call EXCEPT ![c] =
               [step |-> "buy_check", player |-> p, listing |-> l, amount |-> q,
                row |-> rows[l]]]
          /\ rows' = rows
    BY <1>2 DEF BuyBegin, Begin
  <2>2. /\ call'[c].step = "buy_check" /\ call'[c].listing = l
        /\ call'[c].row = rows[l]
    BY <2>1 DEF RInv, TypeOK
  <2>. QED  BY <2>1, <2>2 DEF CallSane, ListSteps
<1>3. CASE BuyCheck(c) /\ Goto(c, "buy_take")
  <2>1. /\ call[c].step = "buy_check" /\ call[c].row.seller # call[c].player
        /\ rows' = rows
    <3>1. "buy_take" # "idle" /\ call[c].step = "buy_check"
      BY <1>3 DEF BuyCheck, At
    <3>2. call'[c].step = "buy_take"
      BY <1>3, <3>1, GotoStep DEF RInv, TradeSteps
    <3>3. ~Return(c)
      BY <3>2 DEF Return, Idle, RInv, TypeOK
    <3>. QED  BY <1>3, <3>1, <3>3 DEF BuyCheck
  <2>2. /\ call'[c].step = "buy_take" /\ call'[c].player = call[c].player
        /\ call'[c].listing = call[c].listing
    BY <1>3, <2>1, GotoStep DEF RInv, TradeSteps
  <2>3. CallSane(c)
    BY DEF RInv, CallsSane
  <2>. QED  BY <2>1, <2>2, <2>3 DEF CallSane, ListSteps
<1>4. CASE BuyCheck(c)
  BY <1>1, <1>3, <1>4 DEF BuyCheck
<1>5. CASE Goto(c, "buy_pay") /\ BuyTake(c)
  BY <1>5, CarelessSane DEF RInv, BuyTake, At, TradeSteps, Careless
<1>6. CASE BuyTake(c)
  BY <1>1, <1>5, <1>6 DEF BuyTake, TakePart, TakeWhole
<1>7. CASE BuyPay(c)
  BY <1>7, CarelessSane DEF RInv, BuyPay, At, TradeSteps, Careless
<1>8. CASE BuyCredit(c)
  BY <1>8, CarelessSane DEF RInv, BuyCredit, At, TradeSteps, Careless
<1>. QED  BY <1>1, <1>2, <1>4, <1>6, <1>7, <1>8 DEF BuyGive

\* cancelling.
LEMMA CancelSane ==
  ASSUME RInv, NEW c \in Clients, CancelBegin(c) \/ CancelGive(c) \/ CancelPay(c)
  PROVE  CallSane(c)'
<1>1. CASE Return(c)
  BY <1>1, ReturnSane DEF RInv
<1>2. CASE CancelBegin(c)
  <2>1. PICK p \in Players, l \in Listings : call' = [call EXCEPT ![c] =
          [step |-> "cancel_give", player |-> p, listing |-> l, amount |-> 0, row |-> Absent]]
    BY <1>2 DEF CancelBegin, Begin
  <2>2. call'[c].step = "cancel_give"
    BY <2>1 DEF RInv, TypeOK
  <2>. QED  BY <2>2 DEF CallSane, ListSteps
<1>3. CASE Goto(c, "cancel_fee") /\ CancelGive(c)
  BY <1>3, CarelessSane DEF RInv, CancelGive, At, TradeSteps, Careless
<1>4. CASE CancelGive(c)
  BY <1>1, <1>3, <1>4 DEF CancelGive
<1>. QED  BY <1>1, <1>2, <1>4 DEF CancelPay

\* So a step keeps it for the client that takes it and for all that wait.
LEMMA CallsKept ==
  ASSUME RInv, [Next]_vars
  PROVE  CallsSane'
<1>1. ASSUME call' = call PROVE CallsSane'
  BY <1>1, WaitingSane DEF CallsSane
<1>2. ASSUME NEW c \in Clients, Operation(c), NEW d \in Clients
      PROVE  CallSane(d)'
  <2>1. CASE d = c
    BY <1>2, <2>1, ListSane, BidSane, BuySane, CancelSane DEF Operation
  <2>2. CASE d # c
    BY <1>2, <2>2, OneCall, WaitingSane DEF RInv
  <2>. QED  BY <2>1, <2>2
<1>3. ASSUME NEW c \in Clients, Operation(c) PROVE CallsSane'
  BY <1>2, <1>3 DEF CallsSane
<1>. QED  BY <1>1, <1>3 DEF Next, Scheduler, ExpireBegin, ExpireNext, TimePasses, vars

-----------------------------------------------------------------------------
(* The batch, and the whole invariant *)

\* The same of what the scheduler has selected.
LEMMA BatchKept ==
  ASSUME RInv, [Next]_vars
  PROVE  BatchSane'
<1>1. ASSUME NEW e \in batch PROVE SeenSane(e)'
  <2>1. PICK l \in Listings : e.listing = l /\ e.row \in Row
    BY DEF RInv, TypeOK
  <2>2. SeenSane(e)
    BY DEF RInv, BatchSane
  <2>3. Kept(rows[l], rows'[l])
    BY Settled
  <2>4. rows[l] \in Row /\ rows'[l] \in Row
    BY TypesStep DEF RInv, TypeOK
  <2>5. e.row.bid \in Int /\ rows[l].bid \in Int /\ rows'[l].bid \in Int
    BY <2>1, <2>4, RowTypes
  <2>. QED  BY <2>1, <2>2, <2>3, <2>5 DEF SeenSane, Kept
<1>2. CASE ExpireBegin
  <2>1. /\ batch' = {[listing |-> l, row |-> rows[l]] : l \in {m \in due : Active(m)}}
        /\ rows' = rows
    BY <1>2 DEF ExpireBegin
  <2>2. ASSUME NEW e \in batch' PROVE SeenSane(e)'
    <3>1. PICK l \in due : Active(l) /\ e = [listing |-> l, row |-> rows[l]]
      BY <2>1, <2>2
    <3>2. rows[l] \in Row /\ RowSane(rows[l]) /\ rows[l].bid \in Int
      BY RowTypes DEF RInv, TypeOK, RowsSane
    <3>3. e.listing = l /\ e.row = rows[l]
      BY <3>1
    <3>. QED  BY <2>1, <3>1, <3>2, <3>3 DEF SeenSane, RowSane, Active
  <2>. QED  BY <2>2 DEF BatchSane
<1>3. CASE batch' \subseteq batch
  BY <1>1, <1>3 DEF BatchSane
<1>4. ASSUME NEW c \in Clients, Operation(c) PROVE batch' = batch
  BY <1>4
     DEF Operation, ListBegin, ListSelect, ListRecheck, ListFee, ListInsert,
         BidBegin, BidRead, BidTake, BidEscrow, BidRefund, BuyBegin, BuyCheck,
         BuyTake, BuyPay, BuyCredit, BuyGive, CancelBegin, CancelGive, CancelPay
<1>5. CASE ExpireNext
  BY <1>3, <1>5 DEF ExpireNext
<1>. QED  BY <1>2, <1>3, <1>4, <1>5 DEF Next, Scheduler, TimePasses, vars

\* Nothing has been read when the house opens.
LEMMA RInit == Init => RInv
<1>. SUFFICES ASSUME Init PROVE RInv
  OBVIOUS
<1>1. TypeOK /\ Asks
  BY InitInvariant DEF IInv
<1>2. RowsSane
  BY DEF Init, RowsSane, RowSane, Absent
<1>3. CallsSane
  BY DEF Init, CallsSane, CallSane, Idle, ListSteps
<1>4. BatchSane
  BY DEF Init, BatchSane
<1>. QED  BY <1>1, <1>2, <1>3, <1>4 DEF RInv

\* The invariant of the readers is inductive.
LEMMA RStep == RInv /\ [Next]_vars => RInv'
<1>. SUFFICES ASSUME RInv, [Next]_vars PROVE RInv'
  OBVIOUS
<1>1. TypeOK' /\ Asks'
  BY TypesStep DEF RInv
<1>2. RowsSane'
  BY Settled DEF RInv, RowsSane, Kept
<1>. QED  BY <1>1, <1>2, CallsKept, BatchKept DEF RInv

\* Whatever its threads have read before they write, the house is an auction:
\* nobody bids for or buys what they sell, a listing is sold for what was bid or
\* asked, and nothing follows its end (ah_core.py:400-437, 546-587, 836-877).
THEOREM HouseIsAuction == Spec => KeepsAuction
<1>1. Init => House!Init
  BY DEF Init, House!Init, Absent
<1>2. RInv /\ [Next]_vars => [House!Next]_(House!vars)
  BY StepRefines
<1>. QED  BY <1>1, <1>2, RInit, RStep, PTL DEF Spec, KeepsAuction, House!Spec

\* On the way: an active listing never has a bid by its own seller, nor one below
\* its start price, whatever the state of the bids in progress.
THEOREM BidsAreGood == Spec => []RowsSane
<1>1. RInv => RowsSane
  BY DEF RInv
<1>. QED  BY RInit, RStep, <1>1, PTL DEF Spec

-----------------------------------------------------------------------------
(* The coins: what the sums do *)

Owed(l) == SumFunctionOnSet([c \in Clients |-> Outstanding(call[c], l)], Clients)
Pot(l)  == SumFunctionOnSet(held[l], Players)

\* What is outstanding is an integer, and zero outside of a bid.
LEMMA OutstandingType ==
  ASSUME NEW k \in Call \cup {Idle}, NEW l \in Listings
  PROVE  /\ Outstanding(k, l) \in Int
         /\ k.step \notin Bidding => Outstanding(k, l) = 0
<1>1. CASE k.step \in Bidding
  <2>1. k \in Call
    BY <1>1 DEF Bidding, Idle
  <2>2. k.amount \in Bids /\ k.row \in Row
    BY <1>1, <2>1 DEF Call, Bidding, ListSteps, BidSteps, BuySteps, CancelSteps
  <2>3. k.amount \in Int /\ k.row.bid \in Int
    <3>1. k.row.bid \in Int
      BY <2>2, RowTypes
    <3>2. \A n \in Bids : n \in Int
      BY ConstantsAssumption
    <3>. QED  BY <2>2, <3>1, <3>2
  <2>4. Coins(k.amount) \in Int /\ Coins(k.row.bid) \in Int
    BY <2>3, WholeCoins
  <2>. QED  BY <1>1, <2>4 DEF Outstanding, Bidding
<1>2. CASE k.step \notin Bidding
  BY <1>2 DEF Outstanding, Bidding
<1>. QED  BY <1>1, <1>2

\* The call of one client changes: so does what it owes, and no more.
LEMMA OwedChanges ==
  ASSUME TypeOK, TypeOK', NEW c \in Clients, NEW l \in Listings,
         \A d \in Clients \ {c} : call'[d] = call[d]
  PROVE  /\ Owed(l) \in Int
         /\ Owed(l)' = Owed(l) + Outstanding(call'[c], l) - Outstanding(call[c], l)
<1>. DEFINE f == [d \in Clients |-> Outstanding(call[d], l)]
            g == [d \in Clients |-> Outstanding(call'[d], l)]
<1>1. \A d \in Clients : call[d] \in Call \cup {Idle} /\ call'[d] \in Call \cup {Idle}
  BY DEF TypeOK
<1>2. \A d \in Clients : f[d] \in Int /\ g[d] \in Int
  BY <1>1, OutstandingType
<1>3. \A d \in Clients \ {c} : g[d] = f[d]
  OBVIOUS
<1>4. f[c] = Outstanding(call[c], l) /\ g[c] = Outstanding(call'[c], l)
  OBVIOUS
<1>5. Owed(l) = SumFunctionOnSet(f, Clients) /\ Owed(l)' = SumFunctionOnSet(g, Clients)
  BY DEF Owed
<1>. HIDE DEF f, g
<1>6. /\ SumFunctionOnSet(f, Clients) \in Int
      /\ SumFunctionOnSet(g, Clients) = SumFunctionOnSet(f, Clients) + g[c] - f[c]
  BY <1>2, <1>3, SumChange, ConstantsAssumption
<1>. QED  BY <1>4, <1>5, <1>6

\* The coins that one player has in a listing change.
LEMMA PotChanges ==
  ASSUME TypeOK, TypeOK', NEW l \in Listings, NEW p \in Players,
         \A q \in Players \ {p} : held'[l][q] = held[l][q]
  PROVE  /\ Pot(l) \in Int
         /\ Pot(l)' = Pot(l) + held'[l][p] - held[l][p]
<1>1. \A q \in Players : held[l][q] \in Int /\ held'[l][q] \in Int
  BY DEF TypeOK
<1>2. /\ SumFunctionOnSet(held[l], Players) \in Int
      /\ SumFunctionOnSet(held'[l], Players)
           = SumFunctionOnSet(held[l], Players) + held'[l][p] - held[l][p]
  BY <1>1, SumChange, ConstantsAssumption
<1>. QED  BY <1>2 DEF Pot

\* The cover is the sum of three integers.
LEMMA CoverSums ==
  ASSUME TypeOK, NEW l \in Listings
  PROVE  /\ Cover(l) = Pot(l) + Owed(l) + unpaid[l]
         /\ Pot(l) \in Int /\ Owed(l) \in Int /\ unpaid[l] \in Nat
<1>1. Pot(l) \in Int
  <2>1. \A q \in Players : held[l][q] \in Int
    BY DEF TypeOK
  <2>. QED  BY <2>1, SumType, ConstantsAssumption DEF Pot
<1>2. Owed(l) \in Int
  <2>. DEFINE f == [d \in Clients |-> Outstanding(call[d], l)]
  <2>1. \A d \in Clients : call[d] \in Call \cup {Idle}
    BY DEF TypeOK
  <2>2. \A d \in Clients : f[d] \in Int
    BY <2>1, OutstandingType
  <2>. HIDE DEF f
  <2>3. SumFunctionOnSet(f, Clients) \in Int
    BY <2>2, SumType, ConstantsAssumption
  <2>. QED  BY <2>3 DEF f, Owed
<1>. QED  BY <1>1, <1>2 DEF Cover, Pot, Owed, TypeOK

-----------------------------------------------------------------------------
(* The coins: the invariant *)

\* What a bid in progress has read: no debts, no coins without a bidder, and
\* nothing above the bid that is in the row by now.
ReadSane(c) ==
  LET k == call[c]
      row == rows[k.listing] IN
  /\ k.step \in {"bid_take", "bid_escrow", "bid_refund"} =>
       k.row.bid \in Nat /\ (k.row.bidder = None => k.row.bid = 0)
  /\ k.step = "bid_take" /\ row.status = "active" => k.row.bid <= row.bid

ReadsSane == \A c \in Clients : ReadSane(c)

\* A listing that does not exist yet has nothing to cover.
Covered ==
  \A l \in Listings :
    rows[l].status \in {"none", "active"} => Cover(l) >= Coins(rows[l].bid)

CoinsInv == RInv /\ ReadsSane /\ Covered

\* Without listings nothing is to be covered.
LEMMA CoinsInit == Init => CoinsInv
<1>. SUFFICES ASSUME Init PROVE CoinsInv
  OBVIOUS
<1>1. RInv /\ TypeOK
  BY RInit DEF RInv
<1>2. ReadsSane
  BY DEF Init, ReadsSane, ReadSane, Idle
<1>3. ASSUME NEW l \in Listings PROVE Cover(l) = 0 /\ Coins(rows[l].bid) = 0
  <2>1. \A p \in Players : held[l][p] = 0
    BY DEF Init
  <2>2. Pot(l) = 0
    BY <2>1, SumZero, ConstantsAssumption DEF Pot
  <2>. DEFINE f == [d \in Clients |-> Outstanding(call[d], l)]
  <2>3. \A d \in Clients : f[d] = 0
    BY DEF Init, Idle, Outstanding
  <2>. HIDE DEF f
  <2>4. SumFunctionOnSet(f, Clients) = 0
    BY <2>3, SumZero, ConstantsAssumption
  <2>5. Owed(l) = 0
    BY <2>4 DEF f, Owed
  <2>6. rows[l].bid = 0
    BY DEF Init, Absent
  <2>. QED  BY <1>1, <2>2, <2>5, <2>6, CoverSums, WholeCoins DEF Init
<1>. QED  BY <1>1, <1>2, <1>3 DEF CoinsInv, Covered

\* What a waiting client has read stays sane: the bids only rise.
LEMMA WaitingReads ==
  ASSUME CoinsInv, [Next]_vars, NEW c \in Clients, call'[c] = call[c]
  PROVE  ReadSane(c)'
<1>1. ReadSane(c) /\ CallSane(c) /\ RInv /\ TypeOK
  BY DEF CoinsInv, ReadsSane, RInv, CallsSane
<1>2. CASE call[c].step = "bid_take"
  <2>1. PICK l \in Listings : call[c].listing = l /\ call[c].row \in Row
    BY <1>1, <1>2, TradeCall DEF TradeSteps
  <2>2. rows[l].status # "none" /\ Kept(rows[l], rows'[l])
    BY <1>1, <1>2, <2>1, Settled DEF CallSane
  <2>3. rows[l] \in Row /\ rows'[l] \in Row
    BY <1>1, TypesStep DEF RInv, TypeOK
  <2>4. call[c].row.bid \in Int /\ rows[l].bid \in Int /\ rows'[l].bid \in Int
    BY <2>1, <2>3, RowTypes
  <2>. QED  BY <1>1, <2>1, <2>2, <2>4 DEF ReadSane, Kept
<1>3. CASE call[c].step # "bid_take"
  BY <1>1, <1>3 DEF ReadSane
<1>. QED  BY <1>2, <1>3

\* What the acting client has read is sane as well.
LEMMA ActingReads ==
  ASSUME CoinsInv, NEW c \in Clients, Operation(c)
  PROVE  ReadSane(c)'
<1>0. TypeOK /\ ReadSane(c)
  BY DEF CoinsInv, RInv, ReadsSane
<1>1. CASE call'[c].step \notin HasRead
  BY <1>1 DEF ReadSane, HasRead
<1>2. CASE Return(c)
  BY <1>0, <1>1, <1>2, ReturnStep DEF HasRead
<1>3. CASE BidRead(c)
  <2>1. PICK l \in Listings :
          call[c].listing = l /\ call[c] \in Call /\ call[c].step = "bid_read"
    BY <1>0, <1>3, TradeCall DEF BidRead, At, TradeSteps
  <2>2. CASE /\ rows[l].status = "active"
             /\ call' = [call EXCEPT ![c] =
                  [call[c] EXCEPT !.step = "bid_take", !.row = rows[l]]]
    <3>1. call'[c] = [call[c] EXCEPT !.step = "bid_take", !.row = rows[l]]
      BY <1>0, <2>2 DEF TypeOK
    <3>2. call'[c].listing = l /\ call'[c].row = rows[l]
      BY <2>1, <3>1 DEF Call
    <3>3. rows' = rows
      BY <1>3 DEF BidRead
    <3>4. rows[l] \in Row /\ RowSane(rows[l])
      BY <1>0 DEF TypeOK, CoinsInv, RInv, RowsSane
    <3>5. rows[l].bid \in Nat /\ (rows[l].bidder = None => rows[l].bid = 0)
      BY <2>2, <3>4, ConstantsAssumption DEF RowSane, GoodBid
    <3>6. rows[l].bid <= rows[l].bid
      BY <3>4, RowTypes
    <3>. QED  BY <3>2, <3>3, <3>5, <3>6 DEF ReadSane
  <2>. QED  BY <1>2, <1>3, <2>1, <2>2 DEF BidRead
<1>4. CASE (BidTake(c) /\ Goto(c, "bid_escrow")) \/ (BidEscrow(c) /\ Goto(c, "bid_refund"))
  <2>1. call[c].step \in {"bid_take", "bid_escrow"}
    BY <1>4 DEF BidTake, BidEscrow, At
  <2>2. call'[c].row = call[c].row /\ call'[c].step \in {"bid_escrow", "bid_refund"}
    BY <1>0, <1>4, <2>1, GotoStep DEF TradeSteps
  <2>. QED  BY <1>0, <2>1, <2>2 DEF ReadSane
<1>5. CASE BidTake(c) \/ BidEscrow(c) \/ BidRefund(c)
  BY <1>2, <1>4, <1>5 DEF BidTake, BidEscrow, BidRefund
<1>6. CASE OtherOperation(c)
  BY <1>0, <1>1, <1>6, OtherSteps
<1>. QED  BY <1>3, <1>5, <1>6 DEF Operation, OtherOperation

\* The bid a client has read is still at most the present one when it writes.
LEMMA ReadsKept ==
  ASSUME CoinsInv, [Next]_vars
  PROVE  ReadsSane'
<1>1. ASSUME call' = call PROVE ReadsSane'
  BY <1>1, WaitingReads DEF ReadsSane
<1>2. ASSUME NEW c \in Clients, Operation(c) PROVE ReadsSane'
  <2>1. ASSUME NEW d \in Clients PROVE ReadSane(d)'
    <3>1. CASE d = c
      BY <1>2, <3>1, ActingReads
    <3>2. CASE d # c
      BY <1>2, <3>2, OneCall, WaitingReads DEF CoinsInv, RInv
    <3>. QED  BY <3>1, <3>2
  <2>. QED  BY <2>1 DEF ReadsSane
<1>. QED  BY <1>1, <1>2 DEF Next, Scheduler, ExpireBegin, ExpireNext, TimePasses, vars

-----------------------------------------------------------------------------
(* The coins: step by step *)

\* Only a bid that is taken raises what a listing has to cover.
LEMMA NoRise ==
  ASSUME RInv, [Next]_vars, NEW m \in Listings, rows'[m].status \in {"none", "active"},
         \A c \in Clients : BidTake(c) => rows' = rows
  PROVE  rows[m].status \in {"none", "active"} /\ rows'[m].bid <= rows[m].bid
<1>1. rows[m] \in Row /\ rows[m].bid \in Int
  BY RowTypes DEF RInv, TypeOK
<1>2. RowStep(rows[m], rows'[m])
  BY RowsStep DEF RInv
<1>3. CASE rows'[m] = rows[m]
  BY <1>1, <1>3
<1>4. CASE rows[m] = Absent /\ rows'[m].bid = 0
  BY <1>4 DEF Absent
<1>5. CASE rows'[m] = [rows[m] EXCEPT !.count = rows'[m].count]
  <2>. DEFINE n == rows'[m].count
  <2>1. rows'[m] = [rows[m] EXCEPT !.count = n]
    BY <1>5
  <2>. HIDE DEF n
  <2>2. rows'[m].status = rows[m].status /\ rows'[m].bid = rows[m].bid
    BY <1>1, <2>1 DEF Row
  <2>. QED  BY <1>1, <2>2
<1>. QED  BY <1>2, <1>3, <1>4, <1>5 DEF RowStep

\* Steps that bring no coins of bids and take none back
LEMMA OtherCover ==
  ASSUME CoinsInv, TypeOK', NEW c \in Clients, NEW m \in Listings,
         \A d \in Clients \ {c} : call'[d] = call[d], UNCHANGED <<held, unpaid>>,
         call[c].step \notin Bidding, call'[c].step \notin Bidding
  PROVE  Cover(m)' = Cover(m)
<1>0. TypeOK
  BY DEF CoinsInv, RInv
<1>1. Outstanding(call[c], m) = 0 /\ Outstanding(call'[c], m) = 0
  BY <1>0, OutstandingType DEF TypeOK
<1>2. Owed(m)' = Owed(m)
  BY <1>0, <1>1, OwedChanges
<1>3. Cover(m)' = Pot(m)' + Owed(m)' + unpaid'[m]
  BY DEF Cover, Pot, Owed
<1>. QED  BY <1>0, <1>2, <1>3, CoverSums DEF Pot

\* The same decomposition after the step.
LEMMA PrimedCover ==
  ASSUME NEW m
  PROVE  Cover(m)' = Pot(m)' + Owed(m)' + unpaid'[m]
BY DEF Cover, Pot, Owed

\* The new bid is to be covered, and promises the coins for it. What it will take
\* back is no more than the bid that has been covered so far.
LEMMA TakeCover ==
  ASSUME CoinsInv, TypeOK', NEW c \in Clients, BidTake(c), NEW m \in Listings,
         \A d \in Clients \ {c} : call'[d] = call[d],
         rows'[m].status \in {"none", "active"}
  PROVE  Cover(m)' >= Coins(rows'[m].bid)
<1>0. TypeOK /\ ReadSane(c) /\ call[c].step = "bid_take" /\ UNCHANGED <<held, unpaid>>
  BY DEF CoinsInv, RInv, ReadsSane, BidTake, At
<1>1. PICK l \in Listings, p \in Players, n \in Nat, r \in Row :
        call[c].listing = l /\ call[c].player = p /\ call[c].amount = n /\ call[c].row = r
  BY <1>0, TradeCall DEF TradeSteps, BidSteps
<1>2. r.bid \in Int /\ rows[l] \in Row /\ rows[l].bid \in Int
  BY <1>0, RowTypes DEF TypeOK
<1>3. CASE Return(c) /\ UNCHANGED rows
  <2>1. Cover(m)' = Cover(m)
    BY <1>0, <1>3, ReturnStep, OtherCover DEF Bidding
  <2>. QED  BY <1>3, <2>1 DEF CoinsInv, Covered
<1>4. CASE /\ Active(l) /\ Goto(c, "bid_escrow")
           /\ rows' = [rows EXCEPT ![l] = [rows[l] EXCEPT !.bid = n, !.bidder = p]]
  <2>1. /\ call'[c].step = "bid_escrow" /\ call'[c].listing = l
        /\ call'[c].amount = n /\ call'[c].row = r
    BY <1>0, <1>1, <1>4, GotoStep DEF TradeSteps
  <2>2. Outstanding(call[c], m) = 0
    BY <1>0 DEF Outstanding
  <2>3. Pot(m)' = Pot(m) /\ unpaid'[m] = unpaid[m]
    BY <1>0 DEF Pot
  <2>4. Owed(m) \in Int /\ Owed(m)' = Owed(m) + Outstanding(call'[c], m)
    <3>1. call'[c] \in Call \cup {Idle}
      BY DEF TypeOK
    <3>2. Outstanding(call'[c], m) \in Int
      BY <3>1, OutstandingType
    <3>3. /\ Owed(m) \in Int
          /\ Owed(m)' = Owed(m) + Outstanding(call'[c], m) - Outstanding(call[c], m)
      BY <1>0, OwedChanges
    <3>. QED  BY <2>2, <3>2, <3>3
  <2>5. CASE m = l
    <3>. DEFINE new == Coins(n)
                old == Coins(rows[l].bid)
                due_back == Coins(r.bid)
    <3>1. Outstanding(call'[c], m) = new - due_back
      BY <2>1, <2>5 DEF Outstanding
    <3>2. Cover(m) >= old
      BY <1>4, <2>5 DEF CoinsInv, Covered, Active
    <3>3. new \in Int /\ old \in Int /\ due_back \in Int /\ due_back <= old
      <4>1. r.bid <= rows[l].bid
        BY <1>0, <1>1, <1>4 DEF ReadSane, Active
      <4>. QED  BY <1>2, <4>1, WholeCoins
    <3>4. Coins(rows'[m].bid) = new
      <4>1. rows'[m].bid = n
        BY <1>0, <1>2, <1>4, <2>5 DEF TypeOK, Row
      <4>. QED  BY <4>1
    <3>. HIDE DEF new, old, due_back
    <3>. QED  BY <1>0, <2>3, <2>4, <3>1, <3>2, <3>3, <3>4, CoverSums, PrimedCover
  <2>6. CASE m # l
    <3>1. Outstanding(call'[c], m) = 0
      BY <2>1, <2>6 DEF Outstanding
    <3>2. rows'[m] = rows[m]
      BY <1>0, <1>4, <2>6 DEF TypeOK
    <3>3. Cover(m) >= Coins(rows[m].bid)
      BY <3>2 DEF CoinsInv, Covered
    <3>4. Cover(m)' = Cover(m)
      BY <1>0, <2>3, <2>4, <3>1, CoverSums, PrimedCover
    <3>. QED  BY <3>2, <3>3, <3>4
  <2>. QED  BY <2>5, <2>6
<1>. QED  BY <1>1, <1>3, <1>4 DEF BidTake

\* The coins of the bid arrive, or are counted as unpaid.
LEMMA EscrowCover ==
  ASSUME CoinsInv, TypeOK', NEW c \in Clients, BidEscrow(c), NEW m \in Listings,
         \A d \in Clients \ {c} : call'[d] = call[d]
  PROVE  Cover(m)' = Cover(m)
<1>0. TypeOK /\ ReadSane(c) /\ call[c].step = "bid_escrow"
  BY DEF CoinsInv, RInv, ReadsSane, BidEscrow, At
<1>1. PICK l \in Listings, p \in Players, r \in Row :
        call[c].listing = l /\ call[c].player = p /\ call[c].row = r
  BY <1>0, TradeCall DEF TradeSteps
<1>. DEFINE n == Coins(call[c].amount)
            back == Coins(r.bid)
<1>2. n \in Nat /\ back \in Int
  BY <1>0, TradeCall, RowTypes, WholeCoins DEF TradeSteps, BidSteps
<1>3. Outstanding(call'[c], m) = IF m = l THEN -back ELSE 0
  <2>1. CASE Goto(c, "bid_refund")
    <3>1. /\ call'[c].step = "bid_refund" /\ call'[c].listing = l /\ call'[c].row = r
      BY <1>0, <1>1, <2>1, GotoStep DEF TradeSteps
    <3>. QED  BY <3>1 DEF Outstanding
  <2>2. CASE r.bidder = None /\ Return(c)
    <3>1. call'[c].step = "idle"
      BY <1>0, <2>2, ReturnStep
    <3>2. r.bid = 0
      BY <1>0, <1>1, <2>2 DEF ReadSane
    <3>3. back = 0
      BY <3>2, WholeCoins
    <3>4. Outstanding(call'[c], m) = 0
      BY <3>1 DEF Outstanding
    <3>. HIDE DEF back
    <3>5. -back = 0 - back
      BY <1>2
    <3>. QED  BY <3>3, <3>4, <3>5
  <2>. QED  BY <1>1, <2>1, <2>2 DEF BidEscrow
<1>4. Outstanding(call[c], m) = IF m = l THEN n - back ELSE 0
  BY <1>0, <1>1 DEF Outstanding
<1>5. \/ Take(p, n) /\ held' = [held EXCEPT ![l][p] = @ + n] /\ UNCHANGED unpaid
      \/ NotTaken(p, n) /\ unpaid' = [unpaid EXCEPT ![l] = @ + n] /\ UNCHANGED held
  BY <1>1 DEF BidEscrow
<1>. HIDE DEF n, back
<1>6. Owed(m) \in Int /\ Owed(m)' = Owed(m) - (IF m = l THEN n ELSE 0)
  BY <1>0, <1>2, <1>3, <1>4, OwedChanges
<1>7. CASE held' = [held EXCEPT ![l][p] = @ + n] /\ UNCHANGED unpaid
  <2>1. Pot(m) \in Int /\ Pot(m)' = Pot(m) + (IF m = l THEN n ELSE 0)
    <3>1. /\ \A q \in Players \ {p} : held'[m][q] = held[m][q]
          /\ held'[m][p] = held[m][p] + (IF m = l THEN n ELSE 0)
          /\ held[m][p] \in Int
      BY <1>0, <1>2, <1>7 DEF TypeOK
    <3>. QED  BY <1>0, <1>2, <3>1, PotChanges
  <2>. QED  BY <1>0, <1>2, <1>6, <1>7, <2>1, CoverSums, PrimedCover
<1>8. CASE unpaid' = [unpaid EXCEPT ![l] = @ + n] /\ UNCHANGED held
  <2>1. Pot(m)' = Pot(m) /\ unpaid'[m] = unpaid[m] + (IF m = l THEN n ELSE 0)
    BY <1>0, <1>2, <1>8 DEF TypeOK, Pot
  <2>. QED  BY <1>0, <1>2, <1>6, <2>1, CoverSums, PrimedCover
<1>. QED  BY <1>5, <1>7, <1>8

\* A refund has been counted since the bid was taken; when it is lost, so much the
\* better for the house.
LEMMA RefundCover ==
  ASSUME CoinsInv, TypeOK', NEW c \in Clients, BidRefund(c), NEW m \in Listings,
         \A d \in Clients \ {c} : call'[d] = call[d]
  PROVE  Cover(m) \in Int /\ Cover(m)' \in Int /\ Cover(m)' >= Cover(m)
<1>0. /\ TypeOK /\ ReadSane(c) /\ UNCHANGED unpaid
      /\ call[c].step = "bid_refund" /\ call'[c].step = "idle"
  BY ReturnStep DEF CoinsInv, RInv, ReadsSane, BidRefund, At
<1>1. PICK l \in Listings, r \in Row : call[c].listing = l /\ call[c].row = r
  BY <1>0, TradeCall DEF TradeSteps
<1>. DEFINE n == Coins(r.bid)
            p == r.bidder
<1>2. n \in Nat
  BY <1>0, <1>1, WholeCoins DEF ReadSane
<1>3. Outstanding(call'[c], m) = 0 /\ Outstanding(call[c], m) = IF m = l THEN -n ELSE 0
  BY <1>0, <1>1 DEF Outstanding
<1>4. held' = [held EXCEPT ![l][p] = @ - n] \/ UNCHANGED held
  BY <1>1 DEF BidRefund
<1>. HIDE DEF n, p
<1>5. Owed(m) \in Int /\ Owed(m)' = Owed(m) + (IF m = l THEN n ELSE 0)
  BY <1>0, <1>2, <1>3, OwedChanges
<1>6. CASE UNCHANGED held
  <2>1. Pot(m)' = Pot(m)
    BY <1>6 DEF Pot
  <2>. QED  BY <1>0, <1>2, <1>5, <2>1, CoverSums, PrimedCover
<1>7. CASE held' = [held EXCEPT ![l][p] = @ - n] /\ p \in Players
  <2>1. Pot(m) \in Int /\ Pot(m)' = Pot(m) - (IF m = l THEN n ELSE 0)
    <3>1. /\ \A q \in Players \ {p} : held'[m][q] = held[m][q]
          /\ held'[m][p] = held[m][p] - (IF m = l THEN n ELSE 0)
          /\ held[m][p] \in Int
      BY <1>0, <1>2, <1>7 DEF TypeOK
    <3>. QED  BY <1>0, <1>2, <1>7, <3>1, PotChanges
  <2>. QED  BY <1>0, <1>2, <1>5, <2>1, CoverSums, PrimedCover
<1>8. CASE held' = [held EXCEPT ![l][p] = @ - n] /\ p \notin Players
  <2>1. held' = held
    BY <1>0, <1>8 DEF TypeOK
  <2>. QED  BY <1>6, <2>1
<1>. QED  BY <1>4, <1>6, <1>7, <1>8

\* Every step moves coins from one term of the cover to another, or adds to it,
\* but for the bid that is stored, which adds its own difference.
LEMMA CoverKept ==
  ASSUME CoinsInv, [Next]_vars
  PROVE  Covered'
<1>. SUFFICES ASSUME NEW m \in Listings, rows'[m].status \in {"none", "active"}
              PROVE  Cover(m)' >= Coins(rows'[m].bid)
  BY DEF Covered
<1>0. RInv /\ TypeOK /\ TypeOK'
  BY TypesStep DEF CoinsInv, RInv
<1>. DEFINE old == Coins(rows[m].bid)
            new == Coins(rows'[m].bid)
<1>1. rows[m].bid \in Int /\ rows'[m].bid \in Int
  BY <1>0, RowTypes DEF TypeOK
<1>11. old \in Int /\ new \in Int /\ Cover(m) \in Int
  BY <1>0, <1>1, CoverSums, WholeCoins
<1>2. ASSUME \A c \in Clients : BidTake(c) => rows' = rows
      PROVE  Cover(m) >= new
  <2>1. rows[m].status \in {"none", "active"} /\ rows'[m].bid <= rows[m].bid
    BY <1>0, <1>2, NoRise
  <2>2. Cover(m) >= old /\ new <= old
    BY <1>1, <2>1, WholeCoins DEF CoinsInv, Covered
  <2>. HIDE DEF old, new
  <2>. QED  BY <1>11, <2>2
<1>3. CASE UNCHANGED <<call, held, unpaid>>
  <2>1. Cover(m)' = Cover(m)
    BY <1>3 DEF Cover
  <2>2. \A c \in Clients : ~BidTake(c)
    <3>. SUFFICES ASSUME NEW c \in Clients, BidTake(c) PROVE FALSE
      OBVIOUS
    <3>1. call[c].step = "bid_take" /\ (Return(c) \/ Goto(c, "bid_escrow"))
      BY DEF BidTake, At
    <3>2. call'[c].step # "bid_take"
      BY <1>0, <3>1, ReturnStep, GotoStep DEF TradeSteps
    <3>. QED  BY <1>3, <3>1, <3>2
  <2>. QED  BY <1>2, <2>1, <2>2
<1>4. ASSUME NEW c \in Clients, Operation(c)
      PROVE  Cover(m)' >= new
  <2>1. \A d \in Clients \ {c} : call'[d] = call[d]
    BY <1>0, <1>4, OneCall
  <2>2. CASE BidTake(c)
    BY <1>0, <2>1, <2>2, TakeCover
  <2>3. CASE BidRead(c)
    <3>1. /\ call[c].step = "bid_read" /\ UNCHANGED <<rows, held, unpaid>>
      BY <2>3 DEF BidRead, At
    <3>2. call'[c].step \in {"idle", "bid_take"}
      <4>1. call[c] \in Call
        BY <1>0, <3>1, TradeCall DEF TradeSteps
      <4>. DEFINE next == [call[c] EXCEPT !.step = "bid_take", !.row = rows[call[c].listing]]
      <4>2. Return(c) \/ call' = [call EXCEPT ![c] = next]
        BY <2>3 DEF BidRead
      <4>3. next.step = "bid_take"
        BY <4>1 DEF Call
      <4>. HIDE DEF next
      <4>. QED  BY <1>0, <4>2, <4>3, ReturnStep DEF TypeOK
    <3>3. Cover(m)' = Cover(m)
      BY <1>0, <2>1, <3>1, <3>2, OtherCover DEF Bidding
    <3>. QED  BY <3>1, <3>3 DEF CoinsInv, Covered
  <2>4. CASE BidEscrow(c)
    <3>1. Cover(m)' = Cover(m) /\ rows' = rows
      BY <1>0, <2>1, <2>4, EscrowCover DEF BidEscrow
    <3>. QED  BY <3>1 DEF CoinsInv, Covered
  <2>5. CASE BidRefund(c)
    <3>1. Cover(m)' \in Int /\ Cover(m)' >= Cover(m) /\ rows' = rows
      BY <1>0, <2>1, <2>5, RefundCover DEF BidRefund
    <3>2. Cover(m) >= new
      BY <3>1 DEF CoinsInv, Covered
    <3>. HIDE DEF new
    <3>. QED  BY <1>11, <3>1, <3>2
  <2>6. CASE OtherOperation(c)
    <3>1. /\ call[c].step \notin HasRead /\ call'[c].step \notin HasRead
          /\ UNCHANGED <<held, unpaid>>
      BY <1>0, <2>6, OtherSteps
    <3>2. Cover(m)' = Cover(m)
      BY <1>0, <2>1, <3>1, OtherCover DEF HasRead, Bidding
    <3>3. \A d \in Clients : ~BidTake(d)
      <4>. SUFFICES ASSUME NEW d \in Clients, BidTake(d) PROVE FALSE
        OBVIOUS
      <4>1. call[d].step = "bid_take" /\ (Return(d) \/ Goto(d, "bid_escrow"))
        BY DEF BidTake, At
      <4>2. call'[d].step # "bid_take"
        BY <1>0, <4>1, ReturnStep, GotoStep DEF TradeSteps
      <4>. QED  BY <2>1, <3>1, <4>1, <4>2 DEF HasRead
    <3>. QED  BY <1>2, <3>2, <3>3
  <2>. QED  BY <1>4, <2>2, <2>3, <2>4, <2>5, <2>6 DEF Operation, OtherOperation
<1>. QED  BY <1>3, <1>4 DEF Next, Scheduler, ExpireBegin, ExpireNext, TimePasses, vars

\* The house never owes more than it holds: however the bids on a listing overlap,
\* and whoever is refunded twice or not at all, the coins in it, with those still
\* to come and less the refunds still to be paid, cover its highest bid but for
\* what could not be taken (ah_core.py:430-487).
THEOREM HighestBidCovered == Spec => []BidIsCovered
<1>1. CoinsInv /\ [Next]_vars => CoinsInv'
  BY RStep, ReadsKept, CoverKept DEF CoinsInv
<1>2. CoinsInv => BidIsCovered
  BY DEF CoinsInv, Covered, BidIsCovered, Active
<1>. QED  BY CoinsInit, <1>1, <1>2, PTL DEF Spec
-----------------------------------------------------------------------------
(* One operation at a time: coins                                          *)
(*                                                                         *)
(* _eco_deduct answers True for a payment that failed, so a seller can be  *)
(* paid with coins that nobody has lost. With one client and a bridge that *)
(* executes what it is asked for, what was affordable when an operation    *)
(* began still is when it pays, and no coin comes out of nothing.          *)

Purses == SumFunctionOnSet(wallet, Players)
Pots   == SumFunctionOnSet([l \in Listings |-> Pot(l)], Listings)

\* Coins that a purchase has taken from the buyer and not passed on yet
InTransit(k) == IF k.step = "buy_credit" THEN Coins(BinPrice * k.amount) ELSE 0

\* All coins there are, in wallets, in listings and on their way
AllCoins(me) == Purses + Pots + InTransit(call[me])

\* No listing owes coins to the house, and there are never more coins in wallets
\* and listings than there were in the beginning.
NoNewCoins ==
  /\ \A l \in Listings, p \in Players : held[l][p] >= 0
  /\ Purses + Pots <= SumFunctionOnSet(Purse, Players)

\* What a bid in progress refunds is there, whether or not the listing has ended.
RefundThere(k) ==
  k.step \in Bidding /\ k.row.bidder # None =>
    held[k.listing][k.row.bidder] >= Coins(k.row.bid)

\* A purchase that was affordable still is.
BuyerCanPay(k) ==
  k.step \in {"buy_take", "buy_pay"} => wallet[k.player] >= Coins(BinPrice * k.amount)

LedgerInv(me) ==
  /\ RefundInv(me)
  /\ RefundThere(call[me]) /\ BuyerCanPay(call[me])
  /\ \A l \in Listings, p \in Players : held[l][p] >= 0
  /\ AllCoins(me) <= SumFunctionOnSet(Purse, Players)

\* The sums are integers, whatever is in the wallets, the listings and the call.
LEMMA LedgerSums ==
  ASSUME IsFiniteSet(Listings)
  PROVE  /\ \A w \in [Players -> Int] : SumFunctionOnSet(w, Players) \in Int
         /\ \A h \in [Listings -> [Players -> Int]] :
              SumFunctionOnSet([l \in Listings |-> SumFunctionOnSet(h[l], Players)], Listings)
                \in Int
         /\ \A k \in Call \cup {Idle} :
              InTransit(k) \in Int /\ (Quantities \subseteq Nat => InTransit(k) \in Nat)
<1>1. ASSUME NEW w \in [Players -> Int] PROVE SumFunctionOnSet(w, Players) \in Int
  BY SumType, ConstantsAssumption
<1>2. ASSUME NEW h \in [Listings -> [Players -> Int]]
      PROVE  SumFunctionOnSet([l \in Listings |-> SumFunctionOnSet(h[l], Players)], Listings)
               \in Int
  <2>. DEFINE f == [l \in Listings |-> SumFunctionOnSet(h[l], Players)]
  <2>1. \A l \in Listings : f[l] \in Int
    BY SumType, ConstantsAssumption
  <2>. HIDE DEF f
  <2>2. SumFunctionOnSet(f, Listings) \in Int
    BY <2>1, SumType
  <2>. QED  BY <2>2 DEF f
<1>3. ASSUME NEW k \in Call \cup {Idle}
      PROVE  InTransit(k) \in Int /\ (Quantities \subseteq Nat => InTransit(k) \in Nat)
  <2>1. CASE k.step = "buy_credit"
    <3>1. k \in Call
      BY <2>1 DEF Idle
    <3>2. k.amount \in Quantities
      BY <2>1, <3>1 DEF Call, ListSteps, BidSteps, BuySteps, CancelSteps
    <3>. DEFINE n == BinPrice * k.amount
    <3>3. n \in Int /\ (Quantities \subseteq Nat => n \in Nat)
      BY <3>2, PriceTypes, ConstantsAssumption
    <3>4. InTransit(k) = Coins(n)
      BY <2>1 DEF InTransit
    <3>. HIDE DEF n
    <3>. QED  BY <3>3, <3>4, WholeCoins
  <2>. QED  BY <2>1 DEF InTransit
<1>. QED  BY <1>1, <1>2, <1>3

LEMMA LedgerTypes ==
  ASSUME IsFiniteSet(Listings), TypeOK, NEW me \in Clients
  PROVE  Purses \in Int /\ Pots \in Int /\ InTransit(call[me]) \in Int
BY LedgerSums DEF TypeOK, Purses, Pots, Pot

\* One wallet changes.
LEMMA PurseChanges ==
  ASSUME TypeOK, TypeOK', NEW p \in Players,
         \A q \in Players \ {p} : wallet'[q] = wallet[q]
  PROVE  /\ Purses \in Int
         /\ Purses' = Purses + wallet'[p] - wallet[p]
<1>1. \A q \in Players : wallet[q] \in Int /\ wallet'[q] \in Int
  BY DEF TypeOK
<1>2. /\ SumFunctionOnSet(wallet, Players) \in Int
      /\ SumFunctionOnSet(wallet', Players)
           = SumFunctionOnSet(wallet, Players) + wallet'[p] - wallet[p]
  BY <1>1, SumChange, ConstantsAssumption
<1>. QED  BY <1>2 DEF Purses

\* What one player has in one listing changes.
LEMMA PotsChange ==
  ASSUME IsFiniteSet(Listings), TypeOK, TypeOK', NEW l \in Listings, NEW p \in Players,
         NEW n \in Int, held' = [held EXCEPT ![l][p] = n]
  PROVE  /\ Pots \in Int
         /\ Pots' = Pots + n - held[l][p]
<1>. DEFINE f == [m \in Listings |-> Pot(m)]
            g == [m \in Listings |-> Pot(m)']
<1>1. /\ \A q \in Players \ {p} : held'[l][q] = held[l][q]
      /\ held'[l][p] = n /\ held[l][p] \in Int
      /\ \A m \in Listings \ {l} : held'[m] = held[m]
  BY DEF TypeOK
<1>2. Pot(l) \in Int /\ Pot(l)' = Pot(l) + n - held[l][p]
  BY <1>1, PotChanges
<1>3. \A m \in Listings \ {l} : g[m] = f[m]
  BY <1>1 DEF Pot
<1>4. \A m \in Listings : f[m] \in Int
  BY CoverSums
<1>5. f[l] = Pot(l) /\ g[l] = Pot(l)'
  OBVIOUS
<1>6. Pots = SumFunctionOnSet(f, Listings) /\ Pots' = SumFunctionOnSet(g, Listings)
  BY DEF Pots
<1>7. \A m \in Listings : g[m] \in Int
  <2>1. g[l] \in Int
    BY <1>1, <1>2, <1>5
  <2>. QED  BY <1>3, <1>4, <2>1
<1>. HIDE DEF f, g
<1>8. /\ SumFunctionOnSet(f, Listings) \in Int
      /\ SumFunctionOnSet(g, Listings) = SumFunctionOnSet(f, Listings) + g[l] - f[l]
  BY <1>3, <1>4, <1>7, SumChange
<1>. QED  BY <1>1, <1>2, <1>5, <1>6, <1>8

\* The seller is never paid more than the buyer pays, although the fee is taken
\* off the price before the fraction is dropped.
LEMMA PayoutIsLess ==
  ASSUME NEW n \in Nat
  PROVE  Payout(n) <= Coins(n)
<1>. DEFINE fee == n * SaleFee
            m == n * (100 - SaleFee)
            u == 100 * Unit
            paid == m \div u
            coins == n \div Unit
<1>1. fee \in Nat /\ m = 100 * n - fee
  BY ConstantsAssumption
<1>2. m \in Nat /\ u \in Nat \ {0}
  BY ConstantsAssumption
<1>3. /\ paid \in Nat /\ paid * u <= m
      /\ coins \in Nat /\ n < coins * Unit + Unit
  <2>1. paid \in Nat /\ paid * u <= m
    <3>. HIDE DEF m, u
    <3>. QED  BY <1>2, Division
  <2>2. coins \in Nat /\ n < coins * Unit + Unit
    <3>1. Unit \in Nat \ {0} /\ n \in Int
      BY ConstantsAssumption
    <3>. QED  BY <3>1, Division
  <2>. HIDE DEF m, u, paid, coins
  <2>. QED  BY <2>1, <2>2
<1>4. Payout(n) = paid /\ Coins(n) = coins
  BY <1>2 DEF Payout, Coins, Truncated
<1>. HIDE DEF fee, m, paid, coins
<1>5. (coins + 1 - paid) * u > 0
  <2>1. (coins + 1 - paid) * u = 100 * (coins * Unit + Unit) - paid * u
    BY <1>3, ConstantsAssumption
  <2>. DEFINE a == coins * Unit + Unit
              b == paid * u
  <2>2. a \in Nat /\ b \in Nat
    BY <1>2, <1>3, ConstantsAssumption
  <2>3. n < a /\ b <= m
    BY <1>3
  <2>. HIDE DEF a, b
  <2>4. 100 * a - b > 0
    BY <1>1, <2>2, <2>3
  <2>. QED  BY <2>1, <2>4 DEF a, b
<1>6. paid <= coins
  <2>1. CASE coins + 1 - paid > 0
    BY <1>3, <2>1
  <2>2. CASE coins + 1 - paid <= 0
    <3>. HIDE DEF u
    <3>1. (coins + 1 - paid) * u <= 0
      BY <1>2, <1>3, <2>2
    <3>. QED  BY <1>2, <1>3, <1>5, <3>1
  <2>. QED  BY <1>3, <2>1, <2>2
<1>. QED  BY <1>4, <1>6

\* The arithmetic of a sum of which one term falls
LEMMA SumFalls ==
  ASSUME NEW a \in Int, NEW b \in Int, a <= b, NEW n \in Int
  PROVE  a + n <= b + n
OBVIOUS

\* A fee is paid or not; nobody else gets the coins.
LEMMA FeeLedger ==
  ASSUME IsFiniteSet(Listings), TypeOK, TypeOK', NEW me \in Clients,
         ListFee(me) \/ CancelPay(me)
  PROVE  /\ call'[me].step \in {"idle", "list_insert"} /\ held' = held
         /\ AllCoins(me)' <= AllCoins(me)
<1>. DEFINE p == call[me].player
            fee == IF call[me].step = "list_fee" THEN ListingFee ELSE CancelFee
<1>1. /\ call[me].step \in {"list_fee", "cancel_fee"}
      /\ Goto(me, "list_insert") \/ Return(me)
      /\ Deduct(p, fee) /\ held' = held
  BY DEF ListFee, CancelPay, At
<1>2. p \in Players /\ fee \in Nat
  <2>1. call[me] \in Call \cup {Idle}
    BY DEF TypeOK
  <2>. QED  BY <1>1, <2>1, ConstantsAssumption DEF Call, Idle
<1>3. call'[me].step \in {"idle", "list_insert"}
  BY <1>1, ReturnStep, GotoStep DEF ListSteps, TradeSteps
<1>4. InTransit(call[me]) = 0 /\ InTransit(call'[me]) = 0 /\ Pots' = Pots
  BY <1>1, <1>3 DEF InTransit, Pots, Pot
<1>5. Purses \in Int /\ Purses' \in Int /\ Purses' <= Purses
  <2>. HIDE DEF p, fee
  <2>1. CASE Take(p, fee)
    <3>1. /\ \A q \in Players \ {p} : wallet'[q] = wallet[q]
          /\ wallet'[p] = wallet[p] - fee /\ wallet[p] \in Int
      BY <1>2, <2>1 DEF Take, TypeOK
    <3>. QED  BY <1>2, <3>1, PurseChanges
  <2>2. CASE NotTaken(p, fee)
    BY <2>2, LedgerTypes DEF NotTaken, Purses
  <2>. QED  BY <1>1, <2>1, <2>2 DEF Deduct
<1>6. Pots \in Int
  BY LedgerTypes
<1>7. AllCoins(me) = Purses + Pots /\ AllCoins(me)' = Purses' + Pots
  BY <1>4, <1>5, <1>6 DEF AllCoins
<1>8. Purses' + Pots <= Purses + Pots
  BY <1>5, <1>6, SumFalls
<1>9. AllCoins(me)' <= AllCoins(me)
  BY <1>7, <1>8
<1>. QED  BY <1>1, <1>3, <1>9

\* The coins of a bid go from the wallet into the listing.
LEMMA EscrowLedger ==
  ASSUME NEW me, IsFiniteSet(Listings), Clients = {me}, Reliable,
         LedgerInv(me), TypeOK', BidEscrow(me)
  PROVE  /\ \A l \in Listings, p \in Players : held'[l][p] >= held[l][p]
         /\ RefundThere(call[me])'
         /\ AllCoins(me)' = AllCoins(me)
<1>0. /\ TypeOK /\ me \in Clients /\ call[me].step = "bid_escrow"
      /\ PurseOK(call[me]) /\ RefundThere(call[me])
  BY DEF LedgerInv, RefundInv, BidEscrow, At
<1>1. PICK l \in Listings, p \in Players, r \in Row :
        call[me].listing = l /\ call[me].player = p /\ call[me].row = r
  BY <1>0, TradeCall DEF TradeSteps
<1>. DEFINE n == Coins(call[me].amount)
<1>8. n \in Nat
  BY <1>0, TradeCall, WholeCoins DEF TradeSteps, BidSteps
<1>2. Take(p, n) /\ held' = [held EXCEPT ![l][p] = @ + n]
  <2>1. wallet[p] \in Int /\ wallet[p] >= n
    BY <1>0, <1>1 DEF PurseOK, TypeOK
  <2>2. ~NotTaken(p, n)
    <3>. HIDE DEF n
    <3>. QED  BY <1>8, <2>1 DEF NotTaken
  <2>. QED  BY <1>1, <2>2 DEF BidEscrow
<1>. HIDE DEF n
<1>3. /\ wallet[p] \in Int /\ wallet'[p] = wallet[p] - n
      /\ \A q \in Players \ {p} : wallet'[q] = wallet[q]
  BY <1>0, <1>2 DEF Take, TypeOK
<1>4. \A m \in Listings, q \in Players : held[m][q] \in Int /\ held'[m][q] >= held[m][q]
  BY <1>0, <1>2, <1>8 DEF TypeOK
<1>5. \/ call'[me].step = "idle"
      \/ /\ call'[me].step = "bid_refund" /\ call'[me].listing = l
         /\ call'[me].row = r
  BY <1>0, <1>1, ReturnStep, GotoStep DEF BidEscrow, TradeSteps
<1>6. RefundThere(call[me])'
  <2>1. CASE call'[me].step = "idle"
    BY <2>1 DEF RefundThere, Bidding
  <2>2. CASE /\ call'[me].step = "bid_refund" /\ call'[me].listing = l
             /\ call'[me].row = r /\ r.bidder # None
    <3>. DEFINE back == Coins(r.bid)
    <3>1. r.bidder \in Players /\ back \in Int
      BY <2>2, RowTypes, WholeCoins DEF Row
    <3>2. held[l][r.bidder] >= back
      BY <1>0, <1>1, <2>2 DEF RefundThere, Bidding
    <3>3. held'[l][r.bidder] \in Int
      BY <3>1 DEF TypeOK
    <3>4. held'[l][r.bidder] >= back
      <4>. HIDE DEF back
      <4>. QED  BY <1>4, <3>1, <3>2, <3>3
    <3>. QED  BY <2>2, <3>4 DEF RefundThere
  <2>. QED  BY <1>5, <2>1, <2>2 DEF RefundThere
<1>7. AllCoins(me)' = AllCoins(me)
  <2>1. Purses \in Int /\ Purses' = Purses - n
    BY <1>0, <1>3, <1>8, PurseChanges
  <2>2. Pots \in Int /\ Pots' = Pots + n
    <3>1. held[l][p] \in Int /\ held[l][p] + n \in Int
      BY <1>0, <1>8 DEF TypeOK
    <3>2. held' = [held EXCEPT ![l][p] = held[l][p] + n]
      BY <1>2
    <3>3. Pots \in Int /\ Pots' = Pots + (held[l][p] + n) - held[l][p]
      BY <1>0, <3>1, <3>2, PotsChange
    <3>. QED  BY <1>8, <3>1, <3>3
  <2>3. InTransit(call[me]) = 0 /\ InTransit(call'[me]) = 0
    BY <1>0, <1>5 DEF InTransit
  <2>. QED  BY <1>8, <2>1, <2>2, <2>3 DEF AllCoins
<1>. QED  BY <1>4, <1>6, <1>7

\* A refund goes from the listing back into a wallet.
LEMMA RefundLedger ==
  ASSUME NEW me, IsFiniteSet(Listings), Clients = {me}, Reliable,
         LedgerInv(me), TypeOK', BidRefund(me)
  PROVE  /\ \A l \in Listings, p \in Players : held'[l][p] >= 0
         /\ call'[me].step = "idle"
         /\ AllCoins(me)' = AllCoins(me)
<1>0. /\ TypeOK /\ me \in Clients /\ call[me].step = "bid_refund"
      /\ call'[me].step = "idle" /\ call[me].row.bidder # None /\ RefundThere(call[me])
      /\ \A l \in Listings, p \in Players : held[l][p] >= 0
  BY ReturnStep DEF LedgerInv, RefundInv, PurseOK, BidRefund, At
<1>1. PICK l \in Listings, r \in Row : call[me].listing = l /\ call[me].row = r
  BY <1>0, TradeCall DEF TradeSteps
<1>2. PICK p \in Players, n \in Int : r.bidder = p /\ Coins(r.bid) = n
  <2>1. r.bidder \in Players /\ Coins(r.bid) \in Int
    BY <1>0, <1>1, RowTypes, WholeCoins DEF Row
  <2>. QED  BY <2>1
<1>3. /\ wallet' = [wallet EXCEPT ![p] = @ + n]
      /\ held' = [held EXCEPT ![l][p] = held[l][p] - n]
  BY <1>1, <1>2 DEF BidRefund
<1>4. held[l][p] \in Int /\ held[l][p] >= n /\ held[l][p] - n \in Int
  BY <1>0, <1>1, <1>2 DEF TypeOK, RefundThere, Bidding
<1>5. ASSUME NEW m \in Listings, NEW q \in Players PROVE held'[m][q] >= 0
  <2>1. held'[m][q] = IF m = l /\ q = p THEN held[l][p] - n ELSE held[m][q]
    BY <1>0, <1>3 DEF TypeOK
  <2>. QED  BY <1>0, <1>4, <2>1
<1>6. Purses \in Int /\ Purses' = Purses + n
  <2>1. /\ wallet[p] \in Int /\ wallet'[p] = wallet[p] + n
        /\ \A q \in Players \ {p} : wallet'[q] = wallet[q]
    BY <1>0, <1>3 DEF TypeOK
  <2>. QED  BY <1>0, <2>1, PurseChanges
<1>7. Pots \in Int /\ Pots' = Pots - n
  <2>1. Pots \in Int /\ Pots' = Pots + (held[l][p] - n) - held[l][p]
    BY <1>0, <1>3, <1>4, PotsChange
  <2>. QED  BY <1>4, <2>1
<1>8. InTransit(call[me]) = 0 /\ InTransit(call'[me]) = 0
  BY <1>0 DEF InTransit
<1>. QED  BY <1>0, <1>5, <1>6, <1>7, <1>8 DEF AllCoins

\* The buyer pays, and the coins are on their way.
LEMMA PayLedger ==
  ASSUME NEW me, IsFiniteSet(Listings), Clients = {me}, Reliable,
         LedgerInv(me), TypeOK', BuyPay(me)
  PROVE  call'[me].step = "buy_credit" /\ held' = held /\ AllCoins(me)' = AllCoins(me)
<1>0. /\ TypeOK /\ me \in Clients /\ call[me].step = "buy_pay" /\ held' = held
      /\ BuyerCanPay(call[me])
  BY DEF LedgerInv, RefundInv, BuyPay, At
<1>1. PICK p \in Players, q \in Int : call[me].player = p /\ call[me].amount = q
  BY <1>0, TradeCall DEF TradeSteps
<1>. DEFINE n == Coins(BinPrice * q)
<1>2. n \in Int /\ Deduct(p, n) /\ wallet[p] >= n
  BY <1>0, <1>1, PriceTypes, WholeCoins DEF BuyPay, BuyerCanPay
<1>3. call'[me].step = "buy_credit" /\ call'[me].amount = q
  BY <1>0, <1>1, GotoStep DEF BuyPay, TradeSteps
<1>4. InTransit(call[me]) = 0 /\ InTransit(call'[me]) = n
  BY <1>0, <1>3 DEF InTransit
<1>. HIDE DEF n
<1>5. /\ wallet[p] \in Int /\ wallet'[p] = wallet[p] - n
      /\ \A x \in Players \ {p} : wallet'[x] = wallet[x]
  BY <1>0, <1>2 DEF Deduct, NotTaken, Take, TypeOK
<1>6. Purses \in Int /\ Purses' = Purses - n
  BY <1>0, <1>2, <1>5, PurseChanges
<1>7. Pots \in Int /\ Pots' = Pots
  BY <1>0, LedgerTypes DEF Pots, Pot
<1>. QED  BY <1>0, <1>2, <1>3, <1>4, <1>6, <1>7 DEF AllCoins

\* The seller gets what is left of them after the fee.
LEMMA CreditLedger ==
  ASSUME NEW me, IsFiniteSet(Listings), Clients = {me}, Reliable, Quantities \subseteq Nat,
         LedgerInv(me), TypeOK', BuyCredit(me)
  PROVE  call'[me].step = "buy_give" /\ held' = held /\ AllCoins(me)' <= AllCoins(me)
<1>0. TypeOK /\ me \in Clients /\ call[me].step = "buy_credit" /\ held' = held
  BY DEF LedgerInv, RefundInv, BuyCredit, At
<1>1. PICK q \in Nat : call[me].amount = q
  BY <1>0, TradeCall DEF TradeSteps, BuySteps
<1>. DEFINE price == BinPrice * q
            n == Coins(price)
            out == Payout(price)
            s == call[me].row.seller
<1>2. n \in Nat /\ out \in Nat /\ out <= n
  <2>1. price \in Nat
    BY PriceTypes
  <2>. HIDE DEF price
  <2>. QED  BY <2>1, WholeCoins, PayoutTypes, PayoutIsLess
<1>3. call'[me].step = "buy_give"
  BY <1>0, GotoStep DEF BuyCredit, TradeSteps
<1>4. InTransit(call[me]) = n /\ InTransit(call'[me]) = 0
  BY <1>0, <1>1, <1>3 DEF InTransit
<1>5. wallet' = [wallet EXCEPT ![s] = @ + out]
  BY <1>1 DEF BuyCredit, Credit
<1>. HIDE DEF price, n, out, s
<1>6. Purses \in Int /\ Purses' \in Int /\ Purses' <= Purses + out
  <2>1. CASE s \in Players
    <3>1. /\ wallet[s] \in Int /\ wallet'[s] = wallet[s] + out
          /\ \A x \in Players \ {s} : wallet'[x] = wallet[x]
      BY <1>0, <1>5, <2>1 DEF TypeOK
    <3>. QED  BY <1>0, <1>2, <2>1, <3>1, PurseChanges
  <2>2. CASE s \notin Players
    <3>1. wallet' = wallet
      BY <1>0, <1>5, <2>2 DEF TypeOK
    <3>. QED  BY <1>0, <1>2, <3>1, LedgerTypes DEF Purses
  <2>. QED  BY <2>1, <2>2
<1>7. Pots \in Int /\ Pots' = Pots
  BY <1>0, LedgerTypes DEF Pots, Pot
<1>8. AllCoins(me) = (Purses + n) + Pots /\ AllCoins(me)' = Purses' + Pots
  BY <1>2, <1>4, <1>6, <1>7 DEF AllCoins
<1>9. Purses + n \in Int /\ Purses' <= Purses + n
  BY <1>2, <1>6
<1>10. Purses' + Pots <= (Purses + n) + Pots
  BY <1>6, <1>7, <1>9, SumFalls
<1>11. AllCoins(me)' <= AllCoins(me)
  BY <1>8, <1>10
<1>. QED  BY <1>0, <1>3, <1>11

\* The steps that move no coins, and where they lead
Costless(c) ==
  \/ ListBegin(c) \/ ListSelect(c) \/ ListRecheck(c) \/ ListInsert(c)
  \/ BidBegin(c) \/ BidRead(c) \/ BidTake(c)
  \/ BuyBegin(c) \/ BuyCheck(c) \/ BuyTake(c) \/ BuyGive(c)
  \/ CancelBegin(c) \/ CancelGive(c)

LEMMA CostlessSteps ==
  ASSUME TypeOK, NEW c \in Clients, Costless(c)
  PROVE  /\ UNCHANGED <<wallet, held>>
         /\ call[c].step # "buy_credit" /\ call'[c].step # "buy_credit"
         /\ call'[c].step \in Bidding => BidTake(c)
         /\ call'[c].step \in {"buy_take", "buy_pay"} => BuyCheck(c) \/ BuyTake(c)
<1>1. CASE ListBegin(c) \/ BidBegin(c) \/ BuyBegin(c) \/ CancelBegin(c)
  BY <1>1, BeginStep DEF ListBegin, BidBegin, BuyBegin, CancelBegin, Bidding
<1>2. CASE ListSelect(c) \/ ListRecheck(c) \/ ListInsert(c)
  <2>1. call[c].step \in ListSteps /\ UNCHANGED <<wallet, held>>
    BY <1>2 DEF ListSelect, ListRecheck, ListInsert, At, ListSteps
  <2>2. Return(c) \/ Goto(c, "list_recheck") \/ Goto(c, "list_fee")
    BY <1>2 DEF ListSelect, ListRecheck, ListInsert
  <2>3. call'[c].step \in {"idle", "list_recheck", "list_fee"}
    BY <2>1, <2>2, ReturnStep, GotoStep
  <2>. QED  BY <2>1, <2>3 DEF Bidding, ListSteps
<1>3. CASE BidRead(c)
  <2>1. call[c].step = "bid_read" /\ UNCHANGED <<wallet, held>> /\ call[c] \in Call
    BY <1>3, TradeCall DEF BidRead, At, TradeSteps
  <2>2. CASE Return(c)
    <3>1. call'[c].step = "idle"
      BY <2>2, ReturnStep
    <3>. QED  BY <2>1, <3>1 DEF Bidding
  <2>3. CASE call' = [call EXCEPT ![c] =
               [call[c] EXCEPT !.step = "bid_take", !.row = rows[call[c].listing]]]
    <3>. DEFINE row == rows[call[c].listing]
    <3>1. call'[c] = [call[c] EXCEPT !.step = "bid_take", !.row = row]
      BY <2>3 DEF TypeOK
    <3>2. call'[c].step = "bid_take"
      BY <2>1, <3>1 DEF Call
    <3>. QED  BY <2>1, <3>2 DEF Bidding
  <2>. QED  BY <1>3, <2>2, <2>3 DEF BidRead
<1>4. CASE BidTake(c)
  <2>1. call[c].step = "bid_take" /\ UNCHANGED <<wallet, held>>
        /\ (Return(c) \/ Goto(c, "bid_escrow"))
    BY <1>4 DEF BidTake, At
  <2>2. call'[c].step \in {"idle", "bid_escrow"}
    BY <2>1, ReturnStep, GotoStep DEF TradeSteps
  <2>. QED  BY <1>4, <2>1, <2>2
<1>5. CASE BuyCheck(c) \/ BuyTake(c)
  <2>1. /\ call[c].step \in {"buy_check", "buy_take"} /\ UNCHANGED <<wallet, held>>
        /\ Return(c) \/ Goto(c, "buy_take") \/ Goto(c, "buy_pay")
    BY <1>5 DEF BuyCheck, BuyTake, TakePart, TakeWhole, At
  <2>2. call'[c].step \in {"idle", "buy_take", "buy_pay"}
    BY <2>1, ReturnStep, GotoStep DEF TradeSteps
  <2>. QED  BY <1>5, <2>1, <2>2 DEF Bidding
<1>6. CASE BuyGive(c) \/ CancelGive(c)
  <2>1. /\ call[c].step \in {"buy_give", "cancel_give"} /\ UNCHANGED <<wallet, held>>
        /\ Return(c) \/ Goto(c, "cancel_fee")
    BY <1>6 DEF BuyGive, CancelGive, At
  <2>2. call'[c].step \in {"idle", "cancel_fee"}
    BY <2>1, ReturnStep, GotoStep DEF TradeSteps
  <2>. QED  BY <2>1, <2>2 DEF Bidding
<1>. QED  BY <1>1, <1>2, <1>3, <1>4, <1>5, <1>6 DEF Costless

\* They leave the ledger in order: a bid that is stored has read what is in the
\* listing, and a purchase that goes on was affordable.
LEMMA CostlessLedger ==
  ASSUME NEW me, IsFiniteSet(Listings), Clients = {me}, Reliable,
         LedgerInv(me), TypeOK', Costless(me)
  PROVE  RefundThere(call[me])' /\ BuyerCanPay(call[me])'
<1>0. /\ TypeOK /\ me \in Clients /\ BuyerCanPay(call[me])
      /\ \A l \in Listings : EscrowOK(call[me], l)
      /\ wallet' = wallet /\ held' = held
  BY CostlessSteps DEF LedgerInv, RefundInv
<1>1. CASE BidTake(me)
  <2>0. call[me].step = "bid_take"
    BY <1>1 DEF BidTake, At
  <2>1. PICK l \in Listings, r \in Row : call[me].listing = l /\ call[me].row = r
    BY <1>0, <2>0, TradeCall DEF TradeSteps
  <2>2. CASE Return(me)
    <3>1. call'[me].step = "idle"
      BY <1>0, <2>2, ReturnStep
    <3>. QED  BY <3>1 DEF RefundThere, BuyerCanPay, Bidding
  <2>3. CASE Active(l) /\ Goto(me, "bid_escrow")
    <3>1. call'[me].step = "bid_escrow" /\ call'[me].listing = l /\ call'[me].row = r
      BY <1>0, <2>0, <2>1, <2>3, GotoStep DEF TradeSteps
    <3>2. /\ rows[l].bid = r.bid /\ rows[l].bidder = r.bidder
          /\ \A p \in Players : held[l][p] = Stake(rows[l], p)
      BY <1>0, <2>0, <2>1, <2>3 DEF EscrowOK, Expected
    <3>3. Coins(r.bid) \in Int /\ (r.bidder # None => r.bidder \in Players)
      BY RowTypes, WholeCoins DEF Row
    <3>4. r.bidder # None => held[l][r.bidder] >= Coins(r.bid)
      <4>1. r.bidder # None => held[l][r.bidder] = Coins(r.bid)
        BY <3>2, <3>3 DEF Stake
      <4>. HIDE DEF Coins
      <4>. QED  BY <3>3, <4>1
    <3>. QED  BY <1>0, <3>1, <3>4 DEF RefundThere, BuyerCanPay
  <2>. QED  BY <1>1, <2>1, <2>2, <2>3 DEF BidTake
<1>2. CASE BuyCheck(me) \/ BuyTake(me)
  <2>1. call[me].step \in {"buy_check", "buy_take"}
    BY <1>2 DEF BuyCheck, BuyTake, At
  <2>2. \/ Return(me)
        \/ /\ Goto(me, "buy_take") \/ Goto(me, "buy_pay")
           /\ wallet[call[me].player] >= Coins(BinPrice * call[me].amount)
    BY <1>0, <1>2, <2>1
       DEF BuyCheck, BuyTake, At, TakePart, TakeWhole, Affordable, BuyerCanPay
  <2>3. CASE Return(me)
    <3>1. call'[me].step = "idle"
      BY <1>0, <2>3, ReturnStep
    <3>. QED  BY <3>1 DEF RefundThere, BuyerCanPay, Bidding
  <2>4. CASE /\ Goto(me, "buy_take") \/ Goto(me, "buy_pay")
             /\ wallet[call[me].player] >= Coins(BinPrice * call[me].amount)
    <3>1. /\ call'[me].step \in {"buy_take", "buy_pay"}
          /\ call'[me].player = call[me].player /\ call'[me].amount = call[me].amount
      BY <1>0, <2>1, <2>4, GotoStep DEF TradeSteps
    <3>. QED  BY <1>0, <2>4, <3>1 DEF RefundThere, BuyerCanPay, Bidding
  <2>. QED  BY <2>2, <2>3, <2>4
<1>3. CASE ~(BidTake(me) \/ BuyCheck(me) \/ BuyTake(me))
  BY <1>0, <1>3, CostlessSteps DEF RefundThere, BuyerCanPay
<1>. QED  BY <1>1, <1>2, <1>3

\* Every step of a single client keeps the ledger.
LEMMA LedgerStep ==
  ASSUME NEW me, IsFiniteSet(Listings), Clients = {me}, Reliable, Quantities \subseteq Nat,
         LedgerInv(me), [Next]_vars
  PROVE  LedgerInv(me)'
<1>. DEFINE k == call[me]
            total == SumFunctionOnSet(Purse, Players)
<1>0. /\ me \in Clients /\ TypeOK /\ TypeOK' /\ RefundInv(me)'
      /\ \A l \in Listings, p \in Players : held[l][p] >= 0 /\ held[l][p] \in Int
      /\ AllCoins(me) \in Int /\ AllCoins(me)' \in Int /\ total \in Int /\ AllCoins(me) <= total
  <2>1. RefundInv(me) /\ RefundInv(me)' /\ me \in Clients
    BY RefundStep DEF LedgerInv
  <2>2. TypeOK /\ TypeOK'
    BY <2>1 DEF RefundInv
  <2>3. Purses \in Int /\ Pots \in Int /\ InTransit(call[me]) \in Int
    BY <2>1, <2>2, LedgerTypes
  <2>4. Purses' \in Int /\ Pots' \in Int /\ InTransit(call'[me]) \in Int
    BY <2>1, <2>2, LedgerSums DEF TypeOK, Purses, Pots, Pot
  <2>5. total \in Int
    <3>1. \A q \in Players : Purse[q] \in Int
      BY ConstantsAssumption
    <3>. QED  BY <3>1, SumType, ConstantsAssumption
  <2>6. \A l \in Listings, p \in Players : held[l][p] >= 0 /\ held[l][p] \in Int
    BY <2>2 DEF LedgerInv, TypeOK
  <2>. QED  BY <2>1, <2>2, <2>3, <2>4, <2>5, <2>6 DEF AllCoins, LedgerInv
<1>. HIDE DEF total
<1>1. CASE ListFee(me) \/ CancelPay(me)
  <2>1. /\ call'[me].step \in {"idle", "list_insert"} /\ held' = held
        /\ AllCoins(me)' <= AllCoins(me)
    BY <1>0, <1>1, FeeLedger
  <2>. QED  BY <1>0, <2>1 DEF LedgerInv, RefundThere, BuyerCanPay, Bidding, total
<1>2. CASE BidEscrow(me)
  <2>1. /\ \A l \in Listings, p \in Players : held'[l][p] >= held[l][p]
        /\ RefundThere(call[me])' /\ AllCoins(me)' = AllCoins(me)
    BY <1>0, <1>2, EscrowLedger
  <2>2. \A l \in Listings, p \in Players : held'[l][p] >= 0
    <3>1. \A l \in Listings, p \in Players : held'[l][p] \in Int
      BY <1>0 DEF TypeOK
    <3>. QED  BY <1>0, <2>1, <3>1
  <2>3. call'[me].step \in {"idle", "bid_refund"}
    BY <1>0, <1>2, ReturnStep, GotoStep DEF BidEscrow, At, TradeSteps
  <2>. QED  BY <1>0, <2>1, <2>2, <2>3 DEF LedgerInv, BuyerCanPay, total
<1>3. CASE BidRefund(me)
  <2>1. /\ \A l \in Listings, p \in Players : held'[l][p] >= 0
        /\ call'[me].step = "idle" /\ AllCoins(me)' = AllCoins(me)
    BY <1>0, <1>3, RefundLedger
  <2>. QED  BY <1>0, <2>1 DEF LedgerInv, RefundThere, BuyerCanPay, Bidding, total
<1>4. CASE BuyPay(me) \/ BuyCredit(me)
  <2>1. /\ call'[me].step \in {"buy_credit", "buy_give"} /\ held' = held
        /\ AllCoins(me)' <= AllCoins(me)
    BY <1>0, <1>4, PayLedger, CreditLedger
  <2>. QED  BY <1>0, <2>1 DEF LedgerInv, RefundThere, BuyerCanPay, Bidding, total
<1>5. CASE Costless(me)
  <2>1. /\ RefundThere(call[me])' /\ BuyerCanPay(call[me])'
    BY <1>0, <1>5, CostlessLedger
  <2>2. /\ held' = held /\ Purses' = Purses /\ Pots' = Pots
        /\ InTransit(call[me]) = 0 /\ InTransit(call'[me]) = 0
    BY <1>0, <1>5, CostlessSteps DEF Purses, Pots, Pot, InTransit
  <2>3. AllCoins(me)' = AllCoins(me)
    BY <2>2 DEF AllCoins
  <2>. QED  BY <1>0, <2>1, <2>2, <2>3 DEF LedgerInv, total
<1>6. CASE UNCHANGED <<call, wallet, held>>
  <2>1. AllCoins(me)' = AllCoins(me)
    BY <1>6 DEF AllCoins, Purses, Pots, Pot
  <2>. QED  BY <1>0, <1>6, <2>1 DEF LedgerInv, RefundThere, BuyerCanPay, total
<1>7. Operation(me) \/ UNCHANGED <<call, wallet, held>>
  BY DEF Next, Scheduler, ExpireBegin, ExpireNext, TimePasses, vars
<1>. QED  BY <1>1, <1>2, <1>3, <1>4, <1>5, <1>6, <1>7 DEF Operation, Costless

\* One operation at a time, over a bridge that does what it is asked, and unless
\* less than no items are bought, which the code does not see to: whatever is bid,
\* bought, cancelled and refunded, whatever fractions are dropped, and whatever the
\* scheduler ends in between, the players never have more coins than they began
\* with, in their wallets and in the listings together (ah_core.py:89-103, 430-487,
\* 538-625).
THEOREM OneAtATimeCoins ==
  ASSUME NEW me, Clients = {me}, Reliable, IsFiniteSet(Listings), Quantities \subseteq Nat
  PROVE  Spec => []NoNewCoins
<1>1. Init => LedgerInv(me)
  <2>. SUFFICES ASSUME Init PROVE LedgerInv(me)
    OBVIOUS
  <2>1. TypeOK /\ Asks /\ me \in Clients
    BY InitInvariant DEF IInv
  <2>2. /\ call[me] = Idle /\ wallet = Purse
        /\ \A l \in Listings : rows[l] = Absent /\ \A p \in Players : held[l][p] = 0
    BY DEF Init
  <2>3. RefundInv(me)
    BY <2>1, <2>2 DEF RefundInv, PurseOK, EscrowOK, Active, Absent, Idle, HasRead, Bidding
  <2>4. Pots = 0
    <3>. DEFINE f == [l \in Listings |-> Pot(l)]
    <3>1. \A l \in Listings : f[l] = 0
      BY <2>2, SumZero, ConstantsAssumption DEF Pot
    <3>. HIDE DEF f
    <3>2. SumFunctionOnSet(f, Listings) = 0
      BY <3>1, SumZero
    <3>. QED  BY <3>2 DEF f, Pots
  <2>5. Purses \in Int /\ Purses = SumFunctionOnSet(Purse, Players)
    BY <2>1, <2>2, LedgerTypes DEF Purses
  <2>. QED  BY <2>2, <2>3, <2>4, <2>5
            DEF LedgerInv, RefundThere, BuyerCanPay, AllCoins, InTransit, Idle, Bidding
<1>2. LedgerInv(me) /\ [Next]_vars => LedgerInv(me)'
  BY LedgerStep
<1>3. LedgerInv(me) => NoNewCoins
  <2>. SUFFICES ASSUME LedgerInv(me) PROVE Purses + Pots <= SumFunctionOnSet(Purse, Players)
    BY DEF LedgerInv, NoNewCoins
  <2>1. Purses \in Int /\ Pots \in Int /\ InTransit(call[me]) \in Nat
    BY LedgerSums DEF LedgerInv, RefundInv, TypeOK, Purses, Pots, Pot
  <2>2. SumFunctionOnSet(Purse, Players) \in Int
    <3>1. \A q \in Players : Purse[q] \in Int
      BY ConstantsAssumption
    <3>. QED  BY <3>1, SumType, ConstantsAssumption
  <2>. QED  BY <2>1, <2>2 DEF LedgerInv, AllCoins
<1>. QED  BY <1>1, <1>2, <1>3, PTL DEF Spec
=============================================================================
