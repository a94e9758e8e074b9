------------------------ MODULE AuctionHouseProofs ------------------------
(***************************************************************************)
(* Theorems about AuctionHouse for every set of players, clients and       *)
(* listings, every price and fee, with and without a reliable bridge.      *)
(*                                                                         *)
(* The inductive invariant adds to the types that a purchase about to be   *)
(* stored asks for no more than it has read of, without which the types do *)
(* not last, and that an active listing has not been claimed yet; the two  *)
(* action properties need no more than that.                               *)
(*                                                                         *)
(* OutbidIsRefunded, ItemsConserved and HighestBidderWins do not hold of   *)
(* the specification: see the runs auction_refund, auction_items and       *)
(* auction_expiry. The last parts prove each of them where the one race    *)
(* that breaks it cannot happen.                                           *)
(***************************************************************************)
EXTENDS AuctionHouse, TLAPS

USE ConstantsAssumption

Unclaimed ==
  \A l \in Listings : rows[l].status \in {"none", "active"} => claims[l] = 0

\* Nobody is about to take more than was read to be there.
Asks ==
  \A c \in Clients : call[c].step = "buy_take" => call[c].amount <= call[c].row.count

IInv == TypeOK /\ Asks /\ Unclaimed /\ OneTaker

\* The steps of all operations on a listing that exists
TradeSteps ==
  { "bid_read", "bid_take", "bid_escrow", "bid_refund", "buy_check", "buy_take", "buy_pay",
    "buy_credit", "buy_give", "cancel_give", "cancel_fee" }

-----------------------------------------------------------------------------
(* Whole coins *)

\* Division by a positive number, as far as it is needed:
LEMMA Division ==
  ASSUME NEW n \in Int, NEW u \in Nat \ {0}
  PROVE  /\ n \div u \in Int
         /\ (n \div u) * u <= n /\ n < (n \div u) * u + u
         /\ n \in Nat => n \div u \in Nat
         /\ 0 \div u = 0
BY SMTT(20)

\* more divided is no less.
LEMMA DivisionRises ==
  ASSUME NEW n \in Int, NEW m \in Int, NEW u \in Nat \ {0}, n <= m
  PROVE  n \div u <= m \div u
<1>. DEFINE a == n \div u
            b == m \div u
<1>1. a \in Int /\ b \in Int /\ a * u <= n /\ m < b * u + u
  BY Division
<1>. HIDE DEF a, b
<1>2. SUFFICES ASSUME a > b PROVE FALSE
  BY <1>1
<1>3. a - b - 1 \in Nat
  BY <1>1, <1>2
<1>4. (a - b - 1) * u >= 0
  BY <1>3
<1>5. (a - b - 1) * u = a * u - b * u - u
  BY <1>1
<1>. QED  BY <1>1, <1>4, <1>5

\* int() of a float is an int, of none it is none, and it is at most
\* int() of anything higher.
LEMMA Truncation ==
  ASSUME NEW n \in Int, NEW u \in Nat \ {0}
  PROVE  /\ Truncated(n, u) \in Int
         /\ n \in Nat => Truncated(n, u) \in Nat
         /\ Truncated(0, u) = 0
         /\ \A m \in Int : n <= m => Truncated(n, u) <= Truncated(m, u)
<1>1. -n \in Int /\ n \div u \in Int /\ (-n) \div u \in Int
  BY Division
<1>2. Truncated(n, u) \in Int
  BY <1>1 DEF Truncated
<1>3. n \in Nat => Truncated(n, u) \in Nat
  BY Division DEF Truncated
<1>4. Truncated(0, u) = 0
  BY Division DEF Truncated
<1>5. ASSUME NEW m \in Int, n <= m
      PROVE  Truncated(n, u) <= Truncated(m, u)
  <2>1. -m \in Int /\ m \div u \in Int /\ (-m) \div u \in Int
    BY Division
  <2>2. CASE n >= 0
    BY <1>5, <2>2, DivisionRises DEF Truncated
  <2>3. CASE n < 0 /\ m >= 0
    <3>1. -n \in Nat
      BY <2>3
    <3>2. (-n) \div u \in Nat /\ m \div u \in Nat
      BY <2>3, <3>1, Division
    <3>. QED  BY <2>3, <3>2 DEF Truncated
  <2>4. CASE m < 0
    <3>1. (-m) \div u <= (-n) \div u
      <4>1. -m <= -n
        BY <1>5
      <4>. QED  BY <1>1, <2>1, <4>1, DivisionRises
    <3>. QED  BY <1>1, <1>5, <2>1, <2>4, <3>1 DEF Truncated
  <2>. QED  BY <2>2, <2>3, <2>4
<1>. QED  BY <1>2, <1>3, <1>4, <1>5

\* So it is with the coins of a bid or a price,
LEMMA WholeCoins ==
  ASSUME NEW n \in Int
  PROVE  /\ Coins(n) \in Int
         /\ n \in Nat => Coins(n) \in Nat
         /\ Coins(0) = 0
         /\ \A m \in Int : n <= m => Coins(n) <= Coins(m)
BY Truncation, ConstantsAssumption DEF Coins

\* and with what a seller is paid.
LEMMA PayoutTypes ==
  ASSUME NEW n \in Int
  PROVE  /\ Payout(n) \in Int
         /\ n \in Nat => Payout(n) \in Nat
<1>. DEFINE share == 100 - SaleFee
            m == n * share
            u == 100 * Unit
<1>1. share \in Nat /\ u \in Nat \ {0}
  BY ConstantsAssumption
<1>2. m \in Int /\ (n \in Nat => m \in Nat)
  <2>. HIDE DEF share
  <2>. QED  BY <1>1
<1>3. Truncated(m, u) \in Int /\ (n \in Nat => Truncated(m, u) \in Nat)
  <2>. HIDE DEF m, u
  <2>. QED  BY <1>1, <1>2, Truncation
<1>. QED  BY <1>3 DEF Payout

\* A price is a number, and none if nothing is bought.
LEMMA PriceTypes ==
  ASSUME NEW q \in Int
  PROVE  BinPrice * q \in Int /\ (q \in Nat => BinPrice * q \in Nat)
BY ConstantsAssumption

\* What a listing may hold and be sold for are numbers.
LEMMA StockTypes == Stock \subseteq Int /\ Price \subseteq Int /\ Nat \subseteq Price
<1>1. BinPrice * ItemCount \in Int
  BY PriceTypes, ConstantsAssumption
<1>2. Price \subseteq Int /\ Nat \subseteq Price
  BY <1>1 DEF Price
<1>3. Stock \subseteq Int
  BY ConstantsAssumption DEF Stock
<1>. QED  BY <1>2, <1>3

\* The fields of a row that are numbers
LEMMA RowTypes ==
  ASSUME NEW row \in Row
  PROVE  row.count \in Int /\ row.bid \in Int /\ row.price \in Int
<1>1. row.count \in Stock /\ row.bid \in Price /\ row.price \in Price
  BY DEF Row
<1>. QED  BY <1>1, StockTypes

-----------------------------------------------------------------------------
(* The steps of a call *)

\* A call stays well typed when it goes on with another step of its kind.
LEMMA StepTypes ==
  ASSUME TypeOK, NEW c \in Clients, NEW step, Goto(c, step),
         \/ call[c].step \in ListSteps /\ step \in ListSteps
         \/ call[c].step \in BidSteps /\ step \in BidSteps
         \/ call[c].step \in BuySteps /\ step \in BuySteps
         \/ call[c].step \in CancelSteps /\ step \in CancelSteps
  PROVE  call' \in [Clients -> Call \cup {Idle}]
<1>1. call[c] \in Call \cup {Idle}
  BY DEF TypeOK
<1>2. call[c] \in Call
  BY <1>1 DEF Idle, ListSteps, BidSteps, BuySteps, CancelSteps
<1>3. [call[c] EXCEPT !.step = step] \in Call
  BY <1>2 DEF Call, ListSteps, BidSteps, BuySteps, CancelSteps
<1>4. call' = [call EXCEPT ![c] = [call[c] EXCEPT !.step = step]]
  BY DEF Goto, TypeOK
<1>. QED  BY <1>3, <1>4 DEF TypeOK

\* A call that ends leaves the others as they are.
LEMMA ReturnTypes ==
  ASSUME TypeOK, NEW c \in Clients, Return(c)
  PROVE  call' \in [Clients -> Call \cup {Idle}]
BY DEF TypeOK, Return

\* What a trading client knows about itself.
LEMMA TradeCall ==
  ASSUME TypeOK, NEW c \in Clients, call[c].step \in TradeSteps
  PROVE  /\ call[c] \in Call
         /\ call[c].listing \in Listings
         /\ call[c].player \in Players
         /\ call[c].amount \in Int
         /\ call[c].step \in BidSteps => call[c].amount \in Bids /\ call[c].amount \in Nat
         /\ call[c].step \in BuySteps => call[c].amount \in Quantities
         /\ call[c].row \in Row
<1>1. call[c] \in Call \cup {Idle}
  BY DEF TypeOK
<1>2. call[c] \in Call
  BY <1>1 DEF Idle, TradeSteps
<1>3. (\A n \in Bids : n \in Nat /\ n \in Int) /\ (\A n \in Quantities : n \in Int)
  BY ConstantsAssumption
<1>4. /\ call[c].player \in Players /\ call[c].row \in Row
      /\ call[c].listing \in Listings
  BY <1>2 DEF Call, ListSteps, TradeSteps
<1>5. call[c].step \in BidSteps => call[c].amount \in Bids
  BY <1>2 DEF Call, ListSteps, BidSteps, BuySteps, CancelSteps
<1>6. call[c].step \in BuySteps => call[c].amount \in Quantities
  BY <1>2 DEF Call, ListSteps, BidSteps, BuySteps, CancelSteps
<1>7. call[c].amount \in Bids \cup Quantities \cup {0}
  BY <1>2 DEF Call
<1>8. call[c].amount \in Int
  <2>1. CASE call[c].amount \in Bids
    BY <1>3, <2>1
  <2>2. CASE call[c].amount \in Quantities
    BY <1>3, <2>2
  <2>3. CASE call[c].amount = 0
    BY <2>3
  <2>. QED  BY <1>7, <2>1, <2>2, <2>3
<1>9. call[c].step \in BidSteps => call[c].amount \in Nat
  BY <1>3, <1>5
<1>. QED  BY <1>2, <1>4, <1>5, <1>6, <1>8, <1>9

\* A payment, of whatever amount, leaves a balance.
LEMMA DeductTypes ==
  ASSUME TypeOK, NEW p \in Players, NEW n \in Int, Deduct(p, n)
  PROVE  wallet' \in [Players -> Int]
<1>1. CASE Take(p, n)
  <2>1. wallet[p] - n \in Int
    BY DEF TypeOK
  <2>. QED  BY <1>1, <2>1 DEF TypeOK, Take
<1>2. CASE NotTaken(p, n)
  BY <1>2 DEF TypeOK, NotTaken
<1>. QED  BY <1>1, <1>2 DEF Deduct

-----------------------------------------------------------------------------
(* Types *)

LEMMA AbsentIsRow == Absent \in Row
BY DEF Absent, Row, Stock, Price

\* The five kinds of operation keep the types, one by one: listing an item,
LEMMA ListTypes ==
  ASSUME TypeOK, NEW c \in Clients,
         \/ ListBegin(c) \/ ListSelect(c) \/ ListRecheck(c)
         \/ ListFee(c) \/ ListInsert(c)
  PROVE  TypeOK'
<1>1. CASE ListBegin(c)
  <2>1. PICK p \in Sellers : Begin(c, "list_select", p, None, 0, Absent)
    BY <1>1 DEF ListBegin
  <2>2. call' = [call EXCEPT ![c] =
                  [step |-> "list_select", player |-> p, listing |-> None,
                   amount |-> 0, row |-> Absent]]
    BY <2>1 DEF Begin
  <2>3. p \in Players
    BY ConstantsAssumption
  <2>4. [step |-> "list_select", player |-> p, listing |-> None,
         amount |-> 0, row |-> Absent] \in Call
    BY <2>3, AbsentIsRow DEF Call, ListSteps
  <2>5. call' \in [Clients -> Call \cup {Idle}]
    BY <2>2, <2>4 DEF TypeOK
  <2>6. UNCHANGED <<rows, due, wallet, batch, held, unpaid, handed, claims>>
    BY <1>1 DEF ListBegin
  <2>. QED  BY <2>5, <2>6 DEF TypeOK
<1>2. CASE ListSelect(c)
  <2>1. Return(c) \/ Goto(c, "list_recheck")
    BY <1>2 DEF ListSelect
  <2>2. call[c].step \in ListSteps /\ "list_recheck" \in ListSteps
    BY <1>2 DEF ListSelect, At, ListSteps
  <2>3. call' \in [Clients -> Call \cup {Idle}]
    BY <2>1, <2>2, ReturnTypes, StepTypes
  <2>4. UNCHANGED <<rows, due, wallet, batch, held, unpaid, handed, claims>>
    BY <1>2 DEF ListSelect
  <2>. QED  BY <2>3, <2>4 DEF TypeOK
<1>3. CASE ListRecheck(c)
  <2>1. Return(c) \/ Goto(c, "list_fee")
    BY <1>3 DEF ListRecheck
  <2>2. call[c].step \in ListSteps /\ "list_fee" \in ListSteps
    BY <1>3 DEF ListRecheck, At, ListSteps
  <2>3. call' \in [Clients -> Call \cup {Idle}]
    BY <2>1, <2>2, ReturnTypes, StepTypes
  <2>4. UNCHANGED <<rows, due, wallet, batch, held, unpaid, handed, claims>>
    BY <1>3 DEF ListRecheck
  <2>. QED  BY <2>3, <2>4 DEF TypeOK
<1>4. CASE ListFee(c)
  <2>1. call[c].step \in ListSteps /\ "list_insert" \in ListSteps
    BY <1>4 DEF ListFee, At, ListSteps
  <2>2. call' \in [Clients -> Call \cup {Idle}]
    BY <1>4, <2>1, StepTypes DEF ListFee
  <2>3. call[c] \in Call
    <3>1. call[c] \in Call \cup {Idle}
      BY DEF TypeOK
    <3>. QED  BY <3>1, <2>1 DEF Idle, ListSteps
  <2>4. call[c].player \in Players
    BY <2>3 DEF Call
  <2>5. wallet' \in [Players -> Int]
    BY <1>4, <2>4, DeductTypes, ConstantsAssumption DEF ListFee
  <2>6. UNCHANGED <<rows, due, batch, held, unpaid, handed, claims>>
    BY <1>4 DEF ListFee
  <2>. QED  BY <2>2, <2>5, <2>6 DEF TypeOK
<1>5. CASE ListInsert(c)
  <2>1. call[c] \in Call
    <3>1. call[c] \in Call \cup {Idle}
      BY DEF TypeOK
    <3>. QED  BY <3>1, <1>5 DEF Idle, ListInsert, At
  <2>2. call[c].player \in Players
    BY <2>1 DEF Call
  <2>. DEFINE new == [status |-> "active", seller |-> call[c].player,
                      count |-> ItemCount, bid |-> 0, bidder |-> None, price |-> 0]
  <2>3. new \in Row
    <3>1. ItemCount \in Stock /\ 0 \in Price
      BY DEF Stock, Price
    <3>. QED  BY <2>2, <3>1 DEF Row
  <2>4. rows' \in [Listings -> Row]
    BY <1>5, <2>3 DEF ListInsert, TypeOK
  <2>5. call' \in [Clients -> Call \cup {Idle}]
    BY <1>5, ReturnTypes DEF ListInsert
  <2>6. UNCHANGED <<due, wallet, batch, held, unpaid, handed, claims>>
    BY <1>5 DEF ListInsert
  <2>. QED  BY <2>4, <2>5, <2>6 DEF TypeOK
<1>. QED  BY <1>1, <1>2, <1>3, <1>4, <1>5

\* bidding, which adds to the escrow and what is owed,
LEMMA BidTypes ==
  ASSUME TypeOK, NEW c \in Clients,
         \/ BidBegin(c) \/ BidRead(c) \/ BidTake(c)
         \/ BidEscrow(c) \/ BidRefund(c)
  PROVE  TypeOK'
<1>1. CASE BidBegin(c)
  <2>1. PICK p \in Players, l \in Listings, n \in Bids :
          Begin(c, "bid_read", p, l, n, Absent)
    BY <1>1 DEF BidBegin
  <2>2. call' = [call EXCEPT ![c] =
                  [step |-> "bid_read", player |-> p, listing |-> l,
                   amount |-> n, row |-> Absent]]
    BY <2>1 DEF Begin
  <2>4. [step |-> "bid_read", player |-> p, listing |-> l,
         amount |-> n, row |-> Absent] \in Call
    BY AbsentIsRow DEF Call, BidSteps
  <2>5. call' \in [Clients -> Call \cup {Idle}]
    BY <2>2, <2>4 DEF TypeOK
  <2>6. UNCHANGED <<rows, due, wallet, batch, held, unpaid, handed, claims>>
    BY <1>1 DEF BidBegin
  <2>. QED  BY <2>5, <2>6 DEF TypeOK
<1>2. CASE BidRead(c)
  <2>. DEFINE k == call[c]
              row == rows[k.listing]
              next == [k EXCEPT !.step = "bid_take", !.row = row]
  <2>1. call[c].step \in BidSteps /\ "bid_take" \in BidSteps
    BY <1>2 DEF BidRead, At, BidSteps
  <2>2. k \in Call /\ k.listing \in Listings
    BY <2>1, TradeCall DEF BidSteps, TradeSteps
  <2>3. row \in Row
    BY <2>2 DEF TypeOK
  <2>4. next \in Call
    BY <2>1, <2>2, <2>3 DEF Call, ListSteps, BidSteps, BuySteps, CancelSteps
  <2>5. call' = [call EXCEPT ![c] = next] \/ Return(c)
    BY <1>2 DEF BidRead
  <2>6. call' \in [Clients -> Call \cup {Idle}]
    BY <2>4, <2>5, ReturnTypes DEF TypeOK
  <2>7. UNCHANGED <<rows, due, wallet, batch, held, unpaid, handed, claims>>
    BY <1>2 DEF BidRead
  <2>. QED  BY <2>6, <2>7 DEF TypeOK
<1>3. CASE BidTake(c)
  <2>. DEFINE k == call[c]
              l == k.listing
  <2>1. call[c].step \in BidSteps /\ "bid_escrow" \in BidSteps
    BY <1>3 DEF BidTake, At, BidSteps
  <2>2. l \in Listings /\ k.player \in Players /\ k.amount \in Nat
    BY <2>1, TradeCall DEF BidSteps, TradeSteps
  <2>3. rows[l] \in Row
    BY <2>2 DEF TypeOK
  <2>4. [rows[l] EXCEPT !.bid = k.amount, !.bidder = k.player] \in Row
    BY <2>2, <2>3, StockTypes DEF Row
  <2>5. \/ rows' = [rows EXCEPT ![l] = [@ EXCEPT !.bid = k.amount, !.bidder = k.player]]
        \/ rows' = rows
    BY <1>3 DEF BidTake
  <2>6. rows' \in [Listings -> Row]
    BY <2>4, <2>5 DEF TypeOK
  <2>7. Goto(c, "bid_escrow") \/ Return(c)
    BY <1>3 DEF BidTake
  <2>8. call' \in [Clients -> Call \cup {Idle}]
    BY <2>1, <2>7, ReturnTypes, StepTypes
  <2>9. UNCHANGED <<due, wallet, batch, held, unpaid, handed, claims>>
    BY <1>3 DEF BidTake
  <2>. QED  BY <2>6, <2>8, <2>9 DEF TypeOK
<1>4. CASE BidEscrow(c)
  <2>. DEFINE k == call[c]
              l == k.listing
              n == Coins(k.amount)
  <2>1. call[c].step \in BidSteps /\ "bid_refund" \in BidSteps
    BY <1>4 DEF BidEscrow, At, BidSteps
  <2>2. l \in Listings /\ k.player \in Players /\ k.amount \in Nat
    BY <2>1, TradeCall DEF BidSteps, TradeSteps
  <2>. n \in Nat
    BY <2>2, WholeCoins
  <2>3. Deduct(k.player, n)
    BY <1>4 DEF BidEscrow, Deduct
  <2>4. wallet' \in [Players -> Int]
    <3>. HIDE DEF n
    <3>. QED  BY <2>2, <2>3, DeductTypes
  <2>5. held[l][k.player] + n \in Int /\ unpaid[l] + n \in Nat
    <3>. HIDE DEF n
    <3>. QED  BY <2>2 DEF TypeOK
  <2>6. /\ held' = [held EXCEPT ![l][k.player] = @ + n] \/ held' = held
        /\ unpaid' = [unpaid EXCEPT ![l] = @ + n] \/ unpaid' = unpaid
    BY <1>4 DEF BidEscrow
  <2>7. held' \in [Listings -> [Players -> Int]]
    <3>. HIDE DEF n
    <3>. DEFINE mine == [held[l] EXCEPT ![k.player] = @ + n]
    <3>1. held[l] \in [Players -> Int]
      BY <2>2 DEF TypeOK
    <3>2. held[l][k.player] + n \in Int
      BY <2>5
    <3>3. mine \in [Players -> Int]
      BY <3>1, <3>2
    <3>4. held' = [held EXCEPT ![l] = mine] \/ held' = held
      BY <2>6
    <3>5. held \in [Listings -> [Players -> Int]]
      BY DEF TypeOK
    <3>. HIDE DEF mine
    <3>. QED  BY <3>3, <3>4, <3>5
  <2>8. unpaid' \in [Listings -> Nat]
    <3>. HIDE DEF n
    <3>. QED  BY <2>5, <2>6 DEF TypeOK
  <2>9. Goto(c, "bid_refund") \/ Return(c)
    BY <1>4 DEF BidEscrow
  <2>10. call' \in [Clients -> Call \cup {Idle}]
    BY <2>1, <2>9, ReturnTypes, StepTypes
  <2>11. UNCHANGED <<rows, due, batch, handed, claims>>
    BY <1>4 DEF BidEscrow
  <2>. QED  BY <2>4, <2>7, <2>8, <2>10, <2>11 DEF TypeOK
<1>5. CASE BidRefund(c)
  <2>. DEFINE k == call[c]
              l == k.listing
              p == k.row.bidder
              n == Coins(k.row.bid)
  <2>1. call[c].step \in TradeSteps
    BY <1>5 DEF BidRefund, At, TradeSteps
  <2>2. l \in Listings /\ k.row \in Row
    BY <2>1, TradeCall
  <2>3. n \in Int
    BY <2>2, RowTypes, WholeCoins
  <2>4. wallet' = [wallet EXCEPT ![p] = @ + n] \/ wallet' = wallet
    BY <1>5 DEF BidRefund
  <2>5. wallet' \in [Players -> Int]
    <3>. HIDE DEF n, p
    <3>. QED  BY <2>3, <2>4 DEF TypeOK
  <2>6. held' = [held EXCEPT ![l][p] = @ - n] \/ held' = held
    BY <1>5 DEF BidRefund
  <2>7. held' \in [Listings -> [Players -> Int]]
    <3>. HIDE DEF n
    <3>. DEFINE mine == [held[l] EXCEPT ![p] = @ - n]
    <3>1. held[l] \in [Players -> Int]
      BY <2>2 DEF TypeOK
    <3>2. mine \in [Players -> Int]
      <4>1. CASE p \in Players
        <5>1. held[l][p] - n \in Int
          BY <2>3, <3>1, <4>1
        <5>. QED  BY <3>1, <5>1
      <4>2. CASE p \notin Players
        <5>1. mine = held[l]
          BY <3>1, <4>2
        <5>. QED  BY <3>1, <5>1
      <4>. QED  BY <4>1, <4>2
    <3>3. held' = [held EXCEPT ![l] = mine] \/ held' = held
      BY <2>6
    <3>4. held \in [Listings -> [Players -> Int]]
      BY DEF TypeOK
    <3>. HIDE DEF mine
    <3>. QED  BY <3>2, <3>3, <3>4
  <2>8. call' \in [Clients -> Call \cup {Idle}]
    BY <1>5, ReturnTypes DEF BidRefund
  <2>9. UNCHANGED <<rows, due, batch, unpaid, handed, claims>>
    BY <1>5 DEF BidRefund
  <2>. QED  BY <2>5, <2>7, <2>8, <2>9 DEF TypeOK
<1>. QED  BY <1>1, <1>2, <1>3, <1>4, <1>5

\* buying,
LEMMA BuyTypes ==
  ASSUME TypeOK, Asks, NEW c \in Clients,
         \/ BuyBegin(c) \/ BuyCheck(c) \/ BuyTake(c)
         \/ BuyPay(c) \/ BuyCredit(c) \/ BuyGive(c)
  PROVE  TypeOK'
<1>1. CASE BuyBegin(c)
  <2>1. PICK p \in Players, l \in Listings, q \in Quantities :
          Begin(c, "buy_check", p, l, q, rows[l])
    BY <1>1 DEF BuyBegin
  <2>2. call' = [call EXCEPT ![c] =
                  [step |-> "buy_check", player |-> p, listing |-> l,
                   amount |-> q, row |-> rows[l]]]
    BY <2>1 DEF Begin
  <2>3. rows[l] \in Row
    BY DEF TypeOK
  <2>4. [step |-> "buy_check", player |-> p, listing |-> l,
         amount |-> q, row |-> rows[l]] \in Call
    BY <2>3 DEF Call, BuySteps
  <2>5. call' \in [Clients -> Call \cup {Idle}]
    BY <2>2, <2>4 DEF TypeOK
  <2>6. UNCHANGED <<rows, due, wallet, batch, held, unpaid, handed, claims>>
    BY <1>1 DEF BuyBegin
  <2>. QED  BY <2>5, <2>6 DEF TypeOK
<1>2. CASE BuyCheck(c)
  <2>1. call[c].step \in BuySteps /\ "buy_take" \in BuySteps
    BY <1>2 DEF BuyCheck, At, BuySteps
  <2>2. Goto(c, "buy_take") \/ Return(c)
    BY <1>2 DEF BuyCheck
  <2>3. call' \in [Clients -> Call \cup {Idle}]
    BY <2>1, <2>2, ReturnTypes, StepTypes
  <2>4. UNCHANGED <<rows, due, wallet, batch, held, unpaid, handed, claims>>
    BY <1>2 DEF BuyCheck
  <2>. QED  BY <2>3, <2>4 DEF TypeOK
<1>3. CASE BuyTake(c)
  <2>. DEFINE k == call[c]
              l == k.listing
  <2>1. call[c].step \in BuySteps /\ "buy_pay" \in BuySteps
    BY <1>3 DEF BuyTake, At, BuySteps
  <2>2. /\ l \in Listings /\ k.player \in Players
        /\ k.amount \in Int /\ k.row \in Row
    BY <2>1, TradeCall DEF BuySteps, TradeSteps
  <2>3. rows[l] \in Row /\ k.row.count \in Stock /\ k.row.count \in Int
    BY <2>2, RowTypes DEF TypeOK, Row
  <2>4. rows' \in [Listings -> Row]
    <3>1. CASE TakePart(c)
      <4>. DEFINE n == k.row.count - k.amount
      <4>1. n \in Stock
        BY <2>2, <2>3, <3>1 DEF TakePart, Stock
      <4>2. [rows[l] EXCEPT !.count = n] \in Row
        <5>. HIDE DEF n
        <5>. QED  BY <2>2, <2>3, <4>1 DEF Row
      <4>3. rows' = [rows EXCEPT ![l] = [rows[l] EXCEPT !.count = n]]
        BY <3>1 DEF TakePart
      <4>. QED  BY <4>2, <4>3 DEF TypeOK
    <3>2. CASE TakeWhole(c)
      <4>. DEFINE n == BinPrice * k.amount
      <4>1. n \in Price
        <5>1. k.amount = k.row.count
          BY <1>3, <2>2, <2>3, <3>2 DEF Asks, BuyTake, At, TakeWhole
        <5>2. CASE k.row.count \in Nat
          BY <5>1, <5>2, PriceTypes, StockTypes
        <5>3. CASE k.row.count = ItemCount
          BY <5>1, <5>3 DEF Price
        <5>. QED  BY <2>3, <5>2, <5>3 DEF Stock
      <4>2. Sold(rows[l], k.player, n) \in Row
        <5>. HIDE DEF n
        <5>. QED  BY <2>2, <2>3, <4>1 DEF Sold, Row
      <4>3. rows' = [rows EXCEPT ![l] = Sold(rows[l], k.player, n)] \/ rows' = rows
        BY <3>2 DEF TakeWhole
      <4>. QED  BY <4>2, <4>3 DEF TypeOK
    <3>. QED  BY <1>3, <3>1, <3>2 DEF BuyTake
  <2>5. claims' \in [Listings -> Nat]
    <3>1. claims' = [claims EXCEPT ![l] = @ + 1] \/ claims' = claims
      BY <1>3 DEF BuyTake, TakePart, TakeWhole
    <3>. QED  BY <2>2, <3>1 DEF TypeOK
  <2>6. Goto(c, "buy_pay") \/ Return(c)
    BY <1>3 DEF BuyTake, TakePart, TakeWhole
  <2>7. call' \in [Clients -> Call \cup {Idle}]
    BY <2>1, <2>6, ReturnTypes, StepTypes
  <2>8. UNCHANGED <<due, wallet, batch, held, unpaid, handed>>
    BY <1>3 DEF BuyTake
  <2>. QED  BY <2>4, <2>5, <2>7, <2>8 DEF TypeOK
<1>4. CASE BuyPay(c)
  <2>. DEFINE n == Coins(BinPrice * call[c].amount)
  <2>1. call[c].step \in BuySteps /\ "buy_credit" \in BuySteps
    BY <1>4 DEF BuyPay, At, BuySteps
  <2>2. call[c].player \in Players /\ call[c].amount \in Int
    BY <2>1, TradeCall DEF BuySteps, TradeSteps
  <2>3. wallet' \in [Players -> Int]
    <3>1. Deduct(call[c].player, n)
      BY <1>4 DEF BuyPay
    <3>2. n \in Int
      BY <2>2, PriceTypes, WholeCoins
    <3>. HIDE DEF n
    <3>. QED  BY <2>2, <3>1, <3>2, DeductTypes
  <2>4. call' \in [Clients -> Call \cup {Idle}]
    BY <1>4, <2>1, StepTypes DEF BuyPay
  <2>5. UNCHANGED <<rows, due, batch, held, unpaid, handed, claims>>
    BY <1>4 DEF BuyPay
  <2>. QED  BY <2>3, <2>4, <2>5 DEF TypeOK
<1>5. CASE BuyCredit(c)
  <2>. DEFINE n == Payout(BinPrice * call[c].amount)
              p == call[c].row.seller
  <2>1. call[c].step \in BuySteps /\ "buy_give" \in BuySteps
    BY <1>5 DEF BuyCredit, At, BuySteps
  <2>2. n \in Int
    <3>1. call[c].amount \in Int
      BY <2>1, TradeCall DEF BuySteps, TradeSteps
    <3>. QED  BY <3>1, PriceTypes, PayoutTypes
  <2>3. wallet' = [wallet EXCEPT ![p] = @ + n] \/ wallet' = wallet
    BY <1>5 DEF BuyCredit, Credit
  <2>4. wallet' \in [Players -> Int]
    <3>. HIDE DEF n, p
    <3>. QED  BY <2>2, <2>3 DEF TypeOK
  <2>5. call' \in [Clients -> Call \cup {Idle}]
    BY <1>5, <2>1, StepTypes DEF BuyCredit
  <2>6. UNCHANGED <<rows, due, batch, held, unpaid, handed, claims>>
    BY <1>5 DEF BuyCredit
  <2>. QED  BY <2>4, <2>5, <2>6 DEF TypeOK
<1>6. CASE BuyGive(c)
  <2>. DEFINE l == call[c].listing
  <2>1. call[c].step \in TradeSteps
    BY <1>6 DEF BuyGive, At, TradeSteps
  <2>2. call[c].amount \in Int /\ l \in Listings
    BY <2>1, TradeCall
  <2>3. handed' = [handed EXCEPT ![l] = @ + Given(call[c].amount)]
    BY <1>6 DEF BuyGive
  <2>4. handed[l] + Given(call[c].amount) \in Nat
    BY <2>2 DEF TypeOK, Given
  <2>5. handed' \in [Listings -> Nat]
    BY <2>3, <2>4 DEF TypeOK
  <2>6. call' \in [Clients -> Call \cup {Idle}]
    BY <1>6, ReturnTypes DEF BuyGive
  <2>7. UNCHANGED <<rows, due, wallet, batch, held, unpaid, claims>>
    BY <1>6 DEF BuyGive
  <2>. QED  BY <2>5, <2>6, <2>7 DEF TypeOK
<1>. QED  BY <1>1, <1>2, <1>3, <1>4, <1>5, <1>6

\* cancelling, which gives the escrow back,
LEMMA CancelTypes ==
  ASSUME TypeOK, NEW c \in Clients,
         CancelBegin(c) \/ CancelGive(c) \/ CancelPay(c)
  PROVE  TypeOK'
<1>1. CASE CancelBegin(c)
  <2>1. PICK p \in Players, l \in Listings :
          /\ rows' = [rows EXCEPT ![l].status = "cancelled"]
          /\ claims' = [claims EXCEPT ![l] = @ + 1]
          /\ Begin(c, "cancel_give", p, l, 0, Absent)
    BY <1>1 DEF CancelBegin
  <2>2. rows' \in [Listings -> Row]
    <3>1. rows[l] \in Row
      BY DEF TypeOK
    <3>2. [rows[l] EXCEPT !.status = "cancelled"] \in Row
      BY <3>1 DEF Row
    <3>. QED  BY <2>1, <3>2 DEF TypeOK
  <2>3. claims' \in [Listings -> Nat]
    BY <2>1 DEF TypeOK
  <2>4. call' = [call EXCEPT ![c] =
                  [step |-> "cancel_give", player |-> p, listing |-> l,
                   amount |-> 0, row |-> Absent]]
    BY <2>1 DEF Begin
  <2>5. [step |-> "cancel_give", player |-> p, listing |-> l,
         amount |-> 0, row |-> Absent] \in Call
    BY AbsentIsRow DEF Call, CancelSteps
  <2>6. call' \in [Clients -> Call \cup {Idle}]
    BY <2>4, <2>5 DEF TypeOK
  <2>7. UNCHANGED <<due, wallet, batch, held, unpaid, handed>>
    BY <1>1 DEF CancelBegin
  <2>. QED  BY <2>2, <2>3, <2>6, <2>7 DEF TypeOK
<1>2. CASE CancelGive(c)
  <2>. DEFINE l == call[c].listing
  <2>1. call[c].step \in CancelSteps /\ "cancel_fee" \in CancelSteps
    BY <1>2 DEF CancelGive, At, CancelSteps
  <2>2. l \in Listings
    BY <2>1, TradeCall DEF CancelSteps, TradeSteps
  <2>3. handed[l] + Given(rows[l].count) \in Nat
    <3>1. rows[l].count \in Int
      BY <2>2, RowTypes DEF TypeOK
    <3>. QED  BY <2>2, <3>1 DEF TypeOK, Given
  <2>4. handed' = [handed EXCEPT ![l] = @ + Given(rows[l].count)]
    BY <1>2 DEF CancelGive
  <2>5. handed' \in [Listings -> Nat]
    BY <2>3, <2>4 DEF TypeOK
  <2>6. Goto(c, "cancel_fee") \/ Return(c)
    BY <1>2 DEF CancelGive
  <2>7. call' \in [Clients -> Call \cup {Idle}]
    BY <2>1, <2>6, ReturnTypes, StepTypes
  <2>8. UNCHANGED <<rows, due, wallet, batch, held, unpaid, claims>>
    BY <1>2 DEF CancelGive
  <2>. QED  BY <2>5, <2>7, <2>8 DEF TypeOK
<1>3. CASE CancelPay(c)
  <2>1. call[c].step \in TradeSteps
    BY <1>3 DEF CancelPay, At, TradeSteps
  <2>2. call[c].player \in Players
    BY <2>1, TradeCall
  <2>3. wallet' \in [Players -> Int]
    BY <1>3, <2>2, DeductTypes, ConstantsAssumption DEF CancelPay
  <2>4. call' \in [Clients -> Call \cup {Idle}]
    BY <1>3, ReturnTypes DEF CancelPay
  <2>5. UNCHANGED <<rows, due, batch, held, unpaid, handed, claims>>
    BY <1>3 DEF CancelPay
  <2>. QED  BY <2>3, <2>4, <2>5 DEF TypeOK
<1>. QED  BY <1>1, <1>2, <1>3

\* and the scheduler.
LEMMA SchedulerTypes ==
  ASSUME TypeOK,
         ExpireBegin \/ ExpireNext \/ \E l \in Listings : TimePasses(l)
  PROVE  TypeOK'
<1>1. CASE ExpireBegin
  <2>1. batch' = {[listing |-> l, row |-> rows[l]] : l \in {m \in due : Active(m)}}
    BY <1>1 DEF ExpireBegin
  <2>2. batch' \subseteq [listing : Listings, row : Row]
    BY <2>1 DEF TypeOK
  <2>3. UNCHANGED <<rows, due, wallet, call, held, unpaid, handed, claims>>
    BY <1>1 DEF ExpireBegin
  <2>. QED  BY <2>2, <2>3 DEF TypeOK
<1>2. CASE ExpireNext
  <2>1. PICK e \in batch :
          /\ batch' = batch \ {e}
          /\ \/ /\ rows' = [rows EXCEPT ![e.listing] = Ended(@, e.row)]
                /\ claims' = [claims EXCEPT ![e.listing] = @ + 1]
             \/ UNCHANGED <<rows, claims>>
    BY <1>2 DEF ExpireNext
  <2>2. e.listing \in Listings /\ e.row \in Row
    BY DEF TypeOK
  <2>3. Ended(rows[e.listing], e.row) \in Row
    <3>1. rows[e.listing] \in Row
      BY <2>2 DEF TypeOK
    <3>2. e.row.bid \in Price
      BY <2>2 DEF Row
    <3>. QED  BY <3>1, <3>2 DEF Ended, Row
  <2>4. rows' \in [Listings -> Row]
    BY <2>1, <2>3 DEF TypeOK
  <2>5. claims' \in [Listings -> Nat]
    BY <2>1, <2>2 DEF TypeOK
  <2>6. batch' \subseteq [listing : Listings, row : Row]
    BY <2>1 DEF TypeOK
  <2>7. UNCHANGED <<due, wallet, call, held, unpaid, handed>>
    BY <1>2 DEF ExpireNext
  <2>. QED  BY <2>4, <2>5, <2>6, <2>7 DEF TypeOK
<1>3. CASE \E l \in Listings : TimePasses(l)
  BY <1>3 DEF TimePasses, TypeOK
<1>. QED  BY <1>1, <1>2, <1>3

\* So every step does.
LEMMA AllTypes ==
  ASSUME TypeOK, Asks, [Next]_vars
  PROVE  TypeOK'
<1>1. CASE UNCHANGED vars
  BY <1>1 DEF vars, TypeOK
<1>2. ASSUME NEW c \in Clients, Operation(c)
      PROVE  TypeOK'
  BY <1>2, ListTypes, BidTypes, BuyTypes, CancelTypes DEF Operation
<1>3. CASE Scheduler \/ \E l \in Listings : TimePasses(l)
  BY <1>3, SchedulerTypes DEF Scheduler
<1>. QED  BY <1>1, <1>2, <1>3 DEF Next

-----------------------------------------------------------------------------
(* What a step does to the calls *)

\* A call that returns waits for the next operation.
LEMMA ReturnStep ==
  ASSUME TypeOK, NEW c \in Clients, Return(c)
  PROVE  call'[c] = Idle /\ call'[c].step = "idle"
BY DEF TypeOK, Return, Idle

\* An operation begins where none is under way.
LEMMA BeginStep ==
  ASSUME TypeOK, NEW c \in Clients, NEW step, NEW p, NEW l, NEW n, NEW row,
         Begin(c, step, p, l, n, row)
  PROVE  call[c].step = "idle" /\ call'[c].step = step
BY DEF TypeOK, Begin, Idle

\* A call that goes on changes its step and nothing else.
LEMMA GotoStep ==
  ASSUME TypeOK, NEW c \in Clients, NEW step, Goto(c, step),
         call[c].step \in ListSteps \cup TradeSteps
  PROVE  /\ call'[c].step = step
         /\ call'[c].player = call[c].player /\ call'[c].listing = call[c].listing
         /\ call'[c].amount = call[c].amount /\ call'[c].row = call[c].row
<1>1. call[c] \in Call \cup {Idle}
  BY DEF TypeOK
<1>2. call[c] \in Call
  BY <1>1 DEF Idle, ListSteps, TradeSteps
<1>3. call'[c] = [call[c] EXCEPT !.step = step]
  BY DEF Goto, TypeOK
<1>. QED  BY <1>2, <1>3 DEF Call

\* An operation leaves the other calls alone.
LEMMA OneCall ==
  ASSUME TypeOK, NEW c \in Clients, Operation(c), NEW d \in Clients, d # c
  PROVE  call'[d] = call[d]
<1>1. CASE \E k : call' = [call EXCEPT ![c] = k]
  BY <1>1 DEF TypeOK
<1>2. CASE \E step : Goto(c, step)
  BY <1>2 DEF Goto, TypeOK
<1>3. CASE Return(c)
  BY <1>3 DEF Return, TypeOK
<1>4. CASE \E step, p, l, n, row : Begin(c, step, p, l, n, row)
  BY <1>4 DEF Begin, TypeOK
<1>5. CASE \/ ListBegin(c) \/ ListSelect(c) \/ ListRecheck(c) \/ ListFee(c) \/ ListInsert(c)
  BY <1>2, <1>3, <1>4, <1>5
     DEF ListBegin, ListSelect, ListRecheck, ListFee, ListInsert
<1>6. CASE \/ BidBegin(c) \/ BidRead(c) \/ BidTake(c) \/ BidEscrow(c) \/ BidRefund(c)
  BY <1>1, <1>2, <1>3, <1>4, <1>6
     DEF BidBegin, BidRead, BidTake, BidEscrow, BidRefund
<1>7. CASE \/ BuyBegin(c) \/ BuyCheck(c) \/ BuyTake(c)
           \/ BuyPay(c) \/ BuyCredit(c) \/ BuyGive(c)
  BY <1>2, <1>3, <1>4, <1>7
     DEF BuyBegin, BuyCheck, BuyTake, TakePart, TakeWhole, BuyPay, BuyCredit, BuyGive
<1>8. CASE CancelBegin(c) \/ CancelGive(c) \/ CancelPay(c)
  BY <1>2, <1>3, <1>4, <1>8 DEF CancelBegin, CancelGive, CancelPay
<1>. QED  BY <1>5, <1>6, <1>7, <1>8 DEF Operation

Bidding == {"bid_escrow", "bid_refund"}

\* What is about to be taken was compared with the row that was read.
LEMMA AsksStep ==
  ASSUME TypeOK, Asks, [Next]_vars
  PROVE  Asks'
<1>1. CASE UNCHANGED call
  BY <1>1 DEF Asks
<1>2. ASSUME NEW c \in Clients, Operation(c)
      PROVE  Asks'
  <2>1. CASE BuyCheck(c)
    <3>1. /\ call[c].step = "buy_check"
          /\ Return(c) \/ (Goto(c, "buy_take") /\ call[c].amount <= call[c].row.count)
      BY <2>1 DEF BuyCheck, At
    <3>2. call'[c].step = "buy_take" => call'[c].amount <= call'[c].row.count
      BY <3>1, ReturnStep, GotoStep DEF TradeSteps
    <3>. QED  BY <1>2, <3>2, OneCall DEF Asks
  <2>2. CASE BidRead(c)
    <3>1. call[c] \in Call
      BY <2>2, TradeCall DEF BidRead, At, TradeSteps
    <3>2. call'[c].step # "buy_take"
      <4>. DEFINE next == [call[c] EXCEPT !.step = "bid_take", !.row = rows[call[c].listing]]
      <4>1. CASE call' = [call EXCEPT ![c] = next]
        <5>1. next.step = "bid_take"
          BY <3>1 DEF Call
        <5>. HIDE DEF next
        <5>. QED  BY <4>1, <5>1 DEF TypeOK
      <4>2. CASE Return(c)
        BY <4>2, ReturnStep
      <4>. QED  BY <2>2, <4>1, <4>2 DEF BidRead
    <3>. QED  BY <1>2, <3>2, OneCall DEF Asks
  <2>3. CASE Return(c)
    <3>1. call'[c].step = "idle"
      BY <2>3, ReturnStep
    <3>. QED  BY <1>2, <3>1, OneCall DEF Asks
  <2>4. ASSUME NEW step, Goto(c, step), step # "buy_take",
               call[c].step \in ListSteps \cup TradeSteps
        PROVE  Asks'
    <3>1. call'[c].step = step
      BY <2>4, GotoStep
    <3>. QED  BY <1>2, <2>4, <3>1, OneCall DEF Asks
  <2>5. ASSUME NEW step, NEW p, NEW l, NEW n, NEW row, Begin(c, step, p, l, n, row),
               step # "buy_take"
        PROVE  Asks'
    <3>1. call'[c].step = step
      BY <2>5, BeginStep
    <3>. QED  BY <1>2, <2>5, <3>1, OneCall DEF Asks
  <2>6. CASE ListBegin(c) \/ BidBegin(c) \/ BuyBegin(c) \/ CancelBegin(c)
    BY <2>5, <2>6 DEF ListBegin, BidBegin, BuyBegin, CancelBegin
  <2>7. CASE ListSelect(c) \/ ListRecheck(c) \/ ListFee(c) \/ ListInsert(c)
    BY <2>3, <2>4, <2>7 DEF ListSelect, ListRecheck, ListFee, ListInsert, At, ListSteps
  <2>8. CASE BidTake(c) \/ BidEscrow(c) \/ BidRefund(c)
    BY <2>3, <2>4, <2>8 DEF BidTake, BidEscrow, BidRefund, At, TradeSteps
  <2>9. CASE BuyTake(c) \/ BuyPay(c) \/ BuyCredit(c) \/ BuyGive(c)
    BY <2>3, <2>4, <2>9
       DEF BuyTake, TakePart, TakeWhole, BuyPay, BuyCredit, BuyGive, At, TradeSteps
  <2>10. CASE CancelGive(c) \/ CancelPay(c)
    BY <2>3, <2>4, <2>10 DEF CancelGive, CancelPay, At, TradeSteps
  <2>. QED  BY <1>2, <2>1, <2>2, <2>6, <2>7, <2>8, <2>9, <2>10 DEF Operation
<1>. QED  BY <1>1, <1>2
          DEF Next, vars, Scheduler, ExpireBegin, ExpireNext, TimePasses

\* Types and what is asked for last together.
LEMMA TypesStep ==
  ASSUME TypeOK, Asks, [Next]_vars
  PROVE  TypeOK' /\ Asks'
BY AllTypes, AsksStep

-----------------------------------------------------------------------------
(* The table of listings *)

\* What a step may do to a row. Each line is one of the SQL statements.
RowStep(old, new) ==
  \/ new = old
  \/ /\ \E c \in Clients : ListInsert(c)
     /\ old = Absent
     /\ new.status = "active" /\ new.count = ItemCount /\ new.bid = 0 /\ new.bidder = None
  \/ /\ \E c \in Clients : BidTake(c)
     /\ old.status = "active" /\ new.status = "active"
     /\ new.bid > old.bid /\ new.count = old.count
  \/ /\ \E c \in Clients : BuyTake(c) /\ TakePart(c)
     /\ new = [old EXCEPT !.count = new.count]
  \/ /\ old.status = "active" /\ new.status \in {"sold", "cancelled", "expired"}
     /\ new.count = old.count

\* The number of takers grows only when the listing stops being active.
ClaimStep(l) ==
  \/ /\ claims'[l] = claims[l]
     /\ \/ rows'[l].status = rows[l].status
        \/ rows[l].status = "none" /\ rows'[l].status = "active"
  \/ /\ claims'[l] = claims[l] + 1
     /\ rows[l].status = "active"
     /\ rows'[l].status \in {"sold", "cancelled", "expired"}

\* Every step of every thread treats every row in one of these ways.
LEMMA RowsStep ==
  ASSUME TypeOK, [Next]_vars, NEW m \in Listings
  PROVE  RowStep(rows[m], rows'[m]) /\ ClaimStep(m)
<1>. rows[m] \in Row /\ claims[m] \in Nat
  BY DEF TypeOK
<1>0. ASSUME rows'[m] = rows[m], claims'[m] = claims[m]
      PROVE  RowStep(rows[m], rows'[m]) /\ ClaimStep(m)
  <2>1. RowStep(rows[m], rows'[m])
    BY <1>0 DEF RowStep
  <2>2. ClaimStep(m)
    BY <1>0 DEF ClaimStep
  <2>. QED  BY <2>1, <2>2
<1>1. CASE UNCHANGED <<rows, claims>>
  BY <1>0, <1>1
<1>2. ASSUME NEW c \in Clients, ListInsert(c)
      PROVE  RowStep(rows[m], rows'[m]) /\ ClaimStep(m)
  <2>1. PICK l \in Listings :
          /\ rows[l] = Absent
          /\ rows' = [rows EXCEPT ![l] =
               [ status |-> "active", seller |-> call[c].player, count |-> ItemCount,
                 bid |-> 0, bidder |-> None, price |-> 0 ]]
    BY <1>2 DEF ListInsert
  <2>2. UNCHANGED claims
    BY <1>2 DEF ListInsert
  <2>3. CASE m = l
    <3>1. /\ rows[m] = Absent /\ rows'[m].status = "active"
          /\ rows'[m].count = ItemCount /\ rows'[m].bid = 0 /\ rows'[m].bidder = None
      BY <2>1, <2>3 DEF TypeOK
    <3>2. RowStep(rows[m], rows'[m])
      BY <1>2, <3>1 DEF RowStep
    <3>3. ClaimStep(m)
      BY <2>2, <3>1 DEF ClaimStep, Absent
    <3>. QED  BY <3>2, <3>3
  <2>4. CASE m # l
    <3>1. rows'[m] = rows[m]
      BY <2>1, <2>4 DEF TypeOK
    <3>. QED  BY <1>0, <2>2, <3>1
  <2>. QED  BY <2>3, <2>4
<1>3. ASSUME NEW c \in Clients, BidTake(c)
      PROVE  RowStep(rows[m], rows'[m]) /\ ClaimStep(m)
  <2>. DEFINE l == call[c].listing
              next == [rows[l] EXCEPT !.bid = call[c].amount, !.bidder = call[c].player]
  <2>1. UNCHANGED claims
    BY <1>3 DEF BidTake
  <2>2. CASE Active(l) /\ rows[l].bid < call[c].amount
    <3>1. rows' = [rows EXCEPT ![l] = next]
      BY <1>3, <2>2 DEF BidTake
    <3>2. CASE m = l
      <4>1. rows'[m] = next
        BY <3>1, <3>2 DEF TypeOK
      <4>2. call[c].amount \in Nat /\ rows[m].bid \in Int
        BY <1>3, TradeCall, RowTypes DEF BidTake, At, TradeSteps, BidSteps
      <4>3. /\ next.status = "active" /\ next.bid = call[c].amount
            /\ next.count = rows[m].count
        BY <2>2, <3>2 DEF Active, Row
      <4>4. rows[m].status = "active" /\ rows'[m].bid > rows[m].bid
        BY <2>2, <3>2, <4>1, <4>2, <4>3 DEF Active, Row
      <4>. HIDE DEF next
      <4>5. RowStep(rows[m], rows'[m])
        BY <1>3, <4>1, <4>3, <4>4 DEF RowStep
      <4>6. ClaimStep(m)
        BY <2>1, <4>1, <4>3, <4>4 DEF ClaimStep
      <4>. QED  BY <4>5, <4>6
    <3>3. CASE m # l
      <4>. HIDE DEF l, next
      <4>1. rows'[m] = rows[m]
        BY <3>1, <3>3 DEF TypeOK
      <4>. QED  BY <1>0, <2>1, <4>1
    <3>. QED  BY <3>2, <3>3
  <2>3. CASE ~(Active(l) /\ rows[l].bid < call[c].amount)
    BY <1>1, <1>3, <2>1, <2>3 DEF BidTake
  <2>. QED  BY <2>2, <2>3
<1>4. ASSUME NEW c \in Clients, BuyTake(c)
      PROVE  RowStep(rows[m], rows'[m]) /\ ClaimStep(m)
  <2>. DEFINE k == call[c]
              l == k.listing
  <2>1. CASE TakePart(c)
    <3>1. /\ rows' = [rows EXCEPT ![l].count = k.row.count - k.amount]
          /\ UNCHANGED claims
      BY <2>1 DEF TakePart
    <3>2. CASE m = l
      <4>. DEFINE n == k.row.count - k.amount
      <4>1. rows'[m] = [rows[m] EXCEPT !.count = n]
        BY <3>1, <3>2 DEF TypeOK
      <4>. HIDE DEF n
      <4>2. rows'[m] = [rows[m] EXCEPT !.count = rows'[m].count]
        BY <4>1 DEF Row
      <4>3. rows'[m].status = rows[m].status
        BY <4>1 DEF Row
      <4>4. RowStep(rows[m], rows'[m])
        BY <1>4, <2>1, <4>2 DEF RowStep
      <4>5. ClaimStep(m)
        BY <3>1, <4>3 DEF ClaimStep
      <4>. QED  BY <4>4, <4>5
    <3>3. CASE m # l
      <4>1. rows'[m] = rows[m]
        BY <3>1, <3>3 DEF TypeOK
      <4>. QED  BY <1>0, <3>1, <4>1
    <3>. QED  BY <3>2, <3>3
  <2>2. CASE TakeWhole(c)
    <3>. DEFINE next == Sold(rows[l], k.player, BinPrice * k.amount)
    <3>1. CASE Active(l)
      <4>1. rows' = [rows EXCEPT ![l] = next] /\ claims' = [claims EXCEPT ![l] = @ + 1]
        BY <2>2, <3>1 DEF TakeWhole
      <4>2. CASE m = l
        <5>1. next.status = "sold" /\ next.count = rows[m].count
          BY <4>2 DEF Sold, Row
        <5>2. rows'[m] = next /\ claims'[m] = claims[m] + 1
          BY <4>1, <4>2 DEF TypeOK
        <5>. HIDE DEF next
        <5>. QED  BY <3>1, <4>2, <5>1, <5>2 DEF RowStep, ClaimStep, Active
      <4>3. CASE m # l
        <5>. HIDE DEF l, next
        <5>1. rows'[m] = rows[m] /\ claims'[m] = claims[m]
          BY <4>1, <4>3 DEF TypeOK
        <5>. QED  BY <1>0, <5>1
      <4>. QED  BY <4>2, <4>3
    <3>2. CASE ~Active(l)
      BY <1>1, <2>2, <3>2 DEF TakeWhole
    <3>. QED  BY <3>1, <3>2
  <2>. QED  BY <1>4, <2>1, <2>2 DEF BuyTake
<1>5. ASSUME NEW c \in Clients, CancelBegin(c)
      PROVE  RowStep(rows[m], rows'[m]) /\ ClaimStep(m)
  <2>1. PICK l \in Listings :
          /\ Active(l)
          /\ rows' = [rows EXCEPT ![l].status = "cancelled"]
          /\ claims' = [claims EXCEPT ![l] = @ + 1]
    BY <1>5 DEF CancelBegin
  <2>2. CASE m = l
    <3>1. rows'[m] = [rows[m] EXCEPT !.status = "cancelled"] /\ claims'[m] = claims[m] + 1
      BY <2>1, <2>2 DEF TypeOK
    <3>2. rows'[m].status = "cancelled" /\ rows'[m].count = rows[m].count
      BY <3>1 DEF Row
    <3>. QED  BY <2>1, <2>2, <3>1, <3>2 DEF RowStep, ClaimStep, Active
  <2>3. CASE m # l
    <3>1. rows'[m] = rows[m] /\ claims'[m] = claims[m]
      BY <2>1, <2>3 DEF TypeOK
    <3>. QED  BY <1>0, <3>1
  <2>. QED  BY <2>2, <2>3
<1>6. CASE ExpireNext
  <2>1. PICK e \in batch :
          \/ /\ Active(e.listing)
             /\ rows' = [rows EXCEPT ![e.listing] = Ended(@, e.row)]
             /\ claims' = [claims EXCEPT ![e.listing] = @ + 1]
          \/ UNCHANGED <<rows, claims>>
    BY <1>6 DEF ExpireNext
  <2>2. ASSUME Active(e.listing), m = e.listing,
               rows' = [rows EXCEPT ![e.listing] = Ended(@, e.row)],
               claims' = [claims EXCEPT ![e.listing] = @ + 1]
        PROVE  RowStep(rows[m], rows'[m]) /\ ClaimStep(m)
    <3>1. rows'[m] = Ended(rows[m], e.row) /\ claims'[m] = claims[m] + 1
      BY <2>2 DEF TypeOK
    <3>2. /\ Ended(rows[m], e.row).status \in {"sold", "expired"}
          /\ Ended(rows[m], e.row).count = rows[m].count
      BY DEF Ended, Row
    <3>. QED  BY <2>2, <3>1, <3>2 DEF RowStep, ClaimStep, Active
  <2>3. CASE m = e.listing
    BY <1>1, <2>1, <2>2, <2>3
  <2>4. CASE m # e.listing
    <3>1. rows'[m] = rows[m] /\ claims'[m] = claims[m]
      BY <2>1, <2>4 DEF TypeOK
    <3>. QED  BY <1>0, <3>1
  <2>. QED  BY <2>3, <2>4
<1>7. CASE ~UNCHANGED <<rows, claims>>
  <2>1. Next
    BY <1>7 DEF vars
  <2>2. ASSUME NEW c \in Clients, Operation(c)
        PROVE  ListInsert(c) \/ BidTake(c) \/ BuyTake(c) \/ CancelBegin(c)
    BY <1>7, <2>2
       DEF Operation, ListBegin, ListSelect, ListRecheck, ListFee, BidBegin, BidRead,
           BidEscrow, BidRefund, BuyBegin, BuyCheck, BuyPay, BuyCredit, BuyGive,
           CancelGive, CancelPay
  <2>3. \A l \in Listings : ~TimePasses(l)
    BY <1>7 DEF TimePasses
  <2>4. ~ExpireBegin
    BY <1>7 DEF ExpireBegin
  <2>. QED  BY <1>2, <1>3, <1>4, <1>5, <1>6, <2>1, <2>2, <2>3, <2>4
            DEF Next, Scheduler
<1>. QED  BY <1>1, <1>7

\* The invariant holds in the beginning.
LEMMA InitInvariant == Init => IInv
<1>1. SUFFICES ASSUME Init PROVE IInv
  OBVIOUS
<1>2. TypeOK
  <2>1. rows \in [Listings -> Row]
    BY <1>1, AbsentIsRow DEF Init
  <2>. QED  BY <1>1, <2>1, ConstantsAssumption DEF Init, TypeOK
<1>3. Asks /\ Unclaimed /\ OneTaker
  BY <1>1 DEF Init, Idle, Asks, Unclaimed, OneTaker
<1>. QED  BY <1>2, <1>3 DEF IInv

\* Every step keeps it: a listing that is taken was active, hence unclaimed.
LEMMA StepInvariant == IInv /\ [Next]_vars => IInv'
<1>1. SUFFICES ASSUME IInv, [Next]_vars PROVE IInv'
  OBVIOUS
<1>2. TypeOK /\ TypeOK' /\ Asks'
  BY <1>1, TypesStep DEF IInv
<1>3. ASSUME NEW l \in Listings
      PROVE  /\ rows'[l].status \in {"none", "active"} => claims'[l] = 0
             /\ claims'[l] <= 1
  <2>1. ClaimStep(l)
    BY <1>1, <1>2, RowsStep
  <2>2. /\ rows[l].status \in {"none", "active"} => claims[l] = 0
        /\ claims[l] <= 1
    BY <1>1 DEF IInv, Unclaimed, OneTaker
  <2>. QED  BY <2>1, <2>2 DEF ClaimStep
<1>4. Unclaimed' /\ OneTaker'
  BY <1>3 DEF Unclaimed, OneTaker
<1>. QED  BY <1>2, <1>4 DEF IInv

\* The invariant of rows and claims holds in every behaviour.
LEMMA Inductive == Spec => []IInv
<1>. QED  BY InitInvariant, StepInvariant, PTL DEF Spec

-----------------------------------------------------------------------------
(* The steps of bids *)

\* The steps of a bid that has read its row
HasRead == {"bid_take", "bid_escrow", "bid_refund"}

\* Operations that are no bids, and the beginning of a bid, leave the coins of
\* bids alone.
OtherOperation(c) ==
  \/ ListBegin(c) \/ ListSelect(c) \/ ListRecheck(c) \/ ListFee(c) \/ ListInsert(c)
  \/ BidBegin(c)
  \/ BuyBegin(c) \/ BuyCheck(c) \/ BuyTake(c) \/ BuyPay(c) \/ BuyCredit(c) \/ BuyGive(c)
  \/ CancelBegin(c) \/ CancelGive(c) \/ CancelPay(c)

\* What is not a bid moves no escrow, and comes to the steps of a bid only by
\* beginning one.
LEMMA OtherSteps ==
  ASSUME TypeOK, NEW c \in Clients, OtherOperation(c)
  PROVE  /\ call[c].step \notin HasRead /\ call'[c].step \notin HasRead
         /\ call'[c].step = "bid_read" => BidBegin(c)
         /\ UNCHANGED <<held, unpaid>>
<1>1. CASE ListBegin(c) \/ BidBegin(c) \/ BuyBegin(c) \/ CancelBegin(c)
  BY <1>1, BeginStep DEF ListBegin, BidBegin, BuyBegin, CancelBegin, HasRead
<1>2. CASE ListSelect(c) \/ ListRecheck(c) \/ ListFee(c) \/ ListInsert(c)
  <2>1. call[c].step \in ListSteps /\ UNCHANGED <<held, unpaid>>
    BY <1>2 DEF ListSelect, ListRecheck, ListFee, ListInsert, At, ListSteps
  <2>2. Return(c) \/ Goto(c, "list_recheck") \/ Goto(c, "list_fee") \/ Goto(c, "list_insert")
    BY <1>2 DEF ListSelect, ListRecheck, ListFee, ListInsert
  <2>3. call'[c].step \in {"idle", "list_recheck", "list_fee", "list_insert"}
    BY <2>1, <2>2, ReturnStep, GotoStep
  <2>. QED  BY <2>1, <2>3 DEF HasRead, ListSteps
<1>3. CASE BuyCheck(c) \/ BuyTake(c) \/ BuyPay(c) \/ BuyCredit(c) \/ BuyGive(c)
  <2>1. /\ call[c].step \in {"buy_check", "buy_take", "buy_pay", "buy_credit", "buy_give"}
        /\ UNCHANGED <<held, unpaid>>
    BY <1>3 DEF BuyCheck, BuyTake, BuyPay, BuyCredit, BuyGive, At
  <2>2. Return(c) \/ Goto(c, "buy_take") \/ Goto(c, "buy_pay") \/ Goto(c, "buy_credit")
        \/ Goto(c, "buy_give")
    BY <1>3 DEF BuyCheck, BuyTake, TakePart, TakeWhole, BuyPay, BuyCredit, BuyGive
  <2>3. call'[c].step \in {"idle", "buy_take", "buy_pay", "buy_credit", "buy_give"}
    BY <2>1, <2>2, ReturnStep, GotoStep DEF TradeSteps
  <2>. QED  BY <2>1, <2>3 DEF HasRead
<1>4. CASE CancelGive(c) \/ CancelPay(c)
  <2>1. call[c].step \in {"cancel_give", "cancel_fee"} /\ UNCHANGED <<held, unpaid>>
    BY <1>4 DEF CancelGive, CancelPay, At
  <2>2. Return(c) \/ Goto(c, "cancel_fee")
    BY <1>4 DEF CancelGive, CancelPay
  <2>3. call'[c].step \in {"idle", "cancel_fee"}
    BY <2>1, <2>2, ReturnStep, GotoStep DEF TradeSteps
  <2>. QED  BY <2>1, <2>3 DEF HasRead
<1>. QED  BY <1>1, <1>2, <1>3, <1>4 DEF OtherOperation

-----------------------------------------------------------------------------
(* The theorems *)

\* Every reachable state is well typed: whatever quantities are asked for,
\* negative ones too, and whatever the buyers have read, a listing is left with
\* no fewer than no items and is sold for no less than nothing, unless it was
\* made with fewer (ah_core.py:553-587).
THEOREM TypeCorrect == Spec => []TypeOK
<1>1. IInv => TypeOK
  BY DEF IInv
<1>. QED  BY Inductive, <1>1, PTL

\* However many clients buy, cancel and expire a listing, one of them takes it
\* (ah_core.py:574-587, 736-752, 848-853).
THEOREM OneTakerWins == Spec => []OneTaker
<1>1. IInv => OneTaker
  BY DEF IInv
<1>. QED  BY Inductive, <1>1, PTL

\* No late statement changes how a listing ended.
THEOREM OutcomesStay == Spec => OutcomeIsFinal
<1>1. ASSUME TypeOK, [Next]_vars, NEW l \in Listings,
             rows[l].status \notin {"none", "active"}
      PROVE  rows'[l] = [rows[l] EXCEPT !.count = rows'[l].count]
  <2>1. RowStep(rows[l], rows'[l])
    BY <1>1, RowsStep
  <2>2. rows[l] \in Row
    BY <1>1 DEF TypeOK
  <2>3. CASE rows'[l] = rows[l]
    BY <2>2, <2>3 DEF Row
  <2>. QED  BY <1>1, <2>1, <2>3 DEF RowStep, Absent
<1>2. TypeOK /\ [Next]_vars =>
        [ \A l \in Listings :
            rows[l].status \notin {"none", "active"} =>
              rows'[l] = [rows[l] EXCEPT !.count = rows'[l].count] ]_vars
  BY <1>1
<1>. QED  BY TypeCorrect, <1>2, PTL DEF Spec, OutcomeIsFinal

\* The highest bid of an active listing never falls, and no bid takes the place
\* of an equal one, although every bidder decided on a row it read earlier.
THEOREM BidsRise == Spec => BidsOnlyRise
<1>1. ASSUME TypeOK, [Next]_vars, NEW l \in Listings,
             Active(l), rows'[l].status = "active"
      PROVE  \/ rows'[l].bid = rows[l].bid /\ rows'[l].bidder = rows[l].bidder
             \/ rows'[l].bid > rows[l].bid
  <2>1. RowStep(rows[l], rows'[l])
    BY <1>1, RowsStep
  <2>2. rows[l] \in Row
    BY <1>1 DEF TypeOK
  <2>3. CASE rows'[l] = [rows[l] EXCEPT !.count = rows'[l].count]
    <3>. DEFINE n == rows'[l].count
    <3>1. rows'[l] = [rows[l] EXCEPT !.count = n]
      BY <2>3
    <3>. HIDE DEF n
    <3>. QED  BY <2>2, <3>1 DEF Row
  <2>. QED  BY <1>1, <2>1, <2>3 DEF RowStep, Active, Absent
<1>2. TypeOK /\ [Next]_vars =>
        [ \A l \in Listings :
            Active(l) /\ rows'[l].status = "active" =>
              \/ rows'[l].bid = rows[l].bid /\ rows'[l].bidder = rows[l].bidder
              \/ rows'[l].bid > rows[l].bid ]_vars
  BY <1>1
<1>. QED  BY TypeCorrect, <1>2, PTL DEF Spec, BidsOnlyRise

-----------------------------------------------------------------------------
(* One operation at a time: refunds                                        *)
(*                                                                         *)
(* The run auction_refund shows that two bids at a time can leave a bidder *)
(* without a refund. With one client and a bridge that executes what it is *)
(* asked for nothing of the kind happens, although the scheduler goes on   *)
(* ending listings between any two statements: the race is all there is.   *)

\* What a row says its highest bidder has in it
Stake(row, p) == IF p = row.bidder THEN Coins(row.bid) ELSE 0

\* What a player has in a listing while the bid of call k is in progress
Expected(k, l, p) ==
  CASE k.step = "bid_escrow" /\ k.listing = l -> Stake(k.row, p)
    [] k.step = "bid_refund" /\ k.listing = l ->
         Stake(k.row, p) + (IF p = k.player THEN Coins(k.amount) ELSE 0)
    [] OTHER -> Stake(rows[l], p)

EscrowOK(k, l) ==
  /\ rows[l].status = "none" => \A p \in Players : held[l][p] = 0
  /\ Active(l) => \A p \in Players : held[l][p] = Expected(k, l, p)
  /\ k.step \in HasRead /\ k.listing = l => rows[l].status # "none"
  /\ Active(l) /\ k.step = "bid_take" /\ k.listing = l =>
       rows[l].bid = k.row.bid /\ rows[l].bidder = k.row.bidder
  /\ Active(l) /\ k.step \in Bidding /\ k.listing = l =>
       rows[l].bid = k.amount /\ rows[l].bidder = k.player

\* A bid that was affordable still is, and a refund has somebody to go to.
PurseOK(k) ==
  /\ k.step \in {"bid_read", "bid_take", "bid_escrow"} => wallet[k.player] >= Coins(k.amount)
  /\ k.step = "bid_refund" => k.row.bidder # None

RefundInv(me) ==
  TypeOK /\ Asks /\ PurseOK(call[me]) /\ \A l \in Listings : EscrowOK(call[me], l)

\* The scheduler, and operations that are no bids, leave escrow in order.
LEMMA EscrowQuiet ==
  ASSUME NEW me, Clients = {me}, TypeOK, [Next]_vars, NEW l \in Listings,
         EscrowOK(call[me], l), UNCHANGED held,
         \/ call' = call
         \/ call[me].step \notin HasRead /\ call'[me].step \notin HasRead
  PROVE  EscrowOK(call[me], l)'
<1>. DEFINE k == call[me]
<1>0. rows[l] \in Row /\ RowStep(rows[l], rows'[l])
  BY RowsStep DEF TypeOK
<1>1. ~BidTake(me)
  <2>. SUFFICES ASSUME BidTake(me) PROVE FALSE
    OBVIOUS
  <2>1. k.step = "bid_take" /\ (Return(me) \/ Goto(me, "bid_escrow"))
    BY DEF BidTake, At
  <2>2. call'[me].step # "bid_take"
    BY <2>1, ReturnStep, GotoStep DEF TradeSteps
  <2>. QED  BY <2>1, <2>2 DEF HasRead
<1>2. CASE /\ rows'[l].status = rows[l].status
           /\ rows'[l].bid = rows[l].bid /\ rows'[l].bidder = rows[l].bidder
  <2>1. ASSUME NEW p \in Players PROVE Expected(k, l, p)' = Expected(k, l, p)
    BY <1>2 DEF Expected, Stake, HasRead
  <2>. QED  BY <1>2, <2>1 DEF EscrowOK, Active, HasRead, Bidding
<1>3. CASE /\ \E c \in Clients : ListInsert(c)
           /\ rows[l] = Absent /\ rows'[l].status = "active"
           /\ rows'[l].bid = 0 /\ rows'[l].bidder = None
  <2>1. ListInsert(me)
    BY <1>3
  <2>2. call'[me].step = "idle"
    BY <2>1, ReturnStep DEF ListInsert
  <2>3. \A p \in Players : held[l][p] = 0
    BY <1>3 DEF EscrowOK, Absent
  <2>4. \A p \in Players : Expected(k, l, p)' = 0
    BY <1>3, <2>2, WholeCoins DEF Expected, Stake
  <2>. QED  BY <1>3, <2>2, <2>3, <2>4 DEF EscrowOK, Active, HasRead, Bidding
<1>4. CASE rows'[l].status \in {"sold", "cancelled", "expired"}
  BY <1>4 DEF EscrowOK, Active
<1>5. CASE rows'[l] = [rows[l] EXCEPT !.count = rows'[l].count]
  <2>. DEFINE n == rows'[l].count
  <2>1. rows'[l] = [rows[l] EXCEPT !.count = n]
    BY <1>5
  <2>. HIDE DEF n
  <2>. QED  BY <1>0, <1>2, <2>1 DEF Row
<1>. QED  BY <1>0, <1>1, <1>2, <1>3, <1>4, <1>5 DEF RowStep

\* What a client knows that is about to bid: nothing has changed since it read the
\* row, but that the scheduler may have ended the listing.
LEMMA EscrowRead ==
  ASSUME NEW me, Clients = {me}, RefundInv(me), BidRead(me), NEW l \in Listings
  PROVE  EscrowOK(call[me], l)'
<1>. DEFINE k == call[me]
<1>1. /\ TypeOK /\ k \in Call /\ k.step = "bid_read" /\ k.listing \in Listings
      /\ EscrowOK(k, l) /\ UNCHANGED <<rows, held>>
  BY TradeCall DEF RefundInv, BidRead, At, TradeSteps
<1>2. \A p \in Players : Expected(k, l, p) = Stake(rows[l], p)
  BY <1>1 DEF Expected
<1>3. CASE Return(me)
  <2>1. call'[me].step = "idle"
    BY <1>1, <1>3, ReturnStep
  <2>2. \A p \in Players : Expected(k, l, p)' = Stake(rows[l], p)
    BY <1>1, <2>1 DEF Expected, Stake
  <2>. QED  BY <1>1, <1>2, <2>1, <2>2 DEF EscrowOK, Active, HasRead, Bidding
<1>4. CASE /\ rows[k.listing].status = "active"
           /\ call' = [call EXCEPT ![me] = [k EXCEPT !.step = "bid_take", !.row = rows[k.listing]]]
  <2>1. call'[me] = [k EXCEPT !.step = "bid_take", !.row = rows[k.listing]]
    BY <1>1, <1>4 DEF TypeOK
  <2>2. /\ call'[me].step = "bid_take" /\ call'[me].listing = k.listing
        /\ call'[me].row = rows[k.listing]
    BY <1>1, <2>1 DEF Call, TradeSteps, ListSteps
  <2>3. \A p \in Players : Expected(k, l, p)' = Stake(rows[l], p)
    BY <1>1, <2>2 DEF Expected, Stake
  <2>. HIDE DEF k
  <2>. QED  BY <1>1, <1>2, <1>4, <2>2, <2>3 DEF EscrowOK, Active, HasRead, Bidding, k
<1>. QED  BY <1>3, <1>4 DEF BidRead

\* A bid that is stored leaves a gap in the escrow that its own payment fills.
LEMMA EscrowTake ==
  ASSUME NEW me, Clients = {me}, RefundInv(me), BidTake(me), NEW l \in Listings
  PROVE  EscrowOK(call[me], l)'
<1>. DEFINE k == call[me]
            m == k.listing
<1>1. /\ TypeOK /\ k \in Call /\ k.step = "bid_take" /\ m \in Listings /\ k.row \in Row
      /\ k.amount \in Nat /\ k.player \in Players
      /\ EscrowOK(k, l) /\ UNCHANGED held
  BY TradeCall DEF RefundInv, BidTake, At, TradeSteps, BidSteps
<1>2. \A p \in Players : Expected(k, l, p) = Stake(rows[l], p)
  BY <1>1 DEF Expected
<1>3. CASE Return(me) /\ UNCHANGED rows
  <2>1. call'[me].step = "idle"
    BY <1>1, <1>3, ReturnStep
  <2>2. \A p \in Players : Expected(k, l, p)' = Stake(rows[l], p)
    BY <1>3, <2>1 DEF Expected, Stake
  <2>. QED  BY <1>1, <1>2, <1>3, <2>1, <2>2 DEF EscrowOK, Active, HasRead, Bidding
<1>4. CASE /\ Active(m) /\ Goto(me, "bid_escrow")
           /\ rows' = [rows EXCEPT ![m] = [rows[m] EXCEPT !.bid = k.amount, !.bidder = k.player]]
  <2>1. /\ call'[me].step = "bid_escrow" /\ call'[me].listing = m
        /\ call'[me].row = k.row /\ call'[me].amount = k.amount /\ call'[me].player = k.player
    BY <1>1, <1>4, GotoStep DEF TradeSteps
  <2>2. CASE l = m
    <3>1. /\ rows'[l].bid = k.amount /\ rows'[l].bidder = k.player
          /\ rows'[l].status = "active"
      BY <1>1, <1>4, <2>2 DEF TypeOK, Row, Active
    <3>2. rows[l].bid = k.row.bid /\ rows[l].bidder = k.row.bidder
      BY <1>1, <1>4, <2>2 DEF EscrowOK
    <3>3. \A p \in Players : Expected(k, l, p)' = Stake(rows[l], p)
      BY <2>1, <2>2, <3>2 DEF Expected, Stake
    <3>. QED  BY <1>1, <1>2, <1>4, <2>1, <2>2, <3>1, <3>3 DEF EscrowOK, Active, HasRead, Bidding
  <2>3. CASE l # m
    <3>1. rows'[l] = rows[l]
      BY <1>1, <1>4, <2>3 DEF TypeOK
    <3>2. \A p \in Players : Expected(k, l, p)' = Stake(rows[l], p)
      BY <2>1, <2>3, <3>1 DEF Expected, Stake
    <3>. QED  BY <1>1, <1>2, <2>1, <2>3, <3>1, <3>2 DEF EscrowOK, Active, HasRead, Bidding
  <2>. QED  BY <2>2, <2>3
<1>. QED  BY <1>3, <1>4 DEF BidTake

\* The coins are there, for nobody else has spent them.
LEMMA EscrowPaid ==
  ASSUME NEW me, Clients = {me}, Reliable, RefundInv(me), BidEscrow(me), NEW l \in Listings
  PROVE  EscrowOK(call[me], l)'
<1>. DEFINE k == call[me]
            m == k.listing
            n == Coins(k.amount)
<1>1. /\ TypeOK /\ k \in Call /\ k.step = "bid_escrow" /\ m \in Listings /\ k.row \in Row
      /\ n \in Int /\ k.player \in Players
      /\ EscrowOK(k, l) /\ PurseOK(k) /\ UNCHANGED rows
  BY TradeCall, WholeCoins DEF RefundInv, BidEscrow, At, TradeSteps, BidSteps
<1>2. held' = [held EXCEPT ![m][k.player] = @ + n]
  <2>1. wallet[k.player] \in Int /\ wallet[k.player] >= n
    BY <1>1 DEF PurseOK, TypeOK
  <2>2. ~NotTaken(k.player, n)
    BY <1>1, <2>1 DEF NotTaken
  <2>. QED  BY <2>2 DEF BidEscrow
<1>3. \A p \in Players :
        held'[l][p] = held[l][p] + (IF l = m /\ p = k.player THEN n ELSE 0)
  BY <1>1, <1>2 DEF TypeOK
<1>4. \/ /\ call'[me].step = "bid_refund" /\ call'[me].listing = m
         /\ call'[me].row = k.row /\ call'[me].amount = k.amount
         /\ call'[me].player = k.player
      \/ call'[me].step = "idle" /\ k.row.bidder = None
  <2>1. CASE Goto(me, "bid_refund")
    BY <1>1, <2>1, GotoStep DEF TradeSteps
  <2>2. CASE Return(me) /\ k.row.bidder = None
    BY <1>1, <2>2, ReturnStep
  <2>. QED  BY <2>1, <2>2 DEF BidEscrow
<1>5. None \notin Players /\ \A p \in Players : held[l][p] \in Int
  BY <1>1, ConstantsAssumption DEF TypeOK
<1>6. CASE l = m
  <2>1. rows[l].status # "none"
    BY <1>1, <1>6 DEF EscrowOK, HasRead
  <2>2. ASSUME Active(l), NEW p \in Players
        PROVE  held'[l][p] = Expected(k, l, p)'
    <3>1. held'[l][p] = Stake(k.row, p) + (IF p = k.player THEN n ELSE 0)
      BY <1>1, <1>3, <1>6, <2>2 DEF EscrowOK, Expected
    <3>2. rows[l].bid = k.amount /\ rows[l].bidder = k.player
      BY <1>1, <1>6, <2>2 DEF EscrowOK, Bidding
    <3>3. CASE call'[me].step = "bid_refund" /\ call'[me].listing = m
               /\ call'[me].row = k.row /\ call'[me].amount = k.amount
               /\ call'[me].player = k.player
      BY <1>6, <3>1, <3>3 DEF Expected, Stake
    <3>4. CASE call'[me].step = "idle" /\ k.row.bidder = None
      <4>1. Stake(k.row, p) = 0
        BY <1>5, <3>4 DEF Stake
      <4>2. Expected(k, l, p)' = Stake(rows[l], p)
        BY <1>1, <3>4 DEF Expected, Stake
      <4>. QED  BY <1>1, <3>1, <3>2, <4>1, <4>2 DEF Stake
    <3>. QED  BY <1>4, <3>3, <3>4
  <2>. QED  BY <1>1, <1>4, <1>6, <2>1, <2>2 DEF EscrowOK, Active, HasRead, Bidding
<1>7. CASE l # m
  <2>1. \A p \in Players : held'[l][p] = held[l][p]
    BY <1>3, <1>5, <1>7
  <2>2. \A p \in Players : Expected(k, l, p)' = Expected(k, l, p)
    BY <1>1, <1>4, <1>7 DEF Expected, Stake
  <2>. QED  BY <1>1, <1>4, <1>7, <2>1, <2>2 DEF EscrowOK, Active, HasRead, Bidding
<1>. QED  BY <1>6, <1>7

\* The refund goes to the bidder who was read, which is still the one to refund.
LEMMA EscrowRefunded ==
  ASSUME NEW me, Clients = {me}, Reliable, RefundInv(me), BidRefund(me), NEW l \in Listings
  PROVE  EscrowOK(call[me], l)'
<1>. DEFINE k == call[me]
            m == k.listing
            n == Coins(k.amount)
<1>1. /\ TypeOK /\ k \in Call /\ k.step = "bid_refund" /\ m \in Listings /\ k.row \in Row
      /\ n \in Int /\ k.player \in Players
      /\ EscrowOK(k, l) /\ PurseOK(k) /\ UNCHANGED rows
  BY TradeCall, WholeCoins DEF RefundInv, BidRefund, At, TradeSteps, BidSteps
<1>2. k.row.bidder \in Players
  BY <1>1 DEF PurseOK, Row
<1>3. held' = [held EXCEPT ![m][k.row.bidder] = @ - Coins(k.row.bid)]
  BY <1>1 DEF BidRefund
<1>4. call'[me].step = "idle"
  BY <1>1, ReturnStep DEF BidRefund
<1>5. Coins(k.row.bid) \in Int /\ \A p \in Players : held[l][p] \in Int
  BY <1>1, RowTypes, WholeCoins DEF TypeOK
<1>6. \A p \in Players : held'[l][p] = held[l][p] - (IF l = m THEN Stake(k.row, p) ELSE 0)
  BY <1>1, <1>2, <1>3, <1>5 DEF TypeOK, Stake
<1>7. \A p \in Players : Expected(k, l, p)' = Stake(rows[l], p)
  BY <1>1, <1>4 DEF Expected, Stake
<1>8. ASSUME Active(l), NEW p \in Players
      PROVE  held'[l][p] = Stake(rows[l], p)
  <2>1. Stake(k.row, p) \in Int
    BY <1>5 DEF Stake
  <2>2. CASE l = m
    <3>1. held[l][p] = Stake(k.row, p) + (IF p = k.player THEN n ELSE 0)
      BY <1>1, <1>8, <2>2 DEF EscrowOK, Expected
    <3>2. rows[l].bid = k.amount /\ rows[l].bidder = k.player
      BY <1>1, <1>8, <2>2 DEF EscrowOK, Bidding
    <3>3. Stake(rows[l], p) = IF p = k.player THEN n ELSE 0
      BY <3>2 DEF Stake
    <3>4. held'[l][p] = held[l][p] - Stake(k.row, p)
      BY <1>6, <2>2
    <3>. HIDE DEF k, m, n
    <3>. QED  BY <1>1, <2>1, <3>1, <3>3, <3>4
  <2>3. CASE l # m
    <3>1. held[l][p] = Stake(rows[l], p)
      BY <1>1, <1>8, <2>3 DEF EscrowOK, Expected
    <3>. QED  BY <1>5, <1>6, <2>3, <3>1
  <2>. QED  BY <2>2, <2>3
<1>9. rows[l].status = "none" => l # m
  BY <1>1 DEF EscrowOK, HasRead
<1>10. rows[l].status = "none" => \A p \in Players : held'[l][p] = 0
  BY <1>1, <1>5, <1>6, <1>9 DEF EscrowOK
<1>. QED  BY <1>1, <1>4, <1>7, <1>8, <1>10 DEF EscrowOK, Active, HasRead, Bidding

\* The purse of a bidder is as it was when its balance was asked for.
LEMMA PurseKept ==
  ASSUME NEW me, Clients = {me}, Reliable, RefundInv(me), [Next]_vars
  PROVE  PurseOK(call[me])'
<1>. DEFINE k == call[me]
<1>1. TypeOK /\ PurseOK(k) /\ me \in Clients
  BY DEF RefundInv
<1>2. CASE UNCHANGED <<wallet, call>>
  BY <1>1, <1>2 DEF PurseOK
<1>3. CASE call'[me].step \notin {"bid_read", "bid_take", "bid_escrow", "bid_refund"}
  BY <1>3 DEF PurseOK
<1>4. CASE BidBegin(me)
  <2>1. PICK p \in Players, l \in Listings, n \in Bids :
          Affordable(p, Coins(n)) /\ Begin(me, "bid_read", p, l, n, Absent)
    BY <1>4 DEF BidBegin
  <2>2. call'[me] = [step |-> "bid_read", player |-> p, listing |-> l, amount |-> n,
                     row |-> Absent]
    BY <1>1, <2>1 DEF Begin, TypeOK
  <2>3. wallet[p] >= Coins(n) /\ wallet' = wallet
    BY <1>4, <2>1 DEF Affordable, BidBegin
  <2>. QED  BY <2>2, <2>3 DEF PurseOK
<1>5. CASE BidRead(me)
  <2>1. k \in Call /\ k.step = "bid_read" /\ wallet' = wallet
    BY <1>1, <1>5, TradeCall DEF BidRead, At, TradeSteps
  <2>. DEFINE next == [k EXCEPT !.step = "bid_take", !.row = rows[k.listing]]
  <2>2. /\ next.step = "bid_take" /\ next.player = k.player
        /\ next.amount = k.amount
    BY <2>1 DEF Call
  <2>3. Return(me) \/ call' = [call EXCEPT ![me] = next]
    BY <1>5 DEF BidRead
  <2>4. Return(me) \/ call'[me] = next
    <3>. HIDE DEF next
    <3>. QED  BY <1>1, <2>3 DEF TypeOK
  <2>. HIDE DEF next
  <2>. QED  BY <1>1, <1>3, <2>1, <2>2, <2>4, ReturnStep DEF PurseOK
<1>6. CASE BidTake(me)
  <2>1. k.step = "bid_take" /\ wallet' = wallet /\ (Return(me) \/ Goto(me, "bid_escrow"))
    BY <1>6 DEF BidTake, At
  <2>2. CASE Goto(me, "bid_escrow")
    <3>1. /\ call'[me].step = "bid_escrow" /\ call'[me].player = k.player
          /\ call'[me].amount = k.amount
      BY <1>1, <2>1, <2>2, GotoStep DEF TradeSteps
    <3>. QED  BY <1>1, <2>1, <3>1 DEF PurseOK
  <2>. QED  BY <1>1, <1>3, <2>1, <2>2, ReturnStep
<1>7. CASE BidEscrow(me)
  <2>1. /\ k.step = "bid_escrow"
        /\ Return(me) \/ (Goto(me, "bid_refund") /\ k.row.bidder # None)
    BY <1>7 DEF BidEscrow, At
  <2>2. CASE Goto(me, "bid_refund") /\ k.row.bidder # None
    <3>1. call'[me].step = "bid_refund" /\ call'[me].row = k.row
      BY <1>1, <2>1, <2>2, GotoStep DEF TradeSteps
    <3>. QED  BY <2>2, <3>1 DEF PurseOK
  <2>. QED  BY <1>1, <1>3, <2>1, <2>2, ReturnStep
<1>8. CASE BidRefund(me)
  BY <1>1, <1>3, <1>8, ReturnStep DEF BidRefund
<1>9. CASE OtherOperation(me) /\ ~BidBegin(me)
  <2>1. call'[me].step \notin HasRead
    BY <1>1, <1>9, OtherSteps
  <2>2. call'[me].step # "bid_read"
    BY <1>1, <1>9, OtherSteps
  <2>. QED  BY <1>3, <2>1, <2>2 DEF HasRead
<1>10. Operation(me) \/ UNCHANGED <<wallet, call>>
  BY DEF Next, Scheduler, ExpireBegin, ExpireNext, TimePasses, vars
<1>. QED  BY <1>2, <1>4, <1>5, <1>6, <1>7, <1>8, <1>9, <1>10 DEF Operation, OtherOperation

\* Every step of a single client keeps the escrow in order.
LEMMA RefundStep ==
  ASSUME NEW me, Clients = {me}, Reliable, RefundInv(me), [Next]_vars
  PROVE  RefundInv(me)'
<1>1. TypeOK /\ TypeOK' /\ Asks'
  BY TypesStep DEF RefundInv
<1>2. ASSUME NEW l \in Listings
      PROVE  EscrowOK(call[me], l)'
  <2>1. EscrowOK(call[me], l)
    BY DEF RefundInv
  <2>2. CASE UNCHANGED <<call, held>>
    BY <1>1, <2>1, <2>2, EscrowQuiet
  <2>3. CASE OtherOperation(me)
    BY <1>1, <2>1, <2>3, OtherSteps, EscrowQuiet
  <2>4. Operation(me) \/ UNCHANGED <<call, held>>
    BY DEF Next, Scheduler, ExpireBegin, ExpireNext, TimePasses, vars
  <2>. QED  BY <2>2, <2>3, <2>4, EscrowRead, EscrowTake, EscrowPaid, EscrowRefunded
            DEF Operation, OtherOperation
<1>3. PurseOK(call[me])'
  BY PurseKept
<1>. QED  BY <1>1, <1>2, <1>3 DEF RefundInv

\* One operation at a time, over a bridge that does what it is asked: whoever is
\* outbid has its coins back when nothing is in progress, although a listing may
\* end between any two statements (ah_core.py:430-487).
THEOREM OneAtATimeRefunds ==
  ASSUME NEW me, Clients = {me}, Reliable
  PROVE  Spec => []OutbidIsRefunded
<1>1. Init => RefundInv(me)
  <2>. SUFFICES ASSUME Init PROVE RefundInv(me)
    OBVIOUS
  <2>1. TypeOK /\ Asks
    BY InitInvariant DEF IInv
  <2>2. call[me] = Idle /\ \A l \in Listings : rows[l] = Absent /\ \A p \in Players : held[l][p] = 0
    BY DEF Init
  <2>. QED  BY <2>1, <2>2
            DEF RefundInv, PurseOK, EscrowOK, Active, Absent, Idle, HasRead, Bidding
<1>2. RefundInv(me) /\ [Next]_vars => RefundInv(me)'
  BY RefundStep
<1>3. RefundInv(me) => OutbidIsRefunded
  <2>. SUFFICES ASSUME RefundInv(me), Quiet, NEW l \in Listings, Active(l),
                       NEW p \in Players, held[l][p] # 0
                PROVE  p = rows[l].bidder
    BY DEF OutbidIsRefunded
  <2>1. call[me] = Idle /\ EscrowOK(call[me], l)
    BY DEF RefundInv, Quiet
  <2>2. held[l][p] = Stake(rows[l], p)
    BY <2>1 DEF EscrowOK, Expected, Idle
  <2>. QED  BY <2>2 DEF Stake
<1>. QED  BY <1>1, <1>2, <1>3, PTL DEF Spec

-----------------------------------------------------------------------------
(* One operation at a time: items                                          *)
(*                                                                         *)
(* The run auction_items shows that a purchase of a part, which writes     *)
(* back a count it has read earlier, can double items. With one client it  *)
(* does not, whatever the scheduler ends in between; but for a purchase of *)
(* less than no items, which adds to the listing what nobody has listed.   *)

Positive == Quantities \subseteq Nat /\ ItemCount \in Nat

GiveSteps == {"buy_check", "buy_take", "buy_pay", "buy_credit", "buy_give", "cancel_give"}

\* The items of a listing that call k has taken and will hand over
Promised(k, l) ==
  CASE k.step \in {"buy_pay", "buy_credit", "buy_give"} /\ k.listing = l -> k.amount
    [] k.step = "cancel_give" /\ k.listing = l -> rows[l].count
    [] OTHER -> 0

\* The items of an active listing are there beside those handed over or promised,
\* and a client that is about to take some has counted them right.
ItemsOK(k, l) ==
  /\ rows[l].status = "none" => handed[l] = 0
  /\ k.step \in GiveSteps /\ k.listing = l => rows[l].status # "none"
  /\ Promised(k, l) >= 0 /\ handed[l] + Promised(k, l) <= ItemCount
  /\ Active(l) => rows[l].count >= 0 /\ handed[l] + Promised(k, l) + rows[l].count <= ItemCount
  /\ k.step \in {"buy_check", "buy_take"} /\ k.listing = l /\ k.row.status = "active" =>
       /\ handed[l] + k.row.count <= ItemCount
       /\ Active(l) => rows[l].count = k.row.count

BuyerOK(k) == k.step = "buy_take" => k.row.status = "active" /\ k.amount <= k.row.count

ItemsInv(me) ==
  TypeOK /\ Asks /\ BuyerOK(call[me]) /\ \A l \in Listings : ItemsOK(call[me], l)

\* The four terms of the balance of items are integers.
LEMMA PromisedType ==
  ASSUME Positive, TypeOK, NEW c \in Clients, NEW l \in Listings
  PROVE  /\ Promised(call[c], l) \in Int /\ handed[l] \in Int /\ rows[l].count \in Int
         /\ ItemCount \in Nat
<1>1. call[c].step \in TradeSteps => call[c].amount \in Int
  BY TradeCall
<1>2. handed[l] \in Int /\ rows[l].count \in Int
  BY RowTypes DEF TypeOK
<1>. QED  BY <1>1, <1>2 DEF Positive, Promised, TradeSteps

\* The scheduler, and operations that neither buy nor hand over anything
LEMMA ItemsQuiet ==
  ASSUME Positive, NEW me, Clients = {me}, TypeOK, [Next]_vars, NEW l \in Listings,
         ItemsOK(call[me], l), UNCHANGED handed,
         \/ call' = call
         \/ call[me].step \notin GiveSteps /\ call'[me].step \notin GiveSteps
  PROVE  ItemsOK(call[me], l)'
<1>. DEFINE k == call[me]
<1>0. /\ rows[l] \in Row /\ RowStep(rows[l], rows'[l])
      /\ Promised(k, l) \in Int /\ handed[l] \in Int /\ rows[l].count \in Int
      /\ ItemCount \in Nat
  BY RowsStep, PromisedType DEF TypeOK
<1>1. ~BuyTake(me)
  <2>. SUFFICES ASSUME BuyTake(me) PROVE FALSE
    OBVIOUS
  <2>1. k.step = "buy_take" /\ (Return(me) \/ Goto(me, "buy_pay"))
    BY DEF BuyTake, TakePart, TakeWhole, At
  <2>2. call'[me].step # "buy_take"
    BY <2>1, ReturnStep, GotoStep DEF TradeSteps
  <2>. QED  BY <2>1, <2>2 DEF GiveSteps
<1>2. CASE rows'[l].status = rows[l].status /\ rows'[l].count = rows[l].count
  <2>1. Promised(k, l)' = Promised(k, l)
    BY <1>2 DEF Promised, GiveSteps
  <2>. QED  BY <1>2, <2>1 DEF ItemsOK, Active, GiveSteps
<1>3. CASE /\ \E c \in Clients : ListInsert(c)
           /\ rows[l] = Absent /\ rows'[l].status = "active" /\ rows'[l].count = ItemCount
  <2>1. ListInsert(me)
    BY <1>3
  <2>2. call'[me].step = "idle"
    BY <2>1, ReturnStep DEF ListInsert
  <2>3. handed[l] = 0
    BY <1>3 DEF ItemsOK, Absent
  <2>4. Promised(k, l)' = 0
    BY <2>2 DEF Promised
  <2>. QED  BY <1>0, <1>3, <2>2, <2>3, <2>4 DEF ItemsOK, Active, GiveSteps
<1>4. CASE rows'[l].status \in {"sold", "cancelled", "expired"} /\ rows'[l].count = rows[l].count
  <2>1. Promised(k, l)' = Promised(k, l)
    BY <1>4 DEF Promised, GiveSteps
  <2>. QED  BY <1>4, <2>1 DEF ItemsOK, Active, GiveSteps
<1>. QED  BY <1>0, <1>1, <1>2, <1>3, <1>4 DEF RowStep

\* The count a purchase has read stays true while no other client can change it:
\* when it is read,
LEMMA ItemsRead ==
  ASSUME Positive, NEW me, Clients = {me}, ItemsInv(me), BuyBegin(me), NEW l \in Listings
  PROVE  ItemsOK(call[me], l)' /\ BuyerOK(call[me])'
<1>1. PICK p \in Players, m \in Listings, q \in Quantities :
        /\ rows[m].status # "none"
        /\ Begin(me, "buy_check", p, m, q, rows[m])
        /\ UNCHANGED <<rows, handed>>
  BY DEF BuyBegin
<1>2. /\ TypeOK /\ call[me] = Idle /\ ItemsOK(call[me], l)
      /\ call'[me] = [step |-> "buy_check", player |-> p, listing |-> m, amount |-> q,
                      row |-> rows[m]]
  BY <1>1 DEF ItemsInv, Begin, TypeOK
<1>3. Promised(call[me], l) = 0 /\ Promised(call[me], l)' = 0
  BY <1>2 DEF Promised, Idle
<1>4. handed[l] \in Int /\ rows[l].count \in Int /\ ItemCount \in Nat
  BY <1>2, PromisedType
<1>. QED  BY <1>1, <1>2, <1>3, <1>4 DEF ItemsOK, BuyerOK, Active, GiveSteps

\* when it is checked.
LEMMA ItemsChecked ==
  ASSUME Positive, NEW me, Clients = {me}, ItemsInv(me), BuyCheck(me), NEW l \in Listings
  PROVE  ItemsOK(call[me], l)' /\ BuyerOK(call[me])'
<1>. DEFINE k == call[me]
<1>1. /\ TypeOK /\ k.step = "buy_check" /\ ItemsOK(k, l) /\ UNCHANGED <<rows, handed>>
      /\ Promised(k, l) = 0
  BY DEF ItemsInv, BuyCheck, At, Promised
<1>2. CASE Return(me)
  <2>1. call'[me].step = "idle"
    BY <1>1, <1>2, ReturnStep
  <2>2. Promised(k, l)' = 0
    BY <2>1 DEF Promised
  <2>. QED  BY <1>1, <2>1, <2>2 DEF ItemsOK, BuyerOK, Active, GiveSteps
<1>3. CASE Goto(me, "buy_take") /\ k.row.status = "active" /\ k.amount <= k.row.count
  <2>1. /\ call'[me].step = "buy_take" /\ call'[me].listing = k.listing
        /\ call'[me].row = k.row /\ call'[me].amount = k.amount
    BY <1>1, <1>3, GotoStep DEF TradeSteps
  <2>2. Promised(k, l)' = 0
    BY <2>1 DEF Promised
  <2>. QED  BY <1>1, <1>3, <2>1, <2>2 DEF ItemsOK, BuyerOK, Active, GiveSteps
<1>. QED  BY <1>2, <1>3 DEF BuyCheck

\* What was counted is still there, or the listing has ended with all of it.
LEMMA ItemsTaken ==
  ASSUME Positive, NEW me, Clients = {me}, ItemsInv(me), BuyTake(me), NEW l \in Listings
  PROVE  ItemsOK(call[me], l)' /\ BuyerOK(call[me])'
<1>. DEFINE k == call[me]
            m == k.listing
<1>1. /\ TypeOK /\ k \in Call /\ k.step = "buy_take" /\ m \in Listings /\ k.row \in Row
      /\ k.amount \in Nat /\ ItemsOK(k, l) /\ UNCHANGED handed
      /\ k.row.status = "active" /\ k.amount <= k.row.count
  BY TradeCall DEF Positive, ItemsInv, BuyerOK, BuyTake, At, TradeSteps, BuySteps
<1>2. /\ Promised(k, l) = 0 /\ handed[l] \in Int /\ rows[l].count \in Int /\ ItemCount \in Nat
      /\ k.row.count \in Int /\ rows[l] \in Row
  BY <1>1, PromisedType, RowTypes DEF Promised, TypeOK
<1>3. ASSUME Return(me), UNCHANGED rows
      PROVE  ItemsOK(call[me], l)' /\ BuyerOK(call[me])'
  <2>1. call'[me].step = "idle"
    BY <1>1, <1>3, ReturnStep
  <2>2. Promised(k, l)' = 0
    BY <2>1 DEF Promised
  <2>. QED  BY <1>1, <1>2, <1>3, <2>1, <2>2 DEF ItemsOK, BuyerOK, Active, GiveSteps
<1>4. ASSUME Goto(me, "buy_pay"), l # m => rows'[l] = rows[l],
             l = m => /\ rows'[l].status # "none"
                      /\ rows'[l].status = "active" => rows'[l].count = k.row.count - k.amount
      PROVE  ItemsOK(call[me], l)' /\ BuyerOK(call[me])'
  <2>1. /\ call'[me].step = "buy_pay" /\ call'[me].listing = m /\ call'[me].amount = k.amount
    BY <1>1, <1>4, GotoStep DEF TradeSteps
  <2>2. CASE l = m
    <3>1. Promised(k, l)' = k.amount
      BY <2>1, <2>2 DEF Promised
    <3>2. handed[l] + k.row.count <= ItemCount
      BY <1>1, <2>2 DEF ItemsOK
    <3>3. k.amount >= 0 /\ handed'[l] + k.amount <= ItemCount
      BY <1>1, <1>2, <3>2
    <3>4. rows'[l].status = "active" =>
            /\ rows'[l].count >= 0
            /\ handed'[l] + k.amount + rows'[l].count <= ItemCount
      <4>. HIDE DEF k, m
      <4>. QED  BY <1>1, <1>2, <1>4, <2>2, <3>2
    <3>5. /\ rows'[l].status # "none" /\ call'[me].step = "buy_pay"
          /\ Promised(call[me], l)' = k.amount
      BY <1>4, <2>1, <2>2, <3>1
    <3>6. BuyerOK(call[me])'
      BY <3>5 DEF BuyerOK
    <3>. HIDE DEF k, m
    <3>. QED  BY <3>3, <3>4, <3>5, <3>6 DEF ItemsOK, Active
  <2>3. CASE l # m
    <3>1. Promised(k, l)' = 0
      BY <2>1, <2>3 DEF Promised
    <3>. QED  BY <1>1, <1>2, <1>4, <2>1, <2>3, <3>1 DEF ItemsOK, BuyerOK, Active, GiveSteps
  <2>. QED  BY <2>2, <2>3
<1>5. rows[l].status = "none" => l # m
  BY <1>1 DEF ItemsOK, GiveSteps
<1>6. CASE TakePart(me)
  <2>1. Goto(me, "buy_pay") /\ rows' = [rows EXCEPT ![m].count = k.row.count - k.amount]
    BY <1>6 DEF TakePart
  <2>2. l # m => rows'[l] = rows[l]
    BY <1>1, <2>1 DEF TypeOK
  <2>3. l = m => rows'[l].status = rows[l].status /\ rows'[l].count = k.row.count - k.amount
    BY <1>1, <1>2, <2>1 DEF TypeOK, Row
  <2>. QED  BY <1>4, <1>5, <2>1, <2>2, <2>3
<1>7. CASE TakeWhole(me)
  <2>. DEFINE next == Sold(rows[m], k.player, BinPrice * k.amount)
  <2>1. CASE Active(m)
    <3>1. Goto(me, "buy_pay") /\ rows' = [rows EXCEPT ![m] = next]
      BY <1>7, <2>1 DEF TakeWhole
    <3>2. next.status = "sold"
      BY <1>1 DEF Sold, TypeOK, Row
    <3>. HIDE DEF next
    <3>3. /\ l # m => rows'[l] = rows[l]
          /\ l = m => rows'[l].status = "sold"
      BY <1>1, <3>1, <3>2 DEF TypeOK
    <3>. QED  BY <1>4, <3>1, <3>3
  <2>2. CASE ~Active(m)
    BY <1>3, <1>7, <2>2 DEF TakeWhole
  <2>. QED  BY <2>1, <2>2
<1>. QED  BY <1>6, <1>7 DEF BuyTake

\* Paying, and handing over what was promised
LEMMA ItemsGiven ==
  ASSUME Positive, NEW me, Clients = {me}, ItemsInv(me), NEW l \in Listings,
         BuyPay(me) \/ BuyCredit(me) \/ BuyGive(me) \/ CancelGive(me)
  PROVE  ItemsOK(call[me], l)' /\ BuyerOK(call[me])'
<1>. DEFINE k == call[me]
            m == k.listing
<1>1. /\ TypeOK /\ m \in Listings /\ k.amount \in Int /\ ItemsOK(k, l) /\ UNCHANGED rows
      /\ k.step \in {"buy_pay", "buy_credit", "buy_give", "cancel_give"}
  BY TradeCall DEF ItemsInv, BuyPay, BuyCredit, BuyGive, CancelGive, At, TradeSteps
<1>2. /\ Promised(k, l) \in Int /\ handed[l] \in Int /\ rows[l].count \in Int
      /\ ItemCount \in Nat
  BY <1>1, PromisedType
<1>3. CASE BuyPay(me) \/ BuyCredit(me)
  <2>1. k.step \in {"buy_pay", "buy_credit"} /\ handed' = handed
    BY <1>3 DEF BuyPay, BuyCredit, At
  <2>2. /\ call'[me].step \in {"buy_credit", "buy_give"} /\ call'[me].listing = m
        /\ call'[me].amount = k.amount
    BY <1>1, <1>3, GotoStep DEF BuyPay, BuyCredit, TradeSteps
  <2>3. Promised(k, l)' = Promised(k, l)
    BY <2>1, <2>2 DEF Promised
  <2>. QED  BY <1>1, <2>1, <2>2, <2>3 DEF ItemsOK, BuyerOK, Active, GiveSteps
<1>4. CASE BuyGive(me) \/ CancelGive(me)
  <2>1. call'[me].step \in {"idle", "cancel_fee"}
    <3>1. Return(me) \/ Goto(me, "cancel_fee")
      BY <1>4 DEF BuyGive, CancelGive
    <3>. QED  BY <1>1, <3>1, ReturnStep, GotoStep DEF TradeSteps
  <2>2. Promised(k, l)' = 0
    BY <2>1 DEF Promised
  <2>3. handed'[l] = handed[l] + Promised(k, l)
    <3>1. CASE BuyGive(me)
      <4>1. k.step = "buy_give" /\ handed' = [handed EXCEPT ![m] = @ + Given(k.amount)]
        BY <3>1 DEF BuyGive, At
      <4>2. l = m => Promised(k, l) = k.amount /\ Given(k.amount) = k.amount
        BY <1>1, <4>1 DEF Promised, ItemsOK, Given
      <4>3. l # m => Promised(k, l) = 0
        BY <4>1 DEF Promised
      <4>. HIDE DEF k, m
      <4>. QED  BY <1>1, <1>2, <4>1, <4>2, <4>3 DEF TypeOK
    <3>2. CASE CancelGive(me)
      <4>1. k.step = "cancel_give" /\ handed' = [handed EXCEPT ![m] = @ + Given(rows[m].count)]
        BY <3>2 DEF CancelGive, At
      <4>2. l = m => Promised(k, l) = rows[m].count /\ Given(rows[m].count) = rows[m].count
        BY <1>1, <1>2, <4>1 DEF Promised, ItemsOK, Given
      <4>3. l # m => Promised(k, l) = 0
        BY <4>1 DEF Promised
      <4>. HIDE DEF k, m
      <4>. QED  BY <1>1, <1>2, <4>1, <4>2, <4>3 DEF TypeOK
    <3>. QED  BY <1>4, <3>1, <3>2
  <2>4. rows[l].status = "none" => Promised(k, l) = 0
    BY <1>1 DEF ItemsOK, Promised, GiveSteps
  <2>5. /\ rows[l].status = "none" => handed'[l] = 0
        /\ handed'[l] \in Int /\ handed'[l] <= ItemCount
        /\ Active(l) => rows[l].count >= 0 /\ handed'[l] + rows[l].count <= ItemCount
    <3>. HIDE DEF k
    <3>. QED  BY <1>1, <1>2, <2>3, <2>4 DEF ItemsOK
  <2>. QED  BY <1>1, <1>2, <2>1, <2>2, <2>3, <2>5 DEF ItemsOK, BuyerOK, Active, GiveSteps
<1>. QED  BY <1>3, <1>4

\* A listing that is cancelled is handed back as it is.
LEMMA ItemsCancelled ==
  ASSUME Positive, NEW me, Clients = {me}, ItemsInv(me), CancelBegin(me), NEW l \in Listings
  PROVE  ItemsOK(call[me], l)' /\ BuyerOK(call[me])'
<1>1. PICK p \in Players, m \in Listings :
        /\ Active(m) /\ rows' = [rows EXCEPT ![m].status = "cancelled"]
        /\ Begin(me, "cancel_give", p, m, 0, Absent)
        /\ UNCHANGED handed
  BY DEF CancelBegin
<1>2. /\ TypeOK /\ call[me] = Idle /\ ItemsOK(call[me], l)
      /\ call'[me] = [step |-> "cancel_give", player |-> p, listing |-> m, amount |-> 0,
                      row |-> Absent]
  BY <1>1 DEF ItemsInv, Begin, TypeOK
<1>3. Promised(call[me], l) = 0
  BY <1>2 DEF Promised, Idle
<1>4. handed[l] \in Int /\ rows[l].count \in Int /\ ItemCount \in Nat /\ rows[l] \in Row
  BY <1>2, PromisedType DEF TypeOK
<1>5. CASE l = m
  <2>1. rows'[l].status = "cancelled" /\ rows'[l].count = rows[l].count
    BY <1>1, <1>2, <1>5 DEF TypeOK, Row
  <2>2. Promised(call[me], l)' = rows[l].count
    BY <1>2, <1>5, <2>1 DEF Promised
  <2>3. rows[l].count >= 0 /\ handed[l] + rows[l].count <= ItemCount
    BY <1>1, <1>2, <1>3, <1>4, <1>5 DEF ItemsOK
  <2>. QED  BY <1>1, <1>2, <2>1, <2>2, <2>3 DEF ItemsOK, BuyerOK, Active, GiveSteps
<1>6. CASE l # m
  <2>1. rows'[l] = rows[l]
    BY <1>1, <1>2, <1>6 DEF TypeOK
  <2>2. Promised(call[me], l)' = 0
    BY <1>2, <1>6 DEF Promised
  <2>. QED  BY <1>1, <1>2, <1>3, <1>4, <1>6, <2>1, <2>2
            DEF ItemsOK, BuyerOK, Active, GiveSteps
<1>. QED  BY <1>5, <1>6

\* Operations that neither buy nor cancel hand nothing over.
LEMMA NoGift ==
  ASSUME TypeOK, NEW c \in Clients,
         \/ ListBegin(c) \/ ListSelect(c) \/ ListRecheck(c) \/ ListFee(c) \/ ListInsert(c)
         \/ BidBegin(c) \/ BidRead(c) \/ BidTake(c) \/ BidEscrow(c) \/ BidRefund(c)
         \/ CancelPay(c)
  PROVE  /\ call[c].step \notin GiveSteps /\ call'[c].step \notin GiveSteps
         /\ UNCHANGED handed
<1>1. CASE ListBegin(c) \/ BidBegin(c)
  BY <1>1, BeginStep DEF ListBegin, BidBegin, GiveSteps
<1>2. CASE BidRead(c)
  <2>1. call[c] \in Call /\ call[c].step = "bid_read"
    BY <1>2, TradeCall DEF BidRead, At, TradeSteps
  <2>. DEFINE next == [call[c] EXCEPT !.step = "bid_take", !.row = rows[call[c].listing]]
  <2>2. Return(c) \/ call' = [call EXCEPT ![c] = next]
    BY <1>2 DEF BidRead
  <2>3. next.step = "bid_take"
    BY <2>1 DEF Call
  <2>4. call'[c].step \in {"idle", "bid_take"}
    <3>. HIDE DEF next
    <3>. QED  BY <2>2, <2>3, ReturnStep DEF TypeOK
  <2>. QED  BY <1>2, <2>1, <2>4 DEF BidRead, GiveSteps
<1>3. CASE \/ ListSelect(c) \/ ListRecheck(c) \/ ListFee(c) \/ ListInsert(c)
           \/ BidTake(c) \/ BidEscrow(c) \/ BidRefund(c) \/ CancelPay(c)
  <2>1. /\ call[c].step \in ListSteps \cup HasRead \cup {"cancel_fee"}
        /\ UNCHANGED handed
    BY <1>3 DEF ListSelect, ListRecheck, ListFee, ListInsert, BidTake, BidEscrow, BidRefund,
                CancelPay, At, ListSteps, HasRead
  <2>2. \/ Return(c) \/ Goto(c, "list_recheck") \/ Goto(c, "list_fee") \/ Goto(c, "list_insert")
        \/ Goto(c, "bid_escrow") \/ Goto(c, "bid_refund")
    BY <1>3 DEF ListSelect, ListRecheck, ListFee, ListInsert, BidTake, BidEscrow, BidRefund,
                CancelPay
  <2>3. call'[c].step \in
          {"idle", "list_recheck", "list_fee", "list_insert", "bid_escrow", "bid_refund"}
    BY <2>1, <2>2, ReturnStep, GotoStep DEF HasRead, TradeSteps
  <2>. QED  BY <2>1, <2>3 DEF GiveSteps, ListSteps, HasRead
<1>. QED  BY <1>1, <1>2, <1>3

\* One operation at a time: no more items are handed over than were listed, bought
\* in parts or whole or given back, and whatever the scheduler has ended since the
\* row was read (ah_core.py:506, 566-587, 736-755). Nobody is to list or to buy
\* less than no items, which the code does not see to (ah_phooks.py:145, 202).
THEOREM OneAtATimeItems ==
  ASSUME Quantities \subseteq Nat, ItemCount \in Nat, NEW me, Clients = {me}
  PROVE  Spec => []ItemsConserved
<1>. Positive
  BY DEF Positive
<1>1. Init => ItemsInv(me)
  <2>. SUFFICES ASSUME Init PROVE ItemsInv(me)
    OBVIOUS
  <2>1. TypeOK /\ Asks
    BY InitInvariant DEF IInv
  <2>2. call[me] = Idle /\ \A l \in Listings : rows[l] = Absent /\ handed[l] = 0
    BY DEF Init
  <2>. QED  BY <2>1, <2>2, ConstantsAssumption
            DEF ItemsInv, BuyerOK, ItemsOK, Promised, Active, Absent, Idle, GiveSteps
<1>2. ItemsInv(me) /\ [Next]_vars => ItemsInv(me)'
  <2>. SUFFICES ASSUME ItemsInv(me), [Next]_vars PROVE ItemsInv(me)'
    OBVIOUS
  <2>1. TypeOK /\ TypeOK' /\ Asks' /\ me \in Clients
    BY TypesStep DEF ItemsInv
  <2>2. ASSUME UNCHANGED handed,
               \/ call' = call
               \/ call[me].step \notin GiveSteps /\ call'[me].step \notin GiveSteps
        PROVE  BuyerOK(call[me])' /\ \A l \in Listings : ItemsOK(call[me], l)'
    <3>1. \A l \in Listings : ItemsOK(call[me], l)'
      BY <2>1, <2>2, ItemsQuiet DEF ItemsInv
    <3>2. BuyerOK(call[me])'
      BY <2>2 DEF ItemsInv, BuyerOK, GiveSteps
    <3>. QED  BY <3>1, <3>2
  <2>3. CASE UNCHANGED <<call, handed>>
    BY <2>1, <2>2, <2>3 DEF ItemsInv
  <2>4. CASE \/ ListBegin(me) \/ ListSelect(me) \/ ListRecheck(me) \/ ListFee(me)
             \/ ListInsert(me) \/ BidBegin(me) \/ BidRead(me) \/ BidTake(me)
             \/ BidEscrow(me) \/ BidRefund(me) \/ CancelPay(me)
    BY <2>1, <2>2, <2>4, NoGift DEF ItemsInv
  <2>5. CASE \/ BuyBegin(me) \/ BuyCheck(me) \/ BuyTake(me) \/ BuyPay(me) \/ BuyCredit(me)
             \/ BuyGive(me) \/ CancelBegin(me) \/ CancelGive(me)
    <3>1. ASSUME NEW l \in Listings
          PROVE  ItemsOK(call[me], l)' /\ BuyerOK(call[me])'
      BY <2>5, ItemsRead, ItemsChecked, ItemsTaken, ItemsGiven, ItemsCancelled
    <3>2. \E l : l \in Listings
      <4>1. CASE BuyBegin(me) \/ CancelBegin(me)
        BY <4>1 DEF BuyBegin, CancelBegin
      <4>2. CASE call[me].step \in TradeSteps
        BY <2>1, <4>2, TradeCall
      <4>. QED  BY <2>5, <4>1, <4>2
                DEF BuyCheck, BuyTake, BuyPay, BuyCredit, BuyGive, CancelGive, At, TradeSteps
    <3>. QED  BY <2>1, <3>1, <3>2 DEF ItemsInv
  <2>6. Operation(me) \/ UNCHANGED <<call, handed>>
    BY DEF Next, Scheduler, ExpireBegin, ExpireNext, TimePasses, vars
  <2>. QED  BY <2>3, <2>4, <2>5, <2>6 DEF Operation
<1>3. ItemsInv(me) => ItemsConserved
  <2>. SUFFICES ASSUME ItemsInv(me), NEW l \in Listings PROVE handed[l] <= ItemCount
    BY DEF ItemsConserved
  <2>1. /\ TypeOK /\ ItemsOK(call[me], l)
    BY DEF ItemsInv
  <2>2. Promised(call[me], l) \in Int /\ handed[l] \in Int /\ ItemCount \in Nat
    BY <2>1, PromisedType DEF ItemsInv
  <2>. QED  BY <2>1, <2>2 DEF ItemsOK
<1>. QED  BY <1>1, <1>2, <1>3, PTL DEF Spec

-----------------------------------------------------------------------------
(* Listings that are not sold in parts: items                              *)
(*                                                                         *)
(* When nobody asks for fewer items than were listed, nobody takes a part, *)
(* nor without a buy price. Then any number of clients may race each       *)
(* other: one of them gets the items, once.                                *)

Giver(c, l) ==
  /\ call[c].step \in {"buy_pay", "buy_credit", "buy_give", "cancel_give"}
  /\ call[c].listing = l

\* Whoever is to hand over the items is alone, and nothing has been handed over.
WholeOK(l) ==
  /\ rows[l].status # "none" => rows[l].count = ItemCount
  /\ claims[l] = 0 => handed[l] = 0
  /\ handed[l] \in {0, ItemCount}
  /\ \A c \in Clients :
       Giver(c, l) => claims[l] = 1 /\ handed[l] = 0 /\ rows[l].status # "none"
  /\ \A c, d \in Clients : Giver(c, l) /\ Giver(d, l) => c = d

\* A buyer has seen all of the items, and who takes any takes all.
WholeBuyer(k) ==
  /\ k.step \in {"buy_check", "buy_take"} => k.row.count = ItemCount
  /\ k.step \in {"buy_take", "buy_pay", "buy_credit", "buy_give"} => k.amount = ItemCount

WholeInv ==
  /\ IInv
  /\ \A c \in Clients : WholeBuyer(call[c])
  /\ \A l \in Listings : WholeOK(l)

\* No step leaves a part of a listing.
LEMMA WholeRows ==
  ASSUME WholeInv, [Next]_vars, NEW l \in Listings
  PROVE  rows'[l].status # "none" => rows'[l].count = ItemCount
<1>1. /\ TypeOK /\ RowStep(rows[l], rows'[l]) /\ rows[l] \in Row
      /\ rows[l].status # "none" => rows[l].count = ItemCount
  BY RowsStep DEF WholeInv, IInv, TypeOK, WholeOK
<1>2. ASSUME NEW c \in Clients, BuyTake(c), TakePart(c) PROVE FALSE
  <2>1. call[c].amount = ItemCount /\ call[c].row.count = ItemCount /\ ItemCount \in Int
    BY <1>2, ConstantsAssumption DEF BuyTake, At, WholeInv, WholeBuyer
  <2>. QED  BY <1>2, <2>1 DEF TakePart
<1>. QED  BY <1>1, <1>2 DEF RowStep

\* Once there, a listing stays.
LEMMA RowStays ==
  ASSUME WholeInv, [Next]_vars, NEW l \in Listings, rows[l].status # "none"
  PROVE  rows'[l].status # "none"
<1>1. RowStep(rows[l], rows'[l]) /\ rows[l] \in Row
  BY RowsStep DEF WholeInv, IInv, TypeOK
<1>2. CASE rows'[l] = [rows[l] EXCEPT !.count = rows'[l].count]
  <2>. DEFINE n == rows'[l].count
  <2>1. rows'[l] = [rows[l] EXCEPT !.count = n]
    BY <1>2
  <2>. HIDE DEF n
  <2>. QED  BY <1>1, <2>1 DEF Row
<1>. QED  BY <1>1, <1>2 DEF RowStep, Absent

\* Every purchase is one of the whole.
LEMMA WholeBuyers ==
  ASSUME (\A q \in Quantities : q >= ItemCount) \/ BinPrice = 0,
         WholeInv, NEW c \in Clients, Operation(c)
  PROVE  WholeBuyer(call'[c])
<1>. DEFINE k == call[c]
<1>1. TypeOK /\ WholeBuyer(k)
  BY DEF WholeInv, IInv
<1>2. CASE call'[c].step \notin {"buy_check", "buy_take", "buy_pay", "buy_credit", "buy_give"}
  BY <1>2 DEF WholeBuyer
<1>3. CASE BuyBegin(c)
  <2>1. PICK p \in Players, l \in Listings, q \in Quantities :
          rows[l].status # "none" /\ Begin(c, "buy_check", p, l, q, rows[l])
    BY <1>3 DEF BuyBegin
  <2>2. call'[c] = [step |-> "buy_check", player |-> p, listing |-> l, amount |-> q,
                    row |-> rows[l]]
    BY <1>1, <2>1 DEF Begin, TypeOK
  <2>3. rows[l].count = ItemCount
    BY <2>1 DEF WholeInv, WholeOK
  <2>. QED  BY <2>2, <2>3 DEF WholeBuyer
<1>4. CASE BuyCheck(c)
  <2>1. k.step = "buy_check"
    BY <1>4 DEF BuyCheck, At
  <2>2. CASE Return(c)
    BY <1>1, <1>2, <2>2, ReturnStep
  <2>3. CASE Goto(c, "buy_take") /\ BinPrice # 0 /\ k.amount <= k.row.count
    <3>1. call'[c].step = "buy_take" /\ call'[c].row = k.row /\ call'[c].amount = k.amount
      BY <1>1, <2>1, <2>3, GotoStep DEF TradeSteps
    <3>2. k.amount \in Int /\ k.amount \in Quantities /\ k.row.count = ItemCount
      BY <1>1, <2>1, TradeCall DEF WholeBuyer, TradeSteps, BuySteps
    <3>3. k.amount = ItemCount
      BY <2>3, <3>2, ConstantsAssumption
    <3>. QED  BY <3>1, <3>2, <3>3 DEF WholeBuyer
  <2>. QED  BY <1>4, <2>2, <2>3 DEF BuyCheck
<1>5. CASE BuyTake(c) \/ BuyPay(c) \/ BuyCredit(c) \/ BuyGive(c)
  <2>1. k.step \in {"buy_take", "buy_pay", "buy_credit", "buy_give"}
    BY <1>5 DEF BuyTake, BuyPay, BuyCredit, BuyGive, At
  <2>2. Return(c) \/ Goto(c, "buy_pay") \/ Goto(c, "buy_credit") \/ Goto(c, "buy_give")
    BY <1>5 DEF BuyTake, TakePart, TakeWhole, BuyPay, BuyCredit, BuyGive
  <2>3. CASE Return(c)
    BY <1>1, <1>2, <2>3, ReturnStep
  <2>4. CASE Goto(c, "buy_pay") \/ Goto(c, "buy_credit") \/ Goto(c, "buy_give")
    <3>1. /\ call'[c].step \in {"buy_pay", "buy_credit", "buy_give"}
          /\ call'[c].amount = k.amount
      BY <1>1, <2>1, <2>4, GotoStep DEF TradeSteps
    <3>. QED  BY <1>1, <2>1, <3>1 DEF WholeBuyer
  <2>. QED  BY <2>2, <2>3, <2>4
<1>6. CASE CancelBegin(c)
  BY <1>1, <1>2, <1>6, BeginStep DEF CancelBegin
<1>7. CASE CancelGive(c)
  <2>1. k.step = "cancel_give" /\ (Return(c) \/ Goto(c, "cancel_fee"))
    BY <1>7 DEF CancelGive, At
  <2>. QED  BY <1>1, <1>2, <2>1, ReturnStep, GotoStep DEF TradeSteps
<1>8. CASE \/ ListBegin(c) \/ ListSelect(c) \/ ListRecheck(c) \/ ListFee(c) \/ ListInsert(c)
           \/ BidBegin(c) \/ BidRead(c) \/ BidTake(c) \/ BidEscrow(c) \/ BidRefund(c)
           \/ CancelPay(c)
  BY <1>1, <1>2, <1>8, NoGift DEF GiveSteps
<1>. QED  BY <1>3, <1>4, <1>5, <1>6, <1>7, <1>8 DEF Operation

\* What an operation does about the items of a listing: it takes them, hands them
\* over, or neither.
LEMMA WholeGift ==
  ASSUME ItemCount \in Nat, WholeInv, NEW c \in Clients, Operation(c), NEW l \in Listings
  PROVE  \/ Active(l) /\ claims'[l] = claims[l] + 1 /\ handed'[l] = handed[l]
         \/ /\ Giver(c, l) /\ ~Giver(c, l)'
            /\ handed'[l] = handed[l] + ItemCount /\ claims'[l] = claims[l]
         \/ (Giver(c, l)' => Giver(c, l)) /\ handed'[l] = handed[l]
<1>. DEFINE k == call[c]
<1>1. TypeOK /\ WholeBuyer(k) /\ handed[l] \in Int /\ claims[l] \in Nat
  BY DEF WholeInv, IInv, TypeOK
<1>2. CASE \/ ListBegin(c) \/ ListSelect(c) \/ ListRecheck(c) \/ ListFee(c) \/ ListInsert(c)
           \/ BidBegin(c) \/ BidRead(c) \/ BidTake(c) \/ BidEscrow(c) \/ BidRefund(c)
           \/ CancelPay(c)
  BY <1>1, <1>2, NoGift DEF Giver, GiveSteps
<1>3. CASE BuyBegin(c)
  BY <1>1, <1>3, BeginStep DEF BuyBegin, Giver
<1>4. CASE BuyCheck(c)
  <2>1. k.step = "buy_check" /\ handed' = handed /\ (Return(c) \/ Goto(c, "buy_take"))
    BY <1>4 DEF BuyCheck, At
  <2>2. call'[c].step \in {"idle", "buy_take"}
    BY <1>1, <2>1, ReturnStep, GotoStep DEF TradeSteps
  <2>. QED  BY <2>1, <2>2 DEF Giver
<1>5. CASE BuyTake(c)
  <2>1. k.step = "buy_take" /\ handed' = handed /\ ~TakePart(c)
    <3>1. k.step = "buy_take" /\ handed' = handed
      BY <1>5 DEF BuyTake, At
    <3>2. k.amount = ItemCount /\ k.row.count = ItemCount /\ ItemCount \in Int
      BY <1>1, <3>1, ConstantsAssumption DEF WholeBuyer
    <3>. QED  BY <3>1, <3>2 DEF TakePart
  <2>2. TakeWhole(c)
    BY <1>5, <2>1 DEF BuyTake
  <2>3. CASE Return(c)
    <3>1. call'[c].step = "idle"
      BY <1>1, <2>3, ReturnStep
    <3>. QED  BY <2>1, <3>1 DEF Giver
  <2>4. CASE /\ Active(k.listing) /\ Goto(c, "buy_pay")
             /\ claims' = [claims EXCEPT ![k.listing] = @ + 1]
    <3>1. call'[c].listing = k.listing
      BY <1>1, <2>1, <2>4, GotoStep DEF TradeSteps
    <3>2. CASE l = k.listing
      BY <1>1, <2>1, <2>4, <3>2 DEF TypeOK
    <3>3. CASE l # k.listing
      BY <2>1, <3>1, <3>3 DEF Giver
    <3>. QED  BY <3>2, <3>3
  <2>. QED  BY <2>2, <2>3, <2>4 DEF TakeWhole
<1>6. CASE BuyPay(c) \/ BuyCredit(c)
  <2>1. /\ k.step \in {"buy_pay", "buy_credit"} /\ handed' = handed
        /\ Goto(c, "buy_credit") \/ Goto(c, "buy_give")
    BY <1>6 DEF BuyPay, BuyCredit, At
  <2>2. call'[c].listing = k.listing
    BY <1>1, <2>1, GotoStep DEF TradeSteps
  <2>. QED  BY <2>1, <2>2 DEF Giver
<1>7. CASE BuyGive(c) \/ CancelGive(c)
  <2>1. /\ k.step \in {"buy_give", "cancel_give"} /\ claims' = claims
        /\ Return(c) \/ Goto(c, "cancel_fee")
    BY <1>7 DEF BuyGive, CancelGive, At
  <2>2. call'[c].step \in {"idle", "cancel_fee"}
    BY <1>1, <2>1, ReturnStep, GotoStep DEF TradeSteps
  <2>3. ~Giver(c, l)'
    BY <2>2 DEF Giver
  <2>4. CASE k.listing = l
    <3>1. Giver(c, l) /\ rows[l].count = ItemCount
      BY <2>1, <2>4 DEF Giver, WholeInv, WholeOK
    <3>2. CASE BuyGive(c)
      <4>1. k.amount = ItemCount /\ handed' = [handed EXCEPT ![l] = @ + Given(k.amount)]
        BY <1>1, <2>4, <3>2 DEF BuyGive, At, WholeBuyer
      <4>2. Given(k.amount) = ItemCount
        BY <4>1 DEF Given
      <4>. QED  BY <1>1, <2>1, <2>3, <3>1, <4>1, <4>2 DEF TypeOK
    <3>3. CASE CancelGive(c)
      <4>1. handed' = [handed EXCEPT ![l] = @ + Given(rows[l].count)]
        BY <2>4, <3>3 DEF CancelGive
      <4>2. Given(rows[l].count) = ItemCount
        BY <3>1 DEF Given
      <4>. QED  BY <1>1, <2>1, <2>3, <3>1, <4>1, <4>2 DEF TypeOK
    <3>. QED  BY <1>7, <3>2, <3>3
  <2>5. CASE k.listing # l
    <3>1. PICK n : handed' = [handed EXCEPT ![k.listing] = n]
      BY <1>7 DEF BuyGive, CancelGive
    <3>2. handed'[l] = handed[l]
      BY <1>1, <2>5, <3>1 DEF TypeOK
    <3>. QED  BY <2>3, <3>2
  <2>. QED  BY <2>4, <2>5
<1>8. CASE CancelBegin(c)
  <2>1. PICK p \in Players, m \in Listings :
          /\ Active(m) /\ claims' = [claims EXCEPT ![m] = @ + 1] /\ handed' = handed
          /\ Begin(c, "cancel_give", p, m, 0, Absent)
    BY <1>8 DEF CancelBegin
  <2>2. CASE m = l
    BY <1>1, <2>1, <2>2 DEF TypeOK
  <2>3. CASE m # l
    <3>1. call'[c].listing = m
      BY <1>1, <2>1 DEF Begin, TypeOK
    <3>. QED  BY <2>1, <2>3, <3>1 DEF Giver
  <2>. QED  BY <2>2, <2>3
<1>. QED  BY <1>2, <1>3, <1>4, <1>5, <1>6, <1>7, <1>8 DEF Operation

\* Items leave a listing when it is claimed, and it is claimed once.
LEMMA WholeStep ==
  ASSUME ItemCount \in Nat, WholeInv, [Next]_vars, NEW l \in Listings
  PROVE  WholeOK(l)'
<1>1. /\ TypeOK /\ IInv' /\ ClaimStep(l) /\ WholeOK(l)
      /\ handed[l] \in Int /\ claims[l] \in Nat /\ claims'[l] \in 0 .. 1
      /\ Active(l) => claims[l] = 0
  <2>1. TypeOK /\ IInv' /\ WholeOK(l)
    BY StepInvariant DEF WholeInv, IInv
  <2>2. claims'[l] \in Nat /\ claims'[l] <= 1
    BY <2>1 DEF IInv, TypeOK, OneTaker
  <2>3. claims'[l] \in 0 .. 1
    BY <2>2
  <2>4. ClaimStep(l)
    BY <2>1, RowsStep
  <2>5. handed[l] \in Int /\ claims[l] \in Nat
    BY <2>1 DEF TypeOK
  <2>6. Active(l) => claims[l] = 0
    BY DEF WholeInv, IInv, Unclaimed, Active
  <2>. QED  BY <2>1, <2>3, <2>4, <2>5, <2>6
<1>2. /\ rows'[l].status # "none" => rows'[l].count = ItemCount
      /\ rows[l].status # "none" => rows'[l].status # "none"
  BY WholeRows, RowStays
<1>3. ASSUME handed'[l] = handed[l], \A d \in Clients : Giver(d, l)' => Giver(d, l)
      PROVE  WholeOK(l)'
  <2>1. \/ claims'[l] = claims[l]
        \/ claims'[l] = claims[l] + 1 /\ claims[l] = 0
    BY <1>1 DEF ClaimStep, Active
  <2>. QED  BY <1>1, <1>2, <1>3, <2>1 DEF WholeOK
<1>4. ASSUME NEW c \in Clients, Operation(c)
      PROVE  WholeOK(l)'
  <2>1. \A d \in Clients \ {c} : Giver(d, l)' <=> Giver(d, l)
    BY <1>1, <1>4, OneCall DEF Giver
  <2>2. CASE Active(l) /\ claims'[l] = claims[l] + 1 /\ handed'[l] = handed[l]
    <3>1. claims[l] = 0 /\ claims'[l] = 1 /\ handed'[l] = 0
      BY <1>1, <2>2 DEF WholeOK
    <3>2. \A d \in Clients : Giver(d, l)' => d = c
      BY <1>1, <2>1, <3>1 DEF WholeOK
    <3>3. rows'[l].status # "none"
      BY <1>2, <2>2 DEF Active
    <3>. QED  BY <1>2, <3>1, <3>2, <3>3 DEF WholeOK
  <2>3. CASE /\ Giver(c, l) /\ ~Giver(c, l)'
             /\ handed'[l] = handed[l] + ItemCount /\ claims'[l] = claims[l]
    <3>1. claims'[l] = 1 /\ handed'[l] = ItemCount
      BY <1>1, <2>3, ConstantsAssumption DEF WholeOK
    <3>2. \A d \in Clients : ~Giver(d, l)'
      BY <1>1, <2>1, <2>3 DEF WholeOK
    <3>. QED  BY <1>2, <3>1, <3>2 DEF WholeOK
  <2>4. CASE (Giver(c, l)' => Giver(c, l)) /\ handed'[l] = handed[l]
    BY <1>3, <2>1, <2>4
  <2>. QED  BY <1>4, <2>2, <2>3, <2>4, WholeGift
<1>5. CASE UNCHANGED <<call, handed>>
  BY <1>3, <1>5 DEF Giver
<1>. QED  BY <1>4, <1>5 DEF Next, Scheduler, ExpireBegin, ExpireNext, TimePasses, vars

\* When nobody asks for fewer items than were listed, or there is no buy price, a
\* listing hands out its items once at most, with any number of clients and
\* whatever they have read (ah_core.py:506).
THEOREM WholeSalesKeepItems ==
  ASSUME ItemCount \in Nat, (\A q \in Quantities : q >= ItemCount) \/ BinPrice = 0
  PROVE  Spec => []ItemsConserved
<1>1. Init => WholeInv
  <2>. SUFFICES ASSUME Init PROVE WholeInv
    OBVIOUS
  <2>1. /\ \A c \in Clients : call[c] = Idle
        /\ \A l \in Listings : rows[l] = Absent /\ handed[l] = 0
    BY DEF Init
  <2>. QED  BY <2>1, InitInvariant DEF WholeInv, WholeBuyer, WholeOK, Giver, Absent, Idle
<1>2. WholeInv /\ [Next]_vars => WholeInv'
  <2>. SUFFICES ASSUME WholeInv, [Next]_vars PROVE WholeInv'
    OBVIOUS
  <2>1. TypeOK /\ IInv'
    BY StepInvariant DEF WholeInv, IInv
  <2>2. ASSUME NEW d \in Clients PROVE WholeBuyer(call'[d])
    <3>1. WholeBuyer(call[d])
      BY DEF WholeInv
    <3>2. ASSUME NEW c \in Clients, Operation(c) PROVE WholeBuyer(call'[d])
      BY <2>1, <3>1, <3>2, OneCall, WholeBuyers
    <3>3. CASE UNCHANGED call
      BY <3>1, <3>3
    <3>. QED  BY <3>2, <3>3 DEF Next, Scheduler, ExpireBegin, ExpireNext, TimePasses, vars
  <2>. QED  BY <2>1, <2>2, WholeStep DEF WholeInv
<1>3. WholeInv => ItemsConserved
  BY ConstantsAssumption DEF WholeInv, WholeOK, ItemsConserved
<1>. QED  BY <1>1, <1>2, <1>3, PTL DEF Spec
-----------------------------------------------------------------------------
(* Bids while listings expire: the highest bidder                          *)
(*                                                                         *)
(* A bid that arrives between the selection of an expired listing and its  *)
(* turn is what breaks HighestBidderWins in the run auction_expiry. It is  *)
(* all that can break it, with any number of clients and any bridge.       *)

\* A step that raises no bid on a listing that waits for its turn
Timely ==
  \A e \in batch :
    Active(e.listing) /\ rows'[e.listing].status = "active" =>
      rows'[e.listing].bid = rows[e.listing].bid

NoLateBid == [][Timely]_vars

\* What was selected of a listing is still its highest bid.
SeenOK(e) ==
  /\ rows[e.listing].status # "none"
  /\ Active(e.listing) =>
       e.row.bid = rows[e.listing].bid /\ e.row.bidder = rows[e.listing].bidder

\* The part of HighestBidderWins that is about one listing
Fair(row) ==
  /\ row.status = "sold" => row.price = row.bid
  /\ row.status = "expired" => row.bidder = None

WinInv ==
  /\ TypeOK /\ Asks
  /\ \A l \in Listings : Fair(rows[l])
  /\ \A e \in batch : SeenOK(e)

\* A listing that has ended is as fair as it was, whatever its count.
LEMMA FairStays ==
  ASSUME WinInv, [Next]_vars, NEW l \in Listings, ~Active(l)
  PROVE  Fair(rows'[l])
<1>1. RowStep(rows[l], rows'[l]) /\ rows[l] \in Row /\ Fair(rows[l])
  BY RowsStep DEF WinInv, TypeOK
<1>2. CASE rows'[l] = [rows[l] EXCEPT !.count = rows'[l].count]
  <2>. DEFINE n == rows'[l].count
  <2>1. rows'[l] = [rows[l] EXCEPT !.count = n]
    BY <1>2
  <2>. HIDE DEF n
  <2>. QED  BY <1>1, <2>1 DEF Row, Fair
<1>. QED  BY <1>1, <1>2 DEF RowStep, Active, Fair

\* A listing ends fairly: a purchase writes the price it was sold for as its
\* bid, and the scheduler finds the bid that it had selected.
LEMMA FairEnd ==
  ASSUME WinInv, [Next]_vars, NEW l \in Listings, Active(l)
  PROVE  Fair(rows'[l])
<1>1. rows[l] \in Row /\ rows[l].status = "active" /\ TypeOK
  BY DEF WinInv, TypeOK, Active
<1>2. CASE rows'[l].status \notin {"sold", "expired"}
  BY <1>2 DEF Fair
<1>3. ASSUME NEW c \in Clients, Operation(c), rows'[l].status \in {"sold", "expired"}
      PROVE  Fair(rows'[l])
  <2>1. rows'[l] # rows[l]
    BY <1>1, <1>3
  <2>2. CASE TakeWhole(c)
    <3>. DEFINE k == call[c]
                next == Sold(rows[k.listing], k.player, BinPrice * k.amount)
    <3>1. rows' = [rows EXCEPT ![k.listing] = next]
      BY <2>1, <2>2 DEF TakeWhole
    <3>2. k.listing = l
      <4>. HIDE DEF next
      <4>. QED  BY <1>1, <2>1, <3>1 DEF TypeOK
    <3>3. rows'[l] = Sold(rows[l], k.player, BinPrice * k.amount)
      BY <1>1, <3>1, <3>2 DEF TypeOK
    <3>. QED  BY <1>1, <3>3 DEF Sold, Row, Fair
  <2>3. CASE TakePart(c)
    <3>1. PICK m, n : rows' = [rows EXCEPT ![m].count = n]
      BY <2>3 DEF TakePart
    <3>2. rows'[l].status = rows[l].status
      BY <1>1, <3>1 DEF TypeOK, Row
    <3>. QED  BY <1>1, <1>3, <3>2
  <2>4. CASE ListInsert(c)
    <3>1. PICK m, new :
            rows[m] = Absent /\ rows' = [rows EXCEPT ![m] = new]
      BY <2>4 DEF ListInsert
    <3>. QED  BY <1>1, <2>1, <3>1 DEF TypeOK, Absent
  <2>5. CASE BidTake(c)
    <3>. DEFINE m == call[c].listing
                n == call[c].amount
                p == call[c].player
    <3>1. rows' = [rows EXCEPT ![m] = [@ EXCEPT !.bid = n, !.bidder = p]]
      BY <2>1, <2>5 DEF BidTake
    <3>. HIDE DEF m, n, p
    <3>2. rows'[l].status = rows[l].status
      BY <1>1, <3>1 DEF TypeOK, Row
    <3>. QED  BY <1>1, <1>3, <3>2
  <2>6. CASE CancelBegin(c)
    <3>1. PICK m : rows' = [rows EXCEPT ![m].status = "cancelled"]
      BY <2>6 DEF CancelBegin
    <3>2. rows'[l].status \in {"active", "cancelled"}
      BY <1>1, <3>1 DEF TypeOK, Row
    <3>. QED  BY <1>3, <3>2
  <2>7. CASE UNCHANGED rows
    BY <2>1, <2>7
  <2>. QED
    BY <1>3, <2>2, <2>3, <2>4, <2>5, <2>6, <2>7
       DEF Operation, ListBegin, ListSelect, ListRecheck, ListFee, BidBegin, BidRead,
           BidEscrow, BidRefund, BuyBegin, BuyCheck, BuyTake, BuyPay, BuyCredit, BuyGive,
           CancelGive, CancelPay
<1>4. CASE ExpireNext
  <2>1. PICK e \in batch :
          \/ Active(e.listing) /\ rows' = [rows EXCEPT ![e.listing] = Ended(@, e.row)]
          \/ UNCHANGED rows
    BY <1>4 DEF ExpireNext
  <2>2. CASE rows'[l] = rows[l]
    BY <1>1, <1>2, <2>2
  <2>3. CASE /\ Active(e.listing) /\ l = e.listing
             /\ rows' = [rows EXCEPT ![e.listing] = Ended(@, e.row)]
    <3>1. rows'[l] = Ended(rows[l], e.row)
      BY <1>1, <2>3 DEF TypeOK
    <3>2. e.row.bid = rows[l].bid /\ e.row.bidder = rows[l].bidder
      BY <2>3 DEF WinInv, SeenOK
    <3>. QED  BY <1>1, <3>1, <3>2 DEF Ended, Row, Fair
  <2>. QED  BY <1>1, <2>1, <2>2, <2>3 DEF TypeOK
<1>5. CASE UNCHANGED rows
  BY <1>1, <1>2, <1>5
<1>. QED  BY <1>2, <1>3, <1>4, <1>5 DEF Next, Scheduler, ExpireBegin, TimePasses, vars

\* What was selected stays what it was, when no bid is late.
LEMMA SeenStep ==
  ASSUME WinInv, [Next]_vars, Timely \/ UNCHANGED vars, NEW e \in batch'
  PROVE  SeenOK(e)'
<1>1. TypeOK /\ TypeOK'
  BY TypesStep DEF WinInv
<1>2. e.listing \in Listings /\ rows[e.listing] \in Row /\ rows'[e.listing] \in Row
  BY <1>1 DEF TypeOK
<1>3. CASE e \in batch
  <2>. DEFINE l == e.listing
  <2>1. SeenOK(e) /\ RowStep(rows[l], rows'[l])
    BY <1>2, <1>3, RowsStep DEF WinInv
  <2>2. CASE UNCHANGED vars
    BY <2>1, <2>2 DEF vars, SeenOK, Active
  <2>3. CASE Timely /\ rows'[l] = [rows[l] EXCEPT !.count = rows'[l].count]
    <3>. DEFINE n == rows'[l].count
    <3>1. rows'[l] = [rows[l] EXCEPT !.count = n]
      BY <2>3
    <3>. HIDE DEF n
    <3>. QED  BY <1>2, <2>1, <3>1 DEF Row, SeenOK, Active
  <2>4. CASE Timely /\ Active(l) /\ rows'[l].status = "active" /\ rows'[l].bid > rows[l].bid
    BY <1>2, <1>3, <2>4, RowTypes DEF Timely
  <2>. QED  BY <2>1, <2>2, <2>3, <2>4 DEF RowStep, SeenOK, Active, Absent
<1>4. CASE e \notin batch
  <2>1. ASSUME NEW c \in Clients, Operation(c) PROVE batch' = batch
    <3>1. CASE \/ ListBegin(c) \/ ListSelect(c) \/ ListRecheck(c) \/ ListFee(c)
               \/ ListInsert(c)
      BY <3>1 DEF ListBegin, ListSelect, ListRecheck, ListFee, ListInsert
    <3>2. CASE BidBegin(c) \/ BidRead(c) \/ BidTake(c) \/ BidEscrow(c) \/ BidRefund(c)
      BY <3>2 DEF BidBegin, BidRead, BidTake, BidEscrow, BidRefund
    <3>3. CASE \/ BuyBegin(c) \/ BuyCheck(c) \/ BuyTake(c) \/ BuyPay(c) \/ BuyCredit(c)
               \/ BuyGive(c)
      BY <3>3 DEF BuyBegin, BuyCheck, BuyTake, BuyPay, BuyCredit, BuyGive
    <3>4. CASE CancelBegin(c) \/ CancelGive(c) \/ CancelPay(c)
      BY <3>4 DEF CancelBegin, CancelGive, CancelPay
    <3>. QED  BY <2>1, <3>1, <3>2, <3>3, <3>4 DEF Operation
  <2>2. ExpireNext \/ (\E l \in Listings : TimePasses(l)) \/ UNCHANGED vars
          => batch' \subseteq batch
    BY DEF ExpireNext, TimePasses, vars
  <2>3. ExpireBegin
    BY <1>4, <2>1, <2>2 DEF Next, Scheduler
  <2>4. PICK l \in Listings : Active(l) /\ e = [listing |-> l, row |-> rows[l]]
    BY <1>1, <2>3 DEF ExpireBegin, TypeOK
  <2>5. e.listing = l /\ e.row = rows[l] /\ rows' = rows
    BY <2>3, <2>4 DEF ExpireBegin
  <2>. QED  BY <2>4, <2>5 DEF SeenOK, Active
<1>. QED  BY <1>3, <1>4

\* "If has bids: last highest bidder wins automatically" (AuctionHouse-spec.md:523),
\* as long as nobody bids on a listing that expire_listings has selected and not
\* reached: whatever else the clients do, and with or without the bridge, the
\* price of a sold listing is its highest bid and none with a bidder expires.
THEOREM TimelyBidsWin == Spec /\ NoLateBid => []HighestBidderWins
<1>1. Init => WinInv
  BY InitInvariant DEF Init, WinInv, IInv, Fair, Absent
<1>2. WinInv /\ [Next]_vars /\ [Timely]_vars => WinInv'
  <2>. SUFFICES ASSUME WinInv, [Next]_vars, Timely \/ UNCHANGED vars PROVE WinInv'
    OBVIOUS
  <2>1. TypeOK' /\ Asks'
    BY TypesStep DEF WinInv
  <2>2. \A l \in Listings : Fair(rows'[l])
    BY FairStays, FairEnd
  <2>3. \A e \in batch' : SeenOK(e)'
    BY SeenStep
  <2>. QED  BY <2>1, <2>2, <2>3 DEF WinInv
<1>3. WinInv => HighestBidderWins
  BY DEF WinInv, Fair, HighestBidderWins
<1>. QED  BY <1>1, <1>2, <1>3, PTL DEF Spec, NoLateBid
=============================================================================
