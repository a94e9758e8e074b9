---------------------------- MODULE AuctionHouse ----------------------------
(***************************************************************************)
(* The operations of AUCTIONHOUSE/ah_core.py on the table of listings and, *)
(* through the economy bridge, on the wallets of the players.              *)
(*                                                                         *)
(* A client is a thread that executes one operation at a time for some     *)
(* player: handlers of ah_phooks.py, or the threads of the tests. The      *)
(* scheduler thread of ah_ai_engine.py runs expire_listings. A step is one *)
(* SQL statement, which commits by itself (ah_database.py:282-294), or one *)
(* request to the bridge: between two steps anything may happen. A check   *)
(* that fails at the very start of an operation leaves no trace and is     *)
(* simply not a step.                                                      *)
(*                                                                         *)
(* Not here: bans, notifications, hooks, market events, the table of       *)
(* transactions, listings of the simulation. The branches that roll a      *)
(* listing back when a payment fails (lines 460-473 and 596-608) cannot be *)
(* reached: _eco_deduct answers True for a payment that failed. That a     *)
(* request reaches the bridge and only its answer is lost is not here.     *)
(***************************************************************************)
EXTENDS Integers, FiniteSets, Functions

CONSTANTS
  Players,      \* the names of players
  Clients,      \* threads that call the operations
  Listings,     \* primary keys: bounds the number of listings
  Sellers,      \* the players that list items
  Unit,         \* prices and bids are floats: so many parts of a coin
  Bids,         \* amounts that are bid, in such parts
  Quantities,   \* how many items a purchase asks for: any int is let through
  ItemCount,    \* item_count of a new listing: any int, too
  StartPrice,   \* start_price of every listing, in parts of a coin
  BinPrice,     \* buy_now_price of every listing, likewise, 0 without one
  Increment,    \* min_bid_increment_pct
  SaleFee,      \* sale_fee_pct
  ListingFee,   \* listing_fee_emeralds, positive, of which whole coins are taken
  CancelFee,    \* cancel_after_bids_fee, likewise
  MaxListings,  \* max_listings_per_player
  Purse,        \* the coins a player has in the beginning
  Reliable,     \* whether every request reaches the bridge
  MaxItems,     \* bound: no purchase leaves more items than that in a listing
  MaxCoins,     \* bound: nor begins when somebody has or owes more than that
  None

ASSUME ConstantsAssumption ==
  /\ IsFiniteSet(Players) /\ IsFiniteSet(Clients)
  /\ Sellers \subseteq Players /\ None \notin Players
  /\ Unit \in Nat \ {0}
  /\ Bids \subseteq Nat \ {0}   \* others are below any start_price
  /\ Quantities \subseteq Int /\ ItemCount \in Int
  /\ StartPrice \in Nat \ {0} /\ BinPrice \in Nat
  /\ Increment \in Nat /\ SaleFee \in 0 .. 100
  /\ ListingFee \in Nat /\ CancelFee \in Nat /\ MaxListings \in Nat
  /\ Purse \in [Players -> Nat]
  /\ Reliable \in BOOLEAN
  /\ MaxItems \in Int /\ MaxCoins \in Int

VARIABLES
  rows,    \* auction_listings
  due,     \* listings whose expires_at has passed
  wallet,  \* the coins of every player, on the server of the economy
  call,    \* what every client is doing
  batch,   \* what expire_listings has selected and not looked at yet
  held,    \* history: coins taken for bids on a listing, less the refunds
  unpaid,  \* history: bids on a listing whose coins could not be taken
  handed,  \* history: items of a listing given away or back
  claims   \* history: operations that were told the whole listing is theirs

vars == <<rows, due, wallet, call, batch, held, unpaid, handed, claims>>

\* What a listing may hold and be sold for. Purchases leave something or take
\* all of it: only a listing made with nothing or less in it holds no items.
Stock == Nat \cup {ItemCount}
Price == Nat \cup {BinPrice * ItemCount}

Row ==
  [ status : {"none", "active", "sold", "cancelled", "expired"},
    seller : Players \cup {None},
    count  : Stock,
    bid    : Price,                      \* current_bid, 0 for NULL
    bidder : Players \cup {None},        \* highest_bidder
    price  : Price ]                     \* sold_price, 0 for NULL

Absent == [ status |-> "none", seller |-> None, count |-> 0, bid |-> 0,
            bidder |-> None, price |-> 0 ]

ListSteps == {"list_select", "list_recheck", "list_fee", "list_insert"}
BidSteps == {"bid_read", "bid_take", "bid_escrow", "bid_refund"}
BuySteps == {"buy_check", "buy_take", "buy_pay", "buy_credit", "buy_give"}
CancelSteps == {"cancel_give", "cancel_fee"}

\* amount: what is bid, or how many items are bought; row: what the client has read
Call ==
  [ step : ListSteps, player : Players, listing : {None}, amount : {0}, row : Row ]
  \cup [ step : BidSteps, player : Players, listing : Listings, amount : Bids, row : Row ]
  \cup [ step : BuySteps, player : Players, listing : Listings, amount : Quantities, row : Row ]
  \cup [ step : CancelSteps, player : Players, listing : Listings, amount : {0}, row : Row ]

Idle == [ step |-> "idle" ]

-----------------------------------------------------------------------------
(* Helpers *)

At(c, step) == call[c].step = step

Goto(c, step) == call' = [call EXCEPT ![c].step = step]

Return(c) == call' = [call EXCEPT ![c] = Idle]

Begin(c, step, p, l, n, row) ==
  /\ call[c] = Idle
  /\ call' = [call EXCEPT ![c] =
       [ step |-> step, player |-> p, listing |-> l, amount |-> n, row |-> row ]]

Active(l) == rows[l].status = "active"

\* Python's int(): the fraction is dropped, of negative amounts too.
Truncated(n, unit) == IF n >= 0 THEN n \div unit ELSE -((-n) \div unit)
Coins(n) == Truncated(n, Unit)

\* An unknown balance, or none that can be had, counts as enough.
Affordable(p, n) == wallet[p] >= n \/ ~Reliable

Take(p, n) ==
  /\ wallet[p] >= n
  /\ wallet' = [wallet EXCEPT ![p] = @ - n]

\* The bridge refuses, or is out of reach: _eco_deduct returns True all the same.
NotTaken(p, n) ==
  /\ ~Reliable \/ wallet[p] < n
  /\ UNCHANGED wallet

Deduct(p, n) == Take(p, n) \/ NotTaken(p, n)

Credit(p, n) ==
  \/ wallet' = [wallet EXCEPT ![p] = @ + n]
  \/ ~Reliable /\ UNCHANGED wallet

Init ==
  /\ rows = [l \in Listings |-> Absent]
  /\ due = {}
  /\ wallet = Purse
  /\ call = [c \in Clients |-> Idle]
  /\ batch = {}
  /\ held = [l \in Listings |-> [p \in Players |-> 0]]
  /\ unpaid = [l \in Listings |-> 0]
  /\ handed = [l \in Listings |-> 0]
  /\ claims = [l \in Listings |-> 0]

-----------------------------------------------------------------------------
(* list_item *)

\* Bound: as many listings as there are keys for.
Listing == {c \in Clients : call[c].step \in ListSteps}
RoomLeft == Cardinality(Listing) < Cardinality({l \in Listings : rows[l] = Absent})

ListBegin(c) ==
  \E p \in Sellers :
    /\ RoomLeft
    /\ Affordable(p, ListingFee)
    /\ Begin(c, "list_select", p, None, 0, Absent)
    /\ UNCHANGED <<rows, due, wallet, batch, held, unpaid, handed, claims>>

\* The number of active listings, and a listing of the same item: all items are.
ListSelect(c) ==
  LET mine == {l \in Listings : Active(l) /\ rows[l].seller = call[c].player} IN
  /\ At(c, "list_select")
  /\ IF Cardinality(mine) >= MaxListings \/ mine # {}
       THEN Return(c)
       ELSE Goto(c, "list_recheck")
  /\ UNCHANGED <<rows, due, wallet, batch, held, unpaid, handed, claims>>

ListRecheck(c) ==
  /\ At(c, "list_recheck")
  /\ \/ Affordable(call[c].player, ListingFee) /\ Goto(c, "list_fee")
     \/ wallet[call[c].player] < ListingFee /\ Return(c)
  /\ UNCHANGED <<rows, due, wallet, batch, held, unpaid, handed, claims>>

ListFee(c) ==
  /\ At(c, "list_fee")
  /\ Deduct(call[c].player, ListingFee)
  /\ Goto(c, "list_insert")
  /\ UNCHANGED <<rows, due, batch, held, unpaid, handed, claims>>

ListInsert(c) ==
  /\ At(c, "list_insert")
  /\ \E l \in Listings :
       /\ rows[l] = Absent
       /\ rows' = [rows EXCEPT ![l] =
            [ status |-> "active", seller |-> call[c].player, count |-> ItemCount,
              bid |-> 0, bidder |-> None, price |-> 0 ]]
  /\ Return(c)
  /\ UNCHANGED <<due, wallet, batch, held, unpaid, handed, claims>>

-----------------------------------------------------------------------------
(* place_bid *)

BidBegin(c) ==
  \E p \in Players, l \in Listings, n \in Bids :
    /\ Affordable(p, Coins(n))
    /\ Begin(c, "bid_read", p, l, n, Absent)
    /\ UNCHANGED <<rows, due, wallet, batch, held, unpaid, handed, claims>>

\* current_bid or start_price, and the minimum increment on top of it
Current(row) == IF row.bid = 0 THEN StartPrice ELSE row.bid
HighEnough(n, row) == 100 * n >= (100 + Increment) * Current(row)

\* Mutant: a seller may bid for what it sells.
BidReadOwn(c) ==
  LET k == call[c]
      row == rows[k.listing] IN
  /\ At(c, "bid_read")
  /\ IF /\ row.status = "active" /\ k.listing \notin due
        /\ HighEnough(k.amount, row)
       THEN call' = [call EXCEPT ![c] = [k EXCEPT !.step = "bid_take", !.row = row]]
       ELSE Return(c)
  /\ UNCHANGED <<rows, due, wallet, batch, held, unpaid, handed, claims>>

BidRead(c) ==
  LET k == call[c]
      row == rows[k.listing] IN
  /\ At(c, "bid_read")
  /\ IF /\ row.status = "active" /\ k.listing \notin due
        /\ row.seller # k.player
        /\ HighEnough(k.amount, row)
       THEN call' = [call EXCEPT ![c] = [k EXCEPT !.step = "bid_take", !.row = row]]
       ELSE Return(c)
  /\ UNCHANGED <<rows, due, wallet, batch, held, unpaid, handed, claims>>

\* Mutant: the UPDATE does not ask for an active listing.
BidTakeAny(c) ==
  LET k == call[c]
      l == k.listing IN
  /\ At(c, "bid_take")
  /\ IF rows[l].bid < k.amount
       THEN /\ rows' = [rows EXCEPT ![l] = [@ EXCEPT !.bid = k.amount, !.bidder = k.player]]
            /\ Goto(c, "bid_escrow")
       ELSE Return(c) /\ UNCHANGED rows
  /\ UNCHANGED <<due, wallet, batch, held, unpaid, handed, claims>>

\* Mutant: the UPDATE does not compare the bids.
BidTakeLower(c) ==
  LET k == call[c]
      l == k.listing IN
  /\ At(c, "bid_take")
  /\ IF Active(l)
       THEN /\ rows' = [rows EXCEPT ![l] = [@ EXCEPT !.bid = k.amount, !.bidder = k.player]]
            /\ Goto(c, "bid_escrow")
       ELSE Return(c) /\ UNCHANGED rows
  /\ UNCHANGED <<due, wallet, batch, held, unpaid, handed, claims>>

\* UPDATE ... WHERE status = 'active' AND (current_bid IS NULL OR current_bid < ?)
BidTake(c) ==
  LET k == call[c]
      l == k.listing IN
  /\ At(c, "bid_take")
  /\ IF Active(l) /\ rows[l].bid < k.amount
       THEN /\ rows' = [rows EXCEPT ![l] = [@ EXCEPT !.bid = k.amount, !.bidder = k.player]]
            /\ Goto(c, "bid_escrow")
       ELSE Return(c) /\ UNCHANGED rows
  /\ UNCHANGED <<due, wallet, batch, held, unpaid, handed, claims>>

\* The whole coins of the bid are taken; the row holds the bid itself. Whom to
\* refund was read before the UPDATE.
BidEscrow(c) ==
  LET k == call[c]
      l == k.listing
      n == Coins(k.amount) IN
  /\ At(c, "bid_escrow")
  /\ \/ Take(k.player, n) /\ held' = [held EXCEPT ![l][k.player] = @ + n] /\ UNCHANGED unpaid
     \/ NotTaken(k.player, n) /\ unpaid' = [unpaid EXCEPT ![l] = @ + n] /\ UNCHANGED held
  /\ IF k.row.bidder # None THEN Goto(c, "bid_refund") ELSE Return(c)
  /\ UNCHANGED <<rows, due, batch, handed, claims>>

\* Mutant: the refund is the bid that is in the row by now.
BidRefundCurrent(c) ==
  LET k == call[c]
      l == k.listing
      p == k.row.bidder
      n == Coins(rows[l].bid) IN
  /\ At(c, "bid_refund")
  /\ wallet' = [wallet EXCEPT ![p] = @ + n]
  /\ held' = [held EXCEPT ![l][p] = @ - n]
  /\ Return(c)
  /\ UNCHANGED <<rows, due, batch, unpaid, handed, claims>>

BidRefund(c) ==
  LET k == call[c]
      l == k.listing
      p == k.row.bidder
      n == Coins(k.row.bid) IN
  /\ At(c, "bid_refund")
  /\ \/ wallet' = [wallet EXCEPT ![p] = @ + n] /\ held' = [held EXCEPT ![l][p] = @ - n]
     \/ ~Reliable /\ UNCHANGED <<wallet, held>>
  /\ Return(c)
  /\ UNCHANGED <<rows, due, batch, unpaid, handed, claims>>

-----------------------------------------------------------------------------
(* buy_now *)

\* The row is read first. Of the quantity nothing is asked but to be an int.
BuyBegin(c) ==
  \E p \in Players, l \in Listings, q \in Quantities :
    /\ rows[l].status # "none"
    /\ rows[l].count - q <= MaxItems
    /\ \A w \in Players : wallet[w] \in -MaxCoins .. MaxCoins
    /\ Begin(c, "buy_check", p, l, q, rows[l])
    /\ UNCHANGED <<rows, due, wallet, batch, held, unpaid, handed, claims>>

\* The wallet is looked at, then the row that was read.
BuyCheck(c) ==
  LET k == call[c] IN
  /\ At(c, "buy_check")
  /\ \/ /\ Affordable(k.player, Coins(BinPrice * k.amount))
        /\ k.row.status = "active" /\ BinPrice # 0
        /\ k.row.seller # k.player
        /\ k.amount <= k.row.count
        /\ Goto(c, "buy_take")
     \/ /\ \/ wallet[k.player] < Coins(BinPrice * k.amount)
           \/ k.row.status # "active" \/ BinPrice = 0
           \/ k.row.seller = k.player
           \/ k.amount > k.row.count
        /\ Return(c)
  /\ UNCHANGED <<rows, due, wallet, batch, held, unpaid, handed, claims>>

Sold(row, p, n) ==
  [row EXCEPT !.status = "sold", !.price = n, !.bidder = p, !.bid = n]

\* Mutant: a part is sold like the whole, as before "BUG FIX C1".
TakePartWholly(c) ==
  LET k == call[c]
      l == k.listing IN
  IF Active(l)
    THEN /\ rows' = [rows EXCEPT ![l] = Sold(@, k.player, BinPrice * k.amount)]
         /\ claims' = [claims EXCEPT ![l] = @ + 1]
         /\ Goto(c, "buy_pay")
    ELSE Return(c) /\ UNCHANGED <<rows, claims>>

\* A part is taken with an unconditional UPDATE of the count that was read. To
\* take no item, or less, is taking a part, which leaves as many or more.
TakePart(c) ==
  LET k == call[c] IN
  /\ k.amount < k.row.count
  /\ rows' = [rows EXCEPT ![k.listing].count = k.row.count - k.amount]
  /\ Goto(c, "buy_pay")
  /\ UNCHANGED claims

\* Mutant: whoever read an active listing gets it.
TakeWholeBlindly(c) ==
  LET k == call[c]
      l == k.listing IN
  /\ k.amount >= k.row.count
  /\ rows' = [rows EXCEPT ![l] = Sold(@, k.player, BinPrice * k.amount)]
  /\ claims' = [claims EXCEPT ![l] = @ + 1]
  /\ Goto(c, "buy_pay")

\* The whole is taken with UPDATE ... WHERE status = 'active'.
TakeWhole(c) ==
  LET k == call[c]
      l == k.listing IN
  /\ k.amount >= k.row.count
  /\ IF Active(l)
       THEN /\ rows' = [rows EXCEPT ![l] = Sold(@, k.player, BinPrice * k.amount)]
            /\ claims' = [claims EXCEPT ![l] = @ + 1]
            /\ Goto(c, "buy_pay")
       ELSE Return(c) /\ UNCHANGED <<rows, claims>>

BuyTake(c) ==
  /\ At(c, "buy_take")
  /\ TakePart(c) \/ TakeWhole(c)
  /\ UNCHANGED <<due, wallet, batch, held, unpaid, handed>>

BuyPay(c) ==
  /\ At(c, "buy_pay")
  /\ Deduct(call[c].player, Coins(BinPrice * call[c].amount))
  /\ Goto(c, "buy_credit")
  /\ UNCHANGED <<rows, due, batch, held, unpaid, handed, claims>>

\* int(sale_price - fee)
Payout(n) == Truncated(n * (100 - SaleFee), 100 * Unit)

BuyCredit(c) ==
  /\ At(c, "buy_credit")
  /\ Credit(call[c].row.seller, Payout(BinPrice * call[c].amount))
  /\ Goto(c, "buy_give")
  /\ UNCHANGED <<rows, due, batch, held, unpaid, handed, claims>>

\* The game's command "give" refuses to give nothing, or less.
Given(n) == IF n > 0 THEN n ELSE 0

BuyGive(c) ==
  /\ At(c, "buy_give")
  /\ handed' = [handed EXCEPT ![call[c].listing] = @ + Given(call[c].amount)]
  /\ Return(c)
  /\ UNCHANGED <<rows, due, wallet, batch, held, unpaid, claims>>

-----------------------------------------------------------------------------
(* cancel_listing *)

\* UPDATE ... WHERE seller_name = ? AND status = 'active'
CancelBegin(c) ==
  \E p \in Players, l \in Listings :
    /\ Active(l) /\ rows[l].seller = p
    /\ rows' = [rows EXCEPT ![l].status = "cancelled"]
    /\ claims' = [claims EXCEPT ![l] = @ + 1]
    /\ Begin(c, "cancel_give", p, l, 0, Absent)
    /\ UNCHANGED <<due, wallet, batch, held, unpaid, handed>>

\* The row is read again and its items are given back.
CancelGive(c) ==
  LET row == rows[call[c].listing] IN
  /\ At(c, "cancel_give")
  /\ handed' = [handed EXCEPT ![call[c].listing] = @ + Given(row.count)]
  /\ IF row.bidder # None THEN Goto(c, "cancel_fee") ELSE Return(c)
  /\ UNCHANGED <<rows, due, wallet, batch, held, unpaid, claims>>

CancelPay(c) ==
  /\ At(c, "cancel_fee")
  /\ Deduct(call[c].player, CancelFee)
  /\ Return(c)
  /\ UNCHANGED <<rows, due, batch, held, unpaid, handed, claims>>

-----------------------------------------------------------------------------
(* expire_listings, in the thread of the scheduler *)

TimePasses(l) ==
  /\ Active(l) /\ l \notin due
  /\ due' = due \cup {l}
  /\ UNCHANGED <<rows, wallet, call, batch, held, unpaid, handed, claims>>

ExpireBegin ==
  LET selected == {l \in due : Active(l)} IN
  /\ batch = {} /\ selected # {}
  /\ batch' = {[listing |-> l, row |-> rows[l]] : l \in selected}
  /\ UNCHANGED <<rows, due, wallet, call, held, unpaid, handed, claims>>

\* The outcome is decided on what was selected: the winner and the price of a
\* listing with bids are those of the selected row.
Ended(row, seen) ==
  IF seen.bidder # None
    THEN [row EXCEPT !.status = "sold", !.price = seen.bid]
    ELSE [row EXCEPT !.status = "expired"]

ExpireNext ==
  \E e \in batch :
    LET l == e.listing IN
    /\ batch' = batch \ {e}
    /\ IF Active(l)
         THEN /\ rows' = [rows EXCEPT ![l] = Ended(@, e.row)]
              /\ claims' = [claims EXCEPT ![l] = @ + 1]
         ELSE UNCHANGED <<rows, claims>>
    /\ UNCHANGED <<due, wallet, call, held, unpaid, handed>>

-----------------------------------------------------------------------------
Operation(c) ==
  \/ ListBegin(c) \/ ListSelect(c) \/ ListRecheck(c) \/ ListFee(c) \/ ListInsert(c)
  \/ BidBegin(c) \/ BidRead(c) \/ BidTake(c) \/ BidEscrow(c) \/ BidRefund(c)
  \/ BuyBegin(c) \/ BuyCheck(c) \/ BuyTake(c) \/ BuyPay(c) \/ BuyCredit(c) \/ BuyGive(c)
  \/ CancelBegin(c) \/ CancelGive(c) \/ CancelPay(c)

Scheduler == ExpireBegin \/ ExpireNext

Next ==
  \/ \E c \in Clients : Operation(c)
  \/ Scheduler
  \/ \E l \in Listings : TimePasses(l)

Spec == Init /\ [][Next]_vars

-----------------------------------------------------------------------------
(* Properties *)

TypeOK ==
  /\ rows \in [Listings -> Row]
  /\ due \subseteq Listings
  /\ wallet \in [Players -> Int]
  /\ call \in [Clients -> Call \cup {Idle}]
  /\ batch \subseteq [listing : Listings, row : Row]
  /\ held \in [Listings -> [Players -> Int]]
  /\ unpaid \in [Listings -> Nat]
  /\ handed \in [Listings -> Nat]
  /\ claims \in [Listings -> Nat]

\* A listing goes to one taker as a whole: of the buyers that want all of it, the
\* seller that cancels and the scheduler, one is told that it succeeded
\* (ah_core.py:16-19, 574-587, 736-752, 848-853).
OneTaker == \A l \in Listings : claims[l] <= 1

\* What a listing ended with stays: no late bid, purchase, cancellation or expiry
\* changes its status, its price or its bidder. Its count may change: see TakePart.
OutcomeIsFinal ==
  [][ \A l \in Listings :
        rows[l].status \notin {"none", "active"} =>
          rows'[l] = [rows[l] EXCEPT !.count = rows'[l].count] ]_vars

\* The highest bid of an active listing never falls, whatever the bidders have
\* read, and a new highest bidder bids more (ah_core.py:430-437).
BidsOnlyRise ==
  [][ \A l \in Listings :
        Active(l) /\ rows'[l].status = "active" =>
          \/ rows'[l].bid = rows[l].bid /\ rows'[l].bidder = rows[l].bidder
          \/ rows'[l].bid > rows[l].bid ]_vars

\* Seen from outside, and whatever its threads have read before they write, the
\* house is an auction: sellers neither bid for nor buy their own listings, a
\* listing is sold for what was bid or asked, never for less than its start price
\* or more than its highest bid, and nothing follows its end.
House ==
  INSTANCE Auction WITH
    lots   <- [l \in Listings |->
                 [status |-> rows[l].status, seller |-> rows[l].seller, bid |-> rows[l].bid,
                  bidder |-> rows[l].bidder, price |-> rows[l].price]],
    takers <- claims,
    Prices <- {BinPrice * n : n \in Quantities \cap Stock}

KeepsAuction == House!Spec

\* Coins that the bid of a call has still to bring, less those it takes back
Outstanding(k, l) ==
  CASE k.step = "bid_escrow" /\ k.listing = l -> Coins(k.amount) - Coins(k.row.bid)
    [] k.step = "bid_refund" /\ k.listing = l -> -Coins(k.row.bid)
    [] OTHER -> 0

\* What there is for the highest bid of a listing, at the end of the bids in progress
Cover(l) ==
  SumFunctionOnSet(held[l], Players)
    + SumFunctionOnSet([c \in Clients |-> Outstanding(call[c], l)], Clients)
    + unpaid[l]

\* The house never owes more than it holds: while a listing is active, the coins
\* taken for bids on it, less every refund given or due, cover the whole coins of
\* its highest bid, but for bids whose coins could not be taken. A fraction of a
\* coin that was bid is in the row and in nobody's escrow (lines 437, 458, 479).
\* Bidders that race each other can have the same predecessor refunded twice, and
\* another one not at all; the sum stays sufficient because what is refunded was
\* read before the new bid.
BidIsCovered == \A l \in Listings : Active(l) => Cover(l) >= Coins(rows[l].bid)

Quiet == \A c \in Clients : call[c] = Idle

\* "the previous highest bidder gets their escrowed funds back": when no operation
\* is in progress, nobody but the highest bidder of an active listing has coins
\* in it, and nobody has got back more than that (ah_core.py:475-487).
OutbidIsRefunded ==
  Quiet => \A l \in Listings : Active(l) =>
    \A p \in Players : held[l][p] # 0 => p = rows[l].bidder

\* No more items are given away than were listed: "prevents item duplication"
\* (ah_core.py:506).
ItemsConserved == \A l \in Listings : handed[l] <= ItemCount

\* A listing that ends is sold for its highest bid, and expires only without one:
\* "If has bids: last highest bidder wins automatically" (AuctionHouse-spec.md:523).
HighestBidderWins ==
  \A l \in Listings :
    /\ rows[l].status = "sold" => rows[l].price = rows[l].bid
    /\ rows[l].status = "expired" => rows[l].bidder = None
=============================================================================
