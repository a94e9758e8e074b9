SPECIFICATION Spec
CONSTANTS
  seller = seller
  ann = ann
  bob = bob
  Players = {seller, ann, bob}
  Sellers = {seller}
  Clients = {c1, c2}
  c1 = c1
  c2 = c2
  l1 = l1
  Listings = {l1}
  Unit = 2
  Bids = {3, 4}
  Quantities <- MCQuantities
  ItemCount = 1
  StartPrice = 2
  BinPrice = 3
  Increment = 10
  SaleFee = 2
  ListingFee = 1
  CancelFee = 1
  MaxListings = 5
  Purse <- MCPurse
  Reliable = FALSE
  MaxItems = 2
  MaxCoins = 9
  None = None
SYMMETRY Symmetry
VIEW View
CHECK_DEADLOCK FALSE
INVARIANTS
  TypeOK
  OneTaker
  BidIsCovered
PROPERTIES
  OutcomeIsFinal
  BidsOnlyRise
  KeepsAuction
