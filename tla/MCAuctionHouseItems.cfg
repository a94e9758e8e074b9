SPECIFICATION Spec
CONSTANTS
  seller = seller
  ann = ann
  bob = bob
  Players = {seller, ann, bob}
  Sellers = {seller}
  Clients = {c1, c2}
  c1 = c1
  c2 = c2
  l1 = l1
  Listings = {l1}
  Unit = 1
  Bids = {2}
  Quantities = {1, 2}
  ItemCount = 2
  StartPrice = 1
  BinPrice = 1
  Increment = 10
  SaleFee = 2
  ListingFee = 1
  CancelFee = 1
  MaxListings = 5
  Purse <- MCRich
  Reliable = TRUE
  MaxItems = 2
  MaxCoins = 20
  None = None
SYMMETRY Symmetry
CHECK_DEADLOCK FALSE
INVARIANT
  ItemsConserved
