\* Two sellers race in one queue; a listing, or an audit, of up to two orders,
\* page by page.
SPECIFICATION FairSpec
CONSTANTS
  me = me
  other = other
  Denoms = {1}
  Sellers <- TwoSellers
  Me = me
  Jobs = {"list", "audit", "sell"}
  Selling <- SellMeanwhile
  PageSize = 1
  HasArchive = TRUE
  MaxId = 2
  MaxChanges = 2
  MaxFaults <- Faults
INVARIANTS
  SellReturnsOwnOrder
  OpenOrdersListed
  CleanUnlessHotHidesArchive
PROPERTIES
  ListingEnds
\* sales, listings and audits end
CHECK_DEADLOCK FALSE
