\* Up to four deployments of four profiles, read in pages of two.
SPECIFICATION FairSpec
CONSTANTS
  Profiles <- P
  Desc <- Descriptions
  Filters = {"none", "a"}
  Chunk = 2
  MaxEvents = 4
  MaxUpsets = 1
INVARIANTS
  ListedUnlessCutOff
PROPERTIES
  ListingEnds
\* the sessions are listed in the end
CHECK_DEADLOCK FALSE
