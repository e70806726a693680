\* Streams of three and two records, read one by one, with an archive.
SPECIFICATION FairSpec
CONSTANTS
  Tokens = {"nackl", "ecc", "tip3"}
  Size = 1
  MaxAuto = 2
  HasArchive = TRUE
  MaxLen <- ThreeAndTwo
  MaxChanges = 1
  MaxFaults = 1
INVARIANTS
  NothingSkipped
  OncePerEndpoint
PROPERTIES
  PagingEnds
\* the history is shown in the end
CHECK_DEADLOCK FALSE
