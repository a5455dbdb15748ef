\* One grantee, two handlers that change permissions, a collection below another.
CONSTANTS
  Owners = {alice}
  Grantees = {bob}
  Segments <- MCSegments
  Grantable <- NestedCollections
  Denied <- NestedCollections
  h1 = h1
  h2 = h2
  Handlers <- MCHandlers
  Requests = 4
  Collections <- NestedCollections
  Rkeys <- MCRkeys
  Rank <- MCRank
  Calls = {c1}
  Paged <- LowerCollection
  Limit = 2
  BlobSizes = {0, 1}
  Puts = 3
  Reads = 2
  None = none
SYMMETRY Symmetry
SPECIFICATION MCSpec
CONSTRAINT TwoKeys
INVARIANTS TypeOK ListedWasReadable PagesAreComplete
INVARIANTS AcknowledgedAdditionHolds ShownIsReadable
 
CHECK_DEADLOCK FALSE
