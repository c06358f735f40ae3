CONSTANTS
  None = None
  kam1 = kam1
  cs1 = cs1
  Kams <- MCKams
  CSs <- MCCSs
  Categories <- MCCategories
  Ratings <- MCRatings
  ZohoIds <- MCZohoIds
  Operations <- MCAllOperations
  AutoCloseAfter = 1
  MaxEdits = 1
  MaxHistory = 5
  MaxTime = 3
SPECIFICATION FairSpec
INVARIANTS
  TypeOK
  ResolvedAwaitsAnswer
  UnsatisfiedNeverClosed
PROPERTY
  UnansweredIsClosed
