CONSTANTS
  None = None
  kam1 = kam1
  cs1 = cs1
  v1 = v1
  v2 = v2
  Kams <- MCKams
  CSs <- MCCSs
  Visits <- MCOneVisit
  Categories <- MCCategories
  Faults <- MCAllFaults
  Ratings = {4}
  AutoCloseAfter = 1
  MaxTickets = 2
  MaxToolCalls = 3
  MaxHistory = 3
  AutoCall = TRUE
SPECIFICATION Spec
INVARIANTS
  TypeOK
  KnownTicketsAreComplete
  NoSecondWhileOpen
  UntouchedRowsAreKnown
