CONSTANTS
  None = None
  kam1 = kam1
  cs1 = cs1
  w1 = w1
  w2 = w2
  Kams <- MCKams
  CSs <- MCCSs
  Workers <- MCTwoWorkers
  Categories <- MCCsCategory
  Operations <- MCStatusOperations
  Faults <- MCCrash
  Ratings = {3, 4}
  AutoCloseAfter = 1
  MaxZohoTickets = 1
  MaxEdits = 0
  MaxHistory = 6
  MaxTime = 3
SPECIFICATION Spec
SYMMETRY MCSymmetry
INVARIANTS
  TypeOK
  ClosedWasResolved
PROPERTY
  StatusChangeIsRecorded
