CONSTANTS
  None = None
  kam1 = kam1
  cs1 = cs1
  w1 = w1
  w2 = w2
  Kams <- MCKams
  CSs <- MCCSs
  Workers <- MCTwoWorkers
  Categories <- MCMixedCategories
  Operations <- MCQueueOperations
  Faults <- MCAllFaults
  Ratings = {1}
  AutoCloseAfter = 1
  MaxZohoTickets = 2
  MaxEdits = 1
  MaxHistory = 4
  MaxTime = 2
SPECIFICATION Spec
SYMMETRY MCSymmetry
INVARIANTS
  EscalatedReachesKam
  LinkedIsCsTicket
