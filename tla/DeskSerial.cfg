CONSTANTS
  None = None
  kam1 = kam1
  cs1 = cs1
  w1 = w1
  w2 = w2
  Kams <- MCKams
  CSs <- MCCSs
  Workers <- MCOneWorker
  Categories <- MCMixedCategories
  Operations <- MCAllOperations
  Faults <- MCAllFaults
  Ratings = {3, 4}
  AutoCloseAfter = 1
  MaxZohoTickets = 1
  MaxEdits = 1
  MaxHistory = 4
  MaxTime = 2
SPECIFICATION Spec
PROPERTY
  LifecycleSpec
