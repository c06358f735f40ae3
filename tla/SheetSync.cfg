CONSTANTS
  None = None
  s1 = s1
  s2 = s2
  e1 = e1
  e2 = e2
  kam1 = kam1
  kam2 = kam2
  Syncs <- MCSyncs
  Experts <- MCExperts
  ListedAtStart <- MCListed
  UserOf <- MCUserOf
  Blank <- MCBlank
  Frozen <- MCFrozen
  Kams <- MCKams
  SpeakersFor <- MCSpeakersFor
  RowsOf <- MCRowsOf
  Cycles <- MCCycles
  Copies = {1, 2}
  OldCycles <- MCOldCycles
  PAYOUT_CYCLE_TAB <- MCTab
  Days <- MCDays
  FirstDay <- MCFirstDay
  Plans <- MCPlans
  MaxEdits = 1
  MaxFaults = 1
SPECIFICATION FairSpec
INVARIANTS
  TypeOK
  NoCascade
  OkMeansLinked
  PayoutCycleIsReal
PROPERTIES
  FailedStepWritesNothing
  EveryExpertIsProvisioned
  SyncConverges
