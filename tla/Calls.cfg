CONSTANTS
  None = None
  MaxDeliveries = 3
  MaxTurns = 2
  InTool = TRUE
SPECIFICATION FairSpec
INVARIANTS
  TypeOK
  FirstOutcomeStands
PROPERTIES
  EndAndTurnsStay
  OutcomeArrives
CHECK_DEADLOCK FALSE
