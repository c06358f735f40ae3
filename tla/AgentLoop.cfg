SPECIFICATION FairSpec

CONSTANTS
  None = None
  MAX_ITERATIONS = 3
  MAX_GENERATE_ATTEMPTS = 2
  MAX_STREAM_EMPTY_RETRIES = 1
  MaxCalls = 2
  MaxPieces = 1

INVARIANTS
  TypeOK
  CallsAnswered
  ReplyIsSpoken
  

PROPERTIES
  AdviceFirst
  TurnEnds
