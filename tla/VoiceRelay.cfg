CONSTANTS
  MaxTurnId = 3
  MaxChunks = 2
SPECIFICATION FairSpec
INVARIANTS
  TypeOK
  SessionHasOneUser
PROPERTIES
  SpeaksAsPromised
  PromptAnswered
