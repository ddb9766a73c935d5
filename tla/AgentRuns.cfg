SPECIFICATION FairSpec
CONSTANTS
  r1 = r1
  Run = {r1}
  StartRequest <- StartRequests
  Registry <- Registries
  Reply <- Replies
  AllowedModels <- Models
  DefaultProvider = "fake"
  PublicName <- Names
  MaxExposedTools = 2
  NoName = NoName
  NoResponse = NoResponse
  MaxTurns = 2
  MaxToolCalls = 2
  MaxToolsPerTurn = 2
  BatchSize = 1
  StaleWhileLive = FALSE
  Nothing = Nothing
INVARIANTS
  TypeOK
  BudgetsHold
  OwnCallPerRequest
  ProgressIsBacked
  OneEnding
PROPERTIES
  EndedRunsFrozen
  RunsSettle
  ModelCallsSettle
CHECK_DEADLOCK FALSE
