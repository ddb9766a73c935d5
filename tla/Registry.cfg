\* Three requests that do any of ten things, and a reader.
CONSTANTS
  r1 = r1  r2 = r2  r3 = r3
  i1 = i1
  t1 = t1
  f1 = f1
  Request = {r1, r2, r3}
  Identity = {i1}
  Tool = {t1}
  Rule = {f1}
  ResultRule = {f1}
  Seeded <- SeedOrder
  Operation <- Operations
  PageSize = 1
  NoAgent = NoAgent  NoSession = NoSession  NoEntry = NoEntry  NoRequest = NoRequest
SPECIFICATION ListSpec
INVARIANTS
  ListTypeOK
  SessionsHaveTheirAgent
  TrailTellsStatus
  WalkMissesNothing
PROPERTIES
  OnlyPatchesChange
  RequestsEnd
\* Every request ends, and so does the walk.
CHECK_DEADLOCK FALSE
