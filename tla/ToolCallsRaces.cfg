SPECIFICATION SessionViews
CONSTANTS
  r1 = r1  r2 = r2
  k1 = k1  k2 = k2
  s1 = s1  s2 = s2
  t1 = t1
  a1 = a1
  Request = {r1, r2}
  Key = {k1, k2}
  Session = {s1, s2}
  Tool = {t1}
  Args = {a1}
  BlockRules = {}
  FlagRules = {}
  RejectErrors = {"invalid_tool_arguments"}
  ResultErrors = {}
  AdapterErrors = {"tool_execution_failed"}
  BatchSize = 2
  CallLimit = 1
  EventLimit = 9
  StaleWhileLive = FALSE
  NoCall = NoCall
  NoRequest = NoRequest
SYMMETRY Symmetry
INVARIANTS
  TypeOK
  AtMostOneExecution
  SequenceIsDense
  BackstopsNeverHit
  ConflictOnlyOnMismatch
  VerdictsAgree
  SessionPageComplete
PROPERTIES
  CallsOnlyInActiveSessions
CHECK_DEADLOCK FALSE
