SPECIFICATION ViewSpec
CONSTANTS
  r1 = r1  r2 = r2
  k1 = k1
  s1 = s1
  t1 = t1
  a1 = a1
  b1 = b1
  f1 = f1
  Request = {r1, r2}
  Key = {k1}
  Session = {s1}
  Tool = {t1}
  Args = {a1}
  BlockRules = {b1}
  FlagRules = {f1}
  RejectErrors = {"invalid_tool_arguments", "tool_payload_too_deep"}
  ResultErrors = {"tool_payload_too_deep", "tool_result_too_large", "invalid_tool_result"}
  AdapterErrors = {"mock_query_not_supported", "tool_execution_failed"}
  BatchSize = 2
  CallLimit = 1
  EventLimit = 4
  StaleWhileLive = TRUE
  NoCall = NoCall
  NoRequest = NoRequest
SYMMETRY Symmetry
INVARIANTS
  NothingRunsUnjudged
  SuccessHasEvidence
  TrailEndsWithStatus
  FlagIsAudited
  CallPageCoherent
PROPERTIES
  DecisionNeverWeakened
CHECK_DEADLOCK FALSE
