SPECIFICATION FairSpec
CONSTANTS
  r1 = r1
  k1 = k1
  s1 = s1
  t1 = t1
  a1 = a1
  Request = {r1}
  Key = {k1}
  Session = {s1}
  Tool = {t1}
  Args = {a1}
  BlockRules = {}
  FlagRules = {}
  RejectErrors = {"invalid_tool_arguments", "tool_payload_too_deep"}
  ResultErrors = {"tool_payload_too_deep", "tool_result_too_large", "invalid_tool_result"}
  AdapterErrors = {"tool_execution_failed"}
  BatchSize = 2
  StaleWhileLive = FALSE
  NoCall = NoCall
  NoRequest = NoRequest
PROPERTIES
  InterruptedCallsSettle
CHECK_DEADLOCK FALSE
