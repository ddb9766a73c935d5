SPECIFICATION FairSpec
CONSTANTS
  r1 = r1  r2 = r2
  k1 = k1  k2 = k2
  s1 = s1
  t1 = t1
  a1 = a1
  Request = {r1, r2}
  Key = {k1, k2}
  Session = {s1}
  Tool = {t1}
  Args = {a1}
  BlockRules = {}
  FlagRules = {}
  RejectErrors = {"invalid_tool_arguments"}
  ResultErrors = {"tool_result_too_large"}
  AdapterErrors = {"tool_execution_failed"}
  BatchSize = 2
  StaleWhileLive = FALSE
  NoCall = NoCall
  NoRequest = NoRequest
PROPERTIES
  TerminalCallsFrozen
  ImplementsContract
  ExecutingSettles
  RequestsEnd
CHECK_DEADLOCK FALSE
