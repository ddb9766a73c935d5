\* Three tools, arguments and results with and without secrets, and every table of up to five of
\* six rules.  Each limit is one that some value passes and another exceeds; redaction lets some
\* values grow past MaxStoredBytes or MaxResultBytes.
CONSTANTS
  MaxDepth = 4
  MaxRedactionDepth = 3
  MaxRedactionNodes = 5
  MaxStoredDepth = 2
  MaxStoredBytes = 4
  MaxArgumentBytes = 5
  MaxResultBytes = 5
  RuleLimit = 4
  StoreArguments = TRUE
  StoreResults = TRUE
  Tool <- MCTool
  Argument <- MCArgument
  Result <- MCResult
  Rule <- MCRule
SPECIFICATION Spec
INVARIANTS
  JudgedByEveryRule
  SecretsRemovedAndFlagged
\* A call that is done with stays so.
CHECK_DEADLOCK FALSE
