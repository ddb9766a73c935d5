\* Two runs whose scenarios replace the adapter.
CONSTANTS
  l1 = l1
  l2 = l2
  Request = {l1, l2}
  Lab = {l1, l2}
  Plays <- MCOverrides
  ToolTimeout = 1
  MaxDepth = 20
  MaxRedactionDepth = 20
  MaxRedactionNodes = 100
  MaxStoredDepth = 20
  MaxStoredBytes = 100
SPECIFICATION LabSpec
INVARIANTS
  RestoredOnTeardown
\* A process that has shut down stays so.
CHECK_DEADLOCK FALSE
