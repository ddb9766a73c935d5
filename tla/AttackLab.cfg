\* One run of any scenario and one of four that depend on what the other leaves behind, and the
\* shutdown.  The limits of the redactor are never met.
CONSTANTS
  l1 = l1
  l2 = l2
  Request = {l1, l2}
  Lab = {l1, l2}
  Plays <- MCPlays
  ToolTimeout = 1
  MaxDepth = 20
  MaxRedactionDepth = 20
  MaxRedactionNodes = 100
  MaxStoredDepth = 20
  MaxStoredBytes = 100
SPECIFICATION LabSpec
INVARIANTS
  LoneRunPasses
  LabCleansUp
\* A process that has shut down stays so.
CHECK_DEADLOCK FALSE
