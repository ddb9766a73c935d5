\* Two requests and a run of the Attack Lab.
CONSTANTS
  q1 = q1
  q2 = q2
  q3 = q3
  Request = {q1, q2, q3}
  Lab = {q3}
SPECIFICATION FairSpec
INVARIANTS
  TypeOK
  ReleasedAfterRequests
PROPERTIES
  NoneEntersDraining
  ShutdownEnds
\* A process that has shut down stays so.
CHECK_DEADLOCK FALSE
