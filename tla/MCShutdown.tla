----------------------------- MODULE MCShutdown -----------------------------
EXTENDS Shutdown

CONSTANTS q1, q2, q3

=============================================================================
