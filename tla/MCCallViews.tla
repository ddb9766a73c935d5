---------------------------- MODULE MCCallViews ----------------------------
(* ToolCalls with a reader, for TLC: sets of model values that nothing     *)
(* tells apart.                                                            *)
EXTENDS CallViews, TLC

Symmetry == Permutations(Request) \cup Permutations(Key) \cup Permutations(Session)

\* The pages of sessions only, with fewer steps between the statements.  Nothing of a page depends
\* on the tools that are offered, so they are not switched while one is read; what happens between
\* the request for a page and its first statement may as well happen before; and a page that is
\* shown does not change any more.
SessionNext ==
  \/ Next /\ UNCHANGED reader /\ subject = NoCall
  \/ Next /\ UNCHANGED reader /\ parts \in {1, 2} /\ offered' = Tool
  \/ Open /\ subject' \in Session /\ offered = Tool
  \/ ReadPart

SessionViews == ViewInit /\ [][SessionNext]_ViewVars

=============================================================================
