---------------------------- MODULE MCToolCalls ----------------------------
(* ToolCalls for TLC: sets of model values that nothing tells apart.       *)
EXTENDS ToolCalls, TLC

Symmetry == Permutations(Request) \cup Permutations(Key) \cup Permutations(Session)

=============================================================================
