----------------------------- MODULE MCRegistry -----------------------------
(* Three requests over one agent, a tool and a rule on results, with one   *)
(* page of one session at a time.                                          *)
EXTENDS Listing

CONSTANTS r1, r2, r3, i1, t1, f1

Operations ==
  {[kind |-> "start", identity |-> i1],
   [kind |-> "end", slot |-> 1, status |-> "completed"],
   [kind |-> "end", slot |-> 1, status |-> "failed"],
   [kind |-> "end", slot |-> 2, status |-> "completed"],
   [kind |-> "add", entry |-> t1, row |-> [enabled |-> 0]],
   [kind |-> "add", entry |-> f1, row |-> [enabled |-> 1, priority |-> 1, action |-> 1]],
   [kind |-> "patch", entry |-> t1, set |-> [enabled |-> 0]],
   [kind |-> "patch", entry |-> f1, set |-> [enabled |-> 0]],
   [kind |-> "patch", entry |-> f1, set |-> [priority |-> 1, action |-> 0]],
   [kind |-> "patch", entry |-> f1, set |-> [action |-> 1]]}

SeedOrder == <<t1, f1>>

=============================================================================
