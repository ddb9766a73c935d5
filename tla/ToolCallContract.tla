-------------------------- MODULE ToolCallContract --------------------------
(***************************************************************************)
(* What a caller may rely on when it names a piece of work with an         *)
(* idempotency key, whatever runs, crashes, is retried or is recovered     *)
(* underneath: the key is claimed once, the effect outside the system      *)
(* happens at most once and only while the work is open, and the outcome   *)
(* that closes it stands for ever and tells the truth about the effect.    *)
(***************************************************************************)
EXTENDS Naturals

CONSTANT Key

VARIABLES
  phase,    \* "free", "open" or "closed"
  effects,  \* effects outside the system
  outcome   \* what closed it, "none" before

contractVars == <<phase, effects, outcome>>

Outcome == {"succeeded", "failed", "timed_out", "rejected", "blocked"}

\* A success had its effect; a rejected or blocked call had none.  A failure says nothing.
Truthful(o, n) ==
  /\ o = "succeeded" => n = 1
  /\ o \in {"rejected", "blocked"} => n = 0

Init ==
  /\ phase = [k \in Key |-> "free"]
  /\ effects = [k \in Key |-> 0]
  /\ outcome = [k \in Key |-> "none"]

Claim(k) ==
  /\ phase[k] = "free"
  /\ phase' = [phase EXCEPT ![k] = "open"]
  /\ UNCHANGED <<effects, outcome>>

Perform(k) ==
  /\ phase[k] = "open"
  /\ effects[k] = 0
  /\ effects' = [effects EXCEPT ![k] = 1]
  /\ UNCHANGED <<phase, outcome>>

\* Several keys may be closed together: recovery works in batches.
Close(keys, o) ==
  /\ keys # {}
  /\ \A k \in keys : phase[k] = "open" /\ Truthful(o, effects[k])
  /\ phase' = [k \in Key |-> IF k \in keys THEN "closed" ELSE phase[k]]
  /\ outcome' = [k \in Key |-> IF k \in keys THEN o ELSE outcome[k]]
  /\ UNCHANGED effects

Next ==
  \/ \E k \in Key : Claim(k) \/ Perform(k)
  \/ \E keys \in SUBSET Key, o \in Outcome : Close(keys, o)

Spec == Init /\ [][Next]_contractVars

=============================================================================
