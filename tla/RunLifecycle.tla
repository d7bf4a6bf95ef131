---------------------------- MODULE RunLifecycle -----------------------------
(***************************************************************************)
(* What the runtime loop promises about the rows of runtime_runs, without  *)
(* phases, tools or events.  A task has one row per profile generation.  A *)
(* generation begins only after its predecessor was settled with           *)
(* needs_recomposition, every generation is settled at most once, and rows *)
(* of earlier generations never change again.  A caller may mark the       *)
(* current row cancelled; the loop may still settle it afterwards.         *)
(***************************************************************************)
EXTENDS Naturals, Sequences

CONSTANT StopReasons   \* the reasons a generation may fail with

VARIABLES
  rows,      \* the run rows, by generation
  settled    \* how many generations the loop has settled

Running == [status |-> "running", stop |-> "none"]
Cancelled == [status |-> "cancelled", stop |-> "cancelled"]
Outcomes ==
  {[status |-> "succeeded", stop |-> "completed"], Cancelled}
    \cup {[status |-> "failed", stop |-> reason] : reason \in StopReasons}

Init == rows = <<>> /\ settled = 0

Begin ==
  /\ settled = Len(rows)
  /\ rows # <<>> => rows[Len(rows)].stop = "needs_recomposition"
  /\ rows' = Append(rows, Running)
  /\ UNCHANGED settled

Settle ==
  /\ settled < Len(rows)
  /\ \E outcome \in Outcomes : rows' = [rows EXCEPT ![Len(rows)] = outcome]
  /\ settled' = Len(rows)

CallerCancels ==
  /\ rows # <<>>
  /\ rows' = [rows EXCEPT ![Len(rows)] = Cancelled]
  /\ UNCHANGED settled

Next == Begin \/ Settle \/ CallerCancels

Spec == Init /\ [][Next]_<<rows, settled>>
=============================================================================
