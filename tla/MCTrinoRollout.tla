--------------------------- MODULE MCTrinoRollout ---------------------------
(***************************************************************************)
(* Instances of TrinoRollout: its constants are numbers, given in the      *)
(* configurations.                                                         *)
(***************************************************************************)
EXTENDS TrinoRollout

\* What the run rollout explores: an edit and a fault, or an edit and then
\* another one that leaves the workers there are alone.
Scenario ==
    edits' = 2 => faults' = 0 /\ want.workers = 1 /\ want'.workers = 1
=============================================================================
