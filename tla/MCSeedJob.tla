----------------------------- MODULE MCSeedJob -----------------------------
(***************************************************************************)
(* Small instances of SeedJob.                                             *)
(***************************************************************************)
EXTENDS SeedJob

BothKinds == {"seed", "bucket"}
SeedOnly == {"seed"}
\* Two schemas are enough to edit away from one and back.
TwoTargets == {"sales", "demo"}

\* What the run explores: two faults, or an edit and a fault.
Scenario == edits' + faults' <= 2
=============================================================================
