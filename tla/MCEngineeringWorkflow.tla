------------------------ MODULE MCEngineeringWorkflow ------------------------
(* Instances of EngineeringWorkflow for TLC. *)
EXTENDS EngineeringWorkflow, TLC

SymmetricRuns == Permutations(Run)
=============================================================================
