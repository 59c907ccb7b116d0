---------------------------- MODULE MCWorkRegistry ----------------------------
(* Instances of WorkRegistry for TLC. *)
EXTENDS WorkRegistry, TLC

Symmetric == Permutations(Task) \cup Permutations(Client) \cup Permutations(Evidence)
=============================================================================
