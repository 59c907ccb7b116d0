---- MODULE MCWorkspace ----
(* One binary digit stands for the nine decimal digits of a fraction of a second. *)
EXTENDS Workspace, TLC
MCInstants ==
  {[second |-> 0, fraction |-> <<0>>], [second |-> 0, fraction |-> <<1>>],
   [second |-> 1, fraction |-> <<0>>]}
Symmetric == Permutations(Callers)
====
