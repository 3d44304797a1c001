-------------------------- MODULE MCPlanLifecycle ---------------------------
(* PlanLifecycle on a small instance: the model values are in the .cfg.      *)
EXTENDS PlanLifecycle, TLC

\* Plans are interchangeable, and so are Cores.
Symmetry == Permutations(Plans) \cup Permutations(Cores)
=============================================================================
