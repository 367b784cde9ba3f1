--------------------------- MODULE MCPlanLifecycle ---------------------------
(* TLC instances of PlanLifecycle.  The contents of the store are the         *)
(* documents of the lifecycle.                                               *)
EXTENDS PlanLifecycle, TLC

MCContent == Docs
Symmetric == Permutations(Proc)
=============================================================================
