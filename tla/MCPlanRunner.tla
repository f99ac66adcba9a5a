---------------------------- MODULE MCPlanRunner ----------------------------
(* Constants of plan_trial.cfg: every limit is small, none is trivial.     *)
EXTENDS PlanRunner
=============================================================================
