--------------------------- MODULE MCRunWorkflows ---------------------------
(* Small instances of RunWorkflows for TLC. *)
EXTENDS RunWorkflows, TLC

AllTemplateRunSteps ==
  {"waiting_for_executor", "preparing_workspace", "fetching_source",
   "restoring_plan", "initializing", "selecting_workspace", "planning",
   "saving_plan", "applying"}

RunSymmetry == Permutations(Runs)
=============================================================================
