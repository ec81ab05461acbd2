CONSTANTS
  Runs = {r1, r2}
  StackTemplates = {t1}
  Snapshots = {s1}
  Steps <- AllTemplateRunSteps
  NoRun = NoRun
  Unknown = Unknown
  MaxFaults = 2
  LateWrites = TRUE
SPECIFICATION WorkflowsSpec
CHECK_DEADLOCK FALSE
SYMMETRY RunSymmetry
INVARIANTS
  ReviewablePlanCanBeApplied
  EndedWorkflowLeavesNothingRunning
PROPERTIES
  CompletedRunDidItsWork
  PlanFailureNeverEndsAReview
