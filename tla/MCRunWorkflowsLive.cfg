CONSTANTS
  Runs = {r1, r2}
  StackTemplates = {t1}
  Snapshots = {s1}
  Steps <- AllTemplateRunSteps
  NoRun = NoRun
  Unknown = Unknown
  MaxFaults = 1
  LateWrites = FALSE
SPECIFICATION WorkflowsSpec
CHECK_DEADLOCK FALSE
PROPERTIES
  OverRunsNeverGoLive
  RunsSettle
