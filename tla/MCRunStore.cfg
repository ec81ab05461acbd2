CONSTANTS
  Runs = {r1, r2}
  StackTemplates = {t1}
  Snapshots = {s1}
  Steps = {initializing, planning}
  NoRun = NoRun
SPECIFICATION Spec
SYMMETRY Symmetry
INVARIANTS
  TablesAgree
  PendingPlanIsReviewable
  PlanKeyDroppedWhenOver
PROPERTIES
  FollowsLifecycle
