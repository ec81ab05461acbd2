CONSTANTS
  v1 = v1
  v2 = v2
  region = region
  Runs = {r1}
  StackTemplates = {t1}
  Revisions = {v1, v2}
  Variables <- OneVariable
  Declares <- BothDeclare
  Requires <- SecondRequires
  Snapshots <- AllSnapshots
  Steps = {}
  NoRun = NoRun
  Requests = {q1, q2}
SPECIFICATION ServiceSpec
SYMMETRY RequestSymmetry
INVARIANTS
  FreshRequestsAgree
PROPERTIES
  EditsOnlyMeetLaterRuns
  MisfitOnlyByOverlap
  StaleApprovalOnlyByOverlap
