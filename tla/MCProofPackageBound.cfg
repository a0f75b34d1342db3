CONSTANTS
  Artifacts = {"good"}
  Admitted = {"good"}
  Quiet = {"good"}
  Judged <- MCJudged
  Plans <- MCPlan
SPECIFICATION Spec
INVARIANTS
  SnapshotsAreBound
