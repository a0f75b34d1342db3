CONSTANTS
  Artifacts = {"good"}
  Admitted = {"good"}
  Quiet = {"good"}
  Judged <- MCJudged
  Plans <- MCPlanEdited
SPECIFICATION Spec
INVARIANTS
  NothingUnlisted
