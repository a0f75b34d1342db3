CONSTANTS
  Artifacts = {"good", "loud", "rejected"}
  Admitted = {"good", "loud"}
  Quiet = {"good", "rejected"}
  Judged <- MCJudged
  Plans <- MCPlans
SPECIFICATION Spec
INVARIANTS
  TypeOK
  ManifestIsNotContradicted
  VerifiedWasWhole
  SteadyVerdictIsRight
PROPERTIES
  WorkEnds
  ImplementsProofShelf
