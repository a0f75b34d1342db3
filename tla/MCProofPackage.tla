--------------------------- MODULE MCProofPackage ---------------------------
(***************************************************************************)
(* Three artifacts: two that are admitted, whose arms are judged alike but *)
(* one of which shows what the policy denies, and one that is rejected.    *)
(* A directory is written twice, or written once and then edited.          *)
(***************************************************************************)
EXTENDS ProofPackage

MCJudged(artifact) == IF artifact = "rejected" THEN "other verdicts" ELSE "verdicts"

MCPlans ==
  [subject : {"good"}, runs : {2}, edits : {0}]
    \cup [subject : {"good", "rejected"}, runs : {1}, edits : {1}]
    \cup [subject : {"loud"}, runs : {1}, edits : {0}]

MCPlan == [subject : {"good"}, runs : {1}, edits : {0}]
MCPlanEdited == [subject : {"good"}, runs : {1}, edits : {1}]
=============================================================================
