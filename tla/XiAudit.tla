------------------------------- MODULE XiAudit -------------------------------
(***************************************************************************)
(* The admission boundary as functions: run_check evaluates one frozen     *)
(* contract, decide turns the results of a contract set into an admission, *)
(* build_receipt records both and verify_receipt re-derives them.          *)
(*                                                                         *)
(* An artifact is a value; Resolves says which JSON pointers resolve in    *)
(* it.  A check implementation is a pure function: Emits says which issue  *)
(* codes it finds in an artifact under the config of the contracts that    *)
(* name it, or that it raises.  Messages, evidence references, versions    *)
(* and timestamps are left out; a digest stands for the value it digests.  *)
(***************************************************************************)
EXTENDS Naturals, FiniteSets

CONSTANTS
  Artifacts,    \* artifacts that may be submitted
  Names,        \* names that implementations are registered under
  Impls,        \* check implementations
  Missing,      \* the registry's answer for a name it does not know
  Raises,       \* an implementation that raises has found this
  Pointers,     \* input pointers of the contracts
  Resolves(_),  \* Resolves(a): the pointers that resolve in artifact a
  Emits(_, _),  \* Emits(i, a): the set of codes, or Raises
  CheckIds

ASSUME MissingAssumption == Missing \notin Impls

-----------------------------------------------------------------------------
(* The frozen vocabulary.                                                  *)

InfoCodes == {"MEASUREMENT"}
WarnCodes == {"DRIFT_DETECTED", "PAYLOAD_LARGE"}
ErrorCodes == {"INPUT_POINTER_MISSING", "CHECK_ERROR", "CHECK_NOT_FOUND",
               "CONTRACT_INVALID", "PAYLOAD_SIZE_UNKNOWN"}
FailCodes ==
  {"EVIDENCE_MISSING", "EVIDENCE_INCOMPLETE", "EVIDENCE_CITATION_MISSING",
   "EVIDENCE_REF_UNRESOLVED", "EVIDENCE_GAP_UNDECLARED", "INPUT_SHAPE_INVALID",
   "SCHEMA_VIOLATION", "MODEL_IDENTITY_MISMATCH", "FIXTURE_IDENTITY_MISMATCH",
   "TOOL_SURFACE_MISMATCH", "CONFIG_DRIFT_UNDECLARED", "CHANGED_VARIABLE_ABSENT",
   "CLAIM_OVERBROAD", "CLAIM_SCOPE_MISSING", "CLAIM_UNSUPPORTED", "LIMITATIONS_ABSENT",
   "CONTRADICTION_DETECTED", "HASH_MISMATCH", "SENSITIVE_VALUE_PRESENT",
   "REDACTION_POLICY_VIOLATION", "REQUIRED_CHECK_MISSING", "RECOVERY_BUDGET_EXHAUSTED",
   "RECOVERY_NOT_REVALIDATED"}
IssueCodes == InfoCodes \cup WarnCodes \cup FailCodes \cup ErrorCodes

Severities == {"INFO", "WARN", "FAIL", "ERROR"}
SeverityRank == [INFO |-> 0, WARN |-> 1, FAIL |-> 2, ERROR |-> 3]

SeverityOf(code) == CASE code \in InfoCodes -> "INFO"
                      [] code \in WarnCodes -> "WARN"
                      [] code \in FailCodes -> "FAIL"
                      [] code \in ErrorCodes -> "ERROR"

\* A contract may raise a WARN to a FAIL; nothing is lowered.
Escalate(code, escalated) ==
  IF SeverityOf(code) = "WARN" /\ code \in escalated THEN "FAIL" ELSE SeverityOf(code)

WorstSeverity(severities) ==
  CHOOSE s \in severities \cup {"INFO"} :
    \A t \in severities : SeverityRank[t] <= SeverityRank[s]

VerdictFrom(severities) ==
  IF WorstSeverity(severities) = "INFO" THEN "PASS" ELSE WorstSeverity(severities)

-----------------------------------------------------------------------------
(* Contracts and policies, as load_contract_set and load_policy let pass.  *)

Contract == [check_id : CheckIds, implementation : Names, pointers : SUBSET Pointers,
             escalate : SUBSET WarnCodes]

Ids(contracts) == {c.check_id : c \in contracts}

IsContractSet(contracts) ==
  /\ contracts \subseteq Contract /\ contracts # {}
  /\ \A c, d \in contracts : c.check_id = d.check_id => c = d

Policy == [on_warn : {"ADMIT", "REVIEW", "REJECT"}, required : SUBSET CheckIds]

-----------------------------------------------------------------------------
(* run_check and run_contract_set.                                         *)

\* Mutant: the verdict without a finding.
ErrorResultSilent(c, code) ==
  [check_id |-> c.check_id, verdict |-> "ERROR", findings |-> {}]

ErrorResult(c, code) ==
  [check_id |-> c.check_id, verdict |-> "ERROR",
   findings |-> {[code |-> code, severity |-> SeverityOf(code)]}]

\* Mutant: the verdict is taken before the escalation.
BuildResultEarly(c, codes) ==
  [check_id |-> c.check_id,
   verdict |-> VerdictFrom({SeverityOf(code) : code \in codes}),
   findings |-> {[code |-> code, severity |-> Escalate(code, c.escalate)] : code \in codes}]

BuildResult(c, codes) ==
  LET findings == {[code |-> code, severity |-> Escalate(code, c.escalate)] : code \in codes}
  IN  [check_id |-> c.check_id,
       verdict |-> VerdictFrom({f.severity : f \in findings}),
       findings |-> findings]

\* Mutant: codes outside the vocabulary are ignored.
RunCheckLenient(c, a, registry) ==
  LET impl == registry[c.implementation]
  IN  IF ~(c.pointers \subseteq Resolves(a)) THEN ErrorResult(c, "INPUT_POINTER_MISSING")
      ELSE IF impl = Missing THEN ErrorResult(c, "CHECK_NOT_FOUND")
      ELSE IF Emits(impl, a) = Raises THEN ErrorResult(c, "CHECK_ERROR")
      ELSE BuildResult(c, Emits(impl, a) \cap IssueCodes)

RunCheck(c, a, registry) ==
  LET impl == registry[c.implementation]
  IN  IF ~(c.pointers \subseteq Resolves(a)) THEN ErrorResult(c, "INPUT_POINTER_MISSING")
      ELSE IF impl = Missing THEN ErrorResult(c, "CHECK_NOT_FOUND")
      ELSE IF Emits(impl, a) = Raises THEN ErrorResult(c, "CHECK_ERROR")
      ELSE IF ~(Emits(impl, a) \subseteq IssueCodes) THEN ErrorResult(c, "CONTRACT_INVALID")
      ELSE BuildResult(c, Emits(impl, a))

\* The check_ids of a contract set are distinct, so the list of results is a set.
RunContractSet(contracts, a, registry) == {RunCheck(c, a, registry) : c \in contracts}

-----------------------------------------------------------------------------
(* decide.                                                                 *)

WithVerdict(results, verdict) == {r \in results : r.verdict = verdict}
CodesOf(results, severity) ==
  {f.code : f \in {g \in UNION {r.findings : r \in results} : g.severity = severity}}

MissingRequired(results, policy) == policy.required \ {r.check_id : r \in results}

Admission(results, policy) ==
  IF WithVerdict(results, "ERROR") # {} THEN "ERROR"
  ELSE IF WithVerdict(results, "FAIL") # {} \/ MissingRequired(results, policy) # {}
       THEN "REJECT"
  ELSE IF results = {} THEN "REJECT"
  ELSE IF WithVerdict(results, "WARN") # {} THEN policy.on_warn
  ELSE "ADMIT"

BlockingCodes(results, policy) ==
  LET errored == WithVerdict(results, "ERROR")
      failed == WithVerdict(results, "FAIL")
      missing == MissingRequired(results, policy)
      warned == WithVerdict(results, "WARN")
  IN  IF errored \cup failed # {} \/ missing # {}
      THEN CodesOf(errored, "ERROR") \cup CodesOf(failed, "FAIL")
             \cup {"REQUIRED_CHECK_MISSING" : id \in missing}
      ELSE IF results = {} THEN {"EVIDENCE_MISSING"}
      ELSE IF Admission(results, policy) = "ADMIT" THEN {}
      ELSE CodesOf(warned, "WARN")

-----------------------------------------------------------------------------
(* Receipts.  The two digests of a receipt cover its body.                 *)

Seal(body) == [body |-> body, digest |-> body]

BuildReceipt(a, contracts, policy, results, parent) ==
  Seal([artifact |-> a, contracts |-> contracts, policy |-> policy,
        on_warn |-> policy.on_warn, check_results |-> results,
        admission |-> Admission(results, policy),
        blocking |-> BlockingCodes(results, policy), parent |-> parent])

VerifyArtifact(a, contracts, policy, registry, parent) ==
  BuildReceipt(a, contracts, policy, RunContractSet(contracts, a, registry), parent)

Strictness == [ADMIT |-> 0, REVIEW |-> 1, REJECT |-> 2, ERROR |-> 3]

ExpectedVerdict(result) == VerdictFrom({f.severity : f \in result.findings})

ExpectedAdmission(body) ==
  LET verdicts == {r.verdict : r \in body.check_results}
  IN  IF "ERROR" \in verdicts THEN "ERROR"
      ELSE IF "FAIL" \in verdicts THEN "REJECT"
      ELSE IF "WARN" \in verdicts THEN body.on_warn
      ELSE "ADMIT"

\* verify_receipt for the artifact a: the schema wants at least one result.
VerifyReceipt(receipt, a) ==
  /\ receipt.body.check_results # {}
  /\ receipt.digest = receipt.body
  /\ receipt.body.artifact = a
  /\ \A r \in receipt.body.check_results : r.verdict = ExpectedVerdict(r)
  /\ Strictness[receipt.body.admission] >= Strictness[ExpectedAdmission(receipt.body)]

-----------------------------------------------------------------------------
(* What admission is for, without the order in which the code finds out.   *)

Runs(c, a, registry) ==
  /\ c.pointers \subseteq Resolves(a)
  /\ registry[c.implementation] # Missing
  /\ Emits(registry[c.implementation], a) # Raises

\* The check ran on a and found nothing, or nothing worse than the policy bears.
Bears(c, a, registry, on_warn) ==
  /\ Runs(c, a, registry)
  /\ Emits(registry[c.implementation], a) \subseteq
       InfoCodes \cup (IF on_warn = "ADMIT" THEN WarnCodes \ c.escalate ELSE {})

Admissible(a, contracts, policy, registry) ==
  /\ policy.required \subseteq Ids(contracts)
  /\ \A c \in contracts : Bears(c, a, registry, policy.on_warn)
=============================================================================
