--------------------------- MODULE XiAudit_proofs ---------------------------
(***************************************************************************)
(* Lemmas about the operators of the admission boundary, for every         *)
(* artifact, contract set, policy and registry.  The modules that use the  *)
(* boundary cite BoundaryEarned, BoundaryVerifies and BoundaryExplains;    *)
(* at the end, what tightening the rules does (TighterIsStricter) and what *)
(* an accepted receipt says whoever made it (AcceptedAdmitIsClean).        *)
(***************************************************************************)
EXTENDS XiAudit, TLAPS

-----------------------------------------------------------------------------
(* Severities and verdicts.                                                *)

\* Every code of the vocabulary has one severity.
LEMMA SeverityValue ==
  ASSUME NEW code \in IssueCodes
  PROVE  /\ SeverityOf(code) \in Severities
         /\ SeverityOf(code) = "INFO" <=> code \in InfoCodes
         /\ SeverityOf(code) = "WARN" <=> code \in WarnCodes
         /\ SeverityOf(code) = "ERROR" <=> code \in ErrorCodes
  BY DEF SeverityOf, Severities, IssueCodes, InfoCodes, WarnCodes, FailCodes, ErrorCodes

\* The worst of a set of severities is one of them, or INFO.
LEMMA WorstValue ==
  ASSUME NEW S \in SUBSET Severities
  PROVE  /\ WorstSeverity(S) \in S \cup {"INFO"}
         /\ \A t \in S : SeverityRank[t] <= SeverityRank[WorstSeverity(S)]
<1>1. \E s \in S \cup {"INFO"} : \A t \in S : SeverityRank[t] <= SeverityRank[s]
  <2>1. CASE "ERROR" \in S
    BY <2>1 DEF Severities, SeverityRank
  <2>2. CASE "ERROR" \notin S /\ "FAIL" \in S
    BY <2>2 DEF Severities, SeverityRank
  <2>3. CASE "ERROR" \notin S /\ "FAIL" \notin S /\ "WARN" \in S
    BY <2>3 DEF Severities, SeverityRank
  <2>4. CASE "ERROR" \notin S /\ "FAIL" \notin S /\ "WARN" \notin S
    BY <2>4 DEF Severities, SeverityRank
  <2>5. QED
    BY <2>1, <2>2, <2>3, <2>4
<1>2. QED
  BY <1>1 DEF WorstSeverity

\* The verdict of a result, by the severities it contains.
LEMMA VerdictValue ==
  ASSUME NEW S \in SUBSET Severities
  PROVE  /\ VerdictFrom(S) \in {"PASS", "WARN", "FAIL", "ERROR"}
         /\ VerdictFrom(S) = "PASS" <=> S \subseteq {"INFO"}
         /\ VerdictFrom(S) = "WARN" <=> "WARN" \in S /\ S \subseteq {"INFO", "WARN"}
         /\ VerdictFrom(S) \in {"WARN", "FAIL", "ERROR"} => VerdictFrom(S) \in S
<1> DEFINE w == WorstSeverity(S)
<1>1. /\ w \in {"INFO", "WARN", "FAIL", "ERROR"} /\ w \in S \cup {"INFO"}
      /\ \A t \in S : SeverityRank[t] <= SeverityRank[w]
  BY WorstValue DEF Severities
<1>2. w = "INFO" => S \subseteq {"INFO"}
  BY <1>1 DEF Severities, SeverityRank
<1>3. w = "WARN" => "WARN" \in S /\ S \subseteq {"INFO", "WARN"}
  BY <1>1 DEF Severities, SeverityRank
<1>4. w \in {"FAIL", "ERROR"} => w \in S
  BY <1>1
<1>5. VerdictFrom(S) = IF w = "INFO" THEN "PASS" ELSE w
  BY DEF VerdictFrom
<1> HIDE DEF w
<1>6. QED
  BY <1>1, <1>2, <1>3, <1>4, <1>5

-----------------------------------------------------------------------------
(* One check.                                                              *)

\* The severities a result lists.
Listed(r) == {f.severity : f \in r.findings}

\* A result is well-formed: severities of the vocabulary, and the verdict is the
\* one they imply.
WellFormed(r) == Listed(r) \subseteq Severities /\ r.verdict = VerdictFrom(Listed(r))

LEMMA ErrorResultFormed ==
  ASSUME NEW c, NEW code \in ErrorCodes
  PROVE  /\ WellFormed(ErrorResult(c, code))
         /\ ErrorResult(c, code).verdict = "ERROR"
         /\ ErrorResult(c, code).check_id = c.check_id
<1>1. SeverityOf(code) = "ERROR"
  BY SeverityValue DEF IssueCodes
<1>2. Listed(ErrorResult(c, code)) = {"ERROR"}
  BY <1>1 DEF Listed, ErrorResult
<1>3. VerdictFrom({"ERROR"}) = "ERROR"
  BY VerdictValue DEF Severities
<1>4. QED
  BY <1>2, <1>3 DEF WellFormed, ErrorResult, Severities

LEMMA BuildResultFormed ==
  ASSUME NEW c, NEW codes \in SUBSET IssueCodes
  PROVE  /\ WellFormed(BuildResult(c, codes))
         /\ BuildResult(c, codes).check_id = c.check_id
         /\ Listed(BuildResult(c, codes)) = {Escalate(code, c.escalate) : code \in codes}
<1> DEFINE F(code) == [code |-> code, severity |-> Escalate(code, c.escalate)]
           findings == {F(code) : code \in codes}
<1>1. \A code \in codes : Escalate(code, c.escalate) \in Severities
  BY SeverityValue DEF Escalate, Severities
<1>2. {f.severity : f \in findings} = {Escalate(code, c.escalate) : code \in codes}
  <2>1. \A code \in codes : F(code).severity = Escalate(code, c.escalate)
    OBVIOUS
  <2>2. ASSUME NEW f \in findings
        PROVE  f.severity \in {Escalate(code, c.escalate) : code \in codes}
    OBVIOUS
  <2>3. ASSUME NEW code \in codes
        PROVE  Escalate(code, c.escalate) \in {f.severity : f \in findings}
    <3>1. F(code) \in findings
      OBVIOUS
    <3>2. QED
      BY <2>1, <3>1
  <2>4. QED
    BY <2>2, <2>3
<1>3. QED
  BY <1>1, <1>2 DEF WellFormed, Listed, BuildResult

\* What the severity of an escalated code says of the code.
LEMMA EscalateValue ==
  ASSUME NEW code \in IssueCodes, NEW escalated
  PROVE  /\ Escalate(code, escalated) = "INFO" <=> code \in InfoCodes
         /\ Escalate(code, escalated) = "WARN" <=> code \in WarnCodes \ escalated
  BY SeverityValue DEF Escalate, Severities

\* run_check: a well-formed result, PASS or WARN only if the check ran and spoke
\* within the vocabulary.
LEMMA RunCheckValue ==
  ASSUME NEW c, NEW a, NEW registry
  PROVE  /\ WellFormed(RunCheck(c, a, registry))
         /\ RunCheck(c, a, registry).check_id = c.check_id
         /\ RunCheck(c, a, registry).verdict = "PASS" <=>
              Runs(c, a, registry)
              /\ Emits(registry[c.implementation], a) \subseteq InfoCodes
         /\ RunCheck(c, a, registry).verdict \in {"PASS", "WARN"} <=>
              Runs(c, a, registry)
              /\ Emits(registry[c.implementation], a)
                   \subseteq InfoCodes \cup (WarnCodes \ c.escalate)
<1> DEFINE codes == Emits(registry[c.implementation], a)
           r == RunCheck(c, a, registry)
<1>1. CASE ~Runs(c, a, registry)
  <2>1. r \in {ErrorResult(c, "INPUT_POINTER_MISSING"), ErrorResult(c, "CHECK_NOT_FOUND"),
               ErrorResult(c, "CHECK_ERROR")}
    BY <1>1 DEF RunCheck, Runs
  <2>2. WellFormed(r) /\ r.verdict = "ERROR" /\ r.check_id = c.check_id
    BY <2>1, ErrorResultFormed DEF ErrorCodes
  <2>3. QED
    BY <1>1, <2>2
<1>2. CASE Runs(c, a, registry) /\ ~(codes \subseteq IssueCodes)
  <2>1. r = ErrorResult(c, "CONTRACT_INVALID")
    BY <1>2 DEF RunCheck, Runs
  <2>2. WellFormed(r) /\ r.verdict = "ERROR" /\ r.check_id = c.check_id
    BY <2>1, ErrorResultFormed DEF ErrorCodes
  <2>3. ~(codes \subseteq InfoCodes \cup (WarnCodes \ c.escalate))
    BY <1>2 DEF IssueCodes
  <2>4. QED
    BY <2>2, <2>3
<1>3. CASE Runs(c, a, registry) /\ codes \subseteq IssueCodes
  <2>1. r = BuildResult(c, codes)
    BY <1>3 DEF RunCheck, Runs
  <2>2. /\ WellFormed(r) /\ r.check_id = c.check_id
        /\ Listed(r) = {Escalate(code, c.escalate) : code \in codes}
    BY <1>3, <2>1, BuildResultFormed
  <2>3. r.verdict = VerdictFrom(Listed(r)) /\ Listed(r) \in SUBSET Severities
    BY <2>2 DEF WellFormed
  <2>4. Listed(r) \subseteq {"INFO"} <=> codes \subseteq InfoCodes
    BY <1>3, <2>2, EscalateValue
  <2>5. Listed(r) \subseteq {"INFO", "WARN"}
          <=> codes \subseteq InfoCodes \cup (WarnCodes \ c.escalate)
    BY <1>3, <2>2, EscalateValue
  <2>6. r.verdict \in {"PASS", "WARN"} <=> Listed(r) \subseteq {"INFO", "WARN"}
    BY <2>3, VerdictValue DEF Severities
  <2>7. r.verdict = "PASS" <=> Listed(r) \subseteq {"INFO"}
    BY <2>3, VerdictValue
  <2>8. QED
    BY <1>3, <2>2, <2>4, <2>5, <2>6, <2>7
<1>4. QED
  BY <1>1, <1>2, <1>3

\* A well-formed result lists a finding as bad as its verdict.
LEMMA VerdictIsListed ==
  ASSUME NEW r, WellFormed(r), NEW v \in {"WARN", "FAIL", "ERROR"}, r.verdict = v
  PROVE  \E f \in r.findings : f.severity = v
  BY VerdictValue DEF WellFormed, Listed

\* run_check reads the registry only at the name the contract gives.
LEMMA RunCheckReads ==
  ASSUME NEW c, NEW a, NEW registry, NEW other,
         registry[c.implementation] = other[c.implementation]
  PROVE  RunCheck(c, a, registry) = RunCheck(c, a, other)
  BY DEF RunCheck

LEMMA BoundaryReads ==
  ASSUME NEW a, NEW contracts, NEW policy, NEW registry, NEW other, NEW parent,
         \A c \in contracts : registry[c.implementation] = other[c.implementation]
  PROVE  VerifyArtifact(a, contracts, policy, registry, parent)
           = VerifyArtifact(a, contracts, policy, other, parent)
<1>1. \A c \in contracts : RunCheck(c, a, registry) = RunCheck(c, a, other)
  BY RunCheckReads
<1>2. RunContractSet(contracts, a, registry) = RunContractSet(contracts, a, other)
  BY <1>1 DEF RunContractSet
<1>3. QED
  BY <1>2 DEF VerifyArtifact

-----------------------------------------------------------------------------
(* A contract set.                                                         *)

\* The results of a contract set, seen through the contracts.
LEMMA ResultsOf ==
  ASSUME NEW contracts, NEW a, NEW registry
  PROVE  /\ \A r \in RunContractSet(contracts, a, registry) : WellFormed(r)
         /\ Ids(contracts) = {r.check_id : r \in RunContractSet(contracts, a, registry)}
<1> DEFINE results == RunContractSet(contracts, a, registry)
<1>1. \A c \in contracts : RunCheck(c, a, registry).check_id = c.check_id
  BY RunCheckValue
<1>2. \A r \in results : WellFormed(r)
  BY RunCheckValue DEF RunContractSet
<1>3. ASSUME NEW id
      PROVE  (\E c \in contracts : id = c.check_id) <=> \E r \in results : id = r.check_id
  BY <1>1 DEF RunContractSet
<1>4. Ids(contracts) = {r.check_id : r \in results}
  BY <1>3 DEF Ids
<1>5. QED
  BY <1>2, <1>4

\* The boundary admits exactly what is admissible.
LEMMA BoundaryEarned ==
  ASSUME NEW contracts, contracts # {}, NEW a, NEW registry, NEW parent,
         NEW policy \in Policy
  PROVE  VerifyArtifact(a, contracts, policy, registry, parent).body.admission = "ADMIT"
           <=> Admissible(a, contracts, policy, registry)
<1> DEFINE results == RunContractSet(contracts, a, registry)
           verdict(c) == RunCheck(c, a, registry).verdict
<1>1. VerifyArtifact(a, contracts, policy, registry, parent).body.admission
        = Admission(results, policy)
  BY DEF VerifyArtifact, BuildReceipt, Seal
<1>2. policy.on_warn \in {"ADMIT", "REVIEW", "REJECT"}
  BY DEF Policy
<1>3. results # {} /\ \A v : WithVerdict(results, v) # {} <=> \E c \in contracts : verdict(c) = v
  BY DEF RunContractSet, WithVerdict
<1>4. MissingRequired(results, policy) = {} <=> policy.required \subseteq Ids(contracts)
  BY ResultsOf DEF MissingRequired
<1>5. \A c \in contracts : verdict(c) \in {"PASS", "WARN", "FAIL", "ERROR"}
  BY RunCheckValue, VerdictValue DEF WellFormed
<1>6. \A c \in contracts : Bears(c, a, registry, policy.on_warn)
        <=> verdict(c) = "PASS" \/ (verdict(c) = "WARN" /\ policy.on_warn = "ADMIT")
  <2> SUFFICES ASSUME NEW c \in contracts
               PROVE  Bears(c, a, registry, policy.on_warn)
                 <=> verdict(c) = "PASS" \/ (verdict(c) = "WARN" /\ policy.on_warn = "ADMIT")
    OBVIOUS
  <2> DEFINE codes == Emits(registry[c.implementation], a)
  <2>1. verdict(c) = "PASS" <=> Runs(c, a, registry) /\ codes \subseteq InfoCodes
    BY RunCheckValue
  <2>2. verdict(c) \in {"PASS", "WARN"} <=>
          Runs(c, a, registry) /\ codes \subseteq InfoCodes \cup (WarnCodes \ c.escalate)
    BY RunCheckValue
  <2>3. CASE policy.on_warn = "ADMIT"
    BY <2>2, <2>3 DEF Bears
  <2>4. CASE policy.on_warn # "ADMIT"
    BY <2>1, <2>4 DEF Bears
  <2>5. QED
    BY <2>3, <2>4
<1>7. Admission(results, policy) = "ADMIT"
        <=> /\ MissingRequired(results, policy) = {}
            /\ \A c \in contracts :
                 verdict(c) = "PASS" \/ (verdict(c) = "WARN" /\ policy.on_warn = "ADMIT")
  BY <1>2, <1>3, <1>5 DEF Admission
<1>8. QED
  BY <1>1, <1>4, <1>6, <1>7 DEF Admissible

\* verify_receipt accepts what the boundary issues.
LEMMA BoundaryVerifies ==
  ASSUME NEW contracts, contracts # {}, NEW a, NEW registry, NEW parent,
         NEW policy \in Policy
  PROVE  VerifyReceipt(VerifyArtifact(a, contracts, policy, registry, parent), a)
<1> DEFINE results == RunContractSet(contracts, a, registry)
           receipt == VerifyArtifact(a, contracts, policy, registry, parent)
<1>1. /\ receipt.digest = receipt.body /\ receipt.body.artifact = a
      /\ receipt.body.check_results = results
      /\ receipt.body.on_warn = policy.on_warn
      /\ receipt.body.admission = Admission(results, policy)
  BY DEF VerifyArtifact, BuildReceipt, Seal
<1>2. results # {}
  BY DEF RunContractSet
<1>3. \A r \in results : r.verdict = ExpectedVerdict(r)
  BY ResultsOf DEF WellFormed, ExpectedVerdict, Listed
<1>4. policy.on_warn \in {"ADMIT", "REVIEW", "REJECT"}
  BY DEF Policy
<1>5. \A v : WithVerdict(results, v) # {} <=> v \in {r.verdict : r \in results}
  BY DEF WithVerdict
<1>6. ExpectedAdmission(receipt.body) \in {"ADMIT", "REVIEW", "REJECT", "ERROR"}
  BY <1>1, <1>4 DEF ExpectedAdmission
<1>7. \/ Admission(results, policy) = ExpectedAdmission(receipt.body)
      \/ /\ Admission(results, policy) = "REJECT"
         /\ ExpectedAdmission(receipt.body) # "ERROR"
  BY <1>1, <1>2, <1>4, <1>5 DEF Admission, ExpectedAdmission
<1>8. Strictness[receipt.body.admission] >= Strictness[ExpectedAdmission(receipt.body)]
  BY <1>1, <1>6, <1>7 DEF Strictness
<1>9. QED
  BY <1>1, <1>2, <1>3, <1>8 DEF VerifyReceipt

\* A receipt names a code to blame exactly when it does not admit.
LEMMA BoundaryExplains ==
  ASSUME NEW contracts, contracts # {}, NEW a, NEW registry, NEW parent,
         NEW policy \in Policy
  PROVE  LET body == VerifyArtifact(a, contracts, policy, registry, parent).body
         IN  body.admission = "ADMIT" <=> body.blocking = {}
<1> DEFINE results == RunContractSet(contracts, a, registry)
<1>1. LET body == VerifyArtifact(a, contracts, policy, registry, parent).body
      IN  body.admission = Admission(results, policy)
          /\ body.blocking = BlockingCodes(results, policy)
  BY DEF VerifyArtifact, BuildReceipt, Seal
<1>2. results # {}
  BY DEF RunContractSet
<1>3. ASSUME NEW v \in {"WARN", "FAIL", "ERROR"}, WithVerdict(results, v) # {}
      PROVE  CodesOf(WithVerdict(results, v), v) # {}
  <2>1. PICK r \in results : r.verdict = v
    BY <1>3 DEF WithVerdict
  <2>2. PICK f \in r.findings : f.severity = v
    BY <2>1, ResultsOf, VerdictIsListed
  <2>3. r \in WithVerdict(results, v)
    BY <2>1 DEF WithVerdict
  <2>4. f.code \in CodesOf(WithVerdict(results, v), v)
    BY <2>2, <2>3 DEF CodesOf
  <2>5. QED
    BY <2>4
<1>4. \A r \in results : r.verdict \in {"PASS", "WARN", "FAIL", "ERROR"}
  BY ResultsOf, VerdictValue DEF WellFormed
<1>5. policy.on_warn \in {"ADMIT", "REVIEW", "REJECT"}
  BY DEF Policy
<1> DEFINE errored == WithVerdict(results, "ERROR")
           failed == WithVerdict(results, "FAIL")
           missing == MissingRequired(results, policy)
           warned == WithVerdict(results, "WARN")
<1>6. CASE errored \cup failed # {} \/ missing # {}
  <2>1. Admission(results, policy) # "ADMIT"
    BY <1>6 DEF Admission
  <2>2. BlockingCodes(results, policy) # {}
    <3>1. BlockingCodes(results, policy)
            = CodesOf(errored, "ERROR") \cup CodesOf(failed, "FAIL")
                \cup {"REQUIRED_CHECK_MISSING" : id \in missing}
      BY <1>6 DEF BlockingCodes
    <3>2. QED
      BY <1>3, <1>6, <3>1
  <2>3. QED
    BY <1>1, <2>1, <2>2
<1>7. CASE errored \cup failed = {} /\ missing = {}
  <2>1. Admission(results, policy) = IF warned # {} THEN policy.on_warn ELSE "ADMIT"
    BY <1>2, <1>7 DEF Admission
  <2>2. BlockingCodes(results, policy)
          = IF Admission(results, policy) = "ADMIT" THEN {} ELSE CodesOf(warned, "WARN")
    BY <1>2, <1>7 DEF BlockingCodes
  <2>3. QED
    BY <1>1, <1>3, <2>1, <2>2
<1>8. QED
  BY <1>6, <1>7

\* What a receipt of the boundary records.
LEMMA BoundaryRecords ==
  ASSUME NEW contracts, NEW a, NEW registry, NEW parent, NEW policy \in Policy
  PROVE  /\ VerifyArtifact(a, contracts, policy, registry, parent).body.artifact = a
         /\ VerifyArtifact(a, contracts, policy, registry, parent).body.parent = parent
         /\ VerifyArtifact(a, contracts, policy, registry, parent).body.admission
              \in {"ADMIT", "REVIEW", "REJECT", "ERROR"}
  BY DEF VerifyArtifact, BuildReceipt, Seal, Admission, Policy

\* A boundary whose checks all run and find nothing but measurements and failures
\* blames each failure that one of them finds, and nothing else.
LEMMA BoundaryBlames ==
  ASSUME NEW contracts, contracts # {}, NEW a, NEW registry, NEW parent,
         NEW policy \in Policy, policy.required \subseteq Ids(contracts),
         \A c \in contracts :
           /\ Runs(c, a, registry)
           /\ Emits(registry[c.implementation], a) \subseteq InfoCodes \cup FailCodes,
         NEW code
  PROVE  code \in VerifyArtifact(a, contracts, policy, registry, parent).body.blocking
           <=> /\ code \in FailCodes
               /\ \E c \in contracts : code \in Emits(registry[c.implementation], a)
<1> DEFINE results == RunContractSet(contracts, a, registry)
           codes(c) == Emits(registry[c.implementation], a)
           failed == WithVerdict(results, "FAIL")
<1>1. VerifyArtifact(a, contracts, policy, registry, parent).body.blocking
        = BlockingCodes(results, policy)
  BY DEF VerifyArtifact, BuildReceipt, Seal
<1>2. ASSUME NEW c \in contracts
      PROVE  /\ RunCheck(c, a, registry) = BuildResult(c, codes(c))
             /\ codes(c) \subseteq IssueCodes
  BY DEF Runs, RunCheck, IssueCodes
<1>3. ASSUME NEW d \in InfoCodes \cup FailCodes, NEW escalated
      PROVE  /\ Escalate(d, escalated) \in {"INFO", "FAIL"}
             /\ Escalate(d, escalated) = "FAIL" <=> d \in FailCodes
  <2>1. d \in IssueCodes /\ (d \in InfoCodes <=> d \notin FailCodes)
    BY DEF IssueCodes, InfoCodes, FailCodes
  <2>2. d \notin WarnCodes /\ d \notin ErrorCodes
    BY DEF InfoCodes, WarnCodes, FailCodes, ErrorCodes
  <2>3. SeverityOf(d) \in {"INFO", "FAIL"} /\ (SeverityOf(d) = "INFO" <=> d \in InfoCodes)
    BY <2>1, <2>2, SeverityValue DEF Severities
  <2> QED BY <2>1, <2>3 DEF Escalate
<1>4. ASSUME NEW c \in contracts
      PROVE  /\ RunCheck(c, a, registry).verdict \in {"PASS", "FAIL"}
             /\ RunCheck(c, a, registry).verdict = "FAIL" <=> codes(c) \cap FailCodes # {}
             /\ \A f \in RunCheck(c, a, registry).findings :
                  /\ f.code \in codes(c)
                  /\ f.severity = Escalate(f.code, c.escalate)
             /\ \A d \in codes(c) : \E f \in RunCheck(c, a, registry).findings : f.code = d
  <2> DEFINE r == RunCheck(c, a, registry)
             of(d) == [code |-> d, severity |-> Escalate(d, c.escalate)]
  <2>1. r = BuildResult(c, codes(c)) /\ codes(c) \in SUBSET IssueCodes
    BY <1>2
  <2>2. /\ WellFormed(r) /\ Listed(r) = {Escalate(d, c.escalate) : d \in codes(c)}
    BY <2>1, BuildResultFormed
  <2>3. r.findings = {of(d) : d \in codes(c)}
    BY <2>1 DEF BuildResult
  <2>4. Listed(r) \subseteq {"INFO", "FAIL"} /\ ("FAIL" \in Listed(r) <=> codes(c) \cap FailCodes # {})
    BY <1>3, <2>2
  <2>5. /\ r.verdict \in {"PASS", "WARN", "FAIL", "ERROR"}
        /\ r.verdict = "PASS" <=> Listed(r) \subseteq {"INFO"}
        /\ r.verdict = "WARN" => "WARN" \in Listed(r)
        /\ r.verdict \in {"WARN", "FAIL", "ERROR"} => r.verdict \in Listed(r)
    BY <2>2, VerdictValue DEF WellFormed
  <2>6. r.verdict \in {"PASS", "FAIL"} /\ (r.verdict = "FAIL" <=> "FAIL" \in Listed(r))
    BY <2>4, <2>5
  <2>7. \A d : of(d).code = d /\ of(d).severity = Escalate(d, c.escalate)
    OBVIOUS
  <2> HIDE DEF r, of
  <2> QED BY <2>3, <2>4, <2>6, <2>7 DEF r
<1>5. results # {} /\ WithVerdict(results, "ERROR") = {} /\ WithVerdict(results, "WARN") = {}
  BY <1>4 DEF RunContractSet, WithVerdict
<1>6. MissingRequired(results, policy) = {}
  BY ResultsOf DEF MissingRequired
<1>7. failed # {} => BlockingCodes(results, policy) = CodesOf(failed, "FAIL")
  <2>1. CodesOf({}, "ERROR") = {}
    BY DEF CodesOf
  <2> QED BY <1>5, <1>6, <2>1 DEF BlockingCodes
<1>8. failed = {} => BlockingCodes(results, policy) = {}
  <2>1. failed = {} => Admission(results, policy) = "ADMIT"
    BY <1>5, <1>6 DEF Admission
  <2> QED BY <1>5, <1>6, <2>1 DEF BlockingCodes
<1>9. code \in CodesOf(failed, "FAIL")
        <=> code \in FailCodes /\ \E c \in contracts : code \in codes(c)
  <2>1. ASSUME code \in CodesOf(failed, "FAIL")
        PROVE  code \in FailCodes /\ \E c \in contracts : code \in codes(c)
    <3>1. PICK r \in failed : \E f \in r.findings : f.severity = "FAIL" /\ f.code = code
      BY <2>1 DEF CodesOf
    <3>2. PICK c \in contracts : r = RunCheck(c, a, registry)
      BY <3>1 DEF WithVerdict, RunContractSet
    <3>3. code \in codes(c) /\ Escalate(code, c.escalate) = "FAIL"
      BY <1>4, <3>1, <3>2
    <3>4. code \in InfoCodes \cup FailCodes
      BY <3>3
    <3> QED BY <1>3, <3>3, <3>4
  <2>2. ASSUME code \in FailCodes, NEW c \in contracts, code \in codes(c)
        PROVE  code \in CodesOf(failed, "FAIL")
    <3>1. RunCheck(c, a, registry) \in failed
      BY <1>4, <2>2 DEF WithVerdict, RunContractSet
    <3>2. PICK f \in RunCheck(c, a, registry).findings : f.code = code
      BY <1>4, <2>2
    <3>3. f.severity = "FAIL"
      BY <1>3, <1>4, <2>2, <3>2
    <3> QED BY <3>1, <3>2, <3>3 DEF CodesOf
  <2> QED BY <2>1, <2>2
<1>10. failed = {} => CodesOf(failed, "FAIL") = {}
  BY DEF CodesOf
<1> QED BY <1>1, <1>7, <1>8, <1>9, <1>10

AllPass(results) == \A r \in results : r.verdict = "PASS"

\* A boundary that bears no warning admits only what passes every check.
LEMMA BoundaryPasses ==
  ASSUME NEW contracts, contracts # {}, NEW a, NEW registry, NEW parent,
         NEW policy \in Policy, policy.on_warn # "ADMIT"
  PROVE  /\ VerifyArtifact(a, contracts, policy, registry, parent).body.check_results # {}
         /\ VerifyArtifact(a, contracts, policy, registry, parent).body.admission = "ADMIT" =>
              AllPass(VerifyArtifact(a, contracts, policy, registry, parent).body.check_results)
<1> DEFINE results == RunContractSet(contracts, a, registry)
<1>1. LET body == VerifyArtifact(a, contracts, policy, registry, parent).body
      IN  body.admission = Admission(results, policy) /\ body.check_results = results
  BY DEF VerifyArtifact, BuildReceipt, Seal
<1>2. results # {}
  BY DEF RunContractSet
<1>3. \A r \in results : r.verdict \in {"PASS", "WARN", "FAIL", "ERROR"}
  BY ResultsOf, VerdictValue DEF WellFormed
<1>4. Admission(results, policy) = "ADMIT" =>
        \A v \in {"WARN", "FAIL", "ERROR"} : WithVerdict(results, v) = {}
  BY DEF Admission
<1> QED BY <1>1, <1>2, <1>3, <1>4 DEF WithVerdict, AllPass

-----------------------------------------------------------------------------
(* Tightening.                                                             *)

VerdictRank == [PASS |-> 0, WARN |-> 1, FAIL |-> 2, ERROR |-> 3]

\* One ERROR makes the verdict ERROR.
LEMMA VerdictErrs ==
  ASSUME NEW S \in SUBSET Severities
  PROVE  VerdictFrom(S) = "ERROR" <=> "ERROR" \in S
<1> DEFINE w == WorstSeverity(S)
<1>1. /\ w \in {"INFO", "WARN", "FAIL", "ERROR"} /\ w \in S \cup {"INFO"}
      /\ \A t \in S : SeverityRank[t] <= SeverityRank[w]
  BY WorstValue DEF Severities
<1>2. "ERROR" \in S => w = "ERROR"
  BY <1>1 DEF SeverityRank
<1>3. VerdictFrom(S) = IF w = "INFO" THEN "PASS" ELSE w
  BY DEF VerdictFrom
<1> HIDE DEF w
<1> QED BY <1>1, <1>2, <1>3

\* run_check: ERROR exactly if the check did not run, spoke outside the vocabulary, or
\* found a code of that severity.  Escalation has no part in it.
LEMMA RunCheckErrs ==
  ASSUME NEW c, NEW a, NEW registry
  PROVE  RunCheck(c, a, registry).verdict = "ERROR" <=>
           ~(/\ Runs(c, a, registry)
             /\ Emits(registry[c.implementation], a) \subseteq IssueCodes \ ErrorCodes)
<1> DEFINE codes == Emits(registry[c.implementation], a)
           r == RunCheck(c, a, registry)
<1>1. CASE ~Runs(c, a, registry)
  <2>1. r \in {ErrorResult(c, "INPUT_POINTER_MISSING"), ErrorResult(c, "CHECK_NOT_FOUND"),
               ErrorResult(c, "CHECK_ERROR")}
    BY <1>1 DEF RunCheck, Runs
  <2>2. r.verdict = "ERROR"
    BY <2>1, ErrorResultFormed DEF ErrorCodes
  <2> QED BY <1>1, <2>2
<1>2. CASE Runs(c, a, registry) /\ ~(codes \subseteq IssueCodes)
  <2>1. r = ErrorResult(c, "CONTRACT_INVALID")
    BY <1>2 DEF RunCheck, Runs
  <2>2. r.verdict = "ERROR"
    BY <2>1, ErrorResultFormed DEF ErrorCodes
  <2> QED BY <1>2, <2>2
<1>3. CASE Runs(c, a, registry) /\ codes \subseteq IssueCodes
  <2>1. r = BuildResult(c, codes)
    BY <1>3 DEF RunCheck, Runs
  <2>2. /\ WellFormed(r)
        /\ Listed(r) = {Escalate(code, c.escalate) : code \in codes}
    BY <1>3, <2>1, BuildResultFormed
  <2>3. r.verdict = "ERROR" <=> "ERROR" \in Listed(r)
    BY <2>2, VerdictErrs DEF WellFormed
  <2>4. \A code \in codes : Escalate(code, c.escalate) = "ERROR" <=> code \in ErrorCodes
    BY <1>3, SeverityValue DEF Escalate
  <2>5. "ERROR" \in Listed(r) <=> \E code \in codes : code \in ErrorCodes
    BY <2>2, <2>4
  <2> QED BY <1>3, <2>3, <2>5
<1> QED BY <1>1, <1>2, <1>3

\* A contract that asks for more input and escalates more gives no better verdict.
Tighter(c, d) ==
  /\ c.implementation = d.implementation
  /\ c.pointers \subseteq d.pointers /\ c.escalate \subseteq d.escalate

LEMMA RunCheckTightens ==
  ASSUME NEW c, NEW d, Tighter(c, d), NEW a, NEW registry
  PROVE  VerdictRank[RunCheck(c, a, registry).verdict]
           <= VerdictRank[RunCheck(d, a, registry).verdict]
<1> DEFINE codes == Emits(registry[c.implementation], a)
           v == RunCheck(c, a, registry).verdict
           w == RunCheck(d, a, registry).verdict
<1>1. Runs(d, a, registry) => Runs(c, a, registry)
  BY DEF Tighter, Runs
<1>2. codes = Emits(registry[d.implementation], a)
  BY DEF Tighter
<1>3. v \in {"PASS", "WARN", "FAIL", "ERROR"} /\ w \in {"PASS", "WARN", "FAIL", "ERROR"}
  BY RunCheckValue, VerdictValue DEF WellFormed
<1>4. w = "PASS" => v = "PASS"
  <2>1. v = "PASS" <=> Runs(c, a, registry) /\ codes \subseteq InfoCodes
    BY RunCheckValue
  <2>2. w = "PASS" <=> Runs(d, a, registry)
                       /\ Emits(registry[d.implementation], a) \subseteq InfoCodes
    BY RunCheckValue
  <2> QED BY <1>1, <1>2, <2>1, <2>2
<1>5. w \in {"PASS", "WARN"} => v \in {"PASS", "WARN"}
  <2>1. v \in {"PASS", "WARN"} <=>
          Runs(c, a, registry) /\ codes \subseteq InfoCodes \cup (WarnCodes \ c.escalate)
    BY RunCheckValue
  <2>2. w \in {"PASS", "WARN"} <=>
          Runs(d, a, registry)
          /\ Emits(registry[d.implementation], a)
               \subseteq InfoCodes \cup (WarnCodes \ d.escalate)
    BY RunCheckValue
  <2> QED BY <1>1, <1>2, <2>1, <2>2 DEF Tighter
<1>6. v = "ERROR" => w = "ERROR"
  <2>1. v = "ERROR" <=> ~(Runs(c, a, registry) /\ codes \subseteq IssueCodes \ ErrorCodes)
    BY RunCheckErrs
  <2>2. w = "ERROR" <=> ~(/\ Runs(d, a, registry)
                          /\ Emits(registry[d.implementation], a)
                               \subseteq IssueCodes \ ErrorCodes)
    BY RunCheckErrs
  <2> QED BY <1>1, <1>2, <2>1, <2>2
<1> HIDE DEF v, w
<1>7. VerdictRank[v] <= VerdictRank[w]
  BY <1>3, <1>4, <1>5, <1>6 DEF VerdictRank
<1> QED BY <1>7 DEF v, w

\* decide: results that are no better, no fewer checks missing and a policy that bears
\* no more give no better admission.
LEMMA AdmissionTightens ==
  ASSUME NEW results, results # {}, NEW stricter,
         \A r \in results \cup stricter : r.verdict \in {"PASS", "WARN", "FAIL", "ERROR"},
         \A r \in results : \E s \in stricter : VerdictRank[r.verdict] <= VerdictRank[s.verdict],
         NEW policy \in Policy, NEW other \in Policy,
         MissingRequired(results, policy) \subseteq MissingRequired(stricter, other),
         Strictness[policy.on_warn] <= Strictness[other.on_warn]
  PROVE  Strictness[Admission(results, policy)] <= Strictness[Admission(stricter, other)]
<1>1. /\ policy.on_warn \in {"ADMIT", "REVIEW", "REJECT"}
      /\ other.on_warn \in {"ADMIT", "REVIEW", "REJECT"}
  BY DEF Policy
<1>2. /\ Admission(results, policy) \in {"ADMIT", "REVIEW", "REJECT", "ERROR"}
      /\ Admission(stricter, other) \in {"ADMIT", "REVIEW", "REJECT", "ERROR"}
  BY <1>1 DEF Admission
<1>3. stricter # {}
  OBVIOUS
<1>4. WithVerdict(results, "ERROR") # {} => WithVerdict(stricter, "ERROR") # {}
  BY DEF WithVerdict, VerdictRank
<1>5. WithVerdict(results, "FAIL") # {} =>
        WithVerdict(stricter, "FAIL") # {} \/ WithVerdict(stricter, "ERROR") # {}
  BY DEF WithVerdict, VerdictRank
<1>6. WithVerdict(results, "WARN") # {} =>
        \/ WithVerdict(stricter, "WARN") # {}
        \/ WithVerdict(stricter, "FAIL") # {} \/ WithVerdict(stricter, "ERROR") # {}
  BY DEF WithVerdict, VerdictRank
<1>7. CASE WithVerdict(stricter, "ERROR") # {}
  <2>1. Admission(stricter, other) = "ERROR"
    BY <1>7 DEF Admission
  <2> QED BY <1>2, <2>1 DEF Strictness
<1>8. CASE /\ WithVerdict(stricter, "ERROR") = {}
           /\ WithVerdict(stricter, "FAIL") # {} \/ MissingRequired(stricter, other) # {}
  <2>1. Admission(stricter, other) = "REJECT"
    BY <1>8 DEF Admission
  <2>2. Admission(results, policy) # "ERROR"
    BY <1>1, <1>4, <1>8 DEF Admission
  <2> QED BY <1>2, <2>1, <2>2 DEF Strictness
<1>9. CASE /\ WithVerdict(stricter, "ERROR") = {} /\ WithVerdict(stricter, "FAIL") = {}
           /\ MissingRequired(stricter, other) = {}
  <2>1. Admission(results, policy)
          = IF WithVerdict(results, "WARN") # {} THEN policy.on_warn ELSE "ADMIT"
    BY <1>4, <1>5, <1>9 DEF Admission
  <2>2. Admission(stricter, other)
          = IF WithVerdict(stricter, "WARN") # {} THEN other.on_warn ELSE "ADMIT"
    BY <1>3, <1>9 DEF Admission
  <2>3. WithVerdict(results, "WARN") # {} => WithVerdict(stricter, "WARN") # {}
    BY <1>6, <1>9
  <2> QED BY <1>1, <2>1, <2>2, <2>3 DEF Strictness
<1> QED BY <1>7, <1>8, <1>9

\* The boundary is monotonic: with more contracts or tighter ones, and a policy that
\* requires more and bears no more, an artifact is never admitted more readily.  Contracts
\* that are added must not be those whose absence the policy rejects.
\* (run_contract_set and decide.)
THEOREM TighterIsStricter ==
  ASSUME NEW contracts, contracts # {}, NEW others,
         \A c \in contracts : \E d \in others : Tighter(c, d),
         NEW policy \in Policy, NEW other \in Policy,
         policy.required \ Ids(contracts) \subseteq other.required \ Ids(others),
         Strictness[policy.on_warn] <= Strictness[other.on_warn],
         NEW a, NEW registry, NEW parent
  PROVE  Strictness[VerifyArtifact(a, contracts, policy, registry, parent).body.admission]
           <= Strictness[VerifyArtifact(a, others, other, registry, parent).body.admission]
<1> DEFINE results == RunContractSet(contracts, a, registry)
           stricter == RunContractSet(others, a, registry)
<1>1. results # {}
  BY DEF RunContractSet
<1>2. \A r \in results \cup stricter : r.verdict \in {"PASS", "WARN", "FAIL", "ERROR"}
  BY ResultsOf, VerdictValue DEF WellFormed
<1>3. ASSUME NEW r \in results
      PROVE  \E s \in stricter : VerdictRank[r.verdict] <= VerdictRank[s.verdict]
  <2>1. PICK c \in contracts : r = RunCheck(c, a, registry)
    BY DEF RunContractSet
  <2>2. PICK d \in others : Tighter(c, d)
    OBVIOUS
  <2>3. RunCheck(d, a, registry) \in stricter
    BY DEF RunContractSet
  <2> QED BY <2>1, <2>2, <2>3, RunCheckTightens
<1>4. MissingRequired(results, policy) \subseteq MissingRequired(stricter, other)
  <2>1. Ids(contracts) = {r.check_id : r \in results}
        /\ Ids(others) = {r.check_id : r \in stricter}
    BY ResultsOf
  <2> QED BY <2>1 DEF MissingRequired
<1>5. /\ VerifyArtifact(a, contracts, policy, registry, parent).body.admission
           = Admission(results, policy)
      /\ VerifyArtifact(a, others, other, registry, parent).body.admission
           = Admission(stricter, other)
  BY DEF VerifyArtifact, BuildReceipt, Seal
<1> HIDE DEF results, stricter
<1> QED BY <1>1, <1>2, <1>3, <1>4, <1>5, AdmissionTightens

-----------------------------------------------------------------------------
(* verify_receipt.                                                         *)

\* What verify_receipt accepts with an ADMIT, however it came about and whatever was
\* edited in it, lists results, none with a finding that fails or errs, and one that
\* warns only if the receipt itself says that a warning is borne.  It says nothing of
\* the required checks: they are not in a receipt.
THEOREM AcceptedAdmitIsClean ==
  ASSUME NEW receipt, NEW a, VerifyReceipt(receipt, a), receipt.body.admission = "ADMIT",
         receipt.body.on_warn \in {"ADMIT", "REVIEW", "REJECT"},
         \A r \in receipt.body.check_results : Listed(r) \subseteq Severities
  PROVE  /\ receipt.body.artifact = a /\ receipt.body.check_results # {}
         /\ \A r \in receipt.body.check_results : \A f \in r.findings :
              \/ f.severity = "INFO" /\ r.verdict \in {"PASS", "WARN"}
              \/ f.severity = "WARN" /\ r.verdict = "WARN" /\ receipt.body.on_warn = "ADMIT"
<1> DEFINE body == receipt.body
           verdicts == {r.verdict : r \in body.check_results}
<1>1. /\ body.check_results # {} /\ body.artifact = a
      /\ \A r \in body.check_results : r.verdict = VerdictFrom(Listed(r))
      /\ Strictness["ADMIT"] >= Strictness[ExpectedAdmission(body)]
  BY DEF VerifyReceipt, ExpectedVerdict, Listed
<1>2. ExpectedAdmission(body) = "ADMIT"
  <2>1. ExpectedAdmission(body) \in {"ADMIT", "REVIEW", "REJECT", "ERROR"}
    BY DEF ExpectedAdmission
  <2> QED BY <1>1, <2>1 DEF Strictness
<1>3. "ERROR" \notin verdicts /\ "FAIL" \notin verdicts
      /\ ("WARN" \in verdicts => body.on_warn = "ADMIT")
  BY <1>2 DEF ExpectedAdmission
<1>4. ASSUME NEW r \in body.check_results, NEW f \in r.findings
      PROVE  \/ f.severity = "INFO" /\ r.verdict \in {"PASS", "WARN"}
             \/ f.severity = "WARN" /\ r.verdict = "WARN" /\ body.on_warn = "ADMIT"
  <2>1. r.verdict \in verdicts /\ f.severity \in Listed(r)
    BY DEF Listed
  <2>2. Listed(r) \in SUBSET Severities /\ r.verdict = VerdictFrom(Listed(r))
    BY <1>1
  <2>3. /\ r.verdict \in {"PASS", "WARN", "FAIL", "ERROR"}
        /\ r.verdict = "PASS" <=> Listed(r) \subseteq {"INFO"}
        /\ r.verdict = "WARN" <=> "WARN" \in Listed(r) /\ Listed(r) \subseteq {"INFO", "WARN"}
    BY <2>2, VerdictValue
  <2> QED BY <1>3, <2>1, <2>3
<1> QED BY <1>1, <1>4
=============================================================================
