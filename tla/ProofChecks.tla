----------------------------- MODULE ProofChecks -----------------------------
(***************************************************************************)
(* What the proof engine computes before it writes anything: the redaction *)
(* of one document that holds the fixture's evidence and both arms, the    *)
(* evidence bundle of each arm, the package artifact, and the checks that  *)
(* the arm and package contracts put to them through XI.                   *)
(*                                                                         *)
(* A text is the set of marks in it: names, secrets, unbounded phrases,    *)
(* statements of a gap.  As it is read, a part of the document maps places *)
(* to texts: a place is a kind and an item, and an item of a list is known *)
(* by the position it was read at, from 0.  What is redacted is the JSON   *)
(* tree of all the parts.  A configuration says of each key its value or   *)
(* that it is absent.  A digest stands for the value it digests.  Only     *)
(* texts carry marks: no id, model, tool or configuration is sensitive.    *)
(***************************************************************************)
EXTENDS Naturals, FiniteSets, Sequences, SequencesExt

CONSTANTS
  Lexicon,      \* the marks that are unbounded phrases
  Keys,         \* the keys of a configuration
  Absent, Null, \* a key that is not there; the value None
  Every,        \* the token * of a pointer
  Alike(_, _)   \* Python's ==, true also of some values that differ as JSON

Arms == {"baseline", "augmented"}
Parts == {"evidence"} \cup Arms

-----------------------------------------------------------------------------
(* The document that is redacted: everything that was read, as one tree.   *)

PreRedaction(fixture, recordings) ==
  LET doc(part) == IF part = "evidence" THEN fixture.doc ELSE recordings[part].doc
  IN  [p \in UNION {{part} \X (DOMAIN doc(part)) : part \in Parts} |-> doc(p[1])[p[2]]]

\* Where the text of a place stands: keys, and positions in lists.
Path(p) ==
  LET part == p[1]
      kind == p[2][1]
      item == p[2][2]
  IN  CASE part = "evidence" -> <<part, item, kind>>
        [] kind = "claim" -> <<"arms", part, "output", "claims", item, "statement">>
        [] kind = "limitation" -> <<"arms", part, "output", "limitations", item>>
        [] OTHER -> <<"arms", part, "transcript", item, "text">>

ListsOf(arm) ==
  {<<"arms", arm, "output", "claims">>, <<"arms", arm, "output", "limitations">>,
   <<"arms", arm, "transcript">>}
Lists == {<<"evidence">>} \cup UNION {ListsOf(arm) : arm \in Arms}

\* What is there even if every list is empty.
Frame == Lists \cup {<<"arms">>} \cup UNION {{<<"arms", arm>>, <<"arms", arm, "output">>} : arm \in Arms}

\* A node is a text with marks or, if it is not a text, a list or an object.
Tree(texts) ==
  LET leaves == {Path(p) : p \in DOMAIN texts}
      paths == Frame \cup UNION {Prefixes(leaf) \ {<<>>} : leaf \in leaves}
      marks(path) == UNION {texts[p] : p \in {q \in DOMAIN texts : Path(q) = path}}
  IN  [path \in paths |-> [text |-> path \in leaves, marks |-> marks(path)]]

\* The texts that are left at their places.
Readable(texts, value) ==
  [p \in {q \in DOMAIN texts : Path(q) \in DOMAIN value} |-> value[Path(p)].marks]

-----------------------------------------------------------------------------
(* Redaction: every rule in its order, over the whole tree.                *)

\* The position of a list's element among those that are still there.
Index(path, value) ==
  Cardinality({q \in DOMAIN value : /\ Len(q) = Len(path) /\ Front(q) = Front(path)
                                    /\ Last(q) < Last(path)})

\* What a pointer finds: it goes by the keys and by the positions of the moment.
Selected(rule, value) ==
  {path \in DOMAIN value :
     /\ Len(path) = Len(rule.at)
     /\ \A k \in 1..Len(path) :
          rule.at[k] \in {Every, IF SubSeq(path, 1, k - 1) \in Lists
                                 THEN Index(SubSeq(path, 1, k), value) ELSE path[k]}}

\* A regex is counted at each of its matches, a pointer at each node it finds.
Hits(rule, value) ==
  IF rule.kind = "regex"
  THEN Cardinality({hit \in (DOMAIN value) \X rule.finds : hit[2] \in value[hit[1]].marks})
  ELSE Cardinality(Selected(rule, value))

\* What a regex leaves of a text: in the place of a match the label of the rule, and
\* with it whatever the match was only a part of.
Masked(rule, marks) ==
  (marks \ rule.finds) \cup UNION {rule.rests[mark] : mark \in marks \cap rule.finds}

\* A node that is dropped or masked goes with all that is under it; what is masked is a
\* text from then on, whatever it was.
Gone(rule, value, path) ==
  \/ \E top \in Selected(rule, value) : IsStrictPrefix(top, path)
  \/ rule.action = "drop" /\ path \in Selected(rule, value)

ApplyRule(rule, value) ==
  IF rule.kind = "regex"
  THEN [path \in DOMAIN value |-> [text |-> value[path].text,
                                   marks |-> Masked(rule, value[path].marks)]]
  ELSE [path \in {q \in DOMAIN value : ~Gone(rule, value, q)} |->
          IF path \in Selected(rule, value) THEN [text |-> TRUE, marks |-> rule.label]
          ELSE value[path]]

\* Dropping is only defined for pointers, and a pointer starts at the root.
RedactionRaises(policy) ==
  \E i \in 1..Len(policy.rules) : \/ policy.rules[i].kind = "unrooted"
                                  \/ policy.rules[i].kind = "regex"
                                       /\ policy.rules[i].action = "drop"

\* After(rules, tree)[i]: what the first i rules leave.
After(rules, tree) ==
  LET after[i \in 0..Len(rules)] ==
        IF i = 0 THEN tree ELSE ApplyRule(rules[i], after[i - 1])
  IN  after

RedactionOutcome(rules, texts, value, hits) ==
  [value |-> value, doc |-> Readable(texts, value),
   applied |-> {[rule_id |-> rules[i].rule_id, hits |-> hits[i]] : i \in DOMAIN hits},
   unapplied |-> {rules[i].rule_id : i \in {j \in DOMAIN hits : hits[j] < rules[j].required_hits}}]

\* Mutant: hits are counted on the document as it was before any rule.
ApplyPolicyUpfront(policy, texts) ==
  LET rules == policy.rules
      after == After(rules, Tree(texts))
  IN  RedactionOutcome(rules, texts, after[Len(rules)],
                       [i \in 1..Len(rules) |-> Hits(rules[i], after[0])])

ApplyPolicy(policy, texts) ==
  LET rules == policy.rules
      after == After(rules, Tree(texts))
  IN  RedactionOutcome(rules, texts, after[Len(rules)],
                       [i \in 1..Len(rules) |-> Hits(rules[i], after[i - 1])])

Accounting(policy, outcome) ==
  [policy |-> policy, applied |-> outcome.applied, unapplied |-> outcome.unapplied]

RuleIds(policy) == {policy.rules[i].rule_id : i \in 1..Len(policy.rules)}

-----------------------------------------------------------------------------
(* The evidence bundle of an arm.                                          *)

Items(doc, part, kind) ==
  {p[2][2] : p \in {q \in DOMAIN doc : q[1] = part /\ q[2][1] = kind}}
Texts(doc, part, kind) ==
  {doc[p] : p \in {q \in DOMAIN doc : q[1] = part /\ q[2][1] = kind}}

\* Of the evidence only the summaries go into a bundle.
Bundle(recording, fixture, outcome, policy) ==
  LET doc == outcome.doc
      public == {p \in DOMAIN doc : \/ p[1] = recording.arm_id
                                    \/ p[1] = "evidence" /\ p[2][1] = "summary"}
  IN  [arm_id |-> recording.arm_id, enabled |-> recording.enabled,
       model |-> recording.model, tools |-> recording.tools, config |-> recording.config,
       fixture |-> fixture, gaps |-> fixture.gaps,
       claims |-> [n \in Items(doc, recording.arm_id, "claim") |-> recording.claims[n]],
       doc |-> [p \in public |-> doc[p]],
       raw |-> recording, redaction |-> Accounting(policy, outcome)]

Evidence(bundle) == Items(bundle.doc, "evidence", "summary")
Steps(bundle) == Items(bundle.doc, bundle.arm_id, "step")
Limitations(bundle) == Texts(bundle.doc, bundle.arm_id, "limitation")
Statement(bundle, n) == bundle.doc[<<bundle.arm_id, <<"claim", n>>>>]

\* What is there and is a list or an object.
Holds(value, path) == path \in DOMAIN value /\ ~value[path].text

Elements(value, list) ==
  {path \in DOMAIN value : Len(path) = Len(list) + 1 /\ IsPrefix(list, path)}

Whole(value, list, field) ==
  /\ Holds(value, list)
  /\ \A path \in Elements(value, list) : Holds(value, path) /\ Append(path, field) \in DOMAIN value

\* What the assembly and evidence-bundle.v1 ask of the redacted document: objects and
\* lists where they were, in each item its text, some evidence and some step.
Assembles(outcome, arm) ==
  LET value == outcome.value
      output == <<"arms", arm, "output">>
  IN  /\ \A path \in {<<"arms">>, <<"arms", arm>>, output, Append(output, "limitations")} :
           Holds(value, path)
      /\ Whole(value, <<"evidence">>, "summary")
      /\ Whole(value, Append(output, "claims"), "statement")
      /\ Whole(value, <<"arms", arm, "transcript">>, "text")
      /\ Items(outcome.doc, "evidence", "summary") # {} /\ Items(outcome.doc, arm, "step") # {}

\* A text where the assembly asks a key of an object: a TypeError or an AttributeError,
\* which nothing catches.
Trips(outcome, arm) ==
  LET value == outcome.value
      present == DOMAIN value
      texts == {path \in present : value[path].text}
  IN  /\ {<<"evidence">>, <<"arms">>} \subseteq present
      /\ \/ <<"arms">> \in texts
         \/ /\ <<"arms", arm>> \in present
            /\ ({<<"evidence">>, <<"arms", arm>>} \cup Elements(value, <<"evidence">>))
                 \cap texts # {}

\* The marks in all that is published of a bundle.
Surface(bundle) == (UNION {bundle.doc[p] : p \in DOMAIN bundle.doc}) \cup bundle.gaps

-----------------------------------------------------------------------------
(* The checks of the arm contracts.                                        *)

Measured(codes) == IF codes = {} THEN {"MEASUREMENT"} ELSE codes

If(condition, code) == IF condition THEN {code} ELSE {}

\* A claim id may have a form the bundle allows and the report does not.
ReportShape(b) == If(\E n \in DOMAIN b.claims : ~b.claims[n].named, "SCHEMA_VIOLATION")

ClaimScope(b) ==
  Measured(If(\E n \in DOMAIN b.claims : ~b.claims[n].scoped, "CLAIM_SCOPE_MISSING"))

ClaimOverbroad(b) ==
  Measured(If(\E n \in DOMAIN b.claims : Statement(b, n) \cap Lexicon # {},
              "CLAIM_OVERBROAD"))

ClaimCitations(b) ==
  LET refs(n) == b.claims[n].refs
  IN  Measured(If(\E n \in DOMAIN b.claims : refs(n) = {}, "EVIDENCE_CITATION_MISSING")
                 \cup If(\E n \in DOMAIN b.claims : ~(refs(n) \subseteq Evidence(b)),
                         "EVIDENCE_REF_UNRESOLVED"))

ClaimLimitations(b) ==
  IF Limitations(b) = {} THEN {"LIMITATIONS_ABSENT"}
  ELSE Measured(If(\E gap \in b.gaps : \A item \in Limitations(b) : gap \notin item,
                   "EVIDENCE_GAP_UNDECLARED"))

-----------------------------------------------------------------------------
(* The checks of the package contracts.                                    *)

Of(a, arm) == a.arms[arm].evidence

Parity(left, right, code) == IF left # right THEN {code} ELSE {"MEASUREMENT"}

Recorded(config, key) == IF config[key] = Absent THEN Null ELSE config[key]

\* Mutant: the declared values are not compared.
ParityConfigLoose(a) ==
  LET baseline == Of(a, "baseline").config
      augmented == Of(a, "augmented").config
      differing == {key \in Keys : baseline[key] # augmented[key]}
  IN  Measured(If(a.variable.name \notin differing, "CHANGED_VARIABLE_ABSENT")
                 \cup If(differing \ {a.variable.name} # {}, "CONFIG_DRIFT_UNDECLARED"))

ParityConfig(a) ==
  LET baseline == Of(a, "baseline").config
      augmented == Of(a, "augmented").config
      name == a.variable.name
      differing == {key \in Keys : baseline[key] # augmented[key]}
      absent == \/ name \notin differing
                \/ ~Alike(Recorded(baseline, name), a.variable.baseline)
                \/ ~Alike(Recorded(augmented, name), a.variable.augmented)
  IN  Measured(If(absent, "CHANGED_VARIABLE_ABSENT")
                 \cup If(differing \ {name} # {}, "CONFIG_DRIFT_UNDECLARED"))

SpecFaithful(a) ==
  Measured(If(\E arm \in Arms : \/ Of(a, arm).model # a.declared.model
                                \/ Of(a, arm).tools # a.declared.tools
                                \/ Of(a, arm).config # a.declared.config[arm],
              "CONTRADICTION_DETECTED"))

ArmBinding(a) ==
  Measured(If(\E arm \in Arms : a.arms[arm].document # Of(a, arm), "HASH_MISMATCH")
             \cup If(\E arm \in Arms : a.arms[arm].arm_id # Of(a, arm).arm_id,
                     "CONTRADICTION_DETECTED"))

MinTranscriptSteps == 3

EvidenceComplete(a) ==
  Measured(If(\E arm \in Arms : \/ Cardinality(Steps(Of(a, arm))) < MinTranscriptSteps
                                \/ Evidence(Of(a, arm)) = {}
                                \/ DOMAIN Of(a, arm).claims = {}
                                \/ a.arms[arm].xi.verdicts = {},
              "EVIDENCE_INCOMPLETE"))

ClaimSupported(a) ==
  LET baseline == a.arms["baseline"].xi
      augmented == a.arms["augmented"].xi
  IN  Measured(If(\/ baseline.admission \notin {"REJECT", "ERROR", "REVIEW"}
                  \/ augmented.admission # "ADMIT"
                  \/ baseline.blocking = {}
                  \/ baseline.blocking \cap augmented.blocking # {},
                  "CLAIM_UNSUPPORTED"))

\* Mutant: a rule that did not fire is not looked for.
PublicSafeUncounted(a) ==
  LET surfaces == {a.projection.text} \cup {Surface(Of(a, arm)) : arm \in Arms}
  IN  Measured(If(\E s \in surfaces : s \cap a.redaction.deny # {}, "SENSITIVE_VALUE_PRESENT"))

\* Mutant: the bundles are scanned and the projection is not.
PublicSafeInArms(a) ==
  LET surfaces == {Surface(Of(a, arm)) : arm \in Arms}
  IN  Measured(If(\E s \in surfaces : s \cap a.redaction.deny # {}, "SENSITIVE_VALUE_PRESENT"))

PublicSafe(a) ==
  LET surfaces == {a.projection.text} \cup {Surface(Of(a, arm)) : arm \in Arms}
      accounts == {Of(a, arm).redaction : arm \in Arms}
      violated(account) == \/ account.policy # a.redaction.policy
                           \/ account.unapplied # {}
                           \/ {r.rule_id : r \in account.applied} # a.redaction.rule_ids
  IN  IF a.redaction.deny = {} THEN {"REDACTION_POLICY_VIOLATION"}
      ELSE Measured(If(\E s \in surfaces : s \cap a.redaction.deny # {},
                       "SENSITIVE_VALUE_PRESENT")
                      \cup If(\E account \in accounts : violated(account),
                              "REDACTION_POLICY_VIOLATION"))

-----------------------------------------------------------------------------
(* The boundaries.  A contract's implementation stands here for itself     *)
(* with the config and roles the contract binds it to.  The schemas have   *)
(* made sure that every pointer resolves and the artifact has its shape.   *)

ArmChecks == {"claim.report_shape", "claim.scope_declared", "claim.not_overbroad",
              "claim.evidence_cited", "claim.limitations_declared"}
PackageChecks == {"proof.artifact_shape", "proof.parity.model", "proof.parity.fixture",
                  "proof.parity.tool_surface", "proof.parity.config",
                  "proof.spec.faithful", "proof.arms.bound", "proof.evidence.complete",
                  "proof.claim.supported", "proof.redaction.public_safe"}

Finds(check, x) ==
  CASE check = "claim.report_shape" -> ReportShape(x)
    [] check = "claim.scope_declared" -> ClaimScope(x)
    [] check = "claim.not_overbroad" -> ClaimOverbroad(x)
    [] check = "claim.evidence_cited" -> ClaimCitations(x)
    [] check = "claim.limitations_declared" -> ClaimLimitations(x)
    [] check = "proof.artifact_shape" -> {}
    [] check = "proof.parity.model" ->
         Parity(Of(x, "baseline").model, Of(x, "augmented").model,
                "MODEL_IDENTITY_MISMATCH")
    [] check = "proof.parity.fixture" ->
         Parity(Of(x, "baseline").fixture, Of(x, "augmented").fixture,
                "FIXTURE_IDENTITY_MISMATCH")
    [] check = "proof.parity.tool_surface" ->
         Parity(Of(x, "baseline").tools, Of(x, "augmented").tools,
                "TOOL_SURFACE_MISMATCH")
    [] check = "proof.parity.config" -> ParityConfig(x)
    [] check = "proof.spec.faithful" -> SpecFaithful(x)
    [] check = "proof.arms.bound" -> ArmBinding(x)
    [] check = "proof.evidence.complete" -> EvidenceComplete(x)
    [] check = "proof.claim.supported" -> ClaimSupported(x)
    [] check = "proof.redaction.public_safe" -> PublicSafe(x)

Resolvable(x) == {}

Xi == INSTANCE XiAudit WITH
  Artifacts <- {}, Names <- ArmChecks \cup PackageChecks,
  Impls <- ArmChecks \cup PackageChecks, Missing <- "missing", Raises <- {"raises"},
  Pointers <- {}, Resolves <- Resolvable, Emits <- Finds,
  CheckIds <- ArmChecks \cup PackageChecks

Contracts(checks) ==
  {[check_id |-> check, implementation |-> check, pointers |-> {}, escalate |-> {}] :
     check \in checks}
Demands(checks) == [on_warn |-> "REVIEW", required |-> checks]

ArmContracts == Contracts(ArmChecks)
ArmPolicy == Demands(ArmChecks)
PackageContracts == Contracts(PackageChecks)
PackagePolicy == Demands(PackageChecks)

\* The checks are registered on import and nothing replaces them.
Submit(x, contracts, policy) ==
  Xi!VerifyArtifact(x, contracts, policy, [check \in ArmChecks \cup PackageChecks |-> check],
                    "no parent")

-----------------------------------------------------------------------------
(* The package artifact.                                                   *)

\* _arm_xi_summary: a receipt without its clock readings.
Summary(receipt) ==
  [admission |-> receipt.body.admission, core |-> receipt.digest,
   contracts |-> receipt.body.contracts, blocking |-> receipt.body.blocking,
   verdicts |-> {[check_id |-> r.check_id, verdict |-> r.verdict,
                  codes |-> {f.code : f \in r.findings}] : r \in receipt.body.check_results}]

\* The projection shows the spec's words for the claim and for the slides, and what the
\* claims say; the title and the notes are in the artifact but not in the projection.
Artifact(spec, policy, bundles, receipts) ==
  [claim |-> spec.claim, title |-> spec.title, not_claimed |-> spec.not_claimed,
   description |-> spec.description, gaps |-> bundles["augmented"].gaps,
   variable |-> spec.variable,
   declared |-> [model |-> spec.model, tools |-> spec.tools, config |-> spec.config],
   arms |-> [arm \in Arms |->
               [arm_id |-> arm, document |-> bundles[arm], evidence |-> bundles[arm],
                xi |-> Summary(receipts[arm])]],
   contract_sets |-> [arm |-> ArmContracts, package |-> PackageContracts],
   policies |-> [arm |-> ArmPolicy, package |-> PackagePolicy],
   redaction |-> [policy |-> policy, rule_ids |-> RuleIds(policy), deny |-> policy.deny],
   projection |->
     [labels |-> spec.labels,
      text |-> spec.claim \cup spec.labels \cup
        UNION {UNION Texts(bundles[arm].doc, arm, "claim") : arm \in Arms},
      arms |-> [arm \in Arms |->
                  [admission |-> receipts[arm].body.admission,
                   blocking |-> receipts[arm].body.blocking]]]]
=============================================================================
