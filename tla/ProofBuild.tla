----------------------------- MODULE ProofBuild -----------------------------
(***************************************************************************)
(* build_proof: the spec is loaded, both arms are replayed, everything is  *)
(* redacted once, each arm and then the package crosses its XI boundary;   *)
(* then the documents are written.  Any step may refuse what it is given   *)
(* and end the build.  What it is given does not change under it.          *)
(***************************************************************************)
EXTENDS ProofDocs

CONSTANT
  Inputs  \* a demo spec and the files it refers to, as they may be found

VARIABLES
  pc,          \* the step that comes next, or done
  input,       \* spec, fixture, recordings, policy
  executions,  \* what the adapters returned, by arm
  redacted,    \* the outcome of the redaction
  receipts,    \* by boundary: baseline, augmented, package
  documents,   \* what is written, by name
  exit         \* of the command: ok, not_admitted, usage or, of an error that nothing
               \* catches, traceback; none before it ends

\* What the schemas of the files see to: a place is a kind and an item, a redaction
\* rule has one of three forms and masks or drops, and something is denied.  A file and
\* what a rule can find in it are finite.
ASSUME InputsAssumption ==
  \A in \in Inputs :
    /\ IsFiniteSet(DOMAIN in.fixture.doc)
    /\ \A arm \in Arms : IsFiniteSet(DOMAIN in.recordings[arm].doc)
    /\ \A p \in DOMAIN in.fixture.doc \cup UNION {DOMAIN in.recordings[arm].doc : arm \in Arms} :
         p = <<p[1], p[2]>>
    /\ Len(in.policy.rules) \in Nat
    /\ \A i \in 1..Len(in.policy.rules) :
         /\ in.policy.rules[i].kind \in {"regex", "pointer", "unrooted"}
         /\ in.policy.rules[i].action \in {"mask", "drop"}
         /\ in.policy.rules[i].required_hits \in Nat
         /\ IsFiniteSet(in.policy.rules[i].finds)
    /\ in.policy.deny # {}

vars == <<pc, input, executions, redacted, receipts, documents, exit>>

NotRedacted == [value |-> <<>>, doc |-> <<>>, applied |-> {}, unapplied |-> {}]

Init ==
  /\ pc = "load" /\ input \in Inputs
  /\ executions = <<>> /\ redacted = NotRedacted /\ receipts = <<>>
  /\ documents = <<>> /\ exit = "none"

\* Mutant: the error is reported and the build goes on.
RefuseAndGoOn ==
  /\ exit' = "usage"
  /\ UNCHANGED <<pc, input, executions, redacted, receipts, documents>>

\* SpecError, AdapterError, RedactionError and BuildError end alike.
Refuse ==
  /\ pc' = "done" /\ exit' = "usage"
  /\ UNCHANGED <<input, executions, redacted, receipts, documents>>

\* The handlers of the command do not know this error.
Crash ==
  /\ pc' = "done" /\ exit' = "traceback"
  /\ UNCHANGED <<input, executions, redacted, receipts, documents>>

-----------------------------------------------------------------------------
(* The steps.                                                              *)

SpecLoads(spec) ==
  /\ \A arm \in Arms : spec.arm_ids[arm] = arm
  /\ ~Alike(spec.variable.baseline, spec.variable.augmented)

LoadSpec ==
  /\ pc = "load"
  /\ \/ /\ SpecLoads(input.spec)
        /\ pc' = "fixture" /\ UNCHANGED <<input, executions, redacted, receipts, documents, exit>>
     \/ ~SpecLoads(input.spec) /\ Refuse

\* The files of the spec are there, and the fixture has no other name.
FixtureFits(in) ==
  in.present /\ in.fixture.fixture_id \in {in.spec.fixture_id, Absent}

ReadFixture ==
  /\ pc = "fixture"
  /\ \/ /\ FixtureFits(input)
        /\ pc' = "baseline" /\ UNCHANGED <<input, executions, redacted, receipts, documents, exit>>
     \/ ~FixtureFits(input) /\ Refuse

RecordingFits(recording, arm) ==
  /\ recording.intact /\ recording.arm_id = arm
  /\ \E p \in DOMAIN recording.doc : p[1] = "step"

Execute(arm, next) ==
  LET recording == input.recordings[arm]
  IN  /\ pc = arm
      /\ \/ /\ RecordingFits(recording, arm)
            /\ executions' = [a \in DOMAIN executions \cup {arm} |->
                                IF a = arm THEN recording ELSE executions[a]]
            /\ pc' = next /\ UNCHANGED <<input, redacted, receipts, documents, exit>>
         \/ ~RecordingFits(recording, arm) /\ Refuse

Redact ==
  /\ pc = "redact"
  /\ \/ /\ ~RedactionRaises(input.policy)
        /\ redacted' = ApplyPolicy(input.policy, PreRedaction(input.fixture, executions))
        /\ pc' = "submit_baseline" /\ UNCHANGED <<input, executions, receipts, documents, exit>>
     \/ RedactionRaises(input.policy) /\ Refuse

Keep(boundary, receipt) ==
  receipts' = [b \in DOMAIN receipts \cup {boundary} |->
                 IF b = boundary THEN receipt ELSE receipts[b]]

SubmitArm(arm, at, next) ==
  /\ pc = at
  /\ \/ /\ Assembles(redacted, arm)
        /\ Keep(arm, Submit(Bundle(executions[arm], input.fixture, redacted, input.policy),
                            ArmContracts, ArmPolicy))
        /\ pc' = next /\ UNCHANGED <<input, executions, redacted, documents, exit>>
     \/ ~Assembles(redacted, arm) /\ ~Trips(redacted, arm) /\ Refuse
     \/ ~Assembles(redacted, arm) /\ Trips(redacted, arm) /\ Crash

SubmitPackage ==
  /\ pc = "package"
  /\ \E artifact \in {Artifact(input.spec, input.policy,
                                [arm \in Arms |-> receipts[arm].body.artifact], receipts)} :
       Keep("package", Submit(artifact, PackageContracts, PackagePolicy))
  /\ pc' = "write" /\ UNCHANGED <<input, executions, redacted, documents, exit>>

\* The package is written, with or without media, and the command returns.
Publish ==
  /\ pc = "write"
  /\ \E receipt \in {receipts["package"]}, render \in BOOLEAN :
       /\ documents' = Written(receipt.body.artifact, receipts, render)
       /\ exit' = IF receipt.body.admission = "ADMIT" THEN "ok" ELSE "not_admitted"
  /\ pc' = "done" /\ UNCHANGED <<input, executions, redacted, receipts>>

Next ==
  \/ LoadSpec \/ ReadFixture
  \/ Execute("baseline", "augmented") \/ Execute("augmented", "redact")
  \/ Redact
  \/ SubmitArm("baseline", "submit_baseline", "submit_augmented")
  \/ SubmitArm("augmented", "submit_augmented", "package")
  \/ SubmitPackage \/ Publish

Spec == Init /\ [][Next]_vars

-----------------------------------------------------------------------------
(* What a build means, said of the recordings themselves.                  *)

\* What a rule puts in the place of what it takes, and what the i-th to k-th rules do.
Brings(rule) ==
  IF rule.kind = "regex" THEN UNION {rule.rests[mark] : mark \in rule.finds}
  ELSE IF rule.action = "mask" THEN rule.label ELSE {}
Brought(rules, i, k) == UNION {Brings(rules[j]) : j \in i..k}

\* A pointer that goes through lists by * alone finds the same nodes at any moment.
Means(rule, path) ==
  /\ rule.kind = "pointer" /\ Len(path) = Len(rule.at)
  /\ \A k \in 1..Len(path) :
       IF SubSeq(path, 1, k - 1) \in Lists THEN rule.at[k] = Every
       ELSE rule.at[k] \in {Every, path[k]}

\* Whatever position an element has, no other node can be found.
MayMean(rule, path) ==
  /\ rule.kind = "pointer" /\ Len(path) = Len(rule.at)
  /\ \A k \in 1..Len(path) :
       SubSeq(path, 1, k - 1) \in Lists \/ rule.at[k] \in {Every, path[k]}

\* One of the first k rules finds the mark; none of them can find the node or what holds it.
FoundBy(rules, k, mark) ==
  \E j \in 1..k : rules[j].kind = "regex" /\ mark \in rules[j].finds
Spared(rules, k, tree, path) ==
  \A j \in 1..k, top \in DOMAIN tree : IsPrefix(top, path) => ~MayMean(rules[j], top)

\* The first k rules have done what each of them asks, but for what they brought.
AsAsked(rules, k, tree, left) ==
  \A i \in 1..k :
    /\ rules[i].kind = "regex" =>
         \A path \in DOMAIN left :
           left[path].marks \cap rules[i].finds \subseteq Brought(rules, i, k)
    /\ \A top \in {path \in DOMAIN tree : Means(rules[i], path)}, path \in DOMAIN left :
         IsPrefix(top, path) =>
           /\ rules[i].action = "mask" /\ path = top /\ left[path].text
           /\ left[path].marks \subseteq Brought(rules, i, k)

\* They have done nothing else.
NoMore(rules, k, tree, left) ==
  /\ DOMAIN left \subseteq DOMAIN tree
  /\ \A path \in DOMAIN left :
       left[path].marks \subseteq tree[path].marks \cup Brought(rules, 1, k)
  /\ \A path \in DOMAIN tree :
       Spared(rules, k, tree, path) =>
         /\ path \in DOMAIN left /\ left[path].text = tree[path].text
         /\ \A mark \in tree[path].marks \ left[path].marks : FoundBy(rules, k, mark)

\* Rules before the i-th one have taken everything that it could find.
Forestalled(rules, i, tree) ==
  LET rule == rules[i]
      taken(path) == \E j \in 1..(i - 1), top \in DOMAIN tree :
                       /\ Means(rules[j], top) /\ IsPrefix(top, path)
                       /\ rules[j].action = "drop" \/ rule.kind = "regex" \/ top # path
  IN  /\ \A path \in DOMAIN tree :
           taken(path) \/ IF rule.kind = "regex"
                          THEN \A mark \in tree[path].marks \cap rule.finds :
                                 FoundBy(rules, i - 1, mark)
                          ELSE ~MayMean(rule, path)
      /\ rule.kind = "regex" => rule.finds \cap Brought(rules, 1, i - 1) = {}

\* They have left it something.
Untouched(rules, i, tree) ==
  LET rule == rules[i]
  IN  \E path \in DOMAIN tree :
        /\ Spared(rules, i - 1, tree, path)
        /\ IF rule.kind = "regex"
           THEN \E mark \in tree[path].marks \cap rule.finds : ~FoundBy(rules, i - 1, mark)
           ELSE Means(rule, path)

\* The claims of an arm stay inside the bound that its evidence supports.
Clean(in, doc, arm) ==
  LET claims == in.recordings[arm].claims
  IN  /\ \A n \in Items(doc, arm, "claim") :
           /\ claims[n].named /\ claims[n].scoped
           /\ claims[n].refs # {} /\ claims[n].refs \subseteq Items(doc, "evidence", "summary")
           /\ doc[<<arm, <<"claim", n>>>>] \cap Lexicon = {}
      /\ Texts(doc, arm, "limitation") # {}
      /\ \A gap \in in.fixture.gaps : \E item \in Texts(doc, arm, "limitation") : gap \in item

\* Both arms did what the spec says and differ in the changed variable alone.
Controlled(in) ==
  LET spec == in.spec
      config(arm) == in.recordings[arm].config
  IN  /\ \A arm \in Arms : /\ in.recordings[arm].model = spec.model
                            /\ in.recordings[arm].tools = spec.tools
                            /\ config(arm) = spec.config[arm]
      /\ {key \in Keys : config("baseline")[key] # config("augmented")[key]}
           = {spec.variable.name}
      /\ Alike(Recorded(config("baseline"), spec.variable.name), spec.variable.baseline)
      /\ Alike(Recorded(config("augmented"), spec.variable.name), spec.variable.augmented)

Substantial(doc) ==
  \A arm \in Arms : /\ ~(Cardinality(Items(doc, arm, "step")) < MinTranscriptSteps)
                    /\ Items(doc, arm, "claim") # {}

\* No mark that is denied is published, the evidence's details not being published.
Safe(in, doc) ==
  /\ in.policy.deny # {}
  /\ in.policy.deny \cap (in.fixture.gaps \cup in.spec.claim \cup in.spec.labels) = {}
  /\ \A p \in DOMAIN doc : p[1] \in Arms \/ p[2][1] = "summary"
                             => doc[p] \cap in.policy.deny = {}

Supported(in, doc, unapplied) ==
  /\ Controlled(in) /\ Substantial(doc)
  /\ Safe(in, doc) /\ unapplied = {}
  /\ ~Clean(in, doc, "baseline") /\ Clean(in, doc, "augmented")

\* What no build can be made of, before and after the redaction.
Unusable(in) ==
  \/ \E arm \in Arms : in.spec.arm_ids[arm] # arm
  \/ Alike(in.spec.variable.baseline, in.spec.variable.augmented)
  \/ ~in.present \/ in.fixture.fixture_id \notin {in.spec.fixture_id, Absent}
  \/ \E arm \in Arms : LET recording == in.recordings[arm]
                       IN  \/ ~recording.intact \/ recording.arm_id # arm
                           \/ {p \in DOMAIN recording.doc : p[1] = "step"} = {}
  \/ RedactionRaises(in.policy)

\* The first arm whose bundle the redaction has spoilt, if it has.
Spoilt(outcome) == \E arm \in Arms : ~Assembles(outcome, arm)
FirstSpoilt(outcome) == IF Assembles(outcome, "baseline") THEN "augmented" ELSE "baseline"

-----------------------------------------------------------------------------
(* Properties.                                                             *)

\* Types; what was read stays what it was, and the exit code comes with the end.
TypeOK ==
  /\ pc \in {"load", "fixture", "baseline", "augmented", "redact", "submit_baseline",
             "submit_augmented", "package", "write", "done"}
  /\ input \in Inputs
  /\ DOMAIN executions \subseteq Arms
  /\ \A arm \in DOMAIN executions : executions[arm] = input.recordings[arm]
  /\ DOMAIN receipts \subseteq Arms \cup {"package"}
  /\ exit \in {"none", "ok", "not_admitted", "usage", "traceback"}
  /\ exit = "none" <=> pc # "done"
  /\ documents # <<>> <=> exit \in {"ok", "not_admitted"}

\* The command succeeds exactly when the recordings support the claim: a controlled
\* pair, the baseline outside the bound and the augmented arm inside it, nothing denied
\* in what is published and no rule of the policy idle.  It ends before that exactly when
\* no build can be made, with a usage error, or when the redaction left no bundle of an
\* arm, and then how depends on what it left of the evidence and of the first such arm.
\* (build_proof, _cmd_build, main and the ten checks.)
OutcomeIsEarned ==
  pc = "done" =>
    LET spoilt == ~Unusable(input) /\ Spoilt(redacted)
        trips == Trips(redacted, FirstSpoilt(redacted))
    IN  /\ exit = "usage" <=> Unusable(input) \/ (spoilt /\ ~trips)
        /\ exit = "traceback" <=> spoilt /\ trips
        /\ exit = "ok" <=> /\ ~Unusable(input) /\ ~spoilt
                           /\ Supported(input, redacted.doc, redacted.unapplied)

\* The redaction does what its policy asks, no less and no more, though each rule sees
\* only what its predecessors left: positions move when an element is dropped, a masked
\* object has nothing under it any more, a match may be cut by an earlier rule and what a
\* rule brings may be matched by a later one.  At the end no text shows what a regex was
\* to find, and nothing is left of a node that a pointer means at any moment but the
\* label of a mask, unless a rule brought it; a node that no pointer can mean is where it
\* was, less what some regex finds.  A rule for which nothing was left is reported as
\* idle, and one for which something was left is counted.  (apply_policy, _mask_strings,
\* _apply_pointer.)
RedactionIsExact ==
  DOMAIN redacted.value # {} =>
    LET rules == input.policy.rules
        n == Len(rules)
        tree == Tree(PreRedaction(input.fixture, input.recordings))
    IN  /\ AsAsked(rules, n, tree, redacted.value)
        /\ NoMore(rules, n, tree, redacted.value)
        /\ \A i \in 1..n :
             /\ rules[i].required_hits > 0 /\ Forestalled(rules, i, tree)
                  => rules[i].rule_id \in redacted.unapplied
             /\ Untouched(rules, i, tree)
                  => \E row \in redacted.applied : row.rule_id = rules[i].rule_id /\ row.hits > 0
        /\ \A id \in redacted.unapplied :
             \E i \in 1..n :
               /\ rules[i].rule_id = id
               /\ rules[i].required_hits > 1 \/ ~Untouched(rules, i, tree)

\* A refused package names each of its defects, whatever other defects it has: none
\* hides another.  (The checks of the package contracts, decide.)
RefusalsNameTheDefects ==
  "package" \in DOMAIN receipts =>
    LET blocking == receipts["package"].body.blocking
        arm == input.recordings
        doc == redacted.doc
        changed == input.spec.variable.name
        differing == {key \in Keys : arm["baseline"].config[key]
                                        # arm["augmented"].config[key]}
    IN  /\ "MODEL_IDENTITY_MISMATCH" \in blocking
              <=> arm["baseline"].model # arm["augmented"].model
        /\ "TOOL_SURFACE_MISMATCH" \in blocking
              <=> arm["baseline"].tools # arm["augmented"].tools
        /\ "CONFIG_DRIFT_UNDECLARED" \in blocking <=> differing \ {changed} # {}
        /\ changed \notin differing => "CHANGED_VARIABLE_ABSENT" \in blocking
        /\ "EVIDENCE_INCOMPLETE" \in blocking <=> ~Substantial(doc)
        /\ "CLAIM_UNSUPPORTED" \in blocking
              <=> Clean(input, doc, "baseline") \/ ~Clean(input, doc, "augmented")
        /\ "SENSITIVE_VALUE_PRESENT" \in blocking <=> ~Safe(input, doc)
        /\ "REDACTION_POLICY_VIOLATION" \in blocking <=> redacted.unapplied # {}

\* What is published rests on the evidence.  Of an admitted build every document states
\* that the baseline was refused and the augmented arm and the package were admitted, no
\* verdict in it is less than PASS, the codes advertised as cleared are all those that
\* blocked the baseline, and a mark that the policy denies can be in it only by way of the
\* three texts that no check scans: the title, the description of the variable, what is
\* not claimed.  Of a refused build there is a diagnosis that names a code, and no README,
\* listing or media.  (docs_render, slides, write_package against the checks.)
DocumentsAreBacked ==
  LET unscanned == input.spec.title \cup input.spec.description \cup input.spec.not_claimed
      of == documents
  IN  /\ exit = "ok" =>
           /\ \A name \in DOMAIN of \ {"findings"} :
                /\ \A b \in DOMAIN of[name].admissions :
                     of[name].admissions[b] = "ADMIT" <=> b # "baseline"
                /\ \A row \in of[name].verdicts : row.verdict = "PASS"
                /\ of[name].shows \cap input.policy.deny \subseteq unscanned
           /\ of["listing"].codes = receipts["baseline"].body.blocking
           /\ of["listing"].codes # {}
      /\ exit = "not_admitted" =>
           /\ DOMAIN of = {"findings", "transcript", "NOT_ADMITTED"}
           /\ of["NOT_ADMITTED"].codes # {}
=============================================================================
