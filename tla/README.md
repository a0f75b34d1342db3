# Terminus XI in TLA+

A verification development kept beside the Terminus XI repository: TLA+ modules for its
admission boundary, its agent-run wrapper, its bounded recovery, its proof engine and the
commands that close a release, the TLC runs that check them on small instances, and TLAPS proofs
of what matters most for every instance.

`PROJECT.json` lists the components, the runs, the source lines each definition stands for,
the hazards each property is aimed at, the deviations found and the theorems. Paths below
are relative to `src/src/` of the repository, those of tools, tests and documents to `src/`.

## 1. The system

Three Python packages. Nothing in them runs threads; what makes them hard is that they
leave files and remote objects behind at every step, that any step may fail or be the last
one, and that long sequences of legal calls share state (a registry, a ledger, a directory).

| Part | State it keeps | Operations | What is hard | What makes it correct |
|---|---|---|---|---|
| `terminus_xi` boundary (`audit`, `admission`, `receipt`, `engine`, `codes`, `results`, `contracts`) | none | `run_check`, `decide`, `build_receipt`, `verify_receipt`, `verify_artifact` | five ways for a check not to count; two independent derivations of an admission | an admission is earned; a receipt verifies and explains itself |
| `terminus_xi/checks` registry | `_REGISTRY`, process-wide | `register`, `unregister`, `temporary`, `get` | nesting, registration inside a block, replacement | doubles leave no trace; builtins stay |
| `terminus_xi/recovery` | a ledger shared by runs | `RecoveryController.run` with the caller's `repair`, `validate` | callbacks that raise, or hold a stale parent; budgets | the ledger is linked; a run ends, truthfully |
| `terminus_agent_wrap` gate and plan | the trace and the effects of one run | `evaluate_tool_proposal`, `execute_plan` | a halt or an exception midway | no effect but the permitted ones; the trace accounts for them |
| `terminus_agent_wrap` package | `runs/agent-wrap/<run_id>/` | `wrap_run`, `admit_run_artifact` | crashes between files; re-wraps into the same directory | a returned package is closed and of one version |
| `terminus_agent_wrap` export and prune | Drive; `drive_export.json` | `GoogleDriveExporter.export`, `prune_run_dir` | lost answers, title collisions, stale acks | acks are truthful; nothing unarchived is deleted |
| `terminus_proof` engine, checks, adapters | what one build has read and decided | `load_spec`, `execute`, `build_proof` | fifteen checks behind three boundaries, on redacted texts | a claim is admitted exactly if the recordings support it |
| `terminus_proof` redaction | none | `apply_policy`, `scan_denied` | order of rules, required hits | nothing denied is published, no rule is idle unnoticed |
| `terminus_proof` package | `proofs/<id>/` | `write_package`, `verify_package` | crashes while clearing or writing; verification alongside a write, or of altered packages | only what was whole is verified, and what is whole is |
| `terminus_proof` rendering (`docs_render`, `slides`, `media`) | none | findings, transcript, README, listing, stills | seven documents over the same receipts, written for two kinds of outcome | no document says more than the evidence, none advertises a refused build |
| closing a release (`terminus_xi/freeze`, `tools/run_tests.py`, `freeze_xi_v1.py`, `build_uksl_receipt.py`, `tests/test_receipts_on_disk.py`) | `receipts/`, the canonical proof | test, freeze, build, close | each command trusts what an earlier one left, perhaps of another tree; the suite reads receipts that rest on the suite | what is closed rests on passing tests; a changed boundary is not frozen over in silence; undisturbed work closes |
| `terminus_xi` `provenance`, `schemas`, `canonical`, `cli` | none | | | see section 7 |

How they interact: the wrapper and the proof engine register their checks in the XI registry
on import and submit artifacts with `verify_artifact`; XI calls the checks back. A recovery
calls `verify_artifact` through the caller's `validate`, once per attempt, and links the
receipts. The wrapper calls the exporter through the `DriveExporter` protocol and the
exporter calls Drive; prune reads what the exporter wrote. The proof engine crosses three XI
boundaries (two arms, one package); its verifier shares only files with its builder. The
commands that close a release share only files too: the suite writes the report, the freeze
takes the report over, and the closure joins report, freeze receipt and proof package, of which
the suite reads the freeze receipt and the closure again.

## 2. Modules

| Module | Models | Composes |
|---|---|---|
| `XiAudit` | the boundary as functions (`codes.py`, `results.py`, `audit.py`, `admission.py`, `receipt.py`, `engine.py`) | |
| `XiRuntime` | one process: registry, blocks of `temporary`, submissions | `XiAudit` |
| `ScopedRegistry` | abstract: bindings with scopes | refined by `XiRuntime` |
| `Recovery` | `recovery.py`, several runs over one ledger | `XiAudit` |
| `BoundedRecovery` | abstract: a budget and a growing history | refined by `Recovery` |
| `AgentWrap` | `wrap.py` (files), `export.py`, `prune.py`, `manifest.py` | |
| `DurableArchive` | abstract: outside a wrap, what leaves scratch is in the archive | refined by `AgentWrap` |
| `ToolGate` | `gate.py`, `plan.py`, `events.py`, `artifact.py`, `checks.py`, `admit_run_artifact` | `XiAudit`, by `INSTANCE` with the wrapper's own checks, contracts and policy |
| `ProofChecks` | `redaction.py`, `checks.py`, the bundles and the artifact of `engine.py`, the arm and package contracts and policies | `XiAudit`, by `INSTANCE` with these checks |
| `ProofDocs` | `docs_render.py`, the texts of `slides.py`: what each document shows and states | `ProofChecks` |
| `ProofBuild` | `build_proof` with `spec.py` and `adapters.py`, step by step, and what `write_package` publishes of it | `ProofDocs` |
| `ProofPackage` | `package.py`: `write_package` and `verify_package` on one directory | |
| `ProofShelf` | abstract: a shelf with one whole package on it or none | refined by `ProofPackage` |
| `Closure` | `freeze.py`, the three tools above and the tests of the receipts, over a tree that is edited | |
| `MC*` | values of the constants for TLC | |
| `*_proofs` | theorems and their proofs | the module they are named after |

Definitions whose comment begins with *Mutant* are plausible bugs, one for each property:
with the mutant in place of the definition that follows it, TLC must find the property
violated.

### How state and actions correspond to the code

**XiAudit.** An artifact is a value, `Resolves` says which pointers resolve in it, `Emits`
what each implementation finds in it (a set of codes, or that it raises). Check
implementations are required by `checks/__init__.py` to be pure, which is what makes `Emits`
a function. A contract set is a set, since `load_contract_set` refuses a repeated
`check_id`; a policy keeps `on_warn` and `required_checks`. Digests are injective: a digest
is the value it covers, so a receipt is `[body, digest]` with `digest = body` when it is
sealed. `VerifyReceipt` is a second derivation, by the rules of `verify_receipt`, and
`Admissible` a third, declarative one, which says what admission is for without the order in
which the code finds out.

**XiRuntime.** `registry` is `_REGISTRY`, `blocks` the stack of `with temporary(...)` blocks
with what each displaced. A call that raises (a name taken, a builtin) changes nothing and
is no step. `outcomes` collects the receipts with the bindings that were read, `replaced`
the builtins overwritten by `register(replace=True)`; both only serve the properties.

**Recovery.** `pc` is where a run stands; `Start`, `Repair`, `Validate`, `Exhaust` are the
pieces between two callbacks, `Raise` an exception from a callback, or because
`validate` returned something that is not a linked receipt. `RaiseLate` is the one that follows
the append: the receipt links, and is on the ledger before the code looks for a field it lacks.
A repair may return any
artifact. The closure that validates may submit under the parent it was made with, under
none, or under the right one. Runs share `ledger`; each may start from any receipt on it.

**AgentWrap.** One action per file written, per call of the Drive transport and per file
removed. `disk` maps the five files of the run directory to their contents, `drive` holds
the remote files with their titles; `write_json` is not atomic, so a crash may leave the
file `Torn`. The transport may fail before or after it did what was asked (`Fault`), which
covers a lost answer and an answer without an id. `run_id` leaves out claim and outcome
(`artifact.py derive_run_id`), so several `Versions` share a directory.

**ToolGate.** One action per turn of the loop of `execute_plan`, split where the tool runs:
`Call` records the call and enters the tool, `ToolReturns`/`ToolRaises` end it. A tool that
raises may have done its work; the trace is then lost, as in the code. `Observe` is
`wrap_run(events=...)`, `Wrap` builds and submits the package, `Resubmit` submits an edited
one through `admit_run_artifact`. A proposal is its name, whether its redaction is a mapping,
and whether it comes as a `PlannedCall`.

**ProofChecks.** A text is the set of marks in it (names to mask, denied values, unbounded
phrases, statements of a gap); redaction rules, the scan and the lexicon only ever ask which
marks a text has and where. As it is read, a document maps places to texts. What is redacted is
the JSON tree of all parts (`Tree`): a node for every list, object and text, at its path. A
pointer goes by the keys and, in a list, by the positions of the moment (`Index`, `Selected`), so
an element that is dropped moves those behind it; what is dropped or masked goes with all that is
under it, and what is masked is one text from then on. A regex takes its marks out of every text
and leaves its label and what a match was only part of (`rests`): an address whose host name is
masked is no address to a later rule. `ApplyPolicy` is the loop of `apply_policy`: each rule is
counted on what the rules before it left. A tree may be left that no bundle can be assembled of
(`Assembles`): where a text has come in the place of an object whose keys the assembly asks for
(`Trips`) the error is one that nothing catches. A bundle is what `_evidence_bundle` assembles,
of the evidence only the summaries. Each check is the set of
codes it finds; `Finds` is `XiAudit`'s `Emits` and `Submit` its `VerifyArtifact`, so verdicts,
admissions and receipts of the three boundaries are those of `XiAudit`. `Alike` is Python's
`==`, which two of the comparisons use and the others, by digest, do not.

**ProofDocs.** A document is the marks of the texts it shows and the admissions, verdicts and
codes it states, each taken from where the renderer takes it: the package artifact, its
projection of the arms, or a receipt. `Written` is the set of documents `write_package` makes
of a build: findings and transcript in any case, and then either the refusal or the README, the
listing and, unless `--no-media` was given, the media.

**ProofBuild.** `pc` is the step of `build_proof` that comes next; each may raise. The errors
that `main` knows end in one exit code (`Refuse`), any other in a traceback (`Crash`). `input` is a spec with its files, `receipts`
the three boundaries' answers, `documents` what `Publish` writes; the order of the files and
their failures are `ProofPackage`'s.

**ProofPackage.** `disk` is the directory of one artifact's proof. A file's content is the
path it was written for, the artifact and, if it shows a time or a receipt's digest, the run
of the build. `plan` says which artifact the directory is for, how many builds will be written
to it and how many edits made. `writer.at` is the place of the writer in `Order`, the code's
order of writes; a file is `Torn` between its opening and its closing, and the clearing removes
the last path that is left. `verifier.left` are the files still to be hashed and `verifier.at`
the place in the reads that follow, each a step; `Accepts` says what is compared at which read.
The functions of `verify_package` report every failure where the model ends with the first,
since each is final. An edit exchanges, removes or adds a file, and may make the manifest anew
in the same step, as the tests do. `anew`, `whole` and `steady` only serve the properties. The
policies' second reading is a choice at the write among the versions the file may have by then.

**ProofShelf.** What the directory promises without files and digests: a build withdraws the
package that is there, prepares its own, publishes it in one step and has done so when it
returns, or dies at any point; a visitor looks once and is told of what he saw. `OnShelf`, the
build whose package the directory holds with every file of it, is what becomes of `disk`.

**Closure.** A tree is what the commands see of it: the boundary `frozen_files` finds, how its
own tests come out, whether the quarantine scan is clean and the probe stable, and whether the
clauses about vocabulary and layout are met. `report`, `freeze`, `proof` and `closure` are the
files, each missing, torn, or a record that carries what it was made from. Whether ffmpeg is
there is part of the tree too: without it the suite passes, since it skips what needs media, and
`BuildProof` leaves a directory that is cleared and half filled. `RunTests` is the
whole suite, of which the tests that read the receipts are `ReceiptTestsPass`; `Freeze`,
`BuildProof` and `Close` are the other documented commands. Everything else is a `Detour`: a
selection of the tests (`--pattern`, which writes the same report), `--allow-failing-tests`,
`--no-media`, an edit, a receipt removed, a command interrupted at its write.

## 3. Runs

| Run | Instance | Shows |
|---|---|---|
| `agent_wrap` | 3 wraps of 2 versions, 1 Drive fault, crashes anywhere, every prune | types; acks are truthful; "exported" means one whole package; no title is used twice; a returned package is closed; a prune that checks the local artifact deletes only what Drive holds; `DurableArchive` is implemented; operations return |
| `prune_named` (violation) | 2 wraps, no fault | a prune given `expected_sha256` deletes a version Drive never got |
| `xi_runtime` | 1 builtin, 2 other names, 2 implementations, 3 artifacts, 3 contract sets, 2 policies, nesting 2, 1 receipt | types; admissions are earned; receipts verify, explain and reproduce; `ScopedRegistry` is implemented |
| `recovery` | 2 runs, budgets 0 to 2, 2 artifacts, a check that comes and goes, receipts that lack a field | types; the ledger is linked; outcomes are truthful; `BoundedRecovery` is implemented; runs end |
| `tool_gate` | all plans of up to 3 of 6 proposals, gate on and off, 6 observed traces, every edit of the package | types; effects follow the plan; the trace and the package tell the run; admission is bound to the record; runs end |
| `halted_admitted` (violation) | the same | the package of a halted plan can be admitted |
| `proof_build` | 14785 inputs: six and seven recordings for the two arms, eight specs, four fixtures, eleven policies, and a missing file | types; the exit code is earned; redaction is exact; refusals name the defects; documents are backed |
| `proof_package` | 3 artifacts, with media or without, stopped anywhere, one verification at a time alongside; either 2 builds, or 1 build and 1 edit (exchange, removal, addition, a new label, with a new manifest or without) | types; a manifest is never contradicted; what is verified was whole; a verdict on a directory that rests is right, both ways; writes and verifications end; `ProofShelf` is implemented |
| `proof_snapshots` (violation) | 1 build, no edit | an arm policy the artifact does not bind is verified |
| `proof_unlisted` (violation) | 1 build, 1 edit | a package with a file that is not listed is verified |
| `closure` | 7 trees of 2 boundaries, one without ffmpeg, 3 detours | types; what is closed rests on passing tests; a changed boundary is not frozen over in silence; undisturbed work closes on the tree that is there |
| `closure_stale` (violation) | the same, 1 detour | a stale freeze receipt is never refrozen by the documented commands |

### Bounds, and why they are enough

- `MaxWraps = 3`: a version archived, a re-wrap that crashes, and a third wrap on top of
  both; `MaxFaults = 1` with a crash anywhere gives every single fault at every call. Two
  versions are needed for mixtures. One clock reading: receipts of one version differ only
  by it, and the proofs are for any number.
- `MaxBlocks = 2`: nesting over one name and over two. `MaxReceipts = 1`: submissions do not
  influence each other, only the registry moves on.
- `MaxRuns = 2`, budgets up to 2: a recovery from a receipt the earlier run left, and a
  budget that is spent, used in part, or zero. Ledgers get up to four entries. One artifact is
  admitted, one goes to review, and both err while the check is gone; `recovery.py` asks of an
  admission only whether it is ADMIT.
- `proof_build`: each recording, spec, fixture and policy is a good one or has one or two
  defects, and all combinations are tried, so every check is met with, without and beside
  every other's defect. All three boundaries see admissions and refusals. The policies drop
  several elements of one list by position, mask objects above a later pointer, mask what the
  engine reads as an object, bring a text that a later rule matches, and cut an address that a
  later rule is to find.
- `proof_package`: two builds are needed for a directory with files of both and for a
  verification that spans a whole rewrite. One edit may exchange two files and reseal; run 0
  stands for a build of the same artifact made elsewhere. The artifacts are one that is fine,
  one that is rejected and one that shows what the policy denies; the proofs are for any plan.
- `closure`: three detours are an edit, a second thing gone wrong on the new tree, and a way
  out of it or back; the four commands are unbounded. The trees are two good ones with
  different boundaries and one for each thing that can be wrong. The proofs are for any trees
  and any number of detours.
- Plans of length 3: a halt at the first, the second and the last call, with effects before.

### Fairness

`AgentWrap`'s `FairSpec` has weak fairness of the steps of a wrap and of a prune: the process
goes on with its straight-line code unless it is killed, and a Drive call returns or raises.
Nothing makes anyone start another wrap. In `Recovery` the callbacks return or raise, the
assumption under which `recovery.py`'s loop is bounded. In `ToolGate` a tool that is entered
returns or raises. `ProofBuild` states none: it is one process without callbacks or loops,
about which nothing is claimed to happen. In `ProofPackage` the writer and the verifier each go on once started, an
encoder that hangs being a stop. In `Closure` each documented command is given again and
again, in any order (`README.md` of the repository gives them as the way to reproduce the
receipts); `Close` is
only relied upon when the package is whole and of this tree, since on another it may raise. None of the liveness properties needs a fault to stop happening: faults
are bounded by the instance, and a fault ends or advances the operation.

Deadlock is not checked where the system really stops (`CHECK_DEADLOCK FALSE`): when all
wraps, runs, plans or builds of the instance are used up.

## 4. What is proved

For every value of the constants, under the assumptions the modules name (they are few, and
TLC evaluates each on every run). Nothing is taken on trust; no bound of section 3 occurs in
a theorem except as a constant.

**`XiAudit_proofs`** (assuming `MissingAssumption`: a missing implementation is none). The
boundary has no state, so these are facts about functions, for any contract set, policy,
registry and parent, whatever the checks emit or raise. `BoundaryEarned`: `VerifyArtifact`
admits exactly if `Admissible` holds. `BoundaryVerifies`: the receipt it issues is accepted
by `VerifyReceipt`. `BoundaryExplains`: it lists a code to blame exactly if it does not
admit. `BoundaryRecords`: what it says about parent, artifact and decision.
`BoundaryReads`: it depends on the registry only at the implementations its contracts name.
`BoundaryBlames`: if no check raises or warns, it lists exactly the failures the checks find.
`BoundaryPasses`: under a policy that bears no warning it admits only what passes every check.
`TighterIsStricter`: adding contracts or codes to them, requiring more and bearing less never
makes an admission milder; its one proviso is needed, since an added contract may supply a
required check whose absence had rejected. `AcceptedAdmitIsClean` is about any receipt,
edited or not: one that is accepted and says ADMIT has no finding that fails or errs, and none
that warns unless the receipt says warnings are borne. It cannot say that the required checks
were run, since a receipt does not list them.
The argument follows the code: severities are ordered, the verdict of a result is its worst
severity, the four outcomes of `run_check` each have a form, and the admission is read off
the set of verdicts.

**`XiRuntime_proofs`** (adding `BuiltinsAssumption` and `SubmissionAssumption`). `TypeOK` is
inductive by itself. `AllIssued` (every outcome on record is what the boundary says under the
bindings that were read) is inductive and gives `AdmissionIsEarned`, `ReceiptsVerify` and
`RefusalsAreExplained` from the lemmas above. `BuiltinsKeep` (a builtin that was never
replaced keeps its binding, the one every receipt on record has read) gives
`BuiltinReceiptsReproduce`. `Refinement`: the registry and its saved bindings implement
`ScopedRegistry`; the refinement mapping folds the open blocks back, one at a time, into the
bindings each would restore, so most of the proof says how that fold changes when a block is
entered or left (`AfterBind`, `AfterEnter`, `AfterExit`).

**`Recovery_proofs`** (adding `RecoveryAssumption` on contracts and budgets). The properties are
not inductive: that a run which gives up has only refusals behind it needs `RunInv` (while a
run goes on, its current receipt and all its attempts are refusals, and a decision is one of
four or absent). The invariant is `IInv = TypeOK /\ RunInv /\ LedgerIsLinked /\ OutcomeIsTruthful`.
`Refinement` shows that `BoundedRecovery`, which states safety only, is implemented.
`RunsAreBounded`: `StepsLeft`, at most `2 * budget + 1`, gets smaller with every step of a run
and grows only when another starts; the callbacks and the parent they validate under have no
part in it.

**`AgentWrap_proofs`** (`NoneAssumption`, `BoundsAssumption`). `AckedFilesAreHeld` alone is not
inductive: what the process remembers between two calls of Drive must be true as well. `IInv`
adds `PackageWritten` (how far the files of this wrap are on disk at each point of
the code), `UploadsHeld` (every upload remembered is held under its title with its bytes)
and `PruneCovered` (a prune under way was told by a truthful ack). Each action has its
lemma. `DefaultPruneIsSafe` is a property of steps: deletions happen only in the prune, and
`PruneCovered` covers them. `Refinement` maps the version on disk to `DurableArchive`'s
scratch and the versions whose run-artifact Drive holds to its archive; a wrap is under way
from `StartWrap` to its return or its end by a crash. Only within a wrap may scratch be
overwritten or spoiled without the archive's word. `OperationsAreBounded`: a wrap has at most
eighteen steps left and a prune six, each step leaves fewer, and no fault of Drive and no file
that is already there adds any.

**`ToolGate_proofs`** (`ToolGateAssumption`, `InputAssumption`: plans are sequences of
proposals and traces of events, `ChecksAssumption`: names and findings are told apart; plans
and traces of any length and number). `ChecksMeasure` and `AdmissionMeans` say what the three
contracts ask for together: by `BoundaryEarned`, a package is admitted exactly if it is
bound to its record. `IInv` adds to the types where the run stands in its plan (`PlanInv`:
what was done and what is left make up the plan, and everything done was permitted), the
whole trace at each point of the loop (`TraceInv`) and that the admission on record is about
the package on record (`VerdictInv`). `TraceTellsTheRun` is not inductive without knowing
the call event of the tool that is running. All five invariants of the run follow, so the
gate's bound on effects holds for plans of any length. `RunsAreBounded`: a run takes at most two
steps for each call of its plan and two more.

**`ProofPackage_proofs`** (`ArtifactsAssumption`, `PlansAssumption`; any artifacts, admissions
and plans, so any number of builds, crashes and edits). `TypeInv` adds to the types the shape
of the records and that a write under way has a place in its order. None of the properties is
inductive; they rest on a chain. `WriteInv`: exactly the files before the writer's place are on
disk, as this run writes them, and the open one is torn. `DiskInv`: without edits, whatever is
on disk beside a readable manifest is listed in it with this content, and all that is listed is
there until the next clearing begins; this gives `ManifestIsNotContradicted`. `RaceInv`: a verifier
whose manifest was read from a directory that was not whole holds the manifest of an earlier
build, and `proof.json`, which names the build, is not the listed one or a listed file is
missing. The writer starts every build with `proof.json`, so whatever fills the gap has put the
new one there, and the listing or the hashing fails; this gives `VerifiedWasWhole`.
`FilesInv` says what an edited directory can hold at all, and `SteadyInv` what the readings of
a verifier that nobody disturbs have settled. Two lemmas carry the rest: a directory that
passes all twenty-five readings is `Sound` (`SettledIsSound`) and a package as it was
written passes every one of them (`PristineIs`); this gives `SteadyVerdictIsRight`. `Sound` is
what verification does establish: proof, receipts, arm files, findings and listing are of one
build, and the manifest lists exactly the files that are not named like it, unaltered. It leaves
open whose transcript is in the package and what is added under the manifest's name (section 5).
`Refinement` maps the directory to `ProofShelf`. Its heart is `OnShelfInv`: between the first
removal of a build and its manifest there is no whole package, neither the old one, of which a
file is gone or replaced, nor a mixture, since a whole package is of one run and `proof.json` of
the new one is written first; so the shelf changes in exactly one step of a build.
`WorkIsBounded` gives each of the two a number of steps that only its own start sets.

**`ProofBuild_proofs`** (`InputsAssumption`, which states what the schemas of the files see to: the
form of places and rules, that documents are finite and that something is denied; any specs,
fixtures, policies and recordings). Most of it is about functions of the input. `AfterIsExact` is
about the loop over the rules, for policies of any length: after every rule the rules so far have
done what each of them asks (`AsAsked`) and nothing else (`NoMore`). Neither is inductive without
the other, nor without `Rooted`: what holds a node that is left is left, for only then does a
later pointer find nothing below what an earlier one has taken. What the rules do *together* is
not a function of the set of them, since each goes by the positions and the texts its
predecessors left; so nothing is said of where a pointer with a position leads after a drop
beyond the nodes it can lead to (`MayMean`). `ForestalledIsIdle` and `UntouchedIsCounted` draw
what follows for the counts. The induction over the rules is `AllNumbers`, which follows from the
library's statement that a set of numbers has a least one and needs no operator as a parameter. `ArmAdmits` and `PackageAdmits` say what
the five checks of an arm and the ten of a package ask for together, one lemma for each check's
findings, and `PackageBlames` what they blame: by `BoundaryEarned` and `BoundaryBlames`, the
receipt then says the same. `AdmittedBacked` goes through the documents of an admitted build one
by one. The invariant `BuildInv` ties the build to these functions: `Passed` (every stage before
the present one was passed, and its result is the function's value), `Left` (nothing else is
there) and `Ended` (what an exit code stands for). Without `Passed` no property is inductive: what
a receipt says is true only because its artifact was made, stage by stage, of this input. All
five invariants of the run follow.

**`Closure_proofs`** (`ClosureAssumption`, `NoFileIsNoRecord`: the marks for a missing and a torn
file are no records; any trees, any detours).
`ClosedRestsOnPassingTests` needs `FreezeIsVouchedFor`: a freeze receipt is of a stable and clean
tree, and beside a passing report of the whole suite it cites passing tests, because the suite
that passed has accepted it or because it was made later, from that report.
`BoundaryIsNotFrozenOver` is a property of steps and follows action by action.
`UndisturbedProgress` takes the way to a closure one command at a time: on a `Healthy` tree, while
nothing but the documented commands is run, each of them is admitted when what it needs is there
(`Admitted`), makes its record of this tree whatever an earlier tree or command left, and undoes
no record the others made (`Climbs`). A closure that was cut short makes the suite fail; `Mends`
says that it is replaced by one that can be read, open at first, and the climb begins then. With the fairness of section 3 this is the argument for
`UndisturbedWorkCloses`.

## 5. Deviations from the documents

- `EveryPruneIsSafe`: `prune.py:4-6` states the rule that the ack must match the local
  run-artifact; with `expected_sha256` the local artifact is not looked at.
  `DefaultPruneIsSafe` holds.
- `HaltedIsNotAdmitted`: `demos/agent-run-wrap/README.md:30-32` says a halted package is
  not admitted. It is, once one call has run before the halt. `PackageTellsTheRun` says
  exactly when.
- `SnapshotsAreBound`: `docs/PROOF_ENGINE.md:136` says verification compares the contract-set
  and policy snapshots with the digests the artifact binds. The arm policy's is compared with
  nothing, and `write_package` takes the file as it is by then. What holds is `Sound`: the arm
  policy in a verified package decides the arms as the artifact says.
- `NothingUnlisted`: `docs/PROOF_ENGINE.md:131` says a directory that verifies holds no unlisted
  file, and `package.py:8-10` that an extra file makes it fail. `_relative_files` leaves out
  every file called `proof-manifest.json`, also below the package, so one that is added there is
  not listed and not found to be extra. What holds is `Sound`.
- `StaleFreezeIsRefrozen`: `tests/test_receipts_on_disk.py:43` tells the reader of a stale freeze
  receipt to re-run the freeze. The freeze refuses a report of failing tests, which the report
  now is, for this very reason; with `--allow-failing-tests` it writes a receipt the suite
  rejects too. The way out is to remove the receipt, or to freeze over an older report or one of
  selected tests. `BoundaryIsNotFrozenOver`, the other side of it, holds.
- Without a run, since one line shows it: `checks/__init__.py:69` calls the builtins frozen, but
  `register(..., replace=True)` replaces them (`:41`). `Register` in `XiRuntime` does so too. What
  holds, and is proved, is that a builtin is never absent and that receipts reproduce as long as
  none was replaced.
- Without a run: `cli.py:10-12` of the proof engine lists the exit codes and `main` catches the
  engine's errors; a redaction that masks an object the engine reads ends in a traceback
  instead. `OutcomeIsEarned` says exactly when.

## 6. What is only model-checked

Liveness (`OperationsReturn`, both `RunsEnd`, `WorkEnds`, `UndisturbedWorkCloses`) is checked by
TLC, since the proof system does not reason about fairness and `ENABLED`. What each of them rests
on besides fairness is proved: a number of steps left that every step of the operation lowers and
only a new operation raises (`OperationsAreBounded`, both `RunsAreBounded`, `WorkIsBounded`), and
for the closure the order in which the commands make their records and keep them
(`UndisturbedProgress`). That an operation can go on while steps are left is not in the first
four; TLC shows it on its instances. Every safety property and every refinement of the
passing runs is proved.

## 7. What is not modelled

- The formatting of documents, slides and video: layout, colours, fonts, clipping, digests shown
  in short. `predicates.py` is imported by nothing.
- Changes that others make to a package while it is being written or verified.
- In redacted documents only texts are places: ids, roles, step numbers, scopes and what else a
  pointer could mask are not, and no pointer reaches the document's root. A claim or a piece of
  evidence is known by the position it was read at, and ids are not repeated. A mark occurs at
  most once in a text.
- A check that returns what is no list of findings makes `run_check` raise outside its `try`
  (`audit.py:112-113`), and the submission ends without a receipt. Checks are assumed to return
  findings or to raise, as their signature says; so all of the repository's do.
- The exporter records the title Drive reports (`export.py:324`); the model takes it to be the
  one that was asked for, as Drive's `files.create` has it.
- `schemas.py`, `jsonschema_lite.py`, `canonical.py`'s data level: recursion over JSON
  documents without state; canonical form is assumed injective. `provenance.py` records, and
  decides nothing. The XI command line parses arguments and maps outcomes to exit codes.
- The loading of contracts and policies and the builtin checks' own computations:
  uninterpreted in `XiRuntime`. What the freeze and the clauses compute of a tree is one mark of
  it each in `Closure`, and so is what a single test asserts.
- `archive/` is quarantined history; `demos/`, `fixtures/`, `specs/`, `policies/` and `receipts/`
  are data and scripts over the modelled operations.
- Two processes on one run directory, or two commands at once on `receipts/`: nothing in the
  repository starts two.

## 8. Plan

Done: `XiAudit`, `XiRuntime`, `AgentWrap`, `Recovery`, `ToolGate`, `ProofChecks`, `ProofDocs`,
`ProofBuild`, `ProofPackage`, `Closure` with their runs, the four abstract specifications and
the proofs of section 4. What would come next is to join the pieces: a build whose documents are
`ProofBuild`'s written by `ProofPackage`'s writer, so that what verification accepts is an outcome
that was earned; and a `Recovery` whose receipts come from a registry that changes between two
attempts.
