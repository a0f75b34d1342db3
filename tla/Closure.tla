------------------------------ MODULE Closure ------------------------------
(***************************************************************************)
(* The commands that close a release, over the four things they leave in   *)
(* the working tree: the test report, the freeze receipt, the proof        *)
(* package and the UKSL closure receipt.  Each command reads what an       *)
(* earlier one wrote, perhaps of another tree; the suite in turn reads two *)
(* of the receipts.  The commands run one after the other, but the tree    *)
(* may be edited, a receipt removed or a command interrupted in between.   *)
(***************************************************************************)
EXTENDS Integers

CONSTANTS
  Trees,       \* states the working tree may be in: what the commands see of it and
               \* of the machine it is on
  Boundaries,  \* sets of paths frozen_files may find
  None, Torn,  \* no file; a file cut short
  MaxDetours   \* bound: steps that are none of the documented commands

\* A tree is what freeze, tests and clauses make of it: the boundary it has, how
\* its own tests come out, whether the quarantine scan is clean and the probe
\* stable, whether the clauses about vocabulary and about layout are met, and whether
\* ffmpeg is there to render with; the suite skips what needs it.
Tree == [boundary : Boundaries, suite : {"passes", "fails", "does not load"},
         clean : BOOLEAN, stable : BOOLEAN, vocabulary : BOOLEAN, layout : BOOLEAN,
         renders : BOOLEAN]

ASSUME ClosureAssumption == Trees \subseteq Tree /\ MaxDetours \in Nat

VARIABLES
  tree,     \* the working tree, without the four below
  report,   \* receipts/test-report.json
  freeze,   \* receipts/xi-v1-freeze-receipt.json
  proof,    \* the canonical proof directory
  closure,  \* receipts/uksl-receipt.json
  detours

vars == <<tree, report, freeze, proof, closure, detours>>

\* A report says only whether the selected tests passed; full and tree, which it
\* does not record, say what was selected and what was tested.
Reports == [passed : BOOLEAN, full : BOOLEAN, tree : Trees]

\* The freeze receipt: the tree it describes and the report it takes over.
Freezes == [tree : Trees, report : Reports]

\* A package with all its files, one without media, or one cut short.
Proofs == [kind : {"whole", "unrendered", "broken"}, tree : Trees]

Closures == [closed : BOOLEAN, freeze : Freezes, report : Reports, proof : Proofs]

ASSUME NoFileIsNoRecord ==
  \A none \in {None, Torn} : none \notin Reports \cup Freezes \cup Proofs \cup Closures

There(file) == file # None /\ file # Torn

TypeOK ==
  /\ tree \in Trees
  /\ report \in Reports \cup {None, Torn}
  /\ freeze \in Freezes \cup {None, Torn}
  /\ proof \in Proofs \cup {None}
  /\ closure \in Closures \cup {None, Torn}
  /\ detours \in 0..MaxDetours

Init ==
  /\ tree \in Trees
  /\ report = None /\ freeze = None /\ proof = None /\ closure = None
  /\ detours = 0

Detour == detours < MaxDetours /\ detours' = detours + 1

Covers(t) == There(freeze) /\ freeze.tree.boundary = t.boundary

\* Mutant: the suite does not ask what the freeze receipt records of the tests.
ReceiptTestsTrusting ==
  /\ freeze # None => Covers(tree)
  /\ closure # Torn

\* Mutant: it does not ask which boundary the freeze receipt covers.
ReceiptTestsForgetful ==
  /\ freeze # None => There(freeze) /\ freeze.tree.stable /\ freeze.tree.clean /\ freeze.report.passed
  /\ closure # Torn

\* Mutant: a receipt that has not been produced yet is a failure.
ReceiptTestsUnskipped ==
  /\ Covers(tree) /\ freeze.tree.stable /\ freeze.tree.clean /\ freeze.report.passed
  /\ closure # Torn

\* What the suite asserts of the receipts it finds: the freeze receipt is of the
\* boundary that is there and records no broken freeze; both can be read.
ReceiptTestsPass ==
  /\ freeze # None => /\ Covers(tree)
                      /\ freeze.tree.stable /\ freeze.tree.clean /\ freeze.report.passed
  /\ closure # Torn

SuitePasses == tree.suite = "passes" /\ ReceiptTestsPass

\* run_tests over the whole suite; if it does not load, the old report stays.
RunTests ==
  /\ tree.suite # "does not load"
  /\ report' = [passed |-> SuitePasses, full |-> TRUE, tree |-> tree]
  /\ UNCHANGED <<tree, freeze, proof, closure, detours>>

\* run_tests --pattern: the same report of fewer tests, perhaps of none.
RunSubset ==
  /\ Detour
  /\ \E passed \in BOOLEAN :
       /\ SuitePasses => passed
       /\ report' = [passed |-> passed, full |-> FALSE, tree |-> tree]
  /\ UNCHANGED <<tree, freeze, proof, closure>>

\* freeze_xi_v1, with or without --allow-failing-tests: what it refuses leaves
\* the receipt that is there.
Freezable(allowing) ==
  /\ There(report)
  /\ report.passed \/ allowing
  /\ tree.stable /\ tree.clean

Freeze ==
  /\ Freezable(FALSE)
  /\ freeze' = [tree |-> tree, report |-> report]
  /\ UNCHANGED <<tree, report, proof, closure, detours>>

FreezeAllowing ==
  /\ Detour
  /\ Freezable(TRUE)
  /\ freeze' = [tree |-> tree, report |-> report]
  /\ UNCHANGED <<tree, report, proof, closure>>

\* What the build writes once it admits: without ffmpeg it raises over a directory it
\* has cleared and half filled.
Package == [kind |-> IF tree.renders THEN "whole" ELSE "broken", tree |-> tree]

\* terminus_proof build of the canonical demo.  A tree that passes its tests
\* admits it; another may refuse, which leaves the directory alone.
BuildProof ==
  /\ \/ tree.suite = "passes" /\ proof' = Package
     \/ tree.suite # "passes" /\ proof' \in {proof, Package}
  /\ UNCHANGED <<tree, report, freeze, closure, detours>>

\* build --no-media.
BuildUnrendered ==
  /\ Detour
  /\ proof' = [kind |-> "unrendered", tree |-> tree]
  /\ UNCHANGED <<tree, report, freeze, closure>>

\* What the clauses about the package may come to.  One that is cut short or
\* judged by the code of another tree may also raise before anything is written.
Verdicts ==
  CASE proof.kind = "whole" /\ proof.tree = tree -> {TRUE}
    [] proof.kind = "whole" /\ proof.tree # tree -> BOOLEAN
    [] proof.kind # "whole" -> {FALSE}

\* Mutant: a report that is missing is recorded as it is.
CloseUnreported ==
  /\ There(freeze) /\ proof # None
  /\ \E verified \in Verdicts :
       closure' = [closed |-> verified /\ report = None,
                   freeze |-> freeze, report |-> report, proof |-> proof]
  /\ UNCHANGED <<tree, report, freeze, proof, detours>>

\* build_uksl_receipt: closed if no clause is left, open otherwise, and written
\* either way.  Without a freeze receipt or a report it raises.
Close ==
  /\ There(freeze) /\ There(report) /\ proof # None
  /\ \E verified \in Verdicts :
       closure' = [closed |-> /\ tree.layout /\ freeze.tree.vocabulary
                              /\ freeze.tree.stable /\ freeze.tree.clean
                              /\ report.passed
                              /\ verified,
                   freeze |-> freeze, report |-> report, proof |-> proof]
  /\ UNCHANGED <<tree, report, freeze, proof, detours>>

\* The working tree is edited, or another commit checked out.
Edit ==
  /\ Detour
  /\ tree' \in Trees \ {tree}
  /\ UNCHANGED <<report, freeze, proof, closure>>

\* Someone removes a receipt, so that it has "not been produced yet".
RemoveReceipt ==
  /\ Detour
  /\ \/ freeze # None /\ freeze' = None /\ UNCHANGED closure
     \/ closure # None /\ closure' = None /\ UNCHANGED freeze
  /\ UNCHANGED <<tree, report, proof>>

\* A command is stopped while it writes its file.
Interrupt ==
  /\ Detour
  /\ \/ /\ tree.suite # "does not load" /\ report' = Torn
        /\ UNCHANGED <<freeze, proof, closure>>
     \/ /\ Freezable(TRUE) /\ freeze' = Torn
        /\ UNCHANGED <<report, proof, closure>>
     \/ /\ proof' = [kind |-> "broken", tree |-> tree]
        /\ UNCHANGED <<report, freeze, closure>>
     \/ /\ There(freeze) /\ There(report) /\ proof # None /\ closure' = Torn
        /\ UNCHANGED <<report, freeze, proof>>
  /\ UNCHANGED tree

Documented == RunTests \/ Freeze \/ BuildProof \/ Close

Next ==
  \/ Documented
  \/ RunSubset \/ FreezeAllowing \/ BuildUnrendered
  \/ Edit \/ RemoveReceipt \/ Interrupt

\* Each documented command is given again and again; the last one may raise on
\* a package that is not of this tree.
Fairness ==
  /\ WF_vars(RunTests) /\ WF_vars(Freeze) /\ WF_vars(BuildProof)
  /\ WF_vars(Close /\ proof.kind = "whole" /\ proof.tree = tree)

Spec == Init /\ [][Next]_vars /\ Fairness
-----------------------------------------------------------------------------

\* A UKSL that is recorded closed rests on tests that passed, twice: a closed
\* receipt over a report of the whole suite never cites a freeze receipt made
\* over failing tests or of a tree that was unstable or read the archive, though
\* no clause compares the two records and --allow-failing-tests writes such
\* freeze receipts.  (build_uksl_receipt.py reads only the report's verdict; the
\* suite, run before, is what keeps the freeze receipt honest.)
ClosedRestsOnPassingTests ==
  There(closure) /\ closure.closed /\ closure.report.full =>
    /\ closure.report.passed
    /\ closure.freeze.report.passed
    /\ closure.freeze.tree.stable /\ closure.freeze.tree.clean

\* A freeze receipt that covers another boundary, under a report that says so.
Stale == There(freeze) /\ ~Covers(tree)

FoundStale == Stale /\ There(report) /\ ~report.passed

\* A change of the boundary is not frozen over in silence: once the suite has
\* found the freeze receipt stale, no order of the documented commands replaces
\* it or turns the report into a passing one; that takes an edit, a removal, a
\* selection of tests or --allow-failing-tests.
BoundaryIsNotFrozenOver ==
  [][FoundStale /\ detours' = detours => FoundStale' /\ freeze' = freeze]_vars

\* What the documented commands can close: a tree that meets every clause, over
\* which no earlier receipt stands in the way.  A torn closure does only if there is no
\* freeze receipt to write it anew from.
Healthy ==
  /\ tree.suite = "passes" /\ tree.clean /\ tree.stable /\ tree.vocabulary /\ tree.layout
  /\ tree.renders
  /\ freeze # None => Covers(tree) /\ freeze.report.passed
  /\ closure = Torn => freeze # None

\* Everything the closure cites was made from the tree that is there.
ClosedOnThisTree ==
  /\ There(closure) /\ closure.closed
  /\ closure.freeze.tree = tree /\ closure.proof.tree = tree
  /\ \A r \in {closure.report, closure.freeze.report} : r.tree = tree /\ r.full /\ r.passed

\* Given again and again in any order, the four commands bring a healthy tree to
\* a closure that cites nothing stale, and it stays so: what was left behind by
\* earlier trees, by selected tests or by interrupted commands is replaced, a closure
\* that was cut short by an open one first.
UndisturbedWorkCloses == <>[]Healthy => <>[]ClosedOnThisTree

\* What the suite tells the reader of a stale freeze receipt to do, "the freeze
\* receipt is stale; re-run the freeze" (tests/test_receipts_on_disk.py:43),
\* works: on a tree with nothing else wrong it does not stay stale for ever.
StaleFreezeIsRefrozen ==
  (/\ Stale
   /\ tree.suite = "passes" /\ tree.clean /\ tree.stable) ~> ~Stale
=============================================================================
