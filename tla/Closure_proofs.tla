-------------------------- MODULE Closure_proofs --------------------------
(***************************************************************************)
(* What closing a release guarantees, for any set of trees and any number  *)
(* of detours.  A closed receipt rests on passing tests because the suite  *)
(* cannot pass over a freeze receipt that records failing ones, and a      *)
(* freeze receipt made later takes over the report the suite then wrote.   *)
(* The last part takes the way to a closure one command at a time.         *)
(***************************************************************************)
EXTENDS Closure, TLAPS

\* The types of the records the commands write.
LEMMA ReportTyped ==
  ASSUME TypeOK, NEW passed \in BOOLEAN, NEW full \in BOOLEAN
  PROVE  [passed |-> passed, full |-> full, tree |-> tree] \in Reports
  BY DEF TypeOK, Reports

LEMMA FreezeTyped ==
  ASSUME TypeOK, There(report)
  PROVE  [tree |-> tree, report |-> report] \in Freezes
  BY DEF TypeOK, There, Freezes

LEMMA ProofTyped ==
  ASSUME TypeOK, NEW kind \in {"whole", "unrendered", "broken"}
  PROVE  [kind |-> kind, tree |-> tree] \in Proofs
  BY DEF TypeOK, Proofs

\* What a freeze receipt on disk says of its tree and its tests is known.
LEMMA FreezeRead ==
  ASSUME TypeOK, There(freeze)
  PROVE  /\ freeze \in Freezes
         /\ freeze.tree \in Tree /\ freeze.report \in Reports
         /\ freeze.tree.stable \in BOOLEAN /\ freeze.tree.clean \in BOOLEAN
         /\ freeze.tree.vocabulary \in BOOLEAN
         /\ freeze.report.passed \in BOOLEAN
  BY ClosureAssumption DEF TypeOK, There, Freezes, Reports, Tree

LEMMA ReportRead ==
  ASSUME TypeOK, There(report)
  PROVE  report \in Reports /\ report.passed \in BOOLEAN /\ report.full \in BOOLEAN
  BY DEF TypeOK, There, Reports

LEMMA SuitePassesIsBoolean ==
  SuitePasses \in BOOLEAN
  BY DEF SuitePasses, ReceiptTestsPass, Covers, There

\* One step keeps the types.
LEMMA TypeStep == TypeOK /\ [Next]_vars => TypeOK'
<1> SUFFICES ASSUME TypeOK, [Next]_vars PROVE TypeOK'
  OBVIOUS
<1> USE ClosureAssumption
<1>1. CASE RunTests
  <2>1. report' \in Reports
    BY <1>1, ReportTyped, SuitePassesIsBoolean DEF RunTests
  <2> QED BY <1>1, <2>1 DEF RunTests, TypeOK
<1>2. CASE RunSubset
  <2>1. report' \in Reports
    BY <1>2, ReportTyped DEF RunSubset
  <2> QED BY <1>2, <2>1 DEF RunSubset, Detour, TypeOK
<1>3. CASE Freeze
  <2>1. freeze' \in Freezes
    BY <1>3, FreezeTyped DEF Freeze, Freezable
  <2> QED BY <1>3, <2>1 DEF Freeze, TypeOK
<1>4. CASE FreezeAllowing
  <2>1. freeze' \in Freezes
    BY <1>4, FreezeTyped DEF FreezeAllowing, Freezable
  <2> QED BY <1>4, <2>1 DEF FreezeAllowing, Detour, TypeOK
<1>5. CASE BuildProof
  <2>1. proof' \in Proofs \cup {None}
    BY <1>5, ProofTyped DEF BuildProof, Package, TypeOK
  <2> QED BY <1>5, <2>1 DEF BuildProof, TypeOK
<1>6. CASE BuildUnrendered
  <2>1. proof' \in Proofs
    BY <1>6, ProofTyped DEF BuildUnrendered
  <2> QED BY <1>6, <2>1 DEF BuildUnrendered, Detour, TypeOK
<1>7. CASE Close
  <2>1. PICK verified \in Verdicts :
          closure' = [closed |-> /\ tree.layout /\ freeze.tree.vocabulary
                                 /\ freeze.tree.stable /\ freeze.tree.clean
                                 /\ report.passed
                                 /\ verified,
                      freeze |-> freeze, report |-> report, proof |-> proof]
    BY <1>7 DEF Close
  <2>2. freeze \in Freezes /\ report \in Reports /\ proof \in Proofs
    BY <1>7 DEF Close, There, TypeOK
  <2>3. closure' \in Closures
    BY <2>1, <2>2 DEF Closures
  <2> QED BY <1>7, <2>3 DEF Close, TypeOK
<1>8. CASE Edit
  BY <1>8 DEF Edit, Detour, TypeOK
<1>9. CASE RemoveReceipt
  BY <1>9 DEF RemoveReceipt, Detour, TypeOK
<1>10. CASE Interrupt
  <2>1. proof' = proof \/ proof' \in Proofs
    BY <1>10, ProofTyped DEF Interrupt
  <2>2. /\ report' \in {report, Torn} /\ freeze' \in {freeze, Torn}
        /\ closure' \in {closure, Torn} /\ tree' = tree
    BY <1>10 DEF Interrupt
  <2>3. detours' \in 0..MaxDetours
    <3>1. Detour
      BY <1>10 DEF Interrupt
    <3> QED BY <3>1 DEF Detour, TypeOK
  <2> QED BY <2>1, <2>2, <2>3 DEF TypeOK
<1>11. CASE UNCHANGED vars
  BY <1>11 DEF vars, TypeOK
<1> QED BY <1>1, <1>2, <1>3, <1>4, <1>5, <1>6, <1>7, <1>8, <1>9, <1>10, <1>11 DEF Next, Documented

\* The files always hold what the commands write, or nothing, or a torn file.
THEOREM TypeCorrect == Spec => []TypeOK
<1>1. Init => TypeOK
  BY ClosureAssumption DEF Init, TypeOK
<1> QED BY <1>1, TypeStep, PTL DEF Spec

-----------------------------------------------------------------------------

\* A freeze receipt is of a stable and clean tree, and none that records failing
\* tests is on disk together with a passing report of the whole suite.
FreezeIsVouchedFor ==
  There(freeze) =>
    /\ freeze.tree.stable /\ freeze.tree.clean
    /\ There(report) /\ report.full /\ report.passed => freeze.report.passed

LEMMA FreezeStep == TypeOK /\ FreezeIsVouchedFor /\ [Next]_vars => FreezeIsVouchedFor'
<1> SUFFICES ASSUME TypeOK, FreezeIsVouchedFor, [Next]_vars PROVE FreezeIsVouchedFor'
  OBVIOUS
<1>1. CASE RunTests
  <2>1. SuitePasses /\ There(freeze) => freeze.report.passed
    BY DEF SuitePasses, ReceiptTestsPass, There
  <2> QED BY <1>1, <2>1 DEF RunTests, FreezeIsVouchedFor, There
<1>2. CASE RunSubset
  <2>1. PICK passed \in BOOLEAN : report' = [passed |-> passed, full |-> FALSE, tree |-> tree]
    BY <1>2 DEF RunSubset
  <2>2. ~report'.full
    BY <2>1
  <2> QED BY <1>2, <2>2 DEF RunSubset, FreezeIsVouchedFor, There
<1>3. CASE Freeze \/ FreezeAllowing
  <2>1. freeze' = [tree |-> tree, report |-> report] /\ tree.stable /\ tree.clean
        /\ report' = report
    BY <1>3 DEF Freeze, FreezeAllowing, Freezable
  <2>2. freeze'.tree = tree /\ freeze'.report = report
    BY <2>1
  <2> QED BY <2>1, <2>2 DEF FreezeIsVouchedFor
<1>4. CASE BuildProof \/ BuildUnrendered \/ Close \/ Edit
  BY <1>4 DEF BuildProof, BuildUnrendered, Close, Edit, FreezeIsVouchedFor, There
<1>5. CASE RemoveReceipt
  BY <1>5 DEF RemoveReceipt, FreezeIsVouchedFor, There
<1>6. CASE Interrupt
  BY <1>6 DEF Interrupt, FreezeIsVouchedFor, There
<1>7. CASE UNCHANGED vars
  BY <1>7 DEF vars, FreezeIsVouchedFor, There
<1> QED BY <1>1, <1>2, <1>3, <1>4, <1>5, <1>6, <1>7 DEF Next, Documented

LEMMA ClosureStep ==
  TypeOK /\ FreezeIsVouchedFor /\ ClosedRestsOnPassingTests /\ [Next]_vars
    => ClosedRestsOnPassingTests'
<1> SUFFICES ASSUME TypeOK, FreezeIsVouchedFor, ClosedRestsOnPassingTests, [Next]_vars
             PROVE  ClosedRestsOnPassingTests'
  OBVIOUS
<1>1. CASE Close
  <2>1. PICK verified \in Verdicts :
          closure' = [closed |-> /\ tree.layout /\ freeze.tree.vocabulary
                                 /\ freeze.tree.stable /\ freeze.tree.clean
                                 /\ report.passed
                                 /\ verified,
                      freeze |-> freeze, report |-> report, proof |-> proof]
    BY <1>1 DEF Close
  <2>2. There(freeze) /\ There(report)
    BY <1>1 DEF Close
  <2>3. /\ closure'.closed => report.passed
        /\ closure'.report = report /\ closure'.freeze = freeze
    BY <2>1
  <2> QED BY <2>2, <2>3 DEF FreezeIsVouchedFor, ClosedRestsOnPassingTests
<1>2. CASE closure' = closure \/ closure' \in {None, Torn}
  BY <1>2 DEF ClosedRestsOnPassingTests, There
<1>3. ~Close => closure' = closure \/ closure' \in {None, Torn}
  BY DEF Next, Documented, RunTests, RunSubset, Freeze, FreezeAllowing, BuildProof,
         BuildUnrendered, Edit, RemoveReceipt, Interrupt, vars
<1> QED BY <1>1, <1>2, <1>3

\* A release recorded closed over a run of the whole suite never cites a freeze
\* receipt that records failing tests or an unsound tree.
THEOREM ClosureIsEarned == Spec => []ClosedRestsOnPassingTests
<1>1. Init => FreezeIsVouchedFor /\ ClosedRestsOnPassingTests
  BY DEF Init, FreezeIsVouchedFor, ClosedRestsOnPassingTests, There
<1> QED BY <1>1, TypeCorrect, FreezeStep, ClosureStep, PTL DEF Spec

-----------------------------------------------------------------------------

\* Once the suite has found the freeze receipt stale, the documented commands
\* neither replace it nor make the suite pass.
THEOREM BoundaryHolds == Spec => BoundaryIsNotFrozenOver
<1>1. ASSUME TypeOK, [Next]_vars, FoundStale, detours' = detours
      PROVE  FoundStale' /\ freeze' = freeze
  <2> USE <1>1
  <2>1. detours \in Int /\ ~Detour
    BY DEF TypeOK, Detour
  <2>2. CASE RunTests
    <3>1. ~SuitePasses
      BY DEF FoundStale, Stale, There, SuitePasses, ReceiptTestsPass
    <3>2. report' = [passed |-> FALSE, full |-> TRUE, tree |-> tree]
      BY <2>2, <3>1, SuitePassesIsBoolean DEF RunTests
    <3>3. report' \in Reports
      BY <3>2, ReportTyped
    <3>4. There(report') /\ ~report'.passed
      BY <3>2, <3>3, NoFileIsNoRecord DEF There
    <3> QED BY <2>2, <3>4 DEF RunTests, FoundStale, Stale, Covers, There
  <2>3. CASE Freeze
    BY <2>3 DEF Freeze, Freezable, FoundStale
  <2>4. CASE BuildProof \/ Close
    BY <2>4 DEF BuildProof, Close, FoundStale, Stale, Covers, There
  <2>5. CASE UNCHANGED vars
    BY <2>5 DEF vars, FoundStale, Stale, Covers, There
  <2> QED BY <2>1, <2>2, <2>3, <2>4, <2>5
      DEF Next, Documented, RunSubset, FreezeAllowing, BuildUnrendered, Edit, RemoveReceipt, Interrupt
<1> QED BY <1>1, TypeCorrect, PTL DEF Spec, BoundaryIsNotFrozenOver

-----------------------------------------------------------------------------
(* The way to a closure, command by command.                               *)

\* What the documented commands have to reach, in this order but for the proof.
Reported == report = [passed |-> TRUE, full |-> TRUE, tree |-> tree]
Frozen == Reported /\ freeze = [tree |-> tree, report |-> report]
Built == proof = [kind |-> "whole", tree |-> tree]
Closed == Frozen /\ Built /\ ClosedOnThisTree

\* A closure the suite can read, or none.
Readable == closure # Torn

\* On a healthy tree the suite passes, whatever freeze receipt it finds.
LEMMA HealthyPasses ==
  ASSUME FreezeIsVouchedFor, Healthy, Readable
  PROVE  SuitePasses
  BY DEF Healthy, FreezeIsVouchedFor, Covers, Readable, SuitePasses, ReceiptTestsPass

\* The closing command leaves a whole receipt.
LEMMA ClosureWritten ==
  ASSUME TypeOK, Close
  PROVE  There(closure')
<1>1. PICK verified \in Verdicts :
        closure' = [closed |-> /\ tree.layout /\ freeze.tree.vocabulary
                               /\ freeze.tree.stable /\ freeze.tree.clean
                               /\ report.passed
                               /\ verified,
                    freeze |-> freeze, report |-> report, proof |-> proof]
  BY DEF Close
<1>2. freeze \in Freezes /\ report \in Reports /\ proof \in Proofs
  BY FreezeRead, ReportRead DEF Close, TypeOK
<1>3. closure' \in Closures
  BY <1>1, <1>2 DEF Closures
<1> QED BY <1>3, NoFileIsNoRecord DEF There

\* What a documented command leaves of a healthy tree.
LEMMA HealthyStays ==
  ASSUME TypeOK, TypeOK', FreezeIsVouchedFor, Healthy, Documented
  PROVE  /\ tree' = tree /\ Healthy'
         /\ Readable => Readable'
         /\ Readable => (report' = report \/ Reported')
         /\ Readable /\ RunTests => Reported'
         /\ RunTests => There(report')
         /\ There(report) => There(report')
         /\ Close => Readable'
<1>1. CASE RunTests
  <2>1. /\ report' = [passed |-> SuitePasses, full |-> TRUE, tree |-> tree]
        /\ tree' = tree /\ freeze' = freeze /\ closure' = closure
    BY <1>1 DEF RunTests
  <2>2. report' \in Reports
    BY <2>1, ReportTyped, SuitePassesIsBoolean
  <2>3. There(report')
    BY <2>2, NoFileIsNoRecord DEF There
  <2>4. Readable => Reported'
    <3>1. Readable => SuitePasses = TRUE
      BY HealthyPasses, SuitePassesIsBoolean
    <3> QED BY <2>1, <3>1 DEF Reported
  <2>5. Healthy'
    BY <2>1 DEF Healthy, Covers, There
  <2>6. Readable' <=> Readable
    BY <2>1 DEF Readable
  <2>7. Close => Readable'
    BY <2>1, ClosureWritten DEF Readable, There
  <2> QED BY <2>1, <2>3, <2>4, <2>5, <2>6, <2>7
<1>2. ASSUME Freeze, ~RunTests
      PROVE  tree' = tree /\ report' = report /\ closure' = closure /\ Healthy'
  <2>1. /\ freeze' = [tree |-> tree, report |-> report] /\ There(report) /\ report.passed
        /\ tree' = tree /\ report' = report /\ closure' = closure
    BY <1>2 DEF Freeze, Freezable
  <2>2. freeze' \in Freezes /\ freeze'.tree = tree /\ freeze'.report = report
    BY <2>1, FreezeTyped
  <2>3. freeze' # Torn /\ freeze' # None
    BY <2>2, NoFileIsNoRecord
  <2> QED BY <2>1, <2>2, <2>3 DEF Healthy, Covers, There
<1>3. ASSUME BuildProof, ~RunTests
      PROVE  tree' = tree /\ report' = report /\ closure' = closure /\ Healthy'
  BY <1>3 DEF BuildProof, Healthy, Covers, There
<1>4. ASSUME Close PROVE tree' = tree /\ report' = report /\ Readable' /\ Healthy'
  <2>1. tree' = tree /\ report' = report /\ freeze' = freeze
    BY <1>4 DEF Close
  <2>2. closure' # Torn
    BY <1>4, ClosureWritten DEF There
  <2> QED BY <2>1, <2>2 DEF Healthy, Readable, Covers, There
<1>5. CASE Close /\ ~RunTests
  BY <1>4, <1>5 DEF There
<1>6. CASE (Freeze \/ BuildProof) /\ ~Close /\ ~RunTests
  BY <1>2, <1>3, <1>6 DEF Readable, There
<1> QED BY <1>1, <1>5, <1>6 DEF Documented

\* Closing a frozen tree with its package in place cites just that.
LEMMA CloseCloses ==
  ASSUME TypeOK, TypeOK', Healthy, Close, Frozen, Built
  PROVE  ClosedOnThisTree'
<1>1. Verdicts = {TRUE}
  BY DEF Built, Verdicts
<1>2. /\ tree.layout /\ tree.vocabulary /\ tree.stable /\ tree.clean
      /\ report.passed /\ freeze.tree = tree /\ freeze.report = report
      /\ report.tree = tree /\ report.full /\ proof.tree = tree
  BY DEF Healthy, Frozen, Reported, Built
<1>3. /\ There(freeze) /\ There(report) /\ tree' = tree
      /\ closure' = [closed |-> /\ tree.layout /\ freeze.tree.vocabulary
                                /\ freeze.tree.stable /\ freeze.tree.clean
                                /\ report.passed
                                /\ TRUE,
                     freeze |-> freeze, report |-> report, proof |-> proof]
  BY <1>1 DEF Close
<1>4. /\ closure'.closed /\ closure'.freeze = freeze /\ closure'.report = report
      /\ closure'.proof = proof
  BY <1>2, <1>3
<1> QED BY <1>2, <1>3, <1>4, ClosureWritten DEF ClosedOnThisTree

\* On an undisturbed healthy tree no command refuses its turn ...
Admitted ==
  /\ tree.suite # "does not load"
  /\ Reported => Freezable(FALSE)
  /\ There(report) /\ Built /\ (Frozen \/ ~Readable) =>
       /\ There(freeze) /\ proof # None
       /\ proof.kind = "whole" /\ proof.tree = tree

\* ... and each reaches its rung and undoes none that another has reached: a closure that
\* cannot be read is written anew, open, once there are a report and a package, ...
Mends ==
  /\ Healthy'
  /\ There(report) \/ RunTests => There(report')
  /\ Built \/ BuildProof => Built'
  /\ Readable \/ Close => Readable'

\* ... and over one that can be, or none, the four commands climb to a closed one.
Climbs ==
  Readable =>
    /\ Reported => Reported'
    /\ Frozen => Frozen'
    /\ Closed => Closed'
    /\ RunTests => Reported'
    /\ Freeze /\ Reported => Frozen'
    /\ Close /\ Frozen /\ Built => Closed'

LEMMA HealthyAdmits ==
  ASSUME TypeOK, Healthy
  PROVE  Admitted
<1>1. Reported => There(report) /\ report.passed
  <2> SUFFICES ASSUME Reported PROVE There(report) /\ report.passed
    OBVIOUS
  <2>1. report \in Reports
    BY ReportTyped DEF Reported
  <2> QED BY <2>1, NoFileIsNoRecord DEF Reported, There
<1>2. Frozen \/ ~Readable => There(freeze)
  <2>1. ASSUME Frozen PROVE There(freeze)
    <3>1. freeze \in Freezes
      BY <1>1, <2>1, FreezeTyped DEF Frozen
    <3> QED BY <3>1, NoFileIsNoRecord DEF There
  <2>2. ~Readable => There(freeze)
    BY DEF Readable, Healthy, Covers, There
  <2> QED BY <2>1, <2>2
<1>3. Built => proof # None /\ proof.kind = "whole" /\ proof.tree = tree
  <2> SUFFICES ASSUME Built PROVE proof # None /\ proof.kind = "whole" /\ proof.tree = tree
    OBVIOUS
  <2>1. proof \in Proofs
    BY ProofTyped DEF Built
  <2> QED BY <2>1, NoFileIsNoRecord DEF Built
<1> QED BY <1>1, <1>2, <1>3 DEF Admitted, Healthy, Freezable, Frozen

LEMMA DocumentedMends ==
  ASSUME TypeOK, TypeOK', FreezeIsVouchedFor, Healthy, Documented
  PROVE  Mends
<1>1. /\ tree' = tree /\ Healthy' /\ (Readable \/ Close => Readable')
      /\ There(report) \/ RunTests => There(report')
  BY HealthyStays
<1>2. BuildProof => Built'
  BY DEF BuildProof, Package, Healthy, Built
<1>3. RunTests \/ Freeze \/ Close => proof' = proof
  BY DEF RunTests, Freeze, Close
<1>4. Built => Built'
  BY <1>1, <1>2, <1>3 DEF Documented, Built
<1> QED BY <1>1, <1>2, <1>4 DEF Mends

LEMMA DocumentedClimbs ==
  ASSUME TypeOK, TypeOK', FreezeIsVouchedFor, Healthy, Documented, Readable
  PROVE  Climbs
<1>1. /\ tree' = tree /\ (RunTests => Reported')
      /\ report' = report \/ Reported'
  BY HealthyStays
<1>2. Reported => Reported'
  BY <1>1 DEF Reported
<1>3. Frozen => Frozen'
  <2> SUFFICES ASSUME Frozen PROVE Frozen'
    OBVIOUS
  <2>1. Reported' /\ report' = report
    BY <1>1, <1>2 DEF Frozen, Reported
  <2>2. freeze' = [tree |-> tree, report |-> report]
    BY DEF Documented, RunTests, Freeze, BuildProof, Close, Frozen
  <2> QED BY <1>1, <2>1, <2>2 DEF Frozen
<1>4. Built => Built'
  BY DocumentedMends DEF Mends
<1>5. Freeze /\ Reported => Frozen'
  BY <1>1, <1>2 DEF Freeze, Frozen
<1>6. Close /\ Frozen /\ Built => Closed'
  BY <1>3, <1>4, CloseCloses DEF Closed
<1>7. Closed => Closed'
  <2> SUFFICES ASSUME Closed PROVE Closed'
    OBVIOUS
  <2>1. CASE Close
    BY <1>6, <2>1 DEF Closed
  <2>2. CASE RunTests \/ Freeze \/ BuildProof
    <3>1. closure' = closure
      BY <2>2 DEF RunTests, Freeze, BuildProof
    <3>2. ClosedOnThisTree'
      BY <1>1, <3>1 DEF Closed, ClosedOnThisTree, There
    <3> QED BY <1>3, <1>4, <3>2 DEF Closed
  <2> QED BY <2>1, <2>2 DEF Documented
<1> QED BY <1>1, <1>2, <1>3, <1>5, <1>6, <1>7 DEF Climbs

\* What a closure needs of the commands besides their being given: on a healthy
\* tree that nobody disturbs, no command refuses its turn (run_tests loads the
\* suite, freeze_xi_v1 accepts the report, build_uksl_receipt finds its inputs),
\* a closure that was cut short is replaced by one that can be read, then
\* each makes its own record of that tree, whatever was there before, and none
\* loses a record another one made; so the closure is reached once tests, freeze
\* and build have had their turn, and kept.
THEOREM UndisturbedProgress ==
  Spec => /\ [](Healthy => Admitted)
          /\ [][Healthy /\ detours' = detours => Documented /\ Mends /\ Climbs]_vars
<1>1. Init => FreezeIsVouchedFor
  BY DEF Init, FreezeIsVouchedFor, There
<1>2. TypeOK /\ Healthy => Admitted
  BY HealthyAdmits
<1>3. ASSUME TypeOK, [Next]_vars, detours' = detours
      PROVE  Documented \/ UNCHANGED vars
  <2>1. detours \in Int /\ ~Detour
    BY <1>3 DEF TypeOK, Detour
  <2> QED BY <1>3, <2>1
      DEF Next, RunSubset, FreezeAllowing, BuildUnrendered, Edit, RemoveReceipt, Interrupt
<1>4. ASSUME TypeOK, TypeOK', FreezeIsVouchedFor, [Next]_vars
      PROVE  [Healthy /\ detours' = detours => Documented /\ Mends /\ Climbs]_vars
  <2> SUFFICES ASSUME Healthy, detours' = detours, ~(UNCHANGED vars)
               PROVE  Documented /\ Mends /\ Climbs
    OBVIOUS
  <2>1. Documented
    BY <1>3, <1>4
  <2>2. ~Readable => Climbs
    BY DEF Climbs
  <2> QED BY <1>4, <2>1, <2>2, DocumentedMends, DocumentedClimbs
<1>5. Spec => []FreezeIsVouchedFor
  BY <1>1, FreezeStep, TypeCorrect, PTL DEF Spec
<1>6. Spec => [](Healthy => Admitted)
  BY <1>2, TypeCorrect, PTL
<1>7. Spec => [][Healthy /\ detours' = detours => Documented /\ Mends /\ Climbs]_vars
  BY <1>4, <1>5, TypeCorrect, PTL DEF Spec
<1> QED BY <1>6, <1>7
=============================================================================
