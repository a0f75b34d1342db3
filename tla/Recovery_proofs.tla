--------------------------- MODULE Recovery_proofs ---------------------------
(***************************************************************************)
(* Proofs about Recovery, for every artifact, contract set, registry,      *)
(* budget and number of runs: the ledger stays linked, what a run returns  *)
(* is true, and the controller implements bounded recovery.                *)
(***************************************************************************)
EXTENDS Recovery, XiAudit_proofs, SequenceTheorems

IsSeq(s) == \E S : s \in Seq(S)

\* Appending keeps a sequence a sequence, whatever is appended.
LEMMA Appended ==
  ASSUME NEW s, IsSeq(s), NEW e
  PROVE  /\ IsSeq(Append(s, e)) /\ Len(s) \in Nat
         /\ Len(Append(s, e)) = Len(s) + 1
         /\ \A i \in 1..Len(s) : Append(s, e)[i] = s[i]
         /\ Append(s, e)[Len(s) + 1] = e
<1>1. PICK S : s \in Seq(S)
  BY DEF IsSeq
<1>2. s \in Seq(S \cup {e})
  BY <1>1
<1>3. Append(s, e) \in Seq(S \cup {e})
  BY <1>2, AppendProperties
<1>4. QED
  BY <1>2, <1>3, AppendProperties DEF IsSeq

-----------------------------------------------------------------------------
(* The inductive invariant.                                                *)

Decisions == {"ADMIT", "REVIEW", "REJECT", "ERROR"}

\* While a run is going on, everything so far has been refused.  A receipt that lacks a
\* field has "absent" in its place.
RunInv ==
  /\ IsSeq(ledger) /\ IsSeq(attempts)
  /\ \A k \in 1..Len(ledger) : ledger[k].body.admission \in Decisions \cup {"absent"}
  /\ \A receipt \in Known : receipt.body.artifact \in Artifacts \cup {"absent"}
  /\ pc # "idle" => /\ ~outcome.returned
                    /\ ~Admits(current)
                    /\ \A k \in 1..Len(attempts) : ~Admits(attempts[k])

IInv == TypeOK /\ RunInv /\ LedgerIsLinked /\ OutcomeIsTruthful

LEMMA InitInv == Init => IInv
<1> SUFFICES ASSUME Init PROVE IInv
  OBVIOUS
<1>1. PICK a \in Artifacts, registry \in Registries :
        first = VerifyArtifact(a, contracts, policy, registry, NoParent)
  BY DEF Init, Receipts
<1>2. first.body.artifact \in Artifacts
  BY <1>1, BoundaryRecords, RecoveryAssumption
<1>3. Len(<<>>) = 0 /\ IsSeq(<<>>)
  BY DEF IsSeq
<1>4. TypeOK
  BY <1>2, <1>3, RecoveryAssumption DEF Init, TypeOK, Known
<1>5. RunInv
  BY <1>2, <1>3 DEF Init, RunInv, Known
<1>6. LedgerIsLinked /\ OutcomeIsTruthful
  BY <1>3 DEF Init, LedgerIsLinked, OutcomeIsTruthful, None
<1>7. QED
  BY <1>4, <1>5, <1>6 DEF IInv

\* A receipt that lacks a field is the boundary's otherwise.
LEMMA LackingRecords ==
  ASSUME NEW a \in Artifacts, NEW registry \in Registries, NEW parent,
         NEW receipt \in Lacking(VerifyArtifact(a, contracts, policy, registry, parent))
  PROVE  /\ receipt.body.parent = parent
         /\ receipt.body.admission \in Decisions \cup {"absent"}
         /\ receipt.body.artifact \in Artifacts \cup {"absent"}
<1> DEFINE whole == VerifyArtifact(a, contracts, policy, registry, parent)
<1>1. /\ whole.body.artifact = a /\ whole.body.parent = parent
      /\ whole.body.admission \in Decisions
  BY RecoveryAssumption, BoundaryRecords DEF Decisions
<1>2. \A field \in {"artifact", "admission"} :
        LET lacking == [whole EXCEPT !.body[field] = "absent"]
        IN  /\ field # "artifact" => lacking.body.artifact = whole.body.artifact
            /\ field # "admission" => lacking.body.admission = whole.body.admission
            /\ lacking.body[field] = "absent" /\ lacking.body.parent = whole.body.parent
  BY DEF VerifyArtifact, BuildReceipt, Seal
<1>3. receipt \in {[whole EXCEPT !.body.artifact = "absent"],
                  [whole EXCEPT !.body.admission = "absent"]}
  BY DEF Lacking
<1> HIDE DEF whole
<1>4. QED
  BY <1>1, <1>2, <1>3

\* A run begins from a receipt on record, with nothing attempted.
LEMMA StartInv ==
  ASSUME IInv, NEW receipt \in Known, NEW b \in Budgets, Start(receipt, b)
  PROVE  IInv'
<1>1. attempts' = <<>> /\ Len(<<>>) = 0 /\ IsSeq(<<>>)
  BY DEF Start, IsSeq
<1>2. ledger' = ledger /\ first' = first /\ Known' = Known
  BY DEF Start, Known
<1>3. b \in Nat /\ Len(ledger) \in Nat
  BY RecoveryAssumption, Appended DEF IInv, RunInv
<1>4. TypeOK'
  <2>1. artifact' \in Artifacts
    BY DEF Start
  <2>2. runs' \in 0..MaxRuns
    BY RecoveryAssumption DEF Start, IInv, TypeOK
  <2>3. QED
    BY <1>1, <1>2, <1>3, <2>1, <2>2 DEF TypeOK, Start
<1>5. RunInv'
  BY <1>1, <1>2 DEF IInv, RunInv, Start, Admits, None
<1>6. LedgerIsLinked'
  BY <1>2 DEF IInv, LedgerIsLinked, Admits
<1>7. OutcomeIsTruthful'
  BY DEF Start, None, OutcomeIsTruthful
<1>8. QED
  BY <1>4, <1>5, <1>6, <1>7 DEF IInv

\* A step that keeps the ledger, the attempts and the outcome keeps the rest.
LEMMA QuietInv ==
  ASSUME IInv, UNCHANGED <<failed, budget, current, attempts, outcome, ledger, first, runs>>,
         artifact' \in Artifacts,
         \/ pc' = "idle" \/ pc' = pc
         \/ pc = "loop" /\ pc' = "validate" /\ Len(attempts) < budget
  PROVE  IInv'
<1>1. Known' = Known
  BY DEF Known
<1>2. TypeOK'
  BY <1>1 DEF IInv, TypeOK
<1>3. RunInv'
  BY <1>1 DEF IInv, RunInv, TypeOK, Admits
<1>4. LedgerIsLinked'
  BY DEF IInv, LedgerIsLinked, Admits
<1>5. OutcomeIsTruthful'
  BY DEF IInv, OutcomeIsTruthful, Admits
<1>6. QED
  BY <1>2, <1>3, <1>4, <1>5 DEF IInv

\* A receipt that links to the current refusal keeps the ledger linked.
LEMMA LinkGrows ==
  ASSUME IInv, NEW receipt, pc # "idle", receipt.body.parent = current.digest,
         ledger' = Append(ledger, receipt), first' = first
  PROVE  LedgerIsLinked'
<1>1. ~Admits(current) /\ current \in Known
  BY DEF IInv, RunInv, TypeOK
<1>2. /\ Len(ledger) \in Nat /\ Len(ledger') = Len(ledger) + 1
      /\ \A k \in 1..Len(ledger) : ledger'[k] = ledger[k]
      /\ ledger'[Len(ledger) + 1] = receipt
  BY Appended DEF IInv, RunInv
<1>3. ASSUME NEW k \in 1..Len(ledger')
      PROVE  \E r \in {first'} \cup {ledger'[j] : j \in 1..(k - 1)} :
               ~Admits(r) /\ ledger'[k].body.parent = r.digest
  <2>1. CASE k = Len(ledger) + 1
    <3>1. current \in {first'} \cup {ledger'[j] : j \in 1..(k - 1)}
      BY <1>1, <1>2, <2>1 DEF Known
    <3>2. QED
      BY <1>1, <1>2, <2>1, <3>1
  <2>2. CASE k \in 1..Len(ledger)
    <3>1. {first'} \cup {ledger'[j] : j \in 1..(k - 1)}
            = {first} \cup {ledger[j] : j \in 1..(k - 1)}
      BY <1>2, <2>2
    <3>2. QED
      BY <1>2, <2>2, <3>1 DEF IInv, LedgerIsLinked
  <2>3. QED
    BY <1>2, <2>1, <2>2
<1>4. QED
  BY <1>3 DEF LedgerIsLinked, Admits

\* What is left of a run that raised after the append.
LEMMA RaiseLateInv ==
  ASSUME IInv, NEW registry \in Registries,
         NEW receipt \in Lacking(VerifyArtifact(artifact, contracts, policy, registry,
                                                current.digest)),
         RaiseLate(receipt)
  PROVE  IInv'
<1>1. /\ receipt.body.parent = current.digest
      /\ receipt.body.admission \in Decisions \cup {"absent"}
      /\ receipt.body.artifact \in Artifacts \cup {"absent"}
  BY LackingRecords DEF IInv, TypeOK
<1>2. pc # "idle" /\ pc' = "idle" /\ ~outcome.returned /\ ledger' = Append(ledger, receipt)
      /\ UNCHANGED <<failed, budget, artifact, current, attempts, outcome, first, runs>>
  BY DEF RaiseLate, IInv, RunInv
<1>3. /\ IsSeq(ledger') /\ Len(ledger) \in Nat /\ Len(ledger') = Len(ledger) + 1
      /\ \A k \in 1..Len(ledger) : ledger'[k] = ledger[k]
      /\ ledger'[Len(ledger) + 1] = receipt
  BY <1>2, Appended DEF IInv, RunInv
<1>4. Known' = Known \cup {receipt}
  BY <1>2, <1>3 DEF Known
<1>5. TypeOK'
  <2>1. Len(attempts) \in Nat
    BY Appended DEF IInv, RunInv
  <2>2. QED
    BY <1>2, <1>3, <1>4, <2>1 DEF IInv, TypeOK
<1>6. RunInv'
  BY <1>1, <1>2, <1>3, <1>4 DEF IInv, RunInv
<1>7. LedgerIsLinked'
  BY <1>1, <1>2, LinkGrows
<1>8. OutcomeIsTruthful'
  BY <1>2 DEF OutcomeIsTruthful
<1>9. QED
  BY <1>5, <1>6, <1>7, <1>8 DEF IInv

\* What validate hands over is linked, covers the artifact and admits only what is
\* admissible.
LEMMA ValidateInv ==
  ASSUME IInv, NEW registry \in Registries, NEW parent, Validate(registry, parent)
  PROVE  IInv'
<1> DEFINE receipt == VerifyArtifact(artifact, contracts, policy, registry, parent)
<1>1. /\ receipt.body.artifact = artifact /\ receipt.body.parent = parent
      /\ receipt.body.admission \in Decisions
      /\ Admits(receipt) <=> Admissible(artifact, contracts, policy, registry)
  BY RecoveryAssumption, BoundaryRecords, BoundaryEarned DEF Decisions, Admits,
     IsContractSet
<1> HIDE DEF receipt
<1>2. /\ pc = "validate" /\ Accept(receipt)
      /\ UNCHANGED <<failed, budget, artifact, first, runs>>
  BY DEF Validate, receipt
<1>3. /\ IsSeq(ledger') /\ Len(ledger) \in Nat /\ Len(ledger') = Len(ledger) + 1
      /\ \A k \in 1..Len(ledger) : ledger'[k] = ledger[k]
      /\ ledger'[Len(ledger) + 1] = receipt
  BY <1>2, Appended DEF Accept, IInv, RunInv
<1>4. /\ IsSeq(attempts') /\ Len(attempts) \in Nat /\ Len(attempts') = Len(attempts) + 1
      /\ \A k \in 1..Len(attempts) : attempts'[k] = attempts[k]
      /\ attempts'[Len(attempts) + 1] = receipt
  BY <1>2, Appended DEF Accept, IInv, RunInv
<1>5. Known' = Known \cup {receipt}
  BY <1>2, <1>3 DEF Known
<1>6. TypeOK'
  <2>1. pc' \in {"idle", "loop"} /\ current' = receipt
    BY <1>2 DEF Accept
  <2>2. Len(attempts') <= budget' /\ Len(attempts') <= Len(ledger')
    <3>1. budget \in Nat /\ Len(attempts) < budget /\ Len(attempts) <= Len(ledger)
      <4>1. TypeOK
        BY DEF IInv
      <4>2. budget \in Budgets \cup {0} /\ Len(attempts) < budget /\ Len(attempts) <= Len(ledger)
        BY <1>2, <4>1 DEF TypeOK
      <4>3. QED
        BY <4>2, RecoveryAssumption
    <3>2. QED
      BY <1>2, <1>3, <1>4, <3>1
  <2>3. ASSUME NEW k \in 1..Len(attempts')
        PROVE  attempts'[k] = ledger'[Len(ledger') - Len(attempts') + k]
    <3>1. CASE k = Len(attempts) + 1
      BY <1>3, <1>4, <3>1
    <3>2. CASE k # Len(attempts) + 1
      <4>1. k \in 1..Len(attempts) /\ Len(ledger) - Len(attempts) + k \in 1..Len(ledger)
        BY <1>3, <1>4, <3>2 DEF IInv, TypeOK
      <4>2. Len(ledger') - Len(attempts') + k = Len(ledger) - Len(attempts) + k
        BY <1>3, <1>4, <4>1
      <4>3. attempts[k] = ledger[Len(ledger) - Len(attempts) + k]
        BY <1>2, <4>1 DEF IInv, TypeOK
      <4>4. QED
        BY <1>3, <1>4, <4>1, <4>2, <4>3
    <3>3. QED
      BY <3>1, <3>2
  <2>4. QED
    BY <1>2, <1>5, <2>1, <2>2, <2>3 DEF IInv, TypeOK
<1>7. RunInv'
  <2>1. pc' # "idle" => ~outcome'.returned /\ ~Admits(current')
    BY <1>2 DEF IInv, RunInv, Accept, Admits
  <2>2. pc' # "idle" => \A k \in 1..Len(attempts') : ~Admits(attempts'[k])
    BY <1>2, <1>4 DEF IInv, RunInv, Accept
  <2>3. \A k \in 1..Len(ledger') : ledger'[k].body.admission \in Decisions \cup {"absent"}
    BY <1>1, <1>3 DEF IInv, RunInv
  <2>4. \A r \in Known' : r.body.artifact \in Artifacts \cup {"absent"}
    BY <1>1, <1>5 DEF IInv, RunInv, TypeOK
  <2>5. QED
    BY <1>3, <1>4, <2>1, <2>2, <2>3, <2>4 DEF RunInv, Admits
<1>8. LedgerIsLinked'
  BY <1>2, LinkGrows DEF Accept
<1>9. OutcomeIsTruthful'
  <2>1. CASE Admits(receipt)
    <3>1. outcome' = [returned |-> TRUE, admitted |-> TRUE, final_receipt |-> receipt,
                      final_artifact |-> {artifact}, blocking |-> {}]
      BY <1>2, <2>1 DEF Accept
    <3>2. attempts' # <<>>
      BY <1>4
    <3>3. ledger'[Len(ledger')] = receipt
      BY <1>3
    <3>4. QED
      BY <1>1, <2>1, <3>1, <3>2, <3>3 DEF OutcomeIsTruthful, Admits
  <2>2. CASE ~Admits(receipt)
    BY <1>2, <2>2 DEF Accept, IInv, RunInv, OutcomeIsTruthful
  <2>3. QED
    BY <2>1, <2>2
<1>10. QED
  BY <1>6, <1>7, <1>8, <1>9 DEF IInv

LEMMA ExhaustInv ==
  ASSUME IInv, Exhaust
  PROVE  IInv'
<1>1. UNCHANGED <<failed, budget, artifact, current, attempts, ledger, first, runs>>
      /\ pc = "loop" /\ pc' = "idle" /\ Known' = Known
  BY DEF Exhaust, Known
<1>2. TypeOK'
  BY <1>1 DEF IInv, TypeOK
<1>3. RunInv'
  BY <1>1 DEF IInv, RunInv
<1>4. LedgerIsLinked'
  BY <1>1 DEF IInv, LedgerIsLinked, Admits
<1>5. OutcomeIsTruthful'
  BY <1>1 DEF Exhaust, IInv, RunInv, OutcomeIsTruthful, Admits
<1>6. QED
  BY <1>2, <1>3, <1>4, <1>5 DEF IInv

\* The invariant is inductive.
THEOREM InductiveInvariant == Spec => []IInv
<1>1. ASSUME IInv, [Next]_vars PROVE IInv'
  <2> USE <1>1
  <2>1. CASE Repair
    BY <2>1, QuietInv DEF Repair
  <2>2. CASE Raise
    BY <2>2, QuietInv DEF Raise, IInv, TypeOK
  <2>3. CASE Exhaust
    BY <2>3, ExhaustInv
  <2>4. ASSUME NEW registry \in Registries, NEW parent, Validate(registry, parent)
        PROVE  IInv'
    BY <2>4, ValidateInv
  <2>5. ASSUME NEW receipt \in Known, NEW b \in Budgets, Start(receipt, b)
        PROVE  IInv'
    BY <2>5, StartInv
  <2>6. CASE UNCHANGED vars
    BY <2>6, QuietInv DEF vars, IInv, TypeOK
  <2>7. ASSUME NEW registry \in Registries,
               NEW receipt \in Lacking(VerifyArtifact(artifact, contracts, policy,
                                                      registry, current.digest)),
               RaiseLate(receipt)
        PROVE  IInv'
    BY <2>7, RaiseLateInv
  <2>8. QED
    BY <2>1, <2>2, <2>3, <2>4, <2>5, <2>6, <2>7 DEF Next, Run
<1>2. QED
  BY <1>1, InitInv, PTL DEF Spec

\* The variables keep their types and the attempts of a run fit its budget.
THEOREM TypeCorrect == Spec => []TypeOK
<1>1. IInv => TypeOK
  BY DEF IInv
<1>2. QED
  BY <1>1, InductiveInvariant, PTL

\* Every receipt on the ledger links to a refusal that is on record before it.
THEOREM LedgerLinked == Spec => []LedgerIsLinked
<1>1. IInv => LedgerIsLinked
  BY DEF IInv
<1>2. QED
  BY <1>1, InductiveInvariant, PTL

\* A run that returns admitted has earned it, any other has spent its budget.
THEOREM OutcomeTruthful == Spec => []OutcomeIsTruthful
<1>1. IInv => OutcomeIsTruthful
  BY DEF IInv
<1>2. QED
  BY <1>1, InductiveInvariant, PTL

-----------------------------------------------------------------------------
(* Refinement.                                                             *)

Left == IF pc = "idle" THEN 0 ELSE budget - Len(attempts)
History == [k \in 1..Len(ledger) |-> ledger[k].body.admission]

\* A receipt at the end of the ledger is a decision at the end of the history.
LEMMA HistoryGrows ==
  ASSUME IInv, NEW receipt, receipt.body.admission \in Decisions \cup {"absent"},
         Len(ledger) \in Nat, Len(ledger') = Len(ledger) + 1,
         ledger'[Len(ledger) + 1] = receipt,
         \A k \in 1..Len(ledger) : ledger'[k] = ledger[k]
  PROVE  History' = Append(History, receipt.body.admission)
<1>1. History \in Seq(Decisions \cup {"absent"}) /\ Len(History) = Len(ledger)
  BY DEF IInv, RunInv, History
<1>2. \A k \in 1..Len(ledger') : ledger'[k].body.admission
        = IF k = Len(ledger) + 1 THEN receipt.body.admission ELSE History[k]
  BY DEF History
<1>3. History' = [k \in 1..(Len(ledger) + 1) |->
                    IF k = Len(ledger) + 1 THEN receipt.body.admission ELSE History[k]]
  BY <1>2 DEF History
<1>4. QED
  BY <1>1, <1>3

\* Every step of the controller is a step of bounded recovery, or a stutter.
THEOREM Refinement == Spec => ImplementsBoundedRecovery
<1>1. Init => Bounded!Init
  BY DEF Init, Bounded!Init
<1>2. ASSUME IInv, IInv', [Next]_vars PROVE [Bounded!Next]_(Bounded!vars)
  <2> USE <1>2
  <2>1. Len(attempts) \in Nat /\ Len(ledger) \in Nat /\ budget \in Nat
    BY Appended, RecoveryAssumption DEF IInv, RunInv, TypeOK
  <2>2. CASE Repair
    BY <2>2 DEF Repair, Bounded!vars
  <2>3. CASE Raise
    <3>1. pc # "idle" /\ pc' = "idle" /\ Left > 0 /\ Left' = 0 /\ History' = History
      BY <2>1, <2>3 DEF Raise, IInv, TypeOK, Left, History
    <3>2. QED
      BY <3>1 DEF Bounded!Next, Bounded!BlowUp, Left, History
  <2>4. CASE Exhaust
    <3>1. pc # "idle" /\ pc' = "idle" /\ Left = 0 /\ Left' = 0 /\ History' = History
      BY <2>1, <2>4 DEF Exhaust, Left, History
    <3>2. QED
      BY <3>1 DEF Bounded!Next, Bounded!GiveUp, Left, History
  <2>5. ASSUME NEW registry \in Registries, NEW parent, Validate(registry, parent)
        PROVE  Bounded!Next
    <3> DEFINE receipt == VerifyArtifact(artifact, contracts, policy, registry, parent)
               decision == receipt.body.admission
    <3>1. decision \in Decisions
      BY RecoveryAssumption, BoundaryRecords DEF Decisions
    <3> HIDE DEF receipt
    <3>2. pc = "validate" /\ Accept(receipt) /\ budget' = budget
      BY <2>5 DEF Validate, receipt
    <3>3. /\ Len(ledger') = Len(ledger) + 1 /\ ledger'[Len(ledger) + 1] = receipt
          /\ \A k \in 1..Len(ledger) : ledger'[k] = ledger[k]
          /\ Len(attempts') = Len(attempts) + 1
      BY <3>2, Appended DEF Accept, IInv, RunInv
    <3>4. History' = Append(History, decision)
      BY <2>1, <3>1, <3>3, HistoryGrows
    <3>5. pc # "idle" /\ Left > 0
      BY <2>1, <3>2 DEF IInv, TypeOK, Left
    <3>6. (pc' # "idle") = (decision # "ADMIT")
      BY <3>2 DEF Accept, Admits
    <3>7. Left' = IF decision = "ADMIT" THEN 0 ELSE Left - 1
      BY <2>1, <3>2, <3>3 DEF Accept, Admits, Left
    <3>8. PICK d \in Decisions : d = decision
      BY <3>1
    <3>9. Bounded!Attempt(d)
      BY <3>4, <3>5, <3>6, <3>7, <3>8 DEF Bounded!Attempt, Left, History
    <3>10. QED
      BY <3>9, Zenon DEF Bounded!Next, Bounded!Decisions, Decisions
  <2>6. ASSUME NEW receipt \in Known, NEW b \in Budgets, Start(receipt, b)
        PROVE  Bounded!Next
    <3>1. pc = "idle" /\ pc' # "idle" /\ Left' = b /\ History' = History
      <4>1. attempts' = <<>> /\ Len(<<>>) = 0 /\ b \in Nat
        BY <2>6, RecoveryAssumption DEF Start
      <4>2. QED
        BY <2>6, <4>1 DEF Start, Left, History
    <3>2. Bounded!Begin(b)
      BY <3>1 DEF Bounded!Begin, Left, History
    <3>3. QED
      BY <3>2, Zenon DEF Bounded!Next
  <2>7. CASE UNCHANGED vars
    BY <2>7 DEF vars, Bounded!vars
  <2>8. ASSUME NEW registry \in Registries,
               NEW receipt \in Lacking(VerifyArtifact(artifact, contracts, policy,
                                                      registry, current.digest)),
               RaiseLate(receipt)
        PROVE  Bounded!BlowUp
    <3> DEFINE entry == receipt.body.admission
    <3>1. entry \in Decisions \cup {"absent"}
      BY LackingRecords DEF IInv, TypeOK
    <3>2. pc = "validate" /\ pc' = "idle" /\ Left > 0 /\ Left' = 0
      BY <2>1, <2>8 DEF RaiseLate, IInv, TypeOK, Left
    <3>3. /\ Len(ledger') = Len(ledger) + 1 /\ ledger'[Len(ledger) + 1] = receipt
          /\ \A k \in 1..Len(ledger) : ledger'[k] = ledger[k]
      BY <2>8, Appended DEF RaiseLate, IInv, RunInv
    <3>4. History' = Append(History, entry)
      BY <2>1, <3>1, <3>3, HistoryGrows
    <3> HIDE DEF entry
    <3>5. QED
      BY <3>1, <3>2, <3>4 DEF Bounded!BlowUp, Bounded!Decisions, Decisions, Left, History
  <2>9. QED
    BY <2>2, <2>3, <2>4, <2>5, <2>6, <2>7, <2>8 DEF Next, Run, Bounded!Next
<1>3. QED
  BY <1>1, <1>2, InductiveInvariant, PTL DEF Spec, ImplementsBoundedRecovery,
     Bounded!Spec

-----------------------------------------------------------------------------
(* Termination.                                                            *)

\* How many steps a run can still make: two for each attempt that is left, of which a
\* repair has made one, and one to give up.
StepsLeft == CASE pc = "idle" -> 0
               [] pc = "loop" -> 2 * (budget - Len(attempts)) + 1
               [] pc = "validate" -> 2 * (budget - Len(attempts))

LEMMA StepsLeftValue ==
  ASSUME IInv
  PROVE  /\ Len(attempts) \in Nat /\ budget \in Nat /\ Len(attempts) <= budget
         /\ StepsLeft \in 0..(2 * budget + 1)
         /\ pc = "idle" <=> StepsLeft = 0
<1>1. Len(attempts) \in Nat /\ budget \in Nat /\ Len(attempts) <= budget
  BY Appended, RecoveryAssumption DEF IInv, RunInv, TypeOK
<1>2. pc = "validate" => Len(attempts) < budget
  BY DEF IInv, TypeOK
<1>3. CASE pc = "idle"
  BY <1>1, <1>3 DEF StepsLeft
<1>4. CASE pc = "loop"
  BY <1>1, <1>4 DEF StepsLeft
<1>5. CASE pc = "validate"
  BY <1>1, <1>2, <1>5 DEF StepsLeft
<1> QED BY <1>1, <1>3, <1>4, <1>5 DEF IInv, TypeOK

\* Every step of a run is one less to go, whatever the callbacks return.
LEMMA RunStepsDown ==
  ASSUME IInv, IInv', Run
  PROVE  StepsLeft' < StepsLeft
<1>1. /\ Len(attempts) \in Nat /\ budget \in Nat /\ Len(attempts) <= budget
      /\ StepsLeft \in Nat
  BY StepsLeftValue
<1>2. CASE Repair
  BY <1>1, <1>2 DEF Repair, StepsLeft
<1>3. CASE Raise \/ Exhaust
  <2>1. pc # "idle" /\ pc' = "idle"
    BY <1>3 DEF Raise, Exhaust
  <2>2. StepsLeft' = 0 /\ StepsLeft # 0
    BY <2>1, StepsLeftValue DEF StepsLeft
  <2> QED BY <1>1, <2>2
<1>4. ASSUME NEW registry \in Registries, NEW parent, Validate(registry, parent)
      PROVE  StepsLeft' < StepsLeft
  <2>1. /\ pc = "validate" /\ budget' = budget /\ Len(attempts') = Len(attempts) + 1
        /\ pc' \in {"idle", "loop"}
    BY <1>4, Appended DEF Validate, Accept, IInv, RunInv
  <2>2. Len(attempts) < budget
    BY <2>1 DEF IInv, TypeOK
  <2> QED BY <1>1, <2>1, <2>2 DEF StepsLeft
<1>5. ASSUME NEW receipt, RaiseLate(receipt)
      PROVE  StepsLeft' < StepsLeft
  <2>1. pc # "idle" /\ pc' = "idle"
    BY <1>5 DEF RaiseLate
  <2>2. StepsLeft' = 0 /\ StepsLeft # 0
    BY <2>1, StepsLeftValue DEF StepsLeft
  <2> QED BY <1>1, <2>2
<1> QED BY <1>2, <1>3, <1>4, <1>5 DEF Run

\* What RunsEnd rests on besides fairness, for every budget: a run of budget b takes at
\* most 2b + 1 steps, calls of repair, answers of validate and giving up, and nothing
\* but the start of a run gives it more, however many runs share the ledger
\* (recovery.py run).
THEOREM RunsAreBounded ==
  Spec => /\ [](StepsLeft \in 0..(2 * budget + 1))
          /\ [][/\ Run => StepsLeft' < StepsLeft
                /\ StepsLeft' > StepsLeft => pc = "idle" /\ runs' = runs + 1]_vars
<1> DEFINE Bound == budget \in Nat /\ StepsLeft \in 0..(2 * budget + 1)
<1>1. IInv => Bound
  BY StepsLeftValue
<1>2. ASSUME IInv, IInv', Bound, Bound', [Next]_vars
      PROVE  [/\ Run => StepsLeft' < StepsLeft
              /\ StepsLeft' > StepsLeft => pc = "idle" /\ runs' = runs + 1]_vars
  <2> USE <1>2
  <2>1. StepsLeft \in Int /\ StepsLeft' \in Int
    OBVIOUS
  <2>2. CASE Run
    BY <2>1, <2>2, RunStepsDown
  <2>3. ASSUME NEW receipt \in Known, NEW b \in Budgets, Start(receipt, b), ~Run
        PROVE  pc = "idle" /\ runs' = runs + 1
    BY <2>3 DEF Start
  <2>4. CASE UNCHANGED vars
    BY <2>4
  <2> QED BY <2>2, <2>3, <2>4 DEF Next
<1>3. Bound => StepsLeft \in 0..(2 * budget + 1)
  OBVIOUS
<1> HIDE DEF Bound
<1> QED BY <1>1, <1>2, <1>3, InductiveInvariant, PTL DEF Spec
=============================================================================
