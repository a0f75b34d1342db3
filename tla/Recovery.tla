------------------------------ MODULE Recovery ------------------------------
(***************************************************************************)
(* RecoveryController.run, several times over one shared ledger.  The      *)
(* repair and the validation are the caller's: either may raise, a repair  *)
(* may return any artifact, and a validation is the boundary under         *)
(* whatever the process has registered by then.  The validating closure    *)
(* keeps its own idea of the parent receipt, and may be wrong about it, or *)
(* lose a part of the boundary's receipt.                                  *)
(***************************************************************************)
EXTENDS XiAudit, Sequences

CONSTANTS
  contracts, policy,  \* what the artifact is submitted against
  Registries,         \* what the process may have registered at a validation
  NoParent,           \* the parent of a receipt that recovers nothing
  Budgets,            \* budgets a controller may be built with
  MaxRuns             \* bound: calls of run

ASSUME RecoveryAssumption ==
  /\ IsContractSet(contracts) /\ policy \in Policy
  /\ Registries \subseteq [Names -> Impls \cup {Missing}]
  /\ Budgets \subseteq Nat /\ MaxRuns \in Nat

VARIABLES
  pc,        \* idle, loop (at its head, or in repair) or validate
  failed, budget,             \* failed_receipt, self.budget
  artifact, current,          \* current_artifact, current_receipt
  attempts,  \* the receipts of outcome.attempts
  outcome,   \* what the last run returned, or None
  ledger,
  first,     \* the receipt that made recovery necessary
  runs

vars == <<pc, failed, budget, artifact, current, attempts, outcome, ledger, first, runs>>

None == [admitted |-> FALSE, returned |-> FALSE]

Receipts(parents) ==
  {VerifyArtifact(a, contracts, policy, registry, parent) :
     a \in Artifacts, registry \in Registries, parent \in parents}

\* A receipt without its artifact's digest or without its admission.
Lacking(receipt) ==
  {[receipt EXCEPT !.body.artifact = "absent"], [receipt EXCEPT !.body.admission = "absent"]}

Admits(receipt) == receipt.body.admission = "ADMIT"

Init ==
  /\ pc = "idle"
  /\ first \in {receipt \in Receipts({NoParent}) : ~Admits(receipt)}
  /\ failed = first /\ current = first
  /\ artifact = first.body.artifact
  /\ budget = 0 /\ attempts = <<>> /\ outcome = None
  /\ ledger = <<>>
  /\ runs = 0

Known == {first} \cup {ledger[k] : k \in 1..Len(ledger)}

\* run on a refused receipt, or one that does not say; an admitted one raises before
\* anything is done.
Start(receipt, b) ==
  /\ pc = "idle" /\ runs < MaxRuns
  /\ ~Admits(receipt)
  /\ pc' = "loop"
  /\ failed' = receipt /\ current' = receipt
  /\ artifact' \in Artifacts /\ receipt.body.artifact \in {artifact', "absent"}
  /\ budget' = b /\ attempts' = <<>> /\ outcome' = None
  /\ runs' = runs + 1
  /\ UNCHANGED <<ledger, first>>

\* Mutant: one attempt too many.
RepairOnceMore ==
  /\ pc = "loop" /\ Len(attempts) <= budget
  /\ artifact' \in Artifacts
  /\ pc' = "validate"
  /\ UNCHANGED <<failed, budget, current, attempts, outcome, ledger, first, runs>>

Repair ==
  /\ pc = "loop" /\ Len(attempts) < budget
  /\ artifact' \in Artifacts
  /\ pc' = "validate"
  /\ UNCHANGED <<failed, budget, current, attempts, outcome, ledger, first, runs>>

\* Mutant: what is not a linked receipt costs nothing and the loop goes on.
RaiseAndRetry ==
  /\ \/ pc = "loop" /\ Len(attempts) < budget
     \/ pc = "validate"
  /\ pc' = "loop"
  /\ UNCHANGED <<failed, budget, artifact, current, attempts, outcome, ledger, first, runs>>

\* repair or validate raises, or validate returns what is not a linked receipt.
Raise ==
  /\ \/ pc = "loop" /\ Len(attempts) < budget
     \/ pc = "validate"
  /\ pc' = "idle"
  /\ UNCHANGED <<failed, budget, artifact, current, attempts, outcome, ledger, first, runs>>

\* validate returns a receipt that links but lacks a field: it is on the ledger before
\* the field is looked for.
RaiseLate(receipt) ==
  /\ pc = "validate"
  /\ ledger' = Append(ledger, receipt)
  /\ pc' = "idle"
  /\ UNCHANGED <<failed, budget, artifact, current, attempts, outcome, first, runs>>

\* Mutant: the receipt is taken whatever it links to.
AcceptUnlinked(receipt) ==
  /\ ledger' = Append(ledger, receipt)
  /\ attempts' = Append(attempts, receipt)
  /\ current' = receipt
  /\ IF Admits(receipt)
     THEN /\ pc' = "idle"
          /\ outcome' = [returned |-> TRUE, admitted |-> TRUE, final_receipt |-> receipt,
                         final_artifact |-> {artifact}, blocking |-> {}]
     ELSE pc' = "loop" /\ UNCHANGED outcome

\* The rest of one turn of the loop.
Accept(receipt) ==
  /\ receipt.body.parent = current.digest
  /\ ledger' = Append(ledger, receipt)
  /\ attempts' = Append(attempts, receipt)
  /\ current' = receipt
  /\ IF Admits(receipt)
     THEN /\ pc' = "idle"
          /\ outcome' = [returned |-> TRUE, admitted |-> TRUE, final_receipt |-> receipt,
                         final_artifact |-> {artifact}, blocking |-> {}]
     ELSE pc' = "loop" /\ UNCHANGED outcome

\* validate returns the boundary's receipt for the repaired artifact, under the
\* parent its closure holds: the last receipt, the one it began with, or none.
Validate(registry, parent) ==
  /\ pc = "validate"
  /\ parent \in {current.digest, failed.digest, NoParent}
  /\ Accept(VerifyArtifact(artifact, contracts, policy, registry, parent))
  /\ UNCHANGED <<failed, budget, artifact, first, runs>>

\* Mutant: a spent budget falls back to success.
ExhaustAdmits ==
  /\ pc = "loop" /\ Len(attempts) = budget
  /\ outcome' = [returned |-> TRUE, admitted |-> TRUE, final_receipt |-> current,
                 final_artifact |-> {artifact}, blocking |-> {}]
  /\ pc' = "idle"
  /\ UNCHANGED <<failed, budget, artifact, current, attempts, ledger, first, runs>>

\* The budget is spent.  A run of budget 0 comes here at once.
Exhaust ==
  /\ pc = "loop" /\ Len(attempts) = budget
  /\ outcome' = [returned |-> TRUE, admitted |-> FALSE, final_receipt |-> current,
                 final_artifact |-> {}, blocking |-> {"RECOVERY_BUDGET_EXHAUSTED"}]
  /\ pc' = "idle"
  /\ UNCHANGED <<failed, budget, artifact, current, attempts, ledger, first, runs>>

Run == \/ Repair \/ Raise \/ Exhaust
       \/ \E registry \in Registries, parent \in {current.digest, failed.digest, NoParent} :
            Validate(registry, parent)
       \/ \E registry \in Registries :
            \E receipt \in Lacking(VerifyArtifact(artifact, contracts, policy, registry,
                                                  current.digest)) : RaiseLate(receipt)

Next == Run \/ \E receipt \in Known, b \in Budgets : Start(receipt, b)

\* The callbacks of a run return or raise; nobody has to start one.
Spec == Init /\ [][Next]_vars /\ WF_vars(Run)
-----------------------------------------------------------------------------
(* Properties.                                                             *)

\* The attempts of a run fit its budget and, as long as it has not raised, are the end of
\* the ledger.
TypeOK ==
  /\ pc \in {"idle", "loop", "validate"}
  /\ runs \in 0..MaxRuns /\ budget \in Budgets \cup {0}
  /\ artifact \in Artifacts
  /\ Len(attempts) <= budget /\ Len(attempts) <= Len(ledger)
  /\ pc = "validate" => Len(attempts) < budget
  /\ pc # "idle" \/ outcome.returned =>
       \A k \in 1..Len(attempts) : attempts[k] = ledger[Len(ledger) - Len(attempts) + k]
  /\ failed \in Known /\ current \in Known

\* Every receipt on the ledger, also one that lacks a field and made its run raise, links
\* to the refusal it recovers from, which is on record before it: nothing is recovered
\* from an admission, and nothing that caused a recovery is missing, over any number of
\* runs (recovery.py).
LedgerIsLinked ==
  \A k \in 1..Len(ledger) :
    \E receipt \in {first} \cup {ledger[j] : j \in 1..(k - 1)} :
      ~Admits(receipt) /\ ledger[k].body.parent = receipt.digest

\* A run that returns admitted hands over the artifact its last receipt admits,
\* which earned it under some registry of that moment; any other return has spent
\* the whole budget on receipts that refuse, and says so (recovery.py).
OutcomeIsTruthful ==
  outcome.returned =>
    IF outcome.admitted
    THEN /\ attempts # <<>> /\ outcome.final_receipt = ledger[Len(ledger)]
         /\ Admits(outcome.final_receipt) /\ outcome.blocking = {}
         /\ \E a \in outcome.final_artifact :
              /\ outcome.final_receipt.body.artifact = a
              /\ \E registry \in Registries : Admissible(a, contracts, policy, registry)
    ELSE /\ Len(attempts) = budget /\ outcome.final_artifact = {}
         /\ \A k \in 1..Len(attempts) : ~Admits(attempts[k])
         /\ ~Admits(outcome.final_receipt)
         /\ outcome.blocking = {"RECOVERY_BUDGET_EXHAUSTED"}

\* "Bounded and return to normal posture" (UKSL.md:31): every run that starts ends.
RunsEnd == (pc # "idle") ~> (pc = "idle")

Bounded == INSTANCE BoundedRecovery WITH
  recovering <- pc # "idle",
  left <- IF pc = "idle" THEN 0 ELSE budget - Len(attempts),
  history <- [k \in 1..Len(ledger) |-> ledger[k].body.admission]

\* The controller implements bounded recovery: each attempt costs one of the budget
\* and leaves one decision on a ledger nothing is taken from, unless it raises, which ends
\* the run and leaves at most what validate returned (recovery.py).
ImplementsBoundedRecovery == Bounded!Spec
=============================================================================
