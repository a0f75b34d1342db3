------------------------------ MODULE XiRuntime ------------------------------
(***************************************************************************)
(* The XI runtime as one process uses it: the process-wide registry of     *)
(* check implementations, the with-blocks that put a test double there and *)
(* take it away again, and the boundary, which reads the registry whenever *)
(* an artifact is submitted.  Nothing runs concurrently; what can go wrong *)
(* is a long sequence of legal calls.  A call that raises changes nothing. *)
(***************************************************************************)
EXTENDS XiAudit, Sequences

CONSTANTS
  Builtins,      \* _BUILTIN_NAMES: what builtin.py registers on import
  BuiltinImpl,   \* BuiltinImpl[n]: the implementation it registers
  ContractSets, Policies,   \* what is submitted against
  NoParent,      \* a receipt's parent when nothing is being recovered
  MaxBlocks,     \* bound: with-blocks open at a time
  MaxReceipts    \* bound: receipts issued

ASSUME BuiltinsAssumption ==
  /\ Builtins \subseteq Names
  /\ BuiltinImpl \in [Builtins -> Impls]

ASSUME SubmissionAssumption ==
  /\ \A contracts \in ContractSets : IsContractSet(contracts)
  /\ Policies \subseteq Policy

VARIABLES
  registry,  \* _REGISTRY
  blocks,    \* the open with-blocks of temporary, with what each displaced
  outcomes,  \* receipts issued; seen is history: the bindings it read
  replaced   \* history: the builtins register(replace=True) has overwritten

vars == <<registry, blocks, outcomes, replaced>>

Init ==
  /\ registry = [n \in Names |-> IF n \in Builtins THEN BuiltinImpl[n] ELSE Missing]
  /\ blocks = <<>>
  /\ outcomes = {}
  /\ replaced = {}

\* register: a name that is taken is refused unless it is the same implementation
\* or the caller asks to replace it; a builtin is no exception.
Register(n, i, replace) ==
  /\ registry[n] \in {Missing, i} \/ replace
  /\ registry' = [registry EXCEPT ![n] = i]
  /\ replaced' = IF n \in Builtins /\ registry[n] # i THEN replaced \cup {n} ELSE replaced
  /\ UNCHANGED <<blocks, outcomes>>

\* Mutant: a builtin can be removed.
UnregisterAny(n) ==
  /\ registry' = [registry EXCEPT ![n] = Missing]
  /\ UNCHANGED <<blocks, outcomes, replaced>>

Unregister(n) ==
  /\ n \notin Builtins
  /\ registry' = [registry EXCEPT ![n] = Missing]
  /\ UNCHANGED <<blocks, outcomes, replaced>>

\* Mutant: a builtin can be covered.
EnterTemporaryAny(n, i) ==
  /\ Len(blocks) < MaxBlocks
  /\ blocks' = Append(blocks, [name |-> n, previous |-> registry[n]])
  /\ registry' = [registry EXCEPT ![n] = i]
  /\ UNCHANGED <<outcomes, replaced>>

EnterTemporary(n, i) ==
  /\ n \notin Builtins /\ Len(blocks) < MaxBlocks
  /\ blocks' = Append(blocks, [name |-> n, previous |-> registry[n]])
  /\ registry' = [registry EXCEPT ![n] = i]
  /\ UNCHANGED <<outcomes, replaced>>

Innermost == blocks[Len(blocks)]

\* Mutant: the name is dropped, not given back.
ExitTemporaryPops ==
  /\ blocks # <<>>
  /\ registry' = [registry EXCEPT ![Innermost.name] = Missing]
  /\ blocks' = SubSeq(blocks, 1, Len(blocks) - 1)
  /\ UNCHANGED <<outcomes, replaced>>

\* The innermost block ends, normally or with an exception.
ExitTemporary ==
  /\ blocks # <<>>
  /\ registry' = [registry EXCEPT ![Innermost.name] = Innermost.previous]
  /\ blocks' = SubSeq(blocks, 1, Len(blocks) - 1)
  /\ UNCHANGED <<outcomes, replaced>>

Implementations(contracts) == {c.implementation : c \in contracts}

\* verify_artifact: one call, from the digest of the artifact to the receipt.
Submit(a, contracts, policy) ==
  /\ Cardinality(outcomes) < MaxReceipts
  /\ outcomes' = outcomes \cup
       {[receipt |-> VerifyArtifact(a, contracts, policy, registry, NoParent),
         seen |-> [n \in Implementations(contracts) |-> registry[n]]]}
  /\ UNCHANGED <<registry, blocks, replaced>>

Next ==
  \/ \E n \in Names, i \in Impls :
       \/ \E replace \in BOOLEAN : Register(n, i, replace)
       \/ EnterTemporary(n, i)
  \/ \E n \in Names : Unregister(n)
  \/ ExitTemporary
  \/ \E a \in Artifacts, contracts \in ContractSets, policy \in Policies :
       Submit(a, contracts, policy)

Spec == Init /\ [][Next]_vars
-----------------------------------------------------------------------------
(* Properties.                                                             *)

Bindings == Impls \cup {Missing}
Block == [name : Names \ Builtins, previous : Bindings]

\* Every variable keeps its type; a builtin is always bound to something.
TypeOK ==
  /\ registry \in [Names -> Bindings]
  /\ \A n \in Builtins : registry[n] # Missing
  /\ blocks \in Seq(Block)
  /\ \A o \in outcomes : o.seen \in [Implementations(o.receipt.body.contracts) -> Bindings]
  /\ replaced \subseteq Builtins

Bodies == {o.receipt.body : o \in outcomes}

\* A receipt says ADMIT exactly when every required check ran and every check of
\* the set ran on that artifact and found nothing the policy does not bear: a
\* check that is not registered, raises, cannot read its input or speaks outside
\* the vocabulary never counts as passed (audit.py run_check, admission.py decide).
AdmissionIsEarned ==
  \A o \in outcomes :
    LET body == o.receipt.body IN
    body.admission = "ADMIT"
      <=> Admissible(body.artifact, body.contracts, body.policy, o.seen)

\* verify_receipt accepts every receipt the boundary issues: what the receipt
\* records implies its verdicts and allows its admission (receipt.py).
ReceiptsVerify ==
  \A o \in outcomes : VerifyReceipt(o.receipt, o.receipt.body.artifact)

\* A receipt that does not admit names a code that is to blame, and only such a
\* receipt does (admission.py decide, blocking_codes).
RefusalsAreExplained ==
  \A body \in Bodies : body.admission = "ADMIT" <=> body.blocking = {}

\* Submitting the artifact again gives the same receipt, however many doubles have
\* come and gone, if the contracts name builtins that were never replaced.
BuiltinReceiptsReproduce ==
  \A o \in outcomes :
    LET body == o.receipt.body IN
    Implementations(body.contracts) \subseteq Builtins \ replaced
      => o.receipt = VerifyArtifact(body.artifact, body.contracts, body.policy,
                                    registry, NoParent)

\* The registry implements scoped bindings: the bindings a block covers are those
\* saved in the blocks inside it, and the innermost is in the registry.
After(k, n) ==
  LET inner == {j \in (k + 1)..Len(blocks) : blocks[j].name = n}
  IN  IF inner = {} THEN registry[n]
      ELSE blocks[CHOOSE j \in inner : \A l \in inner : j <= l].previous

Scoped == INSTANCE ScopedRegistry WITH
  base <- [n \in Names |-> After(0, n)],
  frames <- [k \in 1..Len(blocks) |-> [name |-> blocks[k].name,
                                       impl |-> After(k, blocks[k].name)]]

\* Doubles come and go by scope: closing a block gives every name back the binding
\* it had outside, whatever was nested or registered inside (checks/__init__.py).
ImplementsScopedRegistry == Scoped!Spec
=============================================================================
