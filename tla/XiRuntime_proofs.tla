-------------------------- MODULE XiRuntime_proofs --------------------------
(***************************************************************************)
(* Proofs about XiRuntime, for every set of names, implementations,        *)
(* contract sets and policies and for every bound: what a receipt says of  *)
(* the checks is true, it verifies, and the registry implements scoped     *)
(* bindings.                                                               *)
(***************************************************************************)
EXTENDS XiRuntime, XiAudit_proofs, SequenceTheorems, WellFoundedInduction

-----------------------------------------------------------------------------
(* Type correctness.                                                       *)

\* The type invariant holds initially and every action keeps it.
THEOREM TypeCorrect == Spec => []TypeOK
<1>1. Init => TypeOK
  BY MissingAssumption, BuiltinsAssumption DEF Init, TypeOK, Bindings
<1>2. ASSUME TypeOK, [Next]_vars PROVE TypeOK'
  <2> USE <1>2
  <2>1. ASSUME NEW n \in Names, NEW i \in Impls, NEW replace \in BOOLEAN,
               Register(n, i, replace)
        PROVE  TypeOK'
    BY <2>1, MissingAssumption DEF TypeOK, Register, Bindings
  <2>2. ASSUME NEW n \in Names, NEW i \in Impls, EnterTemporary(n, i)
        PROVE  TypeOK'
    <3>1. [name |-> n, previous |-> registry[n]] \in Block
      BY <2>2 DEF TypeOK, EnterTemporary, Block
    <3>2. blocks' \in Seq(Block)
      BY <2>2, <3>1 DEF TypeOK, EnterTemporary
    <3>3. QED
      BY <2>2, <3>2 DEF TypeOK, EnterTemporary, Bindings
  <2>3. ASSUME NEW n \in Names, Unregister(n)
        PROVE  TypeOK'
    BY <2>3 DEF TypeOK, Unregister, Bindings
  <2>4. CASE ExitTemporary
    <3>1. Innermost \in Block
      BY <2>4 DEF TypeOK, ExitTemporary, Innermost
    <3>2. blocks' \in Seq(Block)
      BY <2>4 DEF TypeOK, ExitTemporary
    <3>3. registry' \in [Names -> Bindings] /\ \A n \in Builtins : registry'[n] # Missing
      BY <2>4, <3>1 DEF TypeOK, ExitTemporary, Block
    <3>4. QED
      BY <2>4, <3>2, <3>3 DEF TypeOK, ExitTemporary
  <2>5. ASSUME NEW a \in Artifacts, NEW contracts \in ContractSets, NEW policy \in Policies,
               Submit(a, contracts, policy)
        PROVE  TypeOK'
    <3> DEFINE o == [receipt |-> VerifyArtifact(a, contracts, policy, registry, NoParent),
                     seen |-> [n \in Implementations(contracts) |-> registry[n]]]
    <3>1. o.receipt.body.contracts = contracts
      BY DEF VerifyArtifact, BuildReceipt, Seal
    <3>2. Implementations(contracts) \subseteq Names
      BY SubmissionAssumption DEF IsContractSet, Contract, Implementations
    <3>3. o.seen \in [Implementations(contracts) -> Bindings]
      BY <3>2 DEF TypeOK
    <3>4. outcomes' = outcomes \cup {o} /\ UNCHANGED <<registry, blocks, replaced>>
      BY <2>5 DEF Submit
    <3> HIDE DEF o
    <3>5. QED
      BY <3>1, <3>3, <3>4 DEF TypeOK, Bindings, Implementations
  <2>6. CASE UNCHANGED vars
    BY <2>6 DEF TypeOK, vars, Bindings, Implementations
  <2>7. QED
    BY <2>1, <2>2, <2>3, <2>4, <2>5, <2>6 DEF Next
<1>3. QED
  BY <1>1, <1>2, PTL DEF Spec

-----------------------------------------------------------------------------
(* Every receipt is what the boundary computes from the bindings it read.  *)

Issued(o) ==
  LET body == o.receipt.body IN
  /\ body.contracts \in ContractSets
  /\ body.policy \in Policies
  /\ o.receipt = VerifyArtifact(body.artifact, body.contracts, body.policy, o.seen, NoParent)

AllIssued == \A o \in outcomes : Issued(o)

LEMMA SubmitIssues ==
  ASSUME NEW a, NEW contracts \in ContractSets, NEW policy \in Policies
  PROVE  Issued([receipt |-> VerifyArtifact(a, contracts, policy, registry, NoParent),
                 seen |-> [n \in Implementations(contracts) |-> registry[n]]])
<1> DEFINE seen == [n \in Implementations(contracts) |-> registry[n]]
           o == [receipt |-> VerifyArtifact(a, contracts, policy, registry, NoParent),
                 seen |-> seen]
<1>1. \A c \in contracts : registry[c.implementation] = seen[c.implementation]
  BY DEF Implementations
<1> HIDE DEF seen
<1>2. o.receipt = VerifyArtifact(a, contracts, policy, seen, NoParent)
  BY <1>1, BoundaryReads
<1>3. /\ o.receipt.body.artifact = a /\ o.receipt.body.contracts = contracts
      /\ o.receipt.body.policy = policy /\ o.seen = seen
  BY DEF VerifyArtifact, BuildReceipt, Seal
<1> HIDE DEF o
<1>4. Issued(o)
  BY <1>2, <1>3 DEF Issued
<1>5. QED
  BY <1>4 DEF o, seen

\* Receipts are only ever added, and only by the boundary.
THEOREM ReceiptsAreIssued == Spec => []AllIssued
<1>1. Init => AllIssued
  BY DEF Init, AllIssued
<1>2. ASSUME AllIssued, [Next]_vars PROVE AllIssued'
  <2>1. ASSUME NEW a \in Artifacts, NEW contracts \in ContractSets, NEW policy \in Policies,
               Submit(a, contracts, policy)
        PROVE  AllIssued'
    BY <1>2, <2>1, SubmitIssues DEF Submit, AllIssued, Issued
  <2>2. CASE outcomes' = outcomes
    BY <1>2, <2>2 DEF AllIssued, Issued
  <2>3. QED
    BY <1>2, <2>1, <2>2
    DEF Next, vars, Register, EnterTemporary, Unregister, ExitTemporary
<1>3. QED
  BY <1>1, <1>2, PTL DEF Spec

\* A receipt admits exactly what earned it: every check of the set ran on the
\* artifact and found nothing the policy does not bear (audit.py, admission.py).
THEOREM AdmissionEarned == Spec => []AdmissionIsEarned
<1>1. AllIssued => AdmissionIsEarned
  BY BoundaryEarned, SubmissionAssumption
  DEF AllIssued, Issued, AdmissionIsEarned, IsContractSet
<1>2. QED
  BY <1>1, ReceiptsAreIssued, PTL

\* Every receipt the boundary issues passes verify_receipt (receipt.py).
THEOREM ReceiptsAlwaysVerify == Spec => []ReceiptsVerify
<1>1. AllIssued => ReceiptsVerify
  BY BoundaryVerifies, SubmissionAssumption
  DEF AllIssued, Issued, ReceiptsVerify, IsContractSet
<1>2. QED
  BY <1>1, ReceiptsAreIssued, PTL

\* Every receipt that does not admit names a code to blame (admission.py).
THEOREM RefusalsAlwaysExplained == Spec => []RefusalsAreExplained
<1>1. ASSUME NEW o, Issued(o)
      PROVE  o.receipt.body.admission = "ADMIT" <=> o.receipt.body.blocking = {}
  <2> DEFINE body == o.receipt.body
  <2>1. /\ body.contracts # {} /\ body.policy \in Policy
        /\ o.receipt = VerifyArtifact(body.artifact, body.contracts, body.policy, o.seen, NoParent)
    BY <1>1, SubmissionAssumption DEF Issued, IsContractSet
  <2>2. LET b == VerifyArtifact(body.artifact, body.contracts, body.policy, o.seen, NoParent).body
        IN  b.admission = "ADMIT" <=> b.blocking = {}
    BY <2>1, BoundaryExplains, Zenon
  <2>3. QED
    BY <2>1, <2>2
<1>2. AllIssued => RefusalsAreExplained
  BY <1>1 DEF AllIssued, RefusalsAreExplained, Bodies
<1>3. QED
  BY <1>2, ReceiptsAreIssued, PTL

-----------------------------------------------------------------------------
(* A builtin keeps its implementation until register overwrites it.        *)

BuiltinsKeep ==
  \A n \in Builtins \ replaced :
    /\ registry[n] = BuiltinImpl[n]
    /\ \A o \in outcomes : n \in Implementations(o.receipt.body.contracts)
                             => o.seen[n] = BuiltinImpl[n]

THEOREM BuiltinsStay == Spec => []BuiltinsKeep
<1>1. Init => BuiltinsKeep
  BY BuiltinsAssumption DEF Init, BuiltinsKeep
<1>2. ASSUME TypeOK, BuiltinsKeep, [Next]_vars PROVE BuiltinsKeep'
  <2> USE <1>2
  <2>1. ASSUME NEW n \in Names, NEW i \in Impls, NEW replace \in BOOLEAN,
               Register(n, i, replace)
        PROVE  BuiltinsKeep'
    BY <2>1 DEF TypeOK, BuiltinsKeep, Register, Implementations
  <2>2. ASSUME NEW n \in Names, NEW i \in Impls, EnterTemporary(n, i)
        PROVE  BuiltinsKeep'
    BY <2>2 DEF TypeOK, BuiltinsKeep, EnterTemporary, Implementations
  <2>3. ASSUME NEW n \in Names, Unregister(n)
        PROVE  BuiltinsKeep'
    BY <2>3 DEF TypeOK, BuiltinsKeep, Unregister, Implementations
  <2>4. CASE ExitTemporary
    <3>1. Innermost \in Block
      BY <2>4 DEF TypeOK, ExitTemporary, Innermost
    <3>2. Innermost.name \notin Builtins
      BY <3>1 DEF Block
    <3>3. QED
      BY <2>4, <3>2 DEF TypeOK, BuiltinsKeep, ExitTemporary, Implementations
  <2>5. ASSUME NEW a \in Artifacts, NEW contracts \in ContractSets, NEW policy \in Policies,
               Submit(a, contracts, policy)
        PROVE  BuiltinsKeep'
    <3> DEFINE o == [receipt |-> VerifyArtifact(a, contracts, policy, registry, NoParent),
                     seen |-> [n \in Implementations(contracts) |-> registry[n]]]
    <3>1. /\ o.receipt.body.contracts = contracts
          /\ \A n \in Implementations(contracts) : o.seen[n] = registry[n]
      BY DEF VerifyArtifact, BuildReceipt, Seal
    <3>2. outcomes' = outcomes \cup {o} /\ UNCHANGED <<registry, blocks, replaced>>
      BY <2>5 DEF Submit
    <3> HIDE DEF o
    <3>3. QED
      BY <3>1, <3>2 DEF BuiltinsKeep, Implementations
  <2>6. CASE UNCHANGED vars
    BY <2>6 DEF BuiltinsKeep, vars, Implementations
  <2>7. QED
    BY <2>1, <2>2, <2>3, <2>4, <2>5, <2>6 DEF Next
<1>3. QED
  BY <1>1, <1>2, TypeCorrect, PTL DEF Spec

\* Submitting again under builtins that were never replaced gives the receipt again.
THEOREM ReceiptsReproduce == Spec => []BuiltinReceiptsReproduce
<1>1. ASSUME AllIssued, BuiltinsKeep, NEW o \in outcomes,
             Implementations(o.receipt.body.contracts) \subseteq Builtins \ replaced
      PROVE  LET body == o.receipt.body IN
             o.receipt = VerifyArtifact(body.artifact, body.contracts, body.policy,
                                        registry, NoParent)
  <2> DEFINE contracts == o.receipt.body.contracts
  <2>1. \A c \in contracts : o.seen[c.implementation] = registry[c.implementation]
    BY <1>1 DEF BuiltinsKeep, Implementations
  <2>2. Issued(o)
    BY <1>1 DEF AllIssued
  <2>3. QED
    BY <2>1, <2>2, BoundaryReads DEF Issued
<1>2. AllIssued /\ BuiltinsKeep => BuiltinReceiptsReproduce
  BY <1>1 DEF BuiltinReceiptsReproduce
<1>3. QED
  BY <1>2, ReceiptsAreIssued, BuiltinsStay, PTL

-----------------------------------------------------------------------------
(* Least and greatest elements.                                            *)

LEMMA LeastExists ==
  ASSUME NEW S \in SUBSET Nat, S # {}
  PROVE  \E j \in S : \A l \in S : j <= l
<1>1. PICK j \in S : \A l \in S : ~(<<l, j>> \in OpToRel(<, Nat))
  BY WFMin, NatLessThanWellFounded
<1>2. \A l \in S : ~(<<l, j>> \in {ss \in Nat \X Nat : ss[1] < ss[2]})
  BY <1>1, Zenon DEF OpToRel
<1>3. ASSUME NEW l \in S PROVE j <= l
  <2>1. <<l, j>> \in Nat \X Nat
    OBVIOUS
  <2>2. ~(<<l, j>>[1] < <<l, j>>[2])
    BY <1>2, <2>1, Zenon
  <2>3. QED
    BY <2>2
<1>4. QED
  BY <1>3

LEMMA GreatestExists ==
  ASSUME NEW n \in Nat, NEW S \in SUBSET (1..n), S # {}
  PROVE  \E j \in S : \A l \in S : l <= j
<1> DEFINE T == {n - l : l \in S}
<1>1. T \in SUBSET Nat /\ T # {}
  <2>1. \A l \in S : n - l \in Nat
    OBVIOUS
  <2>2. QED
    BY <2>1
<1>2. PICK t \in T : \A u \in T : t <= u
  BY <1>1, LeastExists
<1>3. PICK j \in S : t = n - j
  BY <1>2
<1>4. ASSUME NEW l \in S PROVE l <= j
  <2>1. n - j <= n - l
    BY <1>2, <1>3
  <2>2. j \in Nat /\ l \in Nat
    OBVIOUS
  <2> HIDE DEF T
  <2>3. QED
    BY <2>1, <2>2
<1>5. QED
  BY <1>4

-----------------------------------------------------------------------------
(* The registry implements scoped bindings.                                *)

Inner(k, n) == {j \in (k + 1)..Len(blocks) : blocks[j].name = n}

\* After(k, n) is what the outermost block for n inside block k displaced.
LEMMA AfterValue ==
  ASSUME blocks \in Seq(Block), NEW k \in Nat, NEW n
  PROVE  /\ Inner(k, n) = {} => After(k, n) = registry[n]
         /\ \A j \in Inner(k, n) :
              (\A l \in Inner(k, n) : j <= l) => After(k, n) = blocks[j].previous
         /\ Inner(k, n) # {} => \E j \in Inner(k, n) : \A l \in Inner(k, n) : j <= l
<1> DEFINE first == CHOOSE j \in Inner(k, n) : \A l \in Inner(k, n) : j <= l
<1>1. Inner(k, n) \in SUBSET Nat
  BY DEF Inner
<1>2. After(k, n) = IF Inner(k, n) = {} THEN registry[n] ELSE blocks[first].previous
  BY DEF After, Inner
<1>3. Inner(k, n) # {} => \E j \in Inner(k, n) : \A l \in Inner(k, n) : j <= l
  BY <1>1, LeastExists
<1>4. ASSUME NEW j \in Inner(k, n), \A l \in Inner(k, n) : j <= l
      PROVE  first = j
  BY <1>1, <1>4
<1>5. QED
  BY <1>2, <1>3, <1>4

LEMMA AfterPrime ==
  ASSUME blocks' \in Seq(Block), NEW CONSTANT k \in Nat, NEW CONSTANT n
  PROVE  /\ Inner(k, n)' = {} => After(k, n)' = registry'[n]
         /\ \A j \in Inner(k, n)' :
              (\A l \in Inner(k, n)' : j <= l) => After(k, n)' = blocks'[j].previous
<1> DEFINE first == CHOOSE j \in Inner(k, n)' : \A l \in Inner(k, n)' : j <= l
<1>1. Inner(k, n)' \in SUBSET Nat
  BY DEF Inner
<1>2. After(k, n)' = IF Inner(k, n)' = {} THEN registry'[n] ELSE blocks'[first].previous
  BY DEF After, Inner
<1>4. ASSUME NEW j \in Inner(k, n)', \A l \in Inner(k, n)' : j <= l
      PROVE  first = j
  BY <1>1, <1>4
<1>5. QED
  BY <1>2, <1>4

\* A binding made under open blocks is seen where no block for its name lies inside.
LEMMA AfterBind ==
  ASSUME TypeOK, NEW CONSTANT n \in Names, NEW CONSTANT i,
         registry' = [registry EXCEPT ![n] = i], blocks' = blocks,
         NEW CONSTANT k \in Nat, NEW CONSTANT m \in Names
  PROVE  After(k, m)' = IF m = n /\ Inner(k, n) = {} THEN i ELSE After(k, m)
<1>1. CASE m = n /\ Inner(k, n) = {}
  BY <1>1 DEF After, Inner, TypeOK
<1>2. CASE m # n
  BY <1>2 DEF After, TypeOK
<1>3. CASE m = n /\ Inner(k, n) # {}
  BY <1>3 DEF After, Inner
<1>4. QED
  BY <1>1, <1>2, <1>3

\* Entering a block hides nothing that lies outside it.
LEMMA AfterEnter ==
  ASSUME TypeOK, NEW CONSTANT n \in Names \ Builtins, NEW CONSTANT i \in Impls,
         EnterTemporary(n, i), TypeOK',
         NEW CONSTANT k \in 0..Len(blocks), NEW CONSTANT m \in Names
  PROVE  After(k, m)' = After(k, m)
<1> DEFINE L == Len(blocks)
<1>1. /\ blocks \in Seq(Block) /\ blocks' \in Seq(Block) /\ L \in Nat
      /\ Len(blocks') = L + 1 /\ blocks'[L + 1] = [name |-> n, previous |-> registry[n]]
      /\ \A j \in 1..L : blocks'[j] = blocks[j]
  <2>1. [name |-> n, previous |-> registry[n]] \in Block
    BY DEF TypeOK, Block
  <2>2. QED
    BY <2>1, AppendProperties DEF EnterTemporary, TypeOK
<1>2. Inner(k, m)' = Inner(k, m) \cup (IF m = n THEN {L + 1} ELSE {})
  BY <1>1 DEF Inner
<1>3. registry' = [registry EXCEPT ![n] = i] /\ registry \in [Names -> Bindings]
  BY DEF EnterTemporary, TypeOK
<1>4. CASE Inner(k, m) # {}
  <2>1. PICK j \in Inner(k, m) : \A l \in Inner(k, m) : j <= l
    BY <1>1, <1>4, AfterValue
  <2>2. j \in 1..L
    BY <1>1 DEF Inner
  <2>3. \A l \in Inner(k, m)' : j <= l
    <3>1. j <= L + 1
      BY <1>1, <2>2
    <3>2. QED
      BY <1>2, <2>1, <3>1
  <2>4. After(k, m)' = blocks'[j].previous
    BY <1>1, <1>2, <2>1, <2>3, AfterPrime
  <2>5. After(k, m) = blocks[j].previous
    BY <1>1, <2>1, AfterValue
  <2>6. QED
    BY <1>1, <2>2, <2>4, <2>5
<1>5. CASE Inner(k, m) = {} /\ m = n
  <2>1. L + 1 \in Inner(k, m)' /\ \A l \in Inner(k, m)' : L + 1 <= l
    BY <1>1, <1>2, <1>5
  <2>2. After(k, m)' = blocks'[L + 1].previous
    BY <1>1, <2>1, AfterPrime
  <2>3. After(k, m) = registry[m]
    BY <1>1, <1>5, AfterValue
  <2>4. QED
    BY <1>1, <1>5, <2>2, <2>3
<1>6. CASE Inner(k, m) = {} /\ m # n
  BY <1>1, <1>2, <1>3, <1>6, AfterPrime, AfterValue
<1>7. QED
  BY <1>4, <1>5, <1>6

\* Leaving a block forgets the innermost entry.
LEMMA ExitShortens ==
  ASSUME TypeOK, ExitTemporary, TypeOK'
  PROVE  /\ blocks \in Seq(Block) /\ blocks' \in Seq(Block) /\ Len(blocks) \in Nat \ {0}
         /\ Len(blocks') = Len(blocks) - 1
         /\ \A j \in 1..(Len(blocks) - 1) : blocks'[j] = blocks[j]
         /\ blocks[Len(blocks)] \in Block
<1> DEFINE L == Len(blocks)
<1>1. blocks \in Seq(Block) /\ blocks' \in Seq(Block) /\ blocks # <<>>
      /\ blocks' = SubSeq(blocks, 1, L - 1)
  BY DEF ExitTemporary, TypeOK
<1>2. L \in Nat \ {0}
  BY <1>1
<1>3. Len(blocks') = L - 1 /\ \A j \in 1..(L - 1) : blocks'[j] = blocks[j]
  <2>1. \A j \in 1..(L - 1) : blocks[j] \in Block
    BY <1>1, <1>2
  <2>2. /\ Len(SubSeq(blocks, 1, L - 1)) = IF 1 <= L - 1 THEN (L - 1) - 1 + 1 ELSE 0
        /\ \A j \in 1..((L - 1) - 1 + 1) :
             SubSeq(blocks, 1, L - 1)[j] = blocks[1 + j - 1]
    BY <1>2, <2>1, SubSeqProperties
  <2>3. Len(blocks') = L - 1
    <3>1. \A l \in Nat \ {0} : (IF 1 <= l - 1 THEN (l - 1) - 1 + 1 ELSE 0) = l - 1
      OBVIOUS
    <3>2. QED
      BY <1>1, <1>2, <2>2, <3>1, Zenon
  <2>4. ASSUME NEW j \in 1..(L - 1) PROVE blocks'[j] = blocks[j]
    <3>1. j \in 1..((L - 1) - 1 + 1) /\ 1 + j - 1 = j
      BY <1>2
    <3>2. SubSeq(blocks, 1, L - 1)[j] = blocks[1 + j - 1]
      BY <2>2, <3>1
    <3>3. QED
      BY <1>1, <3>1, <3>2
  <2>5. QED
    BY <2>3, <2>4
<1>4. blocks[L] \in Block
  BY <1>1, <1>2
<1>5. QED
  BY <1>1, <1>2, <1>3, <1>4

\* Leaving a block uncovers exactly what lay beneath.
LEMMA AfterExit ==
  ASSUME TypeOK, ExitTemporary, TypeOK',
         NEW CONSTANT k \in 0..(Len(blocks) - 1), NEW CONSTANT m \in Names
  PROVE  After(k, m)' = After(k, m)
<1> DEFINE L == Len(blocks)
           n == blocks[L].name
<1>1. /\ blocks \in Seq(Block) /\ blocks' \in Seq(Block) /\ L \in Nat \ {0}
      /\ Len(blocks') = L - 1 /\ \A j \in 1..(L - 1) : blocks'[j] = blocks[j]
      /\ blocks[L] \in Block
  BY ExitShortens
<1>2. /\ registry' = [registry EXCEPT ![n] = blocks[L].previous]
      /\ registry \in [Names -> Bindings] /\ n \in Names
  BY <1>1 DEF ExitTemporary, Innermost, TypeOK, Block
<1>3. Inner(k, m) = Inner(k, m)' \cup (IF m = n THEN {L} ELSE {})
  BY <1>1 DEF Inner
<1>4. CASE Inner(k, m)' # {}
  <2>1. PICK j \in Inner(k, m) : \A l \in Inner(k, m) : j <= l
    BY <1>1, <1>3, <1>4, AfterValue
  <2>2. Inner(k, m)' \subseteq 1..(L - 1)
    BY <1>1 DEF Inner
  <2>3. j # L /\ j \in Inner(k, m)' /\ j \in 1..(L - 1)
    BY <1>1, <1>3, <1>4, <2>1, <2>2
  <2>4. After(k, m)' = blocks'[j].previous
    BY <1>1, <1>3, <2>1, <2>3, AfterPrime
  <2>5. After(k, m) = blocks[j].previous
    <3>1. k \in Nat
      BY <1>1
    <3>2. QED
      BY <1>1, <2>1, <3>1, AfterValue
  <2>6. QED
    BY <1>1, <2>3, <2>4, <2>5
<1>5. CASE Inner(k, m)' = {} /\ m = n
  <2>1. L \in Inner(k, m) /\ \A l \in Inner(k, m) : L <= l
    BY <1>1, <1>3, <1>5
  <2>2. After(k, m) = blocks[L].previous
    BY <1>1, <2>1, AfterValue
  <2>3. After(k, m)' = registry'[m]
    BY <1>1, <1>5, AfterPrime
  <2>4. QED
    BY <1>2, <1>5, <2>2, <2>3
<1>6. CASE Inner(k, m)' = {} /\ m # n
  BY <1>1, <1>2, <1>3, <1>6, AfterPrime, AfterValue
<1>7. QED
  BY <1>4, <1>5, <1>6

\* The abstract state.
Base == [n \in Names |-> After(0, n)]
Frames == [k \in 1..Len(blocks) |-> [name |-> blocks[k].name,
                                     impl |-> After(k, blocks[k].name)]]

LEMMA BlockType ==
  ASSUME TypeOK, NEW j \in 1..Len(blocks)
  PROVE  blocks[j].name \in Names \ Builtins /\ blocks[j].previous \in Bindings
<1>1. blocks[j] \in Block
  BY DEF TypeOK
<1>2. QED
  BY <1>1 DEF Block

LEMMA BuiltinNeverCovered ==
  ASSUME TypeOK, NEW n \in Builtins, NEW k \in Nat
  PROVE  Inner(k, n) = {} /\ After(k, n) = registry[n] /\ registry[n] # Missing
<1>1. \A j \in 1..Len(blocks) : blocks[j].name # n
  BY BlockType
<1>2. Inner(k, n) = {}
  BY <1>1 DEF Inner, TypeOK
<1>3. QED
  BY <1>2, AfterValue DEF TypeOK

LEMMA AfterType ==
  ASSUME TypeOK, NEW k \in Nat, NEW n \in Names
  PROVE  After(k, n) \in Bindings
<1>1. blocks \in Seq(Block)
  BY DEF TypeOK
<1>2. CASE Inner(k, n) = {}
  BY <1>1, <1>2, AfterValue DEF TypeOK
<1>3. CASE Inner(k, n) # {}
  <2>1. PICK j \in Inner(k, n) : \A l \in Inner(k, n) : j <= l
    BY <1>1, <1>3, AfterValue
  <2>2. j \in 1..Len(blocks)
    BY <1>1 DEF Inner
  <2>3. After(k, n) = blocks[j].previous
    BY <1>1, <2>1, AfterValue
  <2>4. QED
    BY <2>2, <2>3, BlockType
<1>4. QED
  BY <1>2, <1>3

\* The initial registry has no frames, and every builtin is bound.
LEMMA RefinesInit == Init => Scoped!Init
<1> SUFFICES ASSUME Init PROVE Scoped!Init
  OBVIOUS
<1>1. blocks = <<>> /\ registry \in [Names -> Bindings]
      /\ \A n \in Builtins : registry[n] # Missing
  BY BuiltinsAssumption, MissingAssumption DEF Init, Bindings
<1>2. \A n \in Names : After(0, n) = registry[n]
  BY <1>1 DEF After
<1>3. Base \in [Names -> Bindings] /\ \A n \in Builtins : Base[n] # Missing
  BY <1>1, <1>2, BuiltinsAssumption DEF Base
<1>4. Frames = <<>>
  BY <1>1 DEF Frames
<1>5. QED
  BY <1>3, <1>4 DEF Scoped!Init, Scoped!Bindings, Bindings, Base, Frames

\* A call that binds a name, register or unregister, is one Bind.
LEMMA RefinesBind ==
  ASSUME TypeOK, NEW CONSTANT n \in Names, NEW CONSTANT i \in Bindings,
         n \in Builtins => i # Missing,
         registry' = [registry EXCEPT ![n] = i], blocks' = blocks
  PROVE  Scoped!Bind(n, i)
<1> DEFINE L == Len(blocks)
           covering == {k \in 1..L : blocks[k].name = n}
<1>1. blocks \in Seq(Block) /\ L \in Nat
  BY DEF TypeOK
<1>2. \A k \in 1..L : blocks[k].name \in Names
  BY BlockType
<1>3. \A k \in Nat, m \in Names :
        After(k, m)' = IF m = n /\ Inner(k, n) = {} THEN i ELSE After(k, m)
  BY AfterBind
<1>4. Scoped!Covering(n) = covering
  BY DEF Scoped!Covering
<1>5. CASE covering = {}
  <2>1. Inner(0, n) = {}
    BY <1>5 DEF Inner
  <2>2. Base' = [Base EXCEPT ![n] = i]
    BY <1>3, <2>1 DEF Base
  <2>3. Frames' = Frames
    BY <1>1, <1>2, <1>3, <1>5 DEF Frames
  <2>4. QED
    BY <1>4, <1>5, <2>2, <2>3 DEF Scoped!Bind, Base, Frames
<1>6. CASE covering # {}
  <2>1. PICK k \in covering : \A j \in covering : j <= k
    BY <1>1, <1>6, GreatestExists
  <2>2. Inner(0, n) # {}
    BY <1>6 DEF Inner
  <2>3. Base' = Base
    BY <1>3, <2>2 DEF Base
  <2>4. Inner(k, n) = {}
    BY <1>1, <2>1 DEF Inner
  <2>5. \A j \in 1..L : j # k /\ blocks[j].name = n => Inner(j, n) # {}
    <3>1. \A j \in 1..L : j # k /\ blocks[j].name = n => k \in Inner(j, n)
      BY <1>1, <2>1 DEF Inner
    <3>2. QED
      BY <3>1
  <2>6. \A j \in 1..L : After(j, blocks[j].name)'
          = IF j = k THEN i ELSE After(j, blocks[j].name)
    <3>1. \A j \in 1..L : After(j, blocks[j].name)'
            = IF blocks[j].name = n /\ Inner(j, n) = {} THEN i ELSE After(j, blocks[j].name)
      BY <1>1, <1>2, <1>3
    <3>2. QED
      BY <2>1, <2>4, <2>5, <3>1
  <2>7. Frames' = [Frames EXCEPT ![k] = [name |-> n, impl |-> i]]
    <3>1. Frames' = [j \in 1..L |-> [name |-> blocks[j].name,
                                     impl |-> After(j, blocks[j].name)']]
      BY DEF Frames
    <3>2. QED
      BY <2>1, <2>6, <3>1 DEF Frames
  <2>8. QED
    BY <1>4, <2>1, <2>3, <2>7 DEF Scoped!Bind, Base, Frames
<1>7. QED
  BY <1>5, <1>6

\* Entering a block opens a frame, leaving it closes one.
LEMMA RefinesOpen ==
  ASSUME TypeOK, TypeOK', NEW CONSTANT n \in Names, NEW CONSTANT i \in Impls,
         EnterTemporary(n, i)
  PROVE  Scoped!Open(n, i)
<1> DEFINE L == Len(blocks)
<1>0. PICK top \in Nat : top = L + 1
  BY DEF TypeOK
<1>1. n \in Names \ Builtins /\ L \in Nat
  BY DEF EnterTemporary, TypeOK
<1>2. /\ Len(blocks') = L + 1 /\ blocks'[L + 1] = [name |-> n, previous |-> registry[n]]
      /\ \A j \in 1..L : blocks'[j] = blocks[j]
  <2>1. [name |-> n, previous |-> registry[n]] \in Block
    BY <1>1 DEF TypeOK, Block
  <2>2. QED
    BY <2>1, AppendProperties DEF EnterTemporary, TypeOK
<1>3. \A k \in 0..L, m \in Names : After(k, m)' = After(k, m)
  BY <1>1, AfterEnter
<1>4. After(top, n)' = i
  <2>1. Inner(top, n)' = {}
    BY <1>0, <1>1, <1>2 DEF Inner
  <2>2. After(top, n)' = registry'[n]
    BY <2>1, AfterPrime DEF TypeOK
  <2>3. QED
    BY <2>2 DEF EnterTemporary, TypeOK
<1>5. Base' = Base
  BY <1>1, <1>3 DEF Base
<1>6. Frames' = Append(Frames, [name |-> n, impl |-> i])
  <2>1. \A k \in 1..L : After(k, blocks[k].name)' = After(k, blocks[k].name)
    BY <1>1, <1>2, <1>3, BlockType
  <2>2. Frames' = [k \in 1..(L + 1) |->
                     IF k = L + 1 THEN [name |-> n, impl |-> i] ELSE Frames[k]]
    <3>1. Frames' = [k \in 1..(L + 1) |-> [name |-> blocks'[k].name,
                                           impl |-> After(k, blocks[k].name)']]
      BY <1>2 DEF Frames
    <3>2. blocks'[top].name = n
      BY <1>0, <1>2
    <3>3. After(top, blocks[top].name)' = i
      BY <1>4, <3>2
    <3>4. \A k \in 1..L : /\ Frames[k] = [name |-> blocks[k].name,
                                            impl |-> After(k, blocks[k].name)]
                          /\ blocks'[k].name = blocks[k].name /\ k # L + 1
      BY <1>1, <1>2 DEF Frames
    <3>5. ASSUME NEW k \in 1..(L + 1)
          PROVE  [name |-> blocks'[k].name, impl |-> After(k, blocks[k].name)']
                   = IF k = L + 1 THEN [name |-> n, impl |-> i] ELSE Frames[k]
      <4>1. CASE k = top
        BY <1>0, <3>2, <3>3, <4>1
      <4>2. CASE k # top
        <5>1. k \in 1..L
          BY <1>0, <1>1, <4>2
        <5>2. QED
          BY <1>0, <2>1, <3>4, <4>2, <5>1
      <4>3. QED
        BY <4>1, <4>2
    <3>6. QED
      BY <3>1, <3>5
  <2>3. Append(Frames, [name |-> n, impl |-> i])
          = [k \in 1..(L + 1) |-> IF k = L + 1 THEN [name |-> n, impl |-> i] ELSE Frames[k]]
    <3>1. Frames \in Seq([name : Names, impl : Bindings]) /\ Len(Frames) = L
      BY <1>1, BlockType, AfterType DEF Frames
    <3>2. QED
      BY <1>1, <3>1
  <2>4. QED
    BY <2>2, <2>3
<1>7. QED
  BY <1>1, <1>5, <1>6 DEF Scoped!Open, Base, Frames

LEMMA RefinesClose ==
  ASSUME TypeOK, TypeOK', ExitTemporary
  PROVE  Scoped!Close
<1> DEFINE L == Len(blocks)
<1>1. L \in Nat \ {0}
  BY DEF ExitTemporary, TypeOK
<1>2. Len(blocks') = L - 1 /\ \A j \in 1..(L - 1) : blocks'[j] = blocks[j]
  BY ExitShortens
<1>3. \A k \in 0..(L - 1), m \in Names : After(k, m)' = After(k, m)
  BY AfterExit
<1>4. Base' = Base
  BY <1>1, <1>3 DEF Base
<1>5. Frames' = SubSeq(Frames, 1, Len(Frames) - 1)
  <2>1. \A k \in 1..(L - 1) : After(k, blocks[k].name)' = After(k, blocks[k].name)
    BY <1>1, <1>2, <1>3, BlockType
  <2>2. Frames' = [k \in 1..(L - 1) |-> Frames[k]]
    BY <1>1, <1>2, <2>1 DEF Frames
  <2>3. Frames \in Seq([name : Names, impl : Bindings]) /\ Len(Frames) = L
    BY <1>1, BlockType, AfterType DEF Frames
  <2>4. SubSeq(Frames, 1, L - 1) = [k \in 1..(L - 1) |-> Frames[k]]
    BY <1>1, <2>3
  <2>5. QED
    BY <2>2, <2>3, <2>4
<1>6. Frames # <<>>
  BY <1>1 DEF Frames
<1>7. QED
  BY <1>4, <1>5, <1>6 DEF Scoped!Close, Base, Frames

\* Every step of the registry is a step of the scoped bindings, or leaves them alone.
THEOREM Refinement == Spec => ImplementsScopedRegistry
<1>1. ASSUME TypeOK, TypeOK', [Next]_vars PROVE [Scoped!Next]_(Scoped!vars)
  <2> USE <1>1
  <2>1. ASSUME NEW n \in Names, NEW i \in Impls, NEW replace \in BOOLEAN,
               Register(n, i, replace)
        PROVE  Scoped!Next
    <3>1. i \in Bindings /\ i # Missing
      BY MissingAssumption DEF Bindings
    <3>2. Scoped!Bind(n, i)
      BY <2>1, <3>1, RefinesBind DEF Register
    <3>3. QED
      BY <3>1, <3>2 DEF Scoped!Next, Scoped!Bindings, Bindings
  <2>2. ASSUME NEW n \in Names, NEW i \in Impls, EnterTemporary(n, i)
        PROVE  Scoped!Next
    BY <2>2, RefinesOpen DEF Scoped!Next
  <2>3. ASSUME NEW n \in Names, Unregister(n)
        PROVE  Scoped!Next
    <3>1. Scoped!Bind(n, Missing)
      BY <2>3, RefinesBind DEF Unregister, Bindings
    <3>2. QED
      BY <3>1 DEF Scoped!Next, Scoped!Bindings
  <2>4. CASE ExitTemporary
    BY <2>4, RefinesClose DEF Scoped!Next
  <2>5. CASE registry' = registry /\ blocks' = blocks
    <3>1. \A k, n : After(k, n)' = After(k, n)
      BY <2>5 DEF After
    <3>2. Base' = Base /\ Frames' = Frames
      BY <2>5, <3>1 DEF Base, Frames
    <3>3. QED
      BY <3>2 DEF Scoped!vars, Base, Frames
  <2>6. QED
    BY <2>1, <2>2, <2>3, <2>4, <2>5 DEF Next, Submit, vars
<1>2. QED
  BY <1>1, RefinesInit, TypeCorrect, PTL
  DEF Spec, ImplementsScopedRegistry, Scoped!Spec
=============================================================================
