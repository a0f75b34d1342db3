------------------------ MODULE ProofPackage_proofs ------------------------
(***************************************************************************)
(* What the verifier's verdict guarantees, for every set of artifacts, any *)
(* admission of them, and any plan of builds and edits.  The chain of      *)
(* invariants follows a package: where the writer is in its order and what *)
(* it has put on disk so far (WriteInv), what a manifest found on disk     *)
(* says of the files beside it (DiskInv), what a verifier that read it may *)
(* still meet while later builds write over it (RaceInv), which files the  *)
(* directory can ever hold (FilesInv), and what the readings of a verifier *)
(* nobody disturbs have settled (SteadyInv).  On top of these the          *)
(* directory is shown to be a shelf (Refinement): no step on half a        *)
(* package puts one there or takes one away.                               *)
(***************************************************************************)
EXTENDS ProofPackage, SequenceTheorems, FiniteSetTheorems, TLAPS

\* No element of a sequence is repeated.
Distinct(s) == \A i, j \in DOMAIN s : s[i] = s[j] => i = j

\* The names a package directory can hold.
LEMMA PathsAre == Paths =
  {"NOT_ADMITTED.md", "README.md", "augmented.json", "baseline.json",
   "contracts/arm-contract-set.json", "contracts/package-contract-set.json", "demo.mp4",
   "extra.txt", "findings.json", "listing-assets.json", "media/proof-manifest.json",
   "media/slides", "media/thumbnail.svg", "policies/arm-policy.json",
   "policies/package-policy.json", "proof-manifest.json", "proof.json", "receipt.json",
   "receipts/augmented.receipt.json", "receipts/baseline.receipt.json", "thumbnail.png",
   "transcript.txt"}
  BY DEF Paths, ToSet, Sorted, ArmFile, ArmReceipt, Manifest

\* The twelve records every package starts with: proof.json is the first.
LEMMA RecordsAre ==
  /\ Records \in Seq(Paths) /\ Len(Records) = 12 /\ Distinct(Records)
  /\ Records[1] = "proof.json"
  /\ ToSet(Records) =
       {"proof.json", "receipt.json", "baseline.json", "receipts/baseline.receipt.json",
        "augmented.json", "receipts/augmented.receipt.json", "contracts/arm-contract-set.json",
        "contracts/package-contract-set.json", "policies/arm-policy.json",
        "policies/package-policy.json", "findings.json", "transcript.txt"}
<1>1. Len(Records) = 12 /\ Records[1] = "proof.json"
  BY DEF Records, ArmFile, ArmReceipt
<1>2. Distinct(Records)
  BY <1>1 DEF Records, ArmFile, ArmReceipt, Distinct
<1>3. ToSet(Records) =
       {"proof.json", "receipt.json", "baseline.json", "receipts/baseline.receipt.json",
        "augmented.json", "receipts/augmented.receipt.json", "contracts/arm-contract-set.json",
        "contracts/package-contract-set.json", "policies/arm-policy.json",
        "policies/package-policy.json", "findings.json", "transcript.txt"}
  BY DEF ToSet, Records, ArmFile, ArmReceipt
<1>4. Records \in Seq(Paths)
  <2>1. Records \in Seq(ToSet(Records))
    BY DEF Records, ToSet
  <2>2. ToSet(Records) \subseteq Paths
    BY <1>3, PathsAre
  <2> QED BY <2>1, <2>2, SeqMonotonic
<1> QED BY <1>1, <1>2, <1>3, <1>4

\* What a concatenation of distinct sequences is.
LEMMA ConcatIs ==
  ASSUME NEW S, NEW s \in Seq(S), NEW t \in Seq(S), Distinct(s), Distinct(t),
         ToSet(s) \cap ToSet(t) = {}
  PROVE  /\ s \o t \in Seq(S) /\ Len(s \o t) = Len(s) + Len(t)
         /\ Distinct(s \o t)
         /\ ToSet(s \o t) = ToSet(s) \cup ToSet(t)
         /\ \A i \in 1..Len(s) : (s \o t)[i] = s[i]
         /\ \A i \in 1..Len(t) : (s \o t)[Len(s) + i] = t[i]
<1>1. s \o t \in Seq(S) /\ Len(s \o t) = Len(s) + Len(t)
      /\ Len(s) \in Nat /\ Len(t) \in Nat
      /\ DOMAIN (s \o t) = 1..(Len(s) + Len(t)) /\ DOMAIN s = 1..Len(s) /\ DOMAIN t = 1..Len(t)
  BY ConcatProperties, LenProperties
<1>2. \A i \in 1..(Len(s) + Len(t)) : (s \o t)[i] = IF i <= Len(s) THEN s[i] ELSE t[i - Len(s)]
  BY ConcatProperties, LenProperties
<1>3. /\ \A i \in 1..Len(s) : (s \o t)[i] = s[i]
      /\ \A i \in 1..Len(t) : (s \o t)[Len(s) + i] = t[i]
  BY <1>1, <1>2
<1>4. Distinct(s \o t)
  BY <1>1, <1>2 DEF Distinct, ToSet
<1>5. ToSet(s \o t) = ToSet(s) \cup ToSet(t)
  <2>1. ToSet(s \o t) \subseteq ToSet(s) \cup ToSet(t)
    BY <1>1, <1>2 DEF ToSet
  <2>2. ToSet(s) \subseteq ToSet(s \o t)
    BY <1>1, <1>3 DEF ToSet
  <2>3. ToSet(t) \subseteq ToSet(s \o t)
    <3>1. \A i \in 1..Len(t) : Len(s) + i \in 1..(Len(s) + Len(t))
      BY <1>1
    <3> QED BY <1>1, <1>3, <3>1 DEF ToSet
  <2> QED BY <2>1, <2>2, <2>3
<1> QED BY <1>1, <1>3, <1>4, <1>5

\* What an order of writing has between the records and the manifest.
Middle(a, render) ==
  IF a \in Admitted THEN Documents \o (IF render THEN Media ELSE <<>>) ELSE <<"NOT_ADMITTED.md">>

\* Between the records and the manifest come a notice, or documents and media.
LEMMA MiddleIs ==
  ASSUME NEW a, NEW render \in BOOLEAN
  PROVE  /\ Middle(a, render) \in Seq(Paths) /\ Distinct(Middle(a, render))
         /\ ToSet(Middle(a, render)) =
              IF a \in Admitted
              THEN {"README.md", "listing-assets.json"} \cup
                   (IF render
                    THEN {"media/slides", "demo.mp4", "media/thumbnail.svg", "thumbnail.png"}
                    ELSE {})
              ELSE {"NOT_ADMITTED.md"}
<1>1. /\ Documents \in Seq(Paths) /\ Distinct(Documents)
      /\ ToSet(Documents) = {"README.md", "listing-assets.json"}
  BY PathsAre DEF Documents, Distinct, ToSet
<1>2. /\ Media \in Seq(Paths) /\ Distinct(Media)
      /\ ToSet(Media) = {"media/slides", "demo.mp4", "media/thumbnail.svg", "thumbnail.png"}
  BY PathsAre DEF Media, Distinct, ToSet
<1>3. /\ <<>> \in Seq(Paths) /\ Distinct(<<>>) /\ ToSet(<<>>) = {}
  BY DEF Distinct, ToSet
<1>4. LET single == <<"NOT_ADMITTED.md">>
      IN  single \in Seq(Paths) /\ Distinct(single) /\ ToSet(single) = {"NOT_ADMITTED.md"}
  BY PathsAre DEF Distinct, ToSet
<1>5. CASE a \in Admitted /\ render
  <2>1. Middle(a, render) = Documents \o Media
    BY <1>5 DEF Middle
  <2>2. ToSet(Documents) \cap ToSet(Media) = {}
    BY <1>1, <1>2
  <2>3. /\ Documents \o Media \in Seq(Paths) /\ Distinct(Documents \o Media)
        /\ ToSet(Documents \o Media) = ToSet(Documents) \cup ToSet(Media)
    BY <1>1, <1>2, <2>2, ConcatIs
  <2> HIDE DEF Documents, Media
  <2> QED BY <1>1, <1>2, <1>5, <2>1, <2>3
<1>6. CASE a \in Admitted /\ ~render
  <2>1. Middle(a, render) = Documents \o <<>>
    BY <1>6 DEF Middle
  <2>2. Middle(a, render) = Documents
    BY <1>1, <2>1, ConcatEmptySeq
  <2> QED BY <1>1, <1>6, <2>2
<1>7. CASE a \notin Admitted
  BY <1>4, <1>7 DEF Middle
<1> QED BY <1>5, <1>6, <1>7

\* Every order starts with proof.json, ends with the manifest and repeats no name.
LEMMA OrderIs ==
  ASSUME NEW a, NEW render \in BOOLEAN
  PROVE  LET O == WriteOrder(a, render)
         IN  /\ O \in Seq(Paths) /\ Len(O) \in Nat /\ Len(O) > 1 /\ DOMAIN O = 1..Len(O)
             /\ Distinct(O)
             /\ ToSet(O) = ToSet(Records) \cup ToSet(Middle(a, render)) \cup {Manifest}
             /\ O[1] = "proof.json" /\ O[Len(O)] = Manifest
<1> DEFINE front == Records \o Middle(a, render)
           last == <<Manifest>>
<1>1. WriteOrder(a, render) = front \o last
  BY DEF WriteOrder, Middle
<1>2. ToSet(Records) \cap ToSet(Middle(a, render)) = {}
  BY RecordsAre, MiddleIs
<1>m. Middle(a, render) \in Seq(Paths) /\ Distinct(Middle(a, render))
  BY MiddleIs
<1>r. /\ Records \in Seq(Paths) /\ Distinct(Records) /\ Len(Records) = 12
      /\ Records[1] = "proof.json" /\ 1 \in 1..Len(Records)
  BY RecordsAre
<1>3. /\ front \in Seq(Paths) /\ Len(front) = 12 + Len(Middle(a, render)) /\ Distinct(front)
      /\ ToSet(front) = ToSet(Records) \cup ToSet(Middle(a, render))
      /\ front[1] = "proof.json"
  <2>1. \A s, t \in Seq(Paths) :
          Distinct(s) /\ Distinct(t) /\ ToSet(s) \cap ToSet(t) = {} =>
            /\ s \o t \in Seq(Paths) /\ Len(s \o t) = Len(s) + Len(t)
            /\ Distinct(s \o t)
            /\ ToSet(s \o t) = ToSet(s) \cup ToSet(t)
            /\ \A i \in 1..Len(s) : (s \o t)[i] = s[i]
    BY ConcatIs
  <2>2. PICK mid : mid = Middle(a, render)
    OBVIOUS
  <2>3. /\ mid \in Seq(Paths) /\ Distinct(mid) /\ ToSet(Records) \cap ToSet(mid) = {}
        /\ front = Records \o mid
    BY <1>m, <1>2, <2>2
  <2>4. Records \in Seq(Paths) /\ Distinct(Records)
    BY <1>r
  <2> HIDE DEF front
  <2>5. /\ front \in Seq(Paths) /\ Len(front) = Len(Records) + Len(mid)
        /\ Distinct(front)
        /\ ToSet(front) = ToSet(Records) \cup ToSet(mid)
        /\ \A i \in 1..Len(Records) : front[i] = Records[i]
    BY <2>1, <2>3, <2>4
  <2> QED BY <2>2, <2>5, <1>r
<1>4. last \in Seq(Paths) /\ Len(last) = 1 /\ Distinct(last) /\ ToSet(last) = {Manifest}
      /\ last[1] = Manifest
  BY PathsAre DEF Manifest, Distinct, ToSet
<1>5. ToSet(front) \cap ToSet(last) = {}
  <2>1. Manifest \notin ToSet(Records)
    BY RecordsAre DEF Manifest
  <2>2. Manifest \notin ToSet(Middle(a, render))
    BY MiddleIs DEF Manifest
  <2> HIDE DEF last, front
  <2> QED BY <1>3, <1>4, <2>1, <2>2
<1>6. Len(Middle(a, render)) \in Nat
  BY MiddleIs, LenProperties
<1> HIDE DEF front, last
<1>7. /\ front \o last \in Seq(Paths) /\ Len(front \o last) = Len(front) + 1
      /\ Distinct(front \o last)
      /\ ToSet(front \o last) = ToSet(front) \cup {Manifest}
      /\ (front \o last)[1] = front[1]
      /\ (front \o last)[Len(front) + 1] = Manifest
  BY <1>3, <1>4, <1>5, <1>6, ConcatIs
<1> QED BY <1>1, <1>3, <1>6, <1>7, LenProperties

-----------------------------------------------------------------------------

\* The state variables are the functions and records the actions make them.
Shape ==
  /\ disk = [p \in DOMAIN disk |-> disk[p]]
  /\ writer = [phase |-> writer.phase, run |-> writer.run, render |-> writer.render,
               at |-> writer.at, content |-> writer.content]
  /\ writer.render \in BOOLEAN
  /\ verifier = [phase |-> verifier.phase, left |-> verifier.left, at |-> verifier.at,
                 manifest |-> verifier.manifest, proof |-> verifier.proof,
                 receipt |-> verifier.receipt, verdict |-> verifier.verdict,
                 whole |-> verifier.whole, steady |-> verifier.steady]

\* A write that is under way has a place in its order.
Position ==
  /\ writer.phase # "idle" => writer.run >= 1
  /\ writer.phase \in {"write", "close"} => writer.at >= 1
  /\ writer.phase = "close" => writer.at <= Len(Order)

\* The type invariant with what TypeOK leaves to the shape of the records.
TypeInv == TypeOK /\ Shape /\ Position

\* What a plan says of the artifact, the builds and the edits.
LEMMA PlanIs ==
  ASSUME TypeOK
  PROVE  /\ plan \in Plans /\ subject \in Artifacts /\ plan.runs \in Nat /\ plan.edits \in Nat
         /\ writer.run \in Nat /\ edits \in Nat
  BY PlansAssumption DEF TypeOK, subject

\* The order of the build that is under way.
LEMMA CurrentOrder ==
  ASSUME TypeOK, Shape
  PROVE  /\ Order \in Seq(Paths) /\ Len(Order) \in Nat /\ Len(Order) > 1
         /\ DOMAIN Order = 1..Len(Order)
         /\ Distinct(Order)
         /\ ToSet(Order) = ToSet(Records) \cup ToSet(Middle(subject, writer.render)) \cup {Manifest}
         /\ Order[1] = "proof.json" /\ Order[Len(Order)] = Manifest
         /\ \A i \in 1..Len(Order) : Order[i] \in Paths
         /\ writer.at \in Nat
<1>1. PICK render \in BOOLEAN : render = writer.render
  BY DEF Shape
<1>2. PICK a : a = subject
  OBVIOUS
<1>3. Order = WriteOrder(a, render) /\ Middle(subject, writer.render) = Middle(a, render)
  BY <1>1, <1>2 DEF Order
<1>4. /\ Order \in Seq(Paths) /\ Len(Order) \in Nat /\ Len(Order) > 1
      /\ DOMAIN Order = 1..Len(Order)
      /\ Distinct(Order)
      /\ ToSet(Order) = ToSet(Records) \cup ToSet(Middle(a, render)) \cup {Manifest}
      /\ Order[1] = "proof.json" /\ Order[Len(Order)] = Manifest
  BY <1>3, OrderIs
<1>5. \A i \in 1..Len(Order) : Order[i] \in Paths
  BY <1>4, ElementOfSeq
<1>6. writer.at \in Nat
  BY <1>4 DEF TypeOK
<1> QED BY <1>3, <1>4, <1>5, <1>6

\* The verifier reads twenty-five times.
LEMMA ReadingsAre == Len(Readings) = 25
  BY DEF Readings

\* The first states have the types.
LEMMA TypeInit == Init => TypeInv
<1> SUFFICES ASSUME Init PROVE TypeInv
  OBVIOUS
<1>1. Shape
  BY DEF Init, Shape, Idle, Resting
<1>2. Position
  BY DEF Init, Position, Idle
<1>3. plan.runs \in Nat /\ plan.edits \in Nat /\ plan \in Plans
  BY PlansAssumption DEF Init
<1>4. writer.render \in BOOLEAN
  BY <1>1 DEF Shape
<1>5. Len(Order) \in Nat
  <2>1. PICK render \in BOOLEAN : render = writer.render
    BY <1>4
  <2> QED BY <2>1, OrderIs DEF Order
<1>6. TypeOK
  BY <1>3, <1>5, ReadingsAre DEF Init, TypeOK, Idle, Resting
<1> QED BY <1>1, <1>2, <1>6 DEF TypeInv

\* A step of the writer only takes the steadiness from a running verifier.
LEMMA DisturbIs ==
  ASSUME TypeInv, Disturb
  PROVE  /\ verifier'.phase = verifier.phase /\ verifier'.left \subseteq Paths
         /\ verifier'.at \in 0..(Len(Readings) + 1)
         /\ verifier'.verdict \in {"none", "verified", "refused"}
         /\ verifier'.phase # "idle" => verifier'.verdict = "none"
         /\ verifier'.phase \in {"list", "hash", "read"} => verifier'.manifest # Torn
         /\ verifier' = [phase |-> verifier'.phase, left |-> verifier'.left, at |-> verifier'.at,
                 manifest |-> verifier'.manifest, proof |-> verifier'.proof,
                 receipt |-> verifier'.receipt, verdict |-> verifier'.verdict,
                 whole |-> verifier'.whole, steady |-> verifier'.steady]
<1>1. CASE verifier.phase = "idle"
  BY <1>1, ReadingsAre DEF TypeInv, TypeOK, Shape, Disturb, Resting
<1>2. CASE verifier.phase # "idle"
  BY <1>2, ReadingsAre DEF TypeInv, TypeOK, Shape, Disturb
<1> QED BY <1>1, <1>2

\* A build starts with the next run of the plan.
LEMMA StartWriteIs ==
  ASSUME TypeInv, NEW render, StartWrite(render)
  PROVE  /\ writer' = [phase |-> "clear", run |-> writer.run + 1, render |-> render, at |-> 0,
                      content |-> Torn]
         /\ UNCHANGED <<disk, plan, verifier, edits>> /\ writer.run + 1 \in 0..plan.runs
<1>1. writer' = [phase |-> "clear", run |-> writer.run + 1, render |-> render, at |-> 0,
                      content |-> Torn]
  BY DEF StartWrite, Idle
<1>2. UNCHANGED <<disk, plan, verifier, edits>> /\ writer.run < plan.runs
  BY DEF StartWrite
<1>3. writer.run + 1 \in 0..plan.runs
  BY <1>2, PlanIs DEF TypeInv, TypeOK
<1> QED BY <1>1, <1>2, <1>3

\* A step of the writer keeps the types.
LEMMA WriterType ==
  ASSUME TypeInv, UNCHANGED <<plan, edits>>,
         \/ \E render \in BOOLEAN : StartWrite(render)
         \/ Write \/ Stop
  PROVE  TypeInv'
<1> USE DEF TypeInv
<1>0. /\ plan \in Plans /\ plan.runs \in Nat /\ writer.run \in 0..plan.runs
      /\ writer.at \in Nat /\ Len(Order) \in Nat /\ Len(Order) > 1
      /\ \A i \in 1..Len(Order) : Order[i] \in Paths
  BY PlanIs, CurrentOrder DEF TypeOK
<1>1. ASSUME NEW render \in BOOLEAN, StartWrite(render)
      PROVE  TypeInv'
  <2>1. /\ writer' = [phase |-> "clear", run |-> writer.run + 1, render |-> render, at |-> 0,
                      content |-> Torn]
        /\ UNCHANGED <<disk, plan, verifier, edits>> /\ writer.run + 1 \in 0..plan.runs
    BY <1>1, StartWriteIs
  <2>2. Order' = WriteOrder(subject, render)
    BY <2>1 DEF Order, subject
  <2>3. Len(Order') \in Nat
    BY <2>2, OrderIs
  <2>4. Position' /\ Shape'
    BY <2>1, <1>0 DEF Position, Shape
  <2>5. TypeOK'
    BY <2>1, <2>3 DEF TypeOK
  <2> QED BY <2>4, <2>5
<1>2. ASSUME writer'.render = writer.render, UNCHANGED plan
      PROVE  Order' = Order
  BY <1>2 DEF Order, subject
<1>3. CASE Clear
  <2>1. PICK path \in DOMAIN disk : disk' = Without(disk, path)
    BY <1>3 DEF Clear
  <2>2. DOMAIN disk' \subseteq Paths /\ disk' = [p \in DOMAIN disk' |-> disk'[p]]
    BY <2>1 DEF Without, TypeOK
  <2>3. UNCHANGED <<writer, plan, edits>> /\ Order' = Order /\ Disturb
    BY <1>2, <1>3 DEF Clear
  <2> QED BY <2>2, <2>3, DisturbIs DEF TypeOK, Shape, Position
<1>4. CASE Cleared
  <2>1. UNCHANGED <<disk, plan, verifier, edits>> /\ writer.phase = "clear"
        /\ writer' = [writer EXCEPT !.phase = "write", !.at = 1]
    BY <1>4 DEF Cleared
  <2>2. Order' = Order
    BY <1>2, <2>1 DEF Shape
  <2>3. Shape'
    BY <2>1 DEF Shape
  <2>4. /\ writer'.phase = "write" /\ writer'.at = 1 /\ writer'.run = writer.run
    BY <2>1 DEF Shape
  <2>5. writer.run >= 1
    BY <2>1 DEF Position
  <2>6. Position'
    BY <2>4, <2>5 DEF Position
  <2>7. TypeOK'
    BY <2>1, <2>2, <2>4, <1>0 DEF TypeOK
  <2> QED BY <2>3, <2>6, <2>7
<1>5. CASE OpenFile
  <2>1. PICK content : writer' = [writer EXCEPT !.phase = "close", !.content = content]
    BY <1>5 DEF OpenFile
  <2>2. /\ disk' = With(disk, Current, Torn) /\ Disturb /\ UNCHANGED <<plan, edits>>
        /\ writer.phase = "write" /\ writer.at <= Len(Order)
    BY <1>5 DEF OpenFile
  <2>3. Order' = Order
    BY <1>2, <2>1, <2>2 DEF Shape
  <2>4. Current \in Paths
    BY <1>0, <2>2 DEF Position, Current
  <2>5. DOMAIN disk' \subseteq Paths /\ disk' = [p \in DOMAIN disk' |-> disk'[p]]
    BY <2>2, <2>4 DEF With, TypeOK
  <2>6. /\ writer'.phase = "close" /\ writer'.run = writer.run /\ writer'.at = writer.at
        /\ writer'.render = writer.render
        /\ writer' = [phase |-> writer'.phase, run |-> writer'.run, render |-> writer'.render,
                      at |-> writer'.at, content |-> writer'.content]
    BY <2>1 DEF Shape
  <2> QED BY <2>2, <2>3, <2>5, <2>6, <1>0, DisturbIs DEF TypeOK, Shape, Position
<1>6. CASE CloseFile
  <2>2. /\ disk' = With(disk, Current, writer.content) /\ Disturb /\ UNCHANGED <<plan, edits>>
        /\ writer.phase = "close" /\ writer.at <= Len(Order)
        /\ writer' = [writer EXCEPT !.phase = "write", !.at = @ + 1, !.content = Torn]
    BY <1>6 DEF CloseFile, Position
  <2>3. Order' = Order
    BY <1>2, <2>2 DEF Shape
  <2>4. Current \in Paths
    BY <1>0, <2>2 DEF Position, Current
  <2>5. DOMAIN disk' \subseteq Paths /\ disk' = [p \in DOMAIN disk' |-> disk'[p]]
    BY <2>2, <2>4 DEF With, TypeOK
  <2>6. /\ writer'.phase = "write" /\ writer'.run = writer.run /\ writer'.at = writer.at + 1
        /\ writer'.render = writer.render
        /\ writer' = [phase |-> writer'.phase, run |-> writer'.run, render |-> writer'.render,
                      at |-> writer'.at, content |-> writer'.content]
    BY <2>2 DEF Shape
  <2>7. writer'.at \in 0..(Len(Order') + 1) /\ writer'.at >= 1 /\ writer'.run >= 1
    BY <1>0, <2>2, <2>3, <2>6 DEF Position
  <2> QED BY <2>2, <2>3, <2>5, <2>6, <2>7, <1>0, DisturbIs DEF TypeOK, Shape, Position
<1>7. CASE Return \/ Stop
  <2>1. /\ writer'.phase = "idle" /\ writer'.run = writer.run /\ writer'.at = 0
        /\ writer'.render = writer.render
        /\ writer' = [phase |-> writer'.phase, run |-> writer'.run, render |-> writer'.render,
                      at |-> writer'.at, content |-> writer'.content]
        /\ UNCHANGED <<disk, plan, verifier, edits>>
    BY <1>7 DEF Return, Stop, Shape
  <2>2. Order' = Order
    BY <1>2, <2>1
  <2> QED BY <2>1, <2>2, <1>0 DEF TypeOK, Shape, Position
<1> QED BY <1>1, <1>3, <1>4, <1>5, <1>6, <1>7 DEF Write

\* A verdict ends the verification and keeps what is known of its course.
LEMMA VerdictIs ==
  ASSUME NEW verdict \in {"verified", "refused"}, Verdict(verdict)
  PROVE  /\ verifier' = [phase |-> "idle", left |-> {}, at |-> 0, manifest |-> Torn, proof |-> Torn,
                         receipt |-> Torn, verdict |-> verdict, whole |-> verifier.whole,
                         steady |-> verifier.steady]
  BY DEF Verdict, Resting

\* A step of the verifier keeps the types.
LEMMA VerifierType ==
  ASSUME TypeInv, UNCHANGED <<disk, plan, writer, edits>>, StartVerify \/ Verify
  PROVE  TypeInv'
<1> USE DEF TypeInv
<1>0. Order' = Order /\ Position'
  BY DEF Order, subject, Position
<1> DEFINE Well ==
         /\ verifier'.phase \in {"idle", "manifest", "list", "hash", "read"}
         /\ verifier'.left \subseteq Paths /\ verifier'.at \in 0..26
         /\ verifier'.verdict \in {"none", "verified", "refused"}
         /\ verifier'.phase # "idle" => verifier'.verdict = "none"
         /\ verifier'.phase \in {"list", "hash", "read"} => verifier'.manifest # Torn
         /\ verifier' = [phase |-> verifier'.phase, left |-> verifier'.left, at |-> verifier'.at,
                 manifest |-> verifier'.manifest, proof |-> verifier'.proof,
                 receipt |-> verifier'.receipt, verdict |-> verifier'.verdict,
                 whole |-> verifier'.whole, steady |-> verifier'.steady]
<1>1. SUFFICES Well
  BY <1>0, ReadingsAre DEF TypeOK, Shape
<1>2. ASSUME NEW verdict \in {"verified", "refused"}, Verdict(verdict)
      PROVE  Well
  BY <1>2, VerdictIs
<1>3. CASE StartVerify
  <2>1. PICK yes : yes = TRUE
    OBVIOUS
  <2>2. verifier' = [Resting EXCEPT !.phase = "manifest", !.steady = yes]
    BY <1>3, <2>1 DEF StartVerify
  <2>3. PICK no : no = FALSE
    OBVIOUS
  <2>4. Resting = [phase |-> "idle", left |-> {}, at |-> 0, manifest |-> Torn, proof |-> Torn,
                  receipt |-> Torn, verdict |-> "none", whole |-> no, steady |-> no]
    BY <2>3 DEF Resting
  <2>5. verifier' = [phase |-> "manifest", left |-> {}, at |-> 0, manifest |-> Torn,
                    proof |-> Torn, receipt |-> Torn, verdict |-> "none", whole |-> no,
                    steady |-> yes]
    BY <2>2, <2>4
  <2> QED BY <2>5
<1>4. CASE ReadManifest
  <2>1. CASE Manifest \in DOMAIN disk /\ disk[Manifest] # Torn
    <3>1. PICK whole : verifier' = [verifier EXCEPT !.phase = "list",
                                      !.manifest = disk[Manifest], !.whole = whole]
      BY <1>4, <2>1 DEF ReadManifest
    <3>2. /\ verifier'.phase = "list" /\ verifier'.manifest = disk[Manifest]
          /\ verifier'.left = verifier.left /\ verifier'.at = verifier.at
          /\ verifier'.verdict = verifier.verdict
        /\ verifier' = [phase |-> verifier'.phase, left |-> verifier'.left, at |-> verifier'.at,
                 manifest |-> verifier'.manifest, proof |-> verifier'.proof,
                 receipt |-> verifier'.receipt, verdict |-> verifier'.verdict,
                 whole |-> verifier'.whole, steady |-> verifier'.steady]
      BY <3>1 DEF Shape
    <3>3. verifier.phase = "manifest"
      BY <1>4 DEF ReadManifest
    <3> QED BY <2>1, <3>2, <3>3, ReadingsAre DEF TypeOK
  <2>2. CASE ~(Manifest \in DOMAIN disk /\ disk[Manifest] # Torn)
    BY <1>2, <1>4, <2>2 DEF ReadManifest
  <2> QED BY <2>1, <2>2
<1>5. CASE ListFiles
  <2>1. CASE Complete(verifier.manifest, disk)
    <3>1. DOMAIN verifier.manifest.listed \subseteq Paths
      BY <2>1 DEF Complete, Relative, TypeOK
    <3>2. /\ verifier.phase = "list"
          /\ verifier' = [verifier EXCEPT !.phase = "hash",
                                          !.left = DOMAIN verifier.manifest.listed]
      BY <1>5, <2>1 DEF ListFiles
    <3>3. /\ verifier'.phase = "hash" /\ verifier'.manifest = verifier.manifest
          /\ verifier'.left = DOMAIN verifier.manifest.listed /\ verifier'.at = verifier.at
          /\ verifier'.verdict = verifier.verdict
        /\ verifier' = [phase |-> verifier'.phase, left |-> verifier'.left, at |-> verifier'.at,
                 manifest |-> verifier'.manifest, proof |-> verifier'.proof,
                 receipt |-> verifier'.receipt, verdict |-> verifier'.verdict,
                 whole |-> verifier'.whole, steady |-> verifier'.steady]
      BY <3>2 DEF Shape
    <3> QED BY <3>1, <3>2, <3>3, ReadingsAre DEF TypeOK
  <2>2. CASE ~Complete(verifier.manifest, disk)
    BY <1>2, <1>5, <2>2 DEF ListFiles
  <2> QED BY <2>1, <2>2
<1>6. CASE HashFile
  <2>1. PICK path : \/ verifier' = [verifier EXCEPT !.left = @ \ {path}]
                    \/ Verdict("refused")
    BY <1>6 DEF HashFile
  <2>2. CASE verifier' = [verifier EXCEPT !.left = @ \ {path}]
    <3>1. verifier.phase = "hash"
      BY <1>6 DEF HashFile
    <3>2. /\ verifier'.phase = verifier.phase /\ verifier'.manifest = verifier.manifest
          /\ verifier'.left = verifier.left \ {path} /\ verifier'.at = verifier.at
          /\ verifier'.verdict = verifier.verdict
        /\ verifier' = [phase |-> verifier'.phase, left |-> verifier'.left, at |-> verifier'.at,
                 manifest |-> verifier'.manifest, proof |-> verifier'.proof,
                 receipt |-> verifier'.receipt, verdict |-> verifier'.verdict,
                 whole |-> verifier'.whole, steady |-> verifier'.steady]
      BY <2>2 DEF Shape
    <3> QED BY <3>1, <3>2, ReadingsAre DEF TypeOK
  <2> QED BY <1>2, <2>1, <2>2
<1>7. CASE Hashed
  <2>1. CASE verifier' = [verifier EXCEPT !.phase = "read", !.at = 1]
    <3>1. verifier.phase = "hash"
      BY <1>7 DEF Hashed
    <3>2. /\ verifier'.phase = "read" /\ verifier'.manifest = verifier.manifest
          /\ verifier'.left = verifier.left /\ verifier'.at = 1
          /\ verifier'.verdict = verifier.verdict
        /\ verifier' = [phase |-> verifier'.phase, left |-> verifier'.left, at |-> verifier'.at,
                 manifest |-> verifier'.manifest, proof |-> verifier'.proof,
                 receipt |-> verifier'.receipt, verdict |-> verifier'.verdict,
                 whole |-> verifier'.whole, steady |-> verifier'.steady]
      BY <2>1 DEF Shape
    <3> QED BY <3>1, <3>2, ReadingsAre DEF TypeOK
  <2> QED BY <1>2, <1>7, <2>1 DEF Hashed
<1>8. CASE Read
  <2> DEFINE on == [verifier EXCEPT !.at = @ + 1]
  <2>1. \/ verifier' = on
        \/ \E content : verifier' = [on EXCEPT !.proof = content]
        \/ \E content : verifier' = [on EXCEPT !.receipt = content]
        \/ Verdict("refused")
    BY <1>8 DEF Read
  <2>2. /\ verifier.phase = "read" /\ verifier.at \in 0..25
        /\ verifier.left \subseteq Paths /\ verifier.verdict = "none"
        /\ verifier.manifest # Torn
    BY <1>8, ReadingsAre DEF Read, TypeOK
  <2>3. /\ on.phase = "read" /\ on.at \in 0..26 /\ on.left \subseteq Paths
        /\ on.verdict = "none" /\ on.manifest # Torn
        /\ on = [phase |-> on.phase, left |-> on.left, at |-> on.at,
                 manifest |-> on.manifest, proof |-> on.proof,
                 receipt |-> on.receipt, verdict |-> on.verdict,
                 whole |-> on.whole, steady |-> on.steady]
    BY <2>2 DEF Shape
  <2> HIDE DEF on
  <2>4. CASE verifier' = on
    BY <2>3, <2>4
  <2>5. ASSUME NEW content, verifier' = [on EXCEPT !.proof = content]
        PROVE  Well
    BY <2>3, <2>5
  <2>6. ASSUME NEW content, verifier' = [on EXCEPT !.receipt = content]
        PROVE  Well
    BY <2>3, <2>6
  <2> QED BY <1>2, <2>1, <2>4, <2>5, <2>6
<1>9. CASE Verified
  BY <1>2, <1>9 DEF Verified
<1> QED BY <1>3, <1>4, <1>5, <1>6, <1>7, <1>8, <1>9 DEF Verify

\* A change of the directory keeps its names known.
LEMMA ChangeIs ==
  ASSUME TypeInv, NEW dir, DOMAIN dir \subseteq Paths, dir = [p \in DOMAIN dir |-> dir[p]],
         Change(dir)
  PROVE  /\ TypeInv' /\ UNCHANGED <<plan, writer>> /\ writer.phase = "idle"
         /\ edits' # 0 /\ verifier' = Resting
<1> USE DEF TypeInv
<1>1. /\ writer.phase = "idle" /\ verifier.phase = "idle" /\ UNCHANGED <<plan, writer>>
      /\ edits < plan.edits /\ edits' = edits + 1 /\ Disturb
  BY DEF Change
<1>2. edits' # 0 /\ edits' \in 0..plan.edits
  BY <1>1, PlanIs DEF TypeOK
<1>3. verifier' = Resting
  BY <1>1 DEF Disturb
<1>4. DOMAIN disk' \subseteq Paths /\ disk' = [p \in DOMAIN disk' |-> disk'[p]]
  <2>1. CASE disk' = dir
    BY <2>1
  <2>2. CASE disk' = Resealed(dir)
    BY <2>2 DEF Resealed
  <2> QED BY <2>1, <2>2 DEF Change
<1>5. Order' = Order
  BY <1>1 DEF Order, subject
<1> QED BY <1>1, <1>2, <1>3, <1>4, <1>5, DisturbIs DEF TypeOK, Shape, Position

\* What an edit of the directory changes.
LEMMA EditIs ==
  ASSUME TypeInv, Edit
  PROVE  /\ TypeInv' /\ UNCHANGED <<plan, writer>> /\ writer.phase = "idle"
         /\ edits' # 0 /\ verifier' = Resting
<1>1. ASSUME NEW path \in Paths, NEW content
      PROVE  /\ DOMAIN With(disk, path, content) \subseteq Paths
             /\ DOMAIN Without(disk, path) \subseteq Paths
             /\ With(disk, path, content) = [p \in DOMAIN With(disk, path, content) |->
                                               With(disk, path, content)[p]]
             /\ Without(disk, path) = [p \in DOMAIN Without(disk, path) |->
                                               Without(disk, path)[p]]
  BY DEF TypeInv, TypeOK, With, Without
<1>2. ASSUME NEW path \in Paths, Exchange(path) \/ Delete(path)
      PROVE  \/ \E content : Change(With(disk, path, content))
             \/ Change(Without(disk, path))
  BY <1>2 DEF Exchange, Delete
<1>3. ASSUME NEW path \in Extras, Add(path)
      PROVE  path \in Paths /\ Change(With(disk, path, File(path, subject, 0)))
  BY <1>3, PathsAre DEF Add, Extras
<1>4. CASE Reseal
  BY <1>4, ChangeIs DEF Reseal, TypeInv, TypeOK, Shape
<1>5. CASE Relabel
  <2> DEFINE dir == [disk EXCEPT ![Manifest].admitted = TRUE, ![Manifest].anew = TRUE]
  <2>1. Change(dir)
    BY <1>5 DEF Relabel
  <2>2. DOMAIN dir = DOMAIN disk /\ dir = [p \in DOMAIN dir |-> dir[p]]
    OBVIOUS
  <2>3. DOMAIN disk \subseteq Paths
    BY DEF TypeInv, TypeOK
  <2> HIDE DEF dir
  <2> QED BY <2>1, <2>2, <2>3, ChangeIs
<1>6. ASSUME NEW path \in Paths, NEW content, Change(With(disk, path, content))
      PROVE  /\ TypeInv' /\ UNCHANGED <<plan, writer>> /\ writer.phase = "idle"
             /\ edits' # 0 /\ verifier' = Resting
  BY <1>1, <1>6, ChangeIs
<1>7. ASSUME NEW path \in Paths, Change(Without(disk, path))
      PROVE  /\ TypeInv' /\ UNCHANGED <<plan, writer>> /\ writer.phase = "idle"
             /\ edits' # 0 /\ verifier' = Resting
  BY <1>1, <1>7, ChangeIs
<1> QED BY <1>2, <1>3, <1>4, <1>5, <1>6, <1>7 DEF Edit

\* One step keeps the types.
LEMMA TypeStep == TypeInv /\ [Next]_vars => TypeInv'
<1> SUFFICES ASSUME TypeInv, [Next]_vars PROVE TypeInv'
  OBVIOUS
<1>1. CASE UNCHANGED vars
  <2>1. Order' = Order
    BY <1>1 DEF vars, Order, subject
  <2> QED BY <1>1, <2>1 DEF vars, TypeInv, TypeOK, Shape, Position
<1>2. CASE (\E render \in BOOLEAN : StartWrite(render)) \/ Write \/ Stop
  <2>1. UNCHANGED <<plan, edits>>
    BY <1>2 DEF StartWrite, Write, Stop, Clear, Cleared, OpenFile, CloseFile, Return
  <2> QED BY <1>2, <2>1, WriterType
<1>3. CASE StartVerify \/ Verify
  <2>1. UNCHANGED <<disk, plan, writer, edits>>
    BY <1>3 DEF StartVerify, Verify, ReadManifest, ListFiles, HashFile, Hashed, Read, Verified
  <2> QED BY <1>3, <2>1, VerifierType
<1>4. CASE Edit
  BY <1>4, EditIs
<1> QED BY <1>1, <1>2, <1>3, <1>4 DEF Next

\* The writer, the verifier and the directory keep their types: a name outside the
\* package, a place outside the order or a verdict while it is still reading never occurs.
THEOREM TypeCorrect == Spec => []TypeOK
<1>1. TypeInv => TypeOK
  BY DEF TypeInv
<1> QED BY <1>1, TypeInit, TypeStep, PTL DEF Spec

-----------------------------------------------------------------------------
(* Where the writer is and what it has written.                           *)

\* What the writer of a run may put in a file: the policies and contracts are any
\* version that was in force, everything else is of the artifact and of the run.
Good(path, run, content) ==
  IF Versions(path) # {} THEN content # Torn ELSE content = File(path, subject, run)

\* A build on its way has written exactly the names before its place, the file it
\* has open is torn, and what it is about to write is right.
WriteInv ==
  writer.phase \in {"write", "close"} =>
    /\ DOMAIN disk = {Order[i] : i \in 1..(writer.at - 1)}
                       \cup (IF writer.phase = "close" THEN {Current} ELSE {})
    /\ \A i \in 1..(writer.at - 1) :
         Order[i] # Manifest => Good(Order[i], writer.run, disk[Order[i]])
    /\ writer.phase = "close" =>
         /\ disk[Current] = Torn
         /\ IF Current = Manifest THEN writer.content = ManifestOf(disk, subject, writer.run)
            ELSE Good(Current, writer.run, writer.content)
    /\ writer.at > Len(Order) => disk[Manifest] = ManifestOf(disk, subject, writer.run)

\* What a writer writes is never torn.
LEMMA GoodIs ==
  ASSUME NEW path \in Paths, NEW run, NEW content, Good(path, run, content)
  PROVE  content # Torn
<1>1. path # "torn"
  BY PathsAre
<1>2. File(path, subject, run) # Torn
  BY <1>1 DEF File, Torn
<1> QED BY <1>2 DEF Good

\* The contents of a file are the ones the writer may put in it.
LEMMA ContentsAre ==
  ASSUME NEW path \in Paths \ {Manifest}, NEW content \in Contents(path)
  PROVE  Good(path, writer.run, content)
<1>1. path # "torn"
  BY PathsAre
<1>2. \A v : File(path, v, 0) # Torn
  BY <1>1 DEF File, Torn
<1>3. CASE path \in {"contracts/arm-contract-set.json", "contracts/package-contract-set.json",
                     "policies/arm-policy.json", "policies/package-policy.json"}
  <2>1. \E v : content = File(path, v, 0)
    BY <1>3 DEF Contents
  <2> QED BY <1>2, <2>1, <1>3 DEF Good, Versions
<1>4. CASE path \notin {"contracts/arm-contract-set.json", "contracts/package-contract-set.json",
                     "policies/arm-policy.json", "policies/package-policy.json"}
  <2>1. content = File(path, subject, writer.run)
    BY <1>4 DEF Contents
  <2> QED BY <2>1, <1>4 DEF Good, Versions
<1> QED BY <1>3, <1>4

\* The manifest is not among the files it lists.
LEMMA RelativeOfWith ==
  ASSUME NEW dir, NEW content
  PROVE  Relative(With(dir, Manifest, content)) = Relative(dir)
  BY DEF Relative, With

\* One step keeps the place of the writer and what it has written.
LEMMA WriteStep ==
  ASSUME TypeInv, TypeInv', WriteInv, Next
  PROVE  WriteInv'
<1> USE DEF TypeInv
<1>0. /\ Order \in Seq(Paths) /\ Len(Order) \in Nat /\ Len(Order) > 1
      /\ DOMAIN Order = 1..Len(Order) /\ Distinct(Order)
      /\ Order[Len(Order)] = Manifest /\ writer.at \in Nat
      /\ \A i \in 1..Len(Order) : Order[i] \in Paths
  BY CurrentOrder
<1>d. \A i, j \in 1..Len(Order) : Order[i] = Order[j] => i = j
  BY <1>0 DEF Distinct
<1>1. ASSUME writer'.render = writer.render, UNCHANGED plan
      PROVE  Order' = Order /\ subject' = subject
  BY <1>1 DEF Order, subject
<1>2. ASSUME UNCHANGED <<disk, plan, writer>> PROVE WriteInv'
  <2>1. Order' = Order /\ subject' = subject /\ Current' = Current
    BY <1>2 DEF Order, subject, Current
  <2> QED BY <1>2, <2>1 DEF WriteInv, Good
<1>3. ASSUME writer'.phase \in {"idle", "clear"} PROVE WriteInv'
  BY <1>3 DEF WriteInv
<1>4. CASE Cleared
  <2>1. /\ writer'.phase = "write" /\ writer'.at = 1 /\ writer'.render = writer.render
        /\ DOMAIN disk' = {} /\ UNCHANGED plan
    BY <1>4 DEF Cleared, Shape
  <2>2. Order' = Order
    BY <1>1, <2>1
  <2>3. 1..(1 - 1) = {} /\ ~(1 > Len(Order))
    BY <1>0
  <2> QED BY <2>1, <2>2, <2>3 DEF WriteInv
<1>5. CASE OpenFile
  <2>0. PICK content \in Contents(Current) :
          writer' = [writer EXCEPT !.phase = "close", !.content = content]
    BY <1>5 DEF OpenFile
  <2>1. /\ writer.phase = "write" /\ writer.at \in 1..Len(Order)
        /\ disk' = With(disk, Current, Torn) /\ UNCHANGED plan
    BY <1>0, <1>5 DEF OpenFile, Position
  <2>2. /\ writer'.phase = "close" /\ writer'.at = writer.at /\ writer'.run = writer.run
        /\ writer'.render = writer.render /\ writer'.content = content
    BY <2>0 DEF Shape
  <2>3. Order' = Order /\ subject' = subject /\ Current' = Current
    BY <1>1, <2>1, <2>2 DEF Current
  <2>4. DOMAIN disk = {Order[i] : i \in 1..(writer.at - 1)}
    BY <2>1 DEF WriteInv
  <2>5. /\ DOMAIN disk' = DOMAIN disk \cup {Current} /\ disk'[Current] = Torn
        /\ \A p \in DOMAIN disk \ {Current} : disk'[p] = disk[p]
    BY <2>1 DEF With
  <2>6. \A i \in 1..(writer.at - 1) : Order[i] \in DOMAIN disk \ {Current}
    BY <1>0, <1>d, <2>1, <2>4 DEF Current
  <2>7. \A i \in 1..(writer.at - 1) :
          Order[i] # Manifest => Good(Order[i], writer.run, disk'[Order[i]])
    BY <2>1, <2>5, <2>6 DEF WriteInv
  <2>8. IF Current = Manifest THEN content = ManifestOf(disk', subject, writer.run)
        ELSE Good(Current, writer.run, content)
    <3>1. CASE Current = Manifest
      <4>1. content = ManifestOf(disk, subject, writer.run)
        <5>1. Contents(Manifest) = {ManifestOf(disk, subject, writer.run)}
          BY DEF Contents, Manifest
        <5> QED BY <2>0, <3>1, <5>1
      <4>2. Relative(disk') = Relative(disk)
        BY <2>1, <3>1, RelativeOfWith
      <4> QED BY <3>1, <4>1, <4>2 DEF ManifestOf
    <3>2. CASE Current # Manifest
      <4>1. Current \in Paths
        BY <1>0, <2>1 DEF Current
      <4> QED BY <2>0, <3>2, <4>1, ContentsAre
    <3> QED BY <3>1, <3>2
  <2>9. ~(writer'.at > Len(Order))
    BY <1>0, <2>1, <2>2
  <2> QED BY <2>2, <2>3, <2>4, <2>5, <2>7, <2>8, <2>9 DEF WriteInv, Good
<1>6. CASE CloseFile
  <2>1. /\ writer.phase = "close" /\ writer.at \in 1..Len(Order)
        /\ disk' = With(disk, Current, writer.content) /\ UNCHANGED plan
    BY <1>0, <1>6 DEF CloseFile, Position
  <2>2. /\ writer'.phase = "write" /\ writer'.at = writer.at + 1 /\ writer'.run = writer.run
        /\ writer'.render = writer.render
    BY <1>6 DEF CloseFile, Shape
  <2>3. Order' = Order /\ subject' = subject
    BY <1>1, <2>1, <2>2
  <2>4. DOMAIN disk = {Order[i] : i \in 1..(writer.at - 1)} \cup {Current}
    BY <2>1 DEF WriteInv
  <2>5. /\ DOMAIN disk' = DOMAIN disk /\ disk'[Current] = writer.content
        /\ \A p \in DOMAIN disk \ {Current} : disk'[p] = disk[p]
    BY <2>1, <2>4 DEF With
  <2>6. \A i \in 1..(writer.at - 1) : Order[i] \in DOMAIN disk \ {Current}
    BY <1>0, <1>d, <2>1, <2>4 DEF Current
  <2>7. 1..(writer.at + 1 - 1) = (1..(writer.at - 1)) \cup {writer.at}
    BY <2>1
  <2>8. DOMAIN disk' = {Order[i] : i \in 1..(writer'.at - 1)}
    BY <2>2, <2>4, <2>5, <2>7 DEF Current
  <2>9. \A i \in 1..(writer'.at - 1) :
          Order[i] # Manifest => Good(Order[i], writer.run, disk'[Order[i]])
    <3>1. \A i \in 1..(writer.at - 1) :
            Order[i] # Manifest => Good(Order[i], writer.run, disk'[Order[i]])
      BY <2>1, <2>5, <2>6 DEF WriteInv
    <3>2. Current # Manifest => Good(Current, writer.run, disk'[Current])
      BY <2>1, <2>5 DEF WriteInv
    <3> QED BY <2>2, <2>7, <3>1, <3>2 DEF Current
  <2>10. writer'.at > Len(Order) => disk'[Manifest] = ManifestOf(disk', subject, writer.run)
    <3> SUFFICES ASSUME writer'.at > Len(Order)
                 PROVE  disk'[Manifest] = ManifestOf(disk', subject, writer.run)
      OBVIOUS
    <3>1. Current = Manifest
      <4>1. writer.at = Len(Order)
        BY <1>0, <2>1, <2>2
      <4> QED BY <1>0, <4>1 DEF Current
    <3>2. disk'[Manifest] = ManifestOf(disk, subject, writer.run)
      BY <2>1, <2>5, <3>1 DEF WriteInv
    <3>3. Relative(disk') = Relative(disk)
      BY <2>1, <3>1, RelativeOfWith
    <3> QED BY <3>2, <3>3 DEF ManifestOf
  <2> QED BY <2>2, <2>3, <2>8, <2>9, <2>10 DEF WriteInv, Good
<1>7. CASE (\E render \in BOOLEAN : StartWrite(render)) \/ Clear \/ Return \/ Stop
  <2>1. writer'.phase \in {"idle", "clear"}
    <3>1. ASSUME NEW render, StartWrite(render)
          PROVE  writer'.phase = "clear"
      <4>1. writer' = [phase |-> "clear", run |-> writer.run + 1, render |-> render, at |-> 0,
                      content |-> Torn]
        BY <3>1, StartWriteIs
      <4> QED BY <4>1
    <3>2. Clear => writer'.phase = "clear"
      BY DEF Clear
    <3>3. Return \/ Stop => writer'.phase = "idle"
      BY DEF Return, Stop, Shape
    <3> QED BY <1>7, <3>1, <3>2, <3>3
  <2> QED BY <1>3, <2>1
<1>8. CASE StartVerify \/ Verify
  <2>1. UNCHANGED <<disk, plan, writer>>
    BY <1>8 DEF StartVerify, Verify, ReadManifest, ListFiles, HashFile, Hashed, Read, Verified
  <2> QED BY <1>2, <2>1
<1>9. CASE Edit
  BY <1>3, <1>9, EditIs
<1> QED BY <1>4, <1>5, <1>6, <1>7, <1>8, <1>9 DEF Next, Write

-----------------------------------------------------------------------------
(* What a manifest on disk says of the files beside it.                   *)

\* A manifest that can be read is on disk.
Sealed(dir) == Manifest \in DOMAIN dir /\ dir[Manifest] # Torn

\* A manifest as a build of this plan makes it.
Made(m) ==
  /\ m = [path |-> Manifest, of |-> subject, run |-> m.run, admitted |-> subject \in Admitted,
          required |-> Required(subject \in Admitted), listed |-> m.listed, anew |-> FALSE]
  /\ m.run \in 1..writer.run
  /\ m.listed = [p \in DOMAIN m.listed |-> m.listed[p]]
  /\ \E render \in BOOLEAN :
       DOMAIN m.listed = ToSet(WriteOrder(subject, render)) \ {Manifest}
  /\ \A p \in DOMAIN m.listed : Good(p, m.run, m.listed[p])

\* Where nobody edits the directory, the files beside a manifest are the ones it
\* lists, all of them until the next build clears, and a rejected package has no media.
DiskInv ==
  edits = 0 =>
    /\ Sealed(disk) =>
         LET m == disk[Manifest]
         IN  /\ Made(m)
             /\ \A p \in DOMAIN Relative(disk) : p \in DOMAIN m.listed /\ disk[p] = m.listed[p]
             /\ m.run = writer.run => DOMAIN Relative(disk) = DOMAIN m.listed
             /\ writer.phase = "clear" => m.run # writer.run
    /\ subject \notin Admitted =>
         DOMAIN disk \cap (ToSet(Documents) \cup ToSet(Media)) = {}

\* The manifest of a directory the writer has filled is a made one.
LEMMA MadeManifest ==
  ASSUME NEW dir, NEW run, NEW render \in BOOLEAN,
         run \in 1..writer.run,
         DOMAIN dir = ToSet(WriteOrder(subject, render)),
         \A p \in DOMAIN dir \ {Manifest} : Good(p, run, dir[p])
  PROVE  /\ Made(ManifestOf(dir, subject, run))
         /\ ManifestOf(dir, subject, run).run = run
         /\ ManifestOf(dir, subject, run).listed = Relative(dir)
<1>1. PICK m : m = ManifestOf(dir, subject, run)
  OBVIOUS
<1>2. PICK a : a = (subject \in Admitted)
  OBVIOUS
<1>3. PICK no : no = FALSE
  OBVIOUS
<1>4. m = [path |-> Manifest, of |-> subject, run |-> run, admitted |-> a,
          required |-> Required(a), listed |-> Relative(dir), anew |-> no]
  BY <1>1, <1>2, <1>3, Zenon DEF ManifestOf
<1>5. m.run = run /\ m.listed = Relative(dir)
  BY <1>4
<1>6. m = [path |-> Manifest, of |-> subject, run |-> m.run, admitted |-> a,
          required |-> Required(a), listed |-> m.listed, anew |-> no]
  BY <1>4, <1>5, Zenon
<1>7. m = [path |-> Manifest, of |-> subject, run |-> m.run, admitted |-> subject \in Admitted,
          required |-> Required(subject \in Admitted), listed |-> m.listed, anew |-> FALSE]
  BY <1>2, <1>3, <1>6, Zenon
<1>8. "media/proof-manifest.json" \notin ToSet(WriteOrder(subject, render))
  <2>1. ToSet(WriteOrder(subject, render)) =
          ToSet(Records) \cup ToSet(Middle(subject, render)) \cup {Manifest}
    BY OrderIs
  <2>2. "media/proof-manifest.json" \notin ToSet(Middle(subject, render))
    BY MiddleIs
  <2> QED BY <2>1, <2>2, RecordsAre DEF Manifest
<1>9. /\ DOMAIN m.listed = ToSet(WriteOrder(subject, render)) \ {Manifest}
      /\ m.listed = [p \in DOMAIN m.listed |-> m.listed[p]]
      /\ \A p \in DOMAIN m.listed : m.listed[p] = dir[p]
  BY <1>5, <1>8 DEF Relative
<1>10. Made(m)
  BY <1>5, <1>7, <1>9 DEF Made
<1> QED BY <1>1, <1>5, <1>10

\* A place before another is a place of the order and not the other one.
LEMMA BelowIs ==
  ASSUME NEW n \in Nat, NEW k \in 1..n, NEW i \in 1..(k - 1)
  PROVE  i \in 1..n /\ i # n
  OBVIOUS

\* One step keeps what a manifest on disk says of the files beside it.
LEMMA DiskStep ==
  ASSUME TypeInv, TypeInv', WriteInv, WriteInv', DiskInv, Next
  PROVE  DiskInv'
<1> USE DEF TypeInv
<1>0. /\ Order \in Seq(Paths) /\ Len(Order) \in Nat /\ Len(Order) > 1
      /\ DOMAIN Order = 1..Len(Order) /\ Distinct(Order)
      /\ Order[Len(Order)] = Manifest /\ writer.at \in Nat
      /\ \A i \in 1..Len(Order) : Order[i] \in Paths
      /\ writer.run \in Nat
  BY CurrentOrder, PlanIs
<1>d. \A i, j \in 1..Len(Order) : Order[i] = Order[j] => i = j
  BY <1>0 DEF Distinct
<1>1. ASSUME UNCHANGED <<disk, plan, edits>>, writer'.run = writer.run,
             writer'.phase # "clear" \/ writer.phase = "clear"
      PROVE  DiskInv'
  BY <1>1 DEF DiskInv, Made, Good, subject
<1>2. ASSUME NEW render, StartWrite(render)
      PROVE  DiskInv'
  <2>1. /\ UNCHANGED <<disk, plan, edits>>
        /\ writer' = [phase |-> "clear", run |-> writer.run + 1, render |-> render, at |-> 0,
                      content |-> Torn]
    BY <1>2, StartWriteIs
  <2>2. writer'.run = writer.run + 1
    BY <2>1
  <2>3. ASSUME NEW m, Made(m)
        PROVE  Made(m)' /\ m.run # writer'.run /\ m.run # writer.run + 1
    BY <1>0, <2>1, <2>2, <2>3 DEF Made, Good, subject
  <2> QED BY <2>1, <2>2, <2>3 DEF DiskInv, subject
<1>3. CASE Clear
  <2>1. PICK path \in DOMAIN disk : disk' = Without(disk, path)
    BY <1>3 DEF Clear
  <2>2. UNCHANGED <<plan, writer, edits>>
    BY <1>3 DEF Clear
  <2>3. /\ DOMAIN disk' \subseteq DOMAIN disk
        /\ \A p \in DOMAIN disk' : disk'[p] = disk[p]
    BY <2>1 DEF Without
  <2>4. /\ DOMAIN Relative(disk') \subseteq DOMAIN Relative(disk)
        /\ DOMAIN Relative(disk') \subseteq DOMAIN disk'
    BY <2>3 DEF Relative
  <2>5. writer.phase = "clear"
    BY <1>3 DEF Clear
  <2>6. ASSUME edits = 0, Sealed(disk')
        PROVE  /\ Made(disk'[Manifest])
               /\ \A p \in DOMAIN Relative(disk') :
                    /\ p \in DOMAIN disk'[Manifest].listed
                    /\ disk'[p] = disk'[Manifest].listed[p]
               /\ disk'[Manifest].run # writer.run
    <3>1. disk'[Manifest] = disk[Manifest] /\ Sealed(disk)
      BY <2>3, <2>6 DEF Sealed
    <3> QED BY <2>3, <2>4, <2>5, <2>6, <3>1 DEF DiskInv
  <2>7. edits = 0 /\ subject \notin Admitted =>
          DOMAIN disk' \cap (ToSet(Documents) \cup ToSet(Media)) = {}
    BY <2>3 DEF DiskInv
  <2> QED BY <2>2, <2>6, <2>7 DEF DiskInv, Made, Good, subject
<1>4. CASE Cleared
  <2>1. /\ UNCHANGED <<disk, plan, edits>> /\ writer'.run = writer.run
        /\ writer'.phase # "clear"
    BY <1>4 DEF Cleared, Shape
  <2> QED BY <1>1, <2>1
<1>o. ASSUME UNCHANGED <<plan, edits>>, writer'.render = writer.render, writer'.run = writer.run,
             writer'.phase # "clear",
             DOMAIN disk' \subseteq DOMAIN disk \cup {Current}, writer.at \in 1..Len(Order),
             DOMAIN disk \subseteq {Order[i] : i \in 1..writer.at},
             Sealed(disk') => writer'.phase = "write" /\ writer'.at = Len(Order) + 1
      PROVE  DiskInv'
  <2>1. Order' = Order /\ subject' = subject
    BY <1>o DEF Order, subject
  <2>2. ASSUME subject \notin Admitted, edits = 0
        PROVE  DOMAIN disk' \cap (ToSet(Documents) \cup ToSet(Media)) = {}
    <3>1. DOMAIN disk' \subseteq ToSet(Order)
      BY <1>0, <1>o DEF ToSet, Current
    <3>2. PICK render \in BOOLEAN : render = writer.render
      BY DEF Shape
    <3>3. ToSet(Order) \cap (ToSet(Documents) \cup ToSet(Media)) = {}
      <4>1. ToSet(Order) = ToSet(Records) \cup ToSet(Middle(subject, writer.render)) \cup {Manifest}
        BY CurrentOrder
      <4>2. ToSet(Middle(subject, render)) = {"NOT_ADMITTED.md"}
        BY <2>2, MiddleIs
      <4>3. /\ ToSet(Documents) = {"README.md", "listing-assets.json"}
            /\ ToSet(Media) = {"media/slides", "demo.mp4", "media/thumbnail.svg", "thumbnail.png"}
        BY DEF ToSet, Documents, Media
      <4> QED BY <3>2, <4>1, <4>2, <4>3, RecordsAre DEF Manifest
    <3> QED BY <3>1, <3>3
  <2>3. ASSUME Sealed(disk'), edits = 0
        PROVE  /\ Made(disk'[Manifest])
               /\ disk'[Manifest].run = writer.run /\ disk'[Manifest].listed = Relative(disk')
    <3>1. /\ DOMAIN disk' = {Order[i] : i \in 1..Len(Order)}
          /\ \A i \in 1..Len(Order) :
                Order[i] # Manifest => Good(Order[i], writer.run, disk'[Order[i]])
          /\ disk'[Manifest] = ManifestOf(disk', subject, writer.run)
      <4>1. writer'.at - 1 = Len(Order) /\ writer'.at > Len(Order)
        BY <1>0, <1>o, <2>3
      <4> QED BY <1>o, <2>1, <2>3, <4>1 DEF WriteInv, Good
    <3>2. DOMAIN disk' = ToSet(Order)
      BY <1>0, <3>1 DEF ToSet
    <3>3. \A p \in DOMAIN disk' \ {Manifest} : Good(p, writer.run, disk'[p])
      BY <3>1
    <3>4. writer.run \in 1..writer.run
      <4>1. writer.run >= 1
        BY <1>o, <2>3 DEF Position
      <4> QED BY <1>0, <4>1
    <3>5. PICK render \in BOOLEAN : render = writer.render
      BY DEF Shape
    <3>6. Order = WriteOrder(subject, render)
      BY <3>5 DEF Order
    <3> QED BY <3>1, <3>2, <3>3, <3>4, <3>6, MadeManifest
  <2>4. \A p \in DOMAIN Relative(disk') : disk'[p] = Relative(disk')[p]
    BY DEF Relative
  <2>5. ASSUME NEW m, Made(m) PROVE Made(m)'
    BY <2>1, <2>5, <1>o DEF Made, Good
  <2> QED BY <1>o, <2>1, <2>2, <2>3, <2>4, <2>5 DEF DiskInv
<1>5. CASE OpenFile
  <2>1. PICK content : writer' = [writer EXCEPT !.phase = "close", !.content = content]
    BY <1>5 DEF OpenFile
  <2>2. /\ writer.phase = "write" /\ writer.at \in 1..Len(Order)
        /\ disk' = With(disk, Current, Torn) /\ UNCHANGED <<plan, edits>>
    BY <1>0, <1>5 DEF OpenFile, Position
  <2>3. /\ writer'.phase = "close" /\ writer'.run = writer.run /\ writer'.render = writer.render
    BY <2>1 DEF Shape
  <2>4. DOMAIN disk' = DOMAIN disk \cup {Current} /\ disk'[Current] = Torn
    BY <2>2 DEF With
  <2>5. DOMAIN disk = {Order[i] : i \in 1..(writer.at - 1)}
    BY <2>2 DEF WriteInv
  <2>6. ~Sealed(disk')
    <3>1. Manifest \notin DOMAIN disk
      <4>1. \A i \in 1..(writer.at - 1) : i \in 1..Len(Order) /\ i # Len(Order)
        BY <1>0, <2>2, BelowIs
      <4>2. Len(Order) \in 1..Len(Order)
        BY <1>0
      <4> QED BY <1>0, <1>d, <2>5, <4>1, <4>2
    <3> QED BY <2>4, <3>1 DEF Sealed
  <2>7. DOMAIN disk \subseteq {Order[i] : i \in 1..writer.at}
    BY <2>2, <2>5
  <2> QED BY <1>o, <2>2, <2>3, <2>4, <2>6, <2>7
<1>6. CASE CloseFile
  <2>2. /\ writer.phase = "close" /\ writer.at \in 1..Len(Order)
        /\ disk' = With(disk, Current, writer.content) /\ UNCHANGED <<plan, edits>>
    BY <1>0, <1>6 DEF CloseFile, Position
  <2>3. /\ writer'.phase = "write" /\ writer'.run = writer.run /\ writer'.render = writer.render
        /\ writer'.at = writer.at + 1
    BY <1>6 DEF CloseFile, Shape
  <2>4. DOMAIN disk' = DOMAIN disk \cup {Current}
    BY <2>2 DEF With
  <2>5. DOMAIN disk = {Order[i] : i \in 1..(writer.at - 1)} \cup {Current}
    BY <2>2 DEF WriteInv
  <2>6. ASSUME Sealed(disk') PROVE writer.at = Len(Order)
    <3>1. Manifest \in DOMAIN disk
      BY <2>4, <2>5, <2>6 DEF Sealed
    <3>2. PICK i \in 1..writer.at : Manifest = Order[i]
      BY <2>2, <2>5, <3>1 DEF Current
    <3>3. i \in 1..Len(Order) /\ Len(Order) \in 1..Len(Order)
      BY <1>0, <2>2
    <3>4. i = Len(Order)
      BY <1>0, <1>d, <3>2, <3>3
    <3> QED BY <1>0, <2>2, <3>4
  <2>7. DOMAIN disk \subseteq {Order[i] : i \in 1..writer.at}
    BY <2>2, <2>5 DEF Current
  <2> QED BY <1>o, <2>2, <2>3, <2>4, <2>6, <2>7
<1>7. CASE Return \/ Stop
  <2>1. /\ UNCHANGED <<disk, plan, edits>> /\ writer'.run = writer.run
        /\ writer'.phase # "clear"
    BY <1>7 DEF Return, Stop, Shape
  <2> QED BY <1>1, <2>1
<1>8. CASE StartVerify \/ Verify
  <2>1. UNCHANGED <<disk, plan, writer, edits>>
    BY <1>8 DEF StartVerify, Verify, ReadManifest, ListFiles, HashFile, Hashed, Read, Verified
  <2> QED BY <1>1, <2>1
<1>9. CASE Edit
  BY <1>9, EditIs DEF DiskInv
<1> QED BY <1>2, <1>3, <1>4, <1>5, <1>6, <1>7, <1>8, <1>9 DEF Next, Write

\* What holds of the writer and the directory.
WriterInv == TypeInv /\ WriteInv /\ DiskInv

\* It holds at first.
LEMMA WriterInit == Init => WriterInv
<1> SUFFICES ASSUME Init PROVE WriterInv
  OBVIOUS
<1>1. WriteInv
  BY DEF Init, Idle, WriteInv
<1>2. DiskInv
  BY DEF Init, DiskInv, Sealed
<1> QED BY <1>1, <1>2, TypeInit DEF WriterInv

\* One step keeps it.
LEMMA WriterStep == WriterInv /\ [Next]_vars => WriterInv'
<1> SUFFICES ASSUME WriterInv, [Next]_vars PROVE WriterInv'
  OBVIOUS
<1> USE DEF WriterInv
<1>1. TypeInv'
  BY TypeStep
<1>2. CASE Next
  BY <1>1, <1>2, WriteStep, DiskStep
<1>3. CASE UNCHANGED vars
  <2>1. /\ UNCHANGED <<disk, plan, writer, edits>>
        /\ Order' = Order /\ Current' = Current /\ subject' = subject
    BY <1>3 DEF vars, Order, Current, subject
  <2>2. WriteInv'
    BY <2>1 DEF WriteInv, Good
  <2>3. DiskInv'
    BY <2>1 DEF DiskInv, Made, Good
  <2> QED BY <1>1, <2>2, <2>3
<1> QED BY <1>2, <1>3

\* write_package writes the manifest last, so a manifest found in a directory nobody
\* edits is never contradicted by a file beside it, at any step of any number of builds.
THEOREM ManifestHolds == Spec => []ManifestIsNotContradicted
<1>1. WriterInv => ManifestIsNotContradicted
  BY DEF WriterInv, DiskInv, ManifestIsNotContradicted, Sealed
<1> QED BY <1>1, WriterInit, WriterStep, PTL DEF Spec

-----------------------------------------------------------------------------
(* A writer and a verifier on one directory.                              *)

\* The file that names the build is not, or not any more, the one this manifest lists.
Replaced(m) == "proof.json" \in DOMAIN disk => disk["proof.json"] # m.listed["proof.json"]
\* A file this manifest lists is not on disk.
Incomplete(m) == \E p \in DOMAIN m.listed : p \notin DOMAIN disk

\* A verifier that runs beside a writer and has not seen a whole package holds the
\* manifest of an earlier build, and a file that tells is missing or still to be hashed.
RaceInv ==
  edits = 0 =>
    /\ verifier.phase \in {"list", "hash", "read"} => Made(verifier.manifest)
    /\ verifier.phase = "list" /\ ~verifier.whole =>
         /\ verifier.manifest.run < writer.run
         /\ Replaced(verifier.manifest) \/ Incomplete(verifier.manifest)
    /\ verifier.phase = "hash" /\ ~verifier.whole =>
         /\ verifier.manifest.run < writer.run
         /\ Replaced(verifier.manifest) /\ "proof.json" \in verifier.left
    /\ verifier.phase = "read" => verifier.whole /\ subject \in Admitted
    /\ verifier.verdict = "verified" => verifier.whole /\ subject \in Admitted

\* What a made manifest says of its build.
LEMMA MadeIs ==
  ASSUME NEW m, Made(m), TypeInv
  PROVE  /\ "proof.json" \in DOMAIN m.listed
         /\ m.listed["proof.json"] = File("proof.json", subject, m.run)
         /\ m.admitted => subject \in Admitted
         /\ m.run \in Nat /\ writer.run \in Nat /\ m.run \in 1..writer.run
<1>1. PICK render \in BOOLEAN :
        DOMAIN m.listed = ToSet(WriteOrder(subject, render)) \ {Manifest}
  BY DEF Made
<1>2. "proof.json" \in DOMAIN m.listed
  <2>1. ToSet(WriteOrder(subject, render)) =
          ToSet(Records) \cup ToSet(Middle(subject, render)) \cup {Manifest}
    BY OrderIs
  <2> QED BY <1>1, <2>1, RecordsAre DEF Manifest
<1>3. m.listed["proof.json"] = File("proof.json", subject, m.run)
  BY <1>2 DEF Made, Good, Versions
<1>4. m.admitted => subject \in Admitted
  <2>1. PICK a : a = (subject \in Admitted)
    OBVIOUS
  <2>2. PICK no : no = FALSE
    OBVIOUS
  <2>3. m = [path |-> Manifest, of |-> subject, run |-> m.run, admitted |-> a,
            required |-> Required(a), listed |-> m.listed, anew |-> no]
    BY <2>1, <2>2, Zenon DEF Made
  <2>4. m.admitted = a
    BY <2>3
  <2> QED BY <2>1, <2>4
<1>5. m.run \in Nat /\ writer.run \in Nat /\ m.run \in 1..writer.run
  BY PlanIs DEF Made, TypeInv
<1> QED BY <1>2, <1>3, <1>4, <1>5

\* A made manifest stays one while builds go on.
LEMMA MadeStays ==
  ASSUME NEW m, Made(m), TypeInv, UNCHANGED plan,
         writer'.run \in Nat, writer'.run >= writer.run
  PROVE  Made(m)'
<1>1. m.run \in 1..writer'.run
  BY MadeIs
<1>2. subject' = subject
  BY DEF subject
<1> QED BY <1>1, <1>2 DEF Made, Good

\* The proofs of two builds differ.
LEMMA FilesDiffer ==
  ASSUME NEW run, NEW other, run # other
  PROVE  File("proof.json", subject, run) # File("proof.json", subject, other)
  BY DEF File, Dated

\* Where a later build is written, the file that names the build is not the listed one.
LEMMA LaterReplaces ==
  ASSUME TypeInv, TypeInv', WriteInv', OpenFile \/ CloseFile, UNCHANGED plan,
         NEW m, m.listed["proof.json"] = File("proof.json", subject, m.run), m.run # writer.run
  PROVE  Replaced(m)'
<1> USE DEF TypeInv
<1>0. /\ writer'.phase \in {"write", "close"} /\ writer'.run = writer.run
      /\ writer'.render = writer.render
  BY DEF OpenFile, CloseFile, Shape
<1>1. Order' = Order /\ subject' = subject
  BY <1>0 DEF Order, subject
<1>2. /\ Len(Order) \in Nat /\ Len(Order) > 1 /\ Order[1] = "proof.json"
  BY CurrentOrder
<1>3. writer'.at >= 1 /\ writer'.at \in Nat
  BY <1>0, <1>1, <1>2 DEF Position, TypeOK
<1>4. CASE writer'.at = 1
  <2>1. 1..(writer'.at - 1) = {}
    BY <1>4
  <2>2. CASE writer'.phase = "write"
    <3>1. DOMAIN disk' = {}
      BY <2>1, <2>2 DEF WriteInv
    <3> QED BY <3>1 DEF Replaced
  <2>3. CASE writer'.phase = "close"
    <3>1. Current' = "proof.json"
      BY <1>1, <1>2, <1>4 DEF Current
    <3>2. disk'["proof.json"] = Torn
      BY <2>3, <3>1 DEF WriteInv
    <3>3. File("proof.json", subject, m.run) # Torn
      BY DEF File, Torn
    <3> QED BY <3>2, <3>3 DEF Replaced
  <2> QED BY <1>0, <2>2, <2>3
<1>5. CASE writer'.at > 1
  <2>1. 1 \in 1..(writer'.at - 1)
    BY <1>3, <1>5
  <2>2. Order'[1] # Manifest => Good(Order[1], writer.run, disk[Order[1]])'
    BY <1>0, <2>1 DEF WriteInv
  <2>3. disk'["proof.json"] = File("proof.json", subject, writer.run)
    BY <1>0, <1>1, <1>2, <2>2 DEF Good, Versions, Manifest
  <2> QED BY <2>3, FilesDiffer DEF Replaced
<1> QED BY <1>3, <1>4, <1>5

\* What a step of the writer leaves of it.
LEMMA LateStays ==
  ASSUME WriterInv, WriterInv', NEW m, Made(m), m.run < writer.run,
         UNCHANGED <<plan, edits>>,
         (\E render : StartWrite(render)) \/ Write \/ Stop
  PROVE  /\ m.run < writer'.run /\ writer'.run \in Nat /\ writer'.run >= writer.run
         /\ Replaced(m) => Replaced(m)'
         /\ Incomplete(m) => (Replaced(m) \/ Incomplete(m))'
<1> USE DEF WriterInv, TypeInv
<1>0. m.run \in Nat /\ writer.run \in Nat /\ m.listed["proof.json"] = File("proof.json", subject, m.run)
  BY MadeIs
<1>1. ASSUME NEW render, StartWrite(render)
      PROVE  UNCHANGED disk /\ writer'.run = writer.run + 1
  <2>1. /\ UNCHANGED disk
        /\ writer' = [phase |-> "clear", run |-> writer.run + 1, render |-> render, at |-> 0,
                      content |-> Torn]
    BY <1>1, StartWriteIs
  <2> QED BY <2>1
<1>2. CASE Clear
  <2>1. PICK path \in DOMAIN disk : disk' = Without(disk, path)
    BY <1>2 DEF Clear
  <2>2. UNCHANGED writer
    BY <1>2 DEF Clear
  <2> QED BY <1>0, <2>1, <2>2 DEF Without, Replaced, Incomplete
<1>3. CASE OpenFile \/ CloseFile
  <2>1. writer'.run = writer.run
    BY <1>3 DEF OpenFile, CloseFile, Shape
  <2>2. Replaced(m)'
    BY <1>0, <1>3, LaterReplaces
  <2> QED BY <1>0, <2>1, <2>2
<1>4. CASE Cleared \/ Return \/ Stop
  <2>1. UNCHANGED disk /\ writer'.run = writer.run
    BY <1>4 DEF Cleared, Return, Stop, Shape
  <2> QED BY <1>0, <2>1 DEF Replaced, Incomplete
<1>5. ASSUME UNCHANGED disk, writer'.run = writer.run + 1
      PROVE  /\ m.run < writer'.run /\ writer'.run \in Nat /\ writer'.run >= writer.run
             /\ Replaced(m) => Replaced(m)'
             /\ Incomplete(m) => (Replaced(m) \/ Incomplete(m))'
  BY <1>0, <1>5 DEF Replaced, Incomplete
<1> QED BY <1>1, <1>2, <1>3, <1>4, <1>5 DEF Write

\* A disturbed verifier keeps what it has read.
LEMMA DisturbKeeps ==
  ASSUME TypeInv, Disturb
  PROVE  \/ verifier' = Resting
         \/ /\ UNCHANGED <<verifier.phase, verifier.manifest, verifier.left, verifier.whole,
                            verifier.verdict>>
            /\ verifier.phase # "idle"
  BY DEF TypeInv, Shape, Disturb

\* A step of the writer keeps the race.
LEMMA WriterRace ==
  ASSUME WriterInv, WriterInv', RaceInv, UNCHANGED <<plan, edits>>,
         (\E render : StartWrite(render)) \/ Write \/ Stop
  PROVE  RaceInv'
<1>1. subject' = subject
  BY DEF subject
<1>2. \/ verifier' = Resting
      \/ UNCHANGED <<verifier.phase, verifier.manifest, verifier.left, verifier.whole,
                     verifier.verdict>>
  <2>1. CASE UNCHANGED verifier
    BY <2>1
  <2>2. CASE Disturb
    BY <2>2, DisturbKeeps DEF WriterInv
  <2>3. UNCHANGED verifier \/ Disturb
    BY StartWriteIs DEF WriterInv, Write, Clear, Cleared, OpenFile, CloseFile, Return, Stop
  <2> QED BY <2>1, <2>2, <2>3
<1>3. CASE verifier' = Resting
  BY <1>3 DEF RaceInv, Resting
<1>4. CASE UNCHANGED <<verifier.phase, verifier.manifest, verifier.left, verifier.whole,
                       verifier.verdict>>
  <2> SUFFICES ASSUME edits = 0 PROVE RaceInv'
    BY DEF RaceInv
  <2>0. PICK m : m = verifier.manifest
    OBVIOUS
  <2>1. writer'.run \in Nat /\ writer.run \in Nat /\ writer'.run >= writer.run
    <3>1. writer'.run \in Nat /\ writer.run \in Nat
      BY PlanIs DEF WriterInv, TypeInv, TypeOK
    <3>2. ASSUME NEW render, StartWrite(render) PROVE writer'.run = writer.run + 1
      <4>1. writer' = [phase |-> "clear", run |-> writer.run + 1, render |-> render, at |-> 0,
                      content |-> Torn]
        BY <3>2, StartWriteIs DEF WriterInv
      <4> QED BY <4>1
    <3>3. Write \/ Stop => writer'.run = writer.run
      BY DEF WriterInv, TypeInv, Shape, Write, Clear, Cleared, OpenFile, CloseFile, Return, Stop
    <3> QED BY <3>1, <3>2, <3>3
  <2>2. verifier.phase \in {"list", "hash", "read"} => Made(m)'
    BY <2>0, <2>1, MadeStays DEF RaceInv, WriterInv
  <2>3. ASSUME verifier.phase = "list", ~verifier.whole
        PROVE  m.run < writer'.run /\ (Replaced(m) \/ Incomplete(m))'
    <3>1. Made(m) /\ m.run < writer.run /\ (Replaced(m) \/ Incomplete(m))
      BY <2>0, <2>3 DEF RaceInv
    <3> QED BY <3>1, LateStays
  <2>4. ASSUME verifier.phase = "hash", ~verifier.whole
        PROVE  m.run < writer'.run /\ Replaced(m)' /\ "proof.json" \in verifier.left
    <3>1. Made(m) /\ m.run < writer.run /\ Replaced(m) /\ "proof.json" \in verifier.left
      BY <2>0, <2>4 DEF RaceInv
    <3> QED BY <3>1, LateStays
  <2> QED BY <1>1, <1>4, <2>0, <2>2, <2>3, <2>4 DEF RaceInv, Made, Replaced, Incomplete
<1> QED BY <1>2, <1>3, <1>4

\* A directory whose manifest lists only files that are there is a whole package.
LEMMA WholeIs ==
  ASSUME WriterInv, edits = 0, Sealed(disk), ~Incomplete(disk[Manifest])
  PROVE  \E render \in BOOLEAN : WholeOf(disk, subject, disk[Manifest].run, render)
<1> DEFINE m == disk[Manifest]
<1>1. /\ Made(m)
      /\ \A p \in DOMAIN Relative(disk) : p \in DOMAIN m.listed /\ disk[p] = m.listed[p]
  BY DEF WriterInv, DiskInv
<1>2. PICK render \in BOOLEAN :
        DOMAIN m.listed = ToSet(WriteOrder(subject, render)) \ {Manifest}
  BY <1>1 DEF Made
<1>3. "media/proof-manifest.json" \notin DOMAIN m.listed
  <2>1. ToSet(WriteOrder(subject, render)) =
          ToSet(Records) \cup ToSet(Middle(subject, render)) \cup {Manifest}
    BY OrderIs
  <2>2. "media/proof-manifest.json" \notin ToSet(Middle(subject, render))
    BY MiddleIs
  <2> QED BY <1>2, <2>1, <2>2, RecordsAre DEF Manifest
<1>4. DOMAIN m.listed \subseteq DOMAIN Relative(disk)
  BY <1>2, <1>3 DEF Incomplete, Relative
<1>5. DOMAIN Relative(disk) = DOMAIN m.listed
  BY <1>1, <1>4
<1>6. Relative(disk) = m.listed
  <2>1. m.listed = [p \in DOMAIN m.listed |-> m.listed[p]]
    BY <1>1 DEF Made
  <2>2. Relative(disk) = [p \in DOMAIN Relative(disk) |-> disk[p]]
    BY DEF Relative
  <2> QED BY <1>1, <1>5, <2>1, <2>2
<1>7. m = ManifestOf(disk, subject, m.run)
  <2>1. m = [path |-> Manifest, of |-> subject, run |-> m.run,
            admitted |-> subject \in Admitted, required |-> Required(subject \in Admitted),
            listed |-> m.listed, anew |-> FALSE]
    BY <1>1 DEF Made
  <2> QED BY <1>6, <2>1, Zenon DEF ManifestOf
<1>8. \A p \in DOMAIN m.listed : Good(p, m.run, disk[p])
  BY <1>1, <1>5 DEF Made
<1>9. WholeOf(disk, subject, m.run, render)
  BY <1>2, <1>5, <1>7, <1>8 DEF WholeOf, Sealed, Good
<1> QED BY <1>9

\* A step of the verifier keeps the race.
LEMMA VerifierRace ==
  ASSUME WriterInv, RaceInv, UNCHANGED <<disk, plan, writer, edits>>, StartVerify \/ Verify
  PROVE  RaceInv'
<1> USE DEF WriterInv, TypeInv
<1> SUFFICES ASSUME edits = 0 PROVE RaceInv'
  BY DEF RaceInv
<1>1. /\ subject' = subject
      /\ \A m : /\ Made(m)' <=> Made(m)
                /\ Replaced(m)' <=> Replaced(m)
                /\ Incomplete(m)' <=> Incomplete(m)
  BY DEF subject, Made, Good, Replaced, Incomplete
<1>2. ASSUME Verdict("refused") PROVE RaceInv'
  <2>1. verifier'.phase = "idle" /\ verifier'.verdict = "refused"
    BY <1>2, VerdictIs
  <2> QED BY <2>1 DEF RaceInv
<1>3. CASE StartVerify
  <2>1. verifier'.phase = "manifest" /\ verifier'.verdict = "none"
    BY <1>3 DEF StartVerify, Resting
  <2> QED BY <2>1 DEF RaceInv
<1>4. CASE ReadManifest
  <2>1. CASE Sealed(disk)
    <3>1. PICK whole :
            /\ whole = (\E render \in BOOLEAN :
                           WholeOf(disk, subject, disk[Manifest].run, render))
            /\ verifier' = [verifier EXCEPT !.phase = "list", !.manifest = disk[Manifest],
                                            !.whole = whole]
      BY <1>4, <2>1 DEF ReadManifest, Sealed
    <3>2. /\ verifier'.phase = "list" /\ verifier'.manifest = disk[Manifest]
          /\ verifier'.whole = whole /\ verifier'.verdict = verifier.verdict
      BY <3>1 DEF Shape
    <3>3. verifier.verdict = "none"
      BY <1>4 DEF ReadManifest, TypeOK
    <3>4. Made(disk[Manifest])
      BY <2>1 DEF DiskInv
    <3>5. ASSUME ~whole
          PROVE  Incomplete(disk[Manifest]) /\ disk[Manifest].run < writer.run
      <4>1. Incomplete(disk[Manifest])
        BY <2>1, <3>1, <3>5, WholeIs
      <4>2. disk[Manifest].run # writer.run
        <5>1. DOMAIN Relative(disk) \subseteq DOMAIN disk
          BY DEF Relative
        <5> QED BY <2>1, <4>1, <5>1 DEF DiskInv, Incomplete
      <4>3. disk[Manifest].run \in Nat /\ disk[Manifest].run \in 1..writer.run /\ writer.run \in Nat
        BY <3>4, MadeIs
      <4> QED BY <4>1, <4>2, <4>3
    <3> QED BY <1>1, <3>2, <3>3, <3>4, <3>5 DEF RaceInv
  <2>2. CASE ~Sealed(disk)
    BY <1>2, <1>4, <2>2 DEF ReadManifest, Sealed
  <2> QED BY <2>1, <2>2
<1>5. CASE ListFiles
  <2>1. CASE Complete(verifier.manifest, disk)
    <3>1. /\ verifier.phase = "list"
          /\ verifier' = [verifier EXCEPT !.phase = "hash",
                                          !.left = DOMAIN verifier.manifest.listed]
      BY <1>5, <2>1 DEF ListFiles
    <3>2. /\ verifier'.phase = "hash" /\ verifier'.manifest = verifier.manifest
          /\ verifier'.left = DOMAIN verifier.manifest.listed
          /\ verifier'.whole = verifier.whole /\ verifier'.verdict = verifier.verdict
      BY <3>1 DEF Shape
    <3>3. ~Incomplete(verifier.manifest)
      <4>1. DOMAIN Relative(disk) \subseteq DOMAIN disk
        BY DEF Relative
      <4> QED BY <2>1, <4>1 DEF Complete, Incomplete
    <3>4. Made(verifier.manifest) /\ "proof.json" \in DOMAIN verifier.manifest.listed
      BY <3>1, MadeIs DEF RaceInv
    <3> QED BY <1>1, <3>1, <3>2, <3>3, <3>4 DEF RaceInv
  <2>2. CASE ~Complete(verifier.manifest, disk)
    BY <1>2, <1>5, <2>2 DEF ListFiles
  <2> QED BY <2>1, <2>2
<1>6. CASE HashFile
  <2>1. PICK path \in verifier.left :
          \/ /\ Matches(verifier.manifest, path)
             /\ verifier' = [verifier EXCEPT !.left = @ \ {path}]
          \/ Verdict("refused")
    BY <1>6 DEF HashFile
  <2>2. CASE /\ Matches(verifier.manifest, path)
             /\ verifier' = [verifier EXCEPT !.left = @ \ {path}]
    <3>1. verifier.phase = "hash"
      BY <1>6 DEF HashFile
    <3>2. /\ verifier'.phase = "hash" /\ verifier'.manifest = verifier.manifest
          /\ verifier'.left = verifier.left \ {path}
          /\ verifier'.whole = verifier.whole /\ verifier'.verdict = verifier.verdict
      BY <2>2, <3>1 DEF Shape
    <3>3. Replaced(verifier.manifest) => path # "proof.json"
      BY <2>2 DEF Replaced, Matches
    <3> QED BY <1>1, <3>1, <3>2, <3>3 DEF RaceInv
  <2> QED BY <1>2, <2>1, <2>2
<1>7. CASE Hashed
  <2>1. CASE verifier.manifest.admitted
    <3>1. /\ verifier.phase = "hash" /\ verifier.left = {}
          /\ verifier' = [verifier EXCEPT !.phase = "read", !.at = 1]
      BY <1>7, <2>1 DEF Hashed
    <3>2. /\ verifier'.phase = "read" /\ verifier'.manifest = verifier.manifest
          /\ verifier'.whole = verifier.whole /\ verifier'.verdict = verifier.verdict
      BY <3>1 DEF Shape
    <3>3. verifier.whole /\ Made(verifier.manifest)
      BY <3>1 DEF RaceInv
    <3>4. subject \in Admitted
      BY <2>1, <3>3, MadeIs
    <3> QED BY <1>1, <3>1, <3>2, <3>3, <3>4 DEF RaceInv
  <2>2. CASE ~verifier.manifest.admitted
    BY <1>2, <1>7, <2>2 DEF Hashed
  <2> QED BY <2>1, <2>2
<1>8. CASE Read
  <2> DEFINE on == [verifier EXCEPT !.at = @ + 1]
  <2>1. \/ verifier' = on
        \/ \E content : verifier' = [on EXCEPT !.proof = content]
        \/ \E content : verifier' = [on EXCEPT !.receipt = content]
        \/ Verdict("refused")
    BY <1>8 DEF Read
  <2>2. CASE ~Verdict("refused")
    <3>1. /\ verifier'.phase = verifier.phase /\ verifier'.manifest = verifier.manifest
          /\ verifier'.whole = verifier.whole /\ verifier'.verdict = verifier.verdict
      BY <2>1, <2>2 DEF Shape
    <3>2. verifier.phase = "read"
      BY <1>8 DEF Read
    <3> QED BY <1>1, <3>1, <3>2 DEF RaceInv
  <2> QED BY <1>2, <2>2
<1>9. CASE Verified
  <2>1. verifier.phase = "read" /\ Verdict("verified")
    BY <1>9 DEF Verified
  <2>2. verifier'.phase = "idle" /\ verifier'.whole = verifier.whole
    BY <2>1, VerdictIs
  <2> QED BY <1>1, <2>1, <2>2 DEF RaceInv
<1> QED BY <1>3, <1>4, <1>5, <1>6, <1>7, <1>8, <1>9 DEF Verify

\* What holds of the race of a writer and a verifier.
FullInv == WriterInv /\ RaceInv

\* One step keeps it.
LEMMA RaceStep == FullInv /\ [Next]_vars => FullInv'
<1> SUFFICES ASSUME FullInv, [Next]_vars PROVE RaceInv'
  BY WriterStep DEF FullInv
<1>0. WriterInv /\ RaceInv /\ WriterInv'
  BY WriterStep DEF FullInv
<1>1. CASE UNCHANGED vars
  <2>1. UNCHANGED <<disk, plan, writer, verifier, edits>> /\ subject' = subject
    BY <1>1 DEF vars, subject
  <2> QED BY <1>0, <2>1 DEF RaceInv, Made, Good, Replaced, Incomplete
<1>2. CASE (\E render \in BOOLEAN : StartWrite(render)) \/ Write \/ Stop
  <2>1. UNCHANGED <<plan, edits>>
    BY <1>2 DEF StartWrite, Write, Stop, Clear, Cleared, OpenFile, CloseFile, Return
  <2>2. (\E render : StartWrite(render)) \/ Write \/ Stop
    BY <1>2
  <2> QED BY <1>0, <2>1, <2>2, WriterRace
<1>3. CASE StartVerify \/ Verify
  <2>1. UNCHANGED <<disk, plan, writer, edits>>
    BY <1>3 DEF StartVerify, Verify, ReadManifest, ListFiles, HashFile, Hashed, Read, Verified
  <2> QED BY <1>0, <1>3, <2>1, VerifierRace
<1>4. CASE Edit
  BY <1>0, <1>4, EditIs DEF RaceInv, WriterInv
<1> QED BY <1>1, <1>2, <1>3, <1>4 DEF Next

\* verify_package says "verified" only of a package that was whole when its manifest
\* was read, however the builds that overwrite the directory interleave with it.
THEOREM VerifiedHolds == Spec => []VerifiedWasWhole
<1>1. Init => FullInv
  <2>1. Init => RaceInv
    BY DEF Init, RaceInv, Resting
  <2> QED BY <2>1, WriterInit DEF FullInv
<1>2. FullInv => VerifiedWasWhole
  BY DEF FullInv, RaceInv, VerifiedWasWhole
<1> QED BY <1>1, <1>2, RaceStep, PTL DEF Spec

-----------------------------------------------------------------------------
(* What an edited directory can hold.                                     *)

\* A file some build of some artifact wrote.
Known(content) ==
  /\ content = File(content.path, content.of, content.run)
  /\ content.run \in 0..plan.runs

\* A manifest of this artifact, whatever it lists.
Seal(m) ==
  /\ m = [path |-> m.path, of |-> subject, run |-> m.run, admitted |-> m.admitted,
          required |-> Required(subject \in Admitted), listed |-> m.listed, anew |-> m.anew]
  /\ m.listed = [p \in DOMAIN m.listed |-> m.listed[p]]

\* Whatever is edited, the directory holds files of builds and a manifest of this
\* artifact: an editor moves and replaces files and reseals, it does not forge records.
FilesInv ==
  /\ \A p \in DOMAIN disk \ {Manifest} : Known(disk[p])
  /\ Sealed(disk) => Seal(disk[Manifest])
  /\ writer.phase = "close" =>
       IF Current = Manifest THEN Seal(writer.content) ELSE Known(writer.content)

\* A file of a run of the plan is known.
LEMMA FileIsKnown ==
  ASSUME TypeInv, NEW path, NEW artifact, NEW run \in 0..plan.runs
  PROVE  Known(File(path, artifact, run))
<1>1. 0 \in 0..plan.runs
  BY PlanIs DEF TypeInv
<1>2. PICK f : f = File(path, artifact, run)
  OBVIOUS
<1>3. f = [path |-> path, of |-> artifact, run |-> IF path \in Dated THEN run ELSE 0]
  BY <1>2 DEF File
<1>4. f.path = path /\ f.of = artifact /\ f.run = IF path \in Dated THEN run ELSE 0
  BY <1>3
<1>5. f = File(f.path, f.of, f.run)
  BY <1>3, <1>4 DEF File
<1> QED BY <1>1, <1>2, <1>4, <1>5 DEF Known

\* So is a torn file.
LEMMA TornIsKnown ==
  ASSUME TypeInv PROVE Known(Torn)
<1>1. Torn = File("torn", "torn", 0)
  BY DEF Torn, File, Dated, ArmReceipt
<1>2. 0 \in 0..plan.runs
  BY PlanIs DEF TypeInv
<1> QED BY <1>1, <1>2, FileIsKnown

\* The manifest a build writes is of its artifact.
LEMMA ManifestIsSeal ==
  ASSUME NEW dir, NEW run
  PROVE  Seal(ManifestOf(dir, subject, run))
<1>1. PICK m : m = ManifestOf(dir, subject, run)
  OBVIOUS
<1>2. PICK a : a = (subject \in Admitted)
  OBVIOUS
<1>3. PICK no : no = FALSE
  OBVIOUS
<1>4. m = [path |-> Manifest, of |-> subject, run |-> run, admitted |-> a,
          required |-> Required(a), listed |-> Relative(dir), anew |-> no]
  BY <1>1, <1>2, <1>3, Zenon DEF ManifestOf
<1>5. /\ m.path = Manifest /\ m.run = run /\ m.admitted = a /\ m.listed = Relative(dir)
      /\ m.anew = no
  BY <1>4
<1>6. m = [path |-> m.path, of |-> subject, run |-> m.run, admitted |-> m.admitted,
          required |-> Required(a), listed |-> m.listed, anew |-> m.anew]
  BY <1>4, <1>5, Zenon
<1>7. m = [path |-> m.path, of |-> subject, run |-> m.run, admitted |-> m.admitted,
          required |-> Required(subject \in Admitted), listed |-> m.listed, anew |-> m.anew]
  BY <1>2, <1>6, Zenon
<1>8. m.listed = [p \in DOMAIN m.listed |-> m.listed[p]]
  BY <1>5 DEF Relative
<1> QED BY <1>1, <1>7, <1>8 DEF Seal

\* Whatever a build writes is known.
LEMMA ContentsAreKnown ==
  ASSUME TypeInv, NEW path, NEW content \in Contents(path)
  PROVE  IF path = Manifest THEN Seal(content) ELSE Known(content)
<1>1. CASE path = Manifest
  <2>1. Contents(Manifest) = {ManifestOf(disk, subject, writer.run)}
    BY DEF Contents, Manifest
  <2> QED BY <1>1, <2>1, ManifestIsSeal
<1>2. CASE path # Manifest
  <2>1. \/ \E v : content = File(path, v, 0)
        \/ content = File(path, subject, writer.run)
    BY <1>2 DEF Contents
  <2>2. 0 \in 0..plan.runs /\ writer.run \in 0..plan.runs
    BY PlanIs DEF TypeInv, TypeOK
  <2> QED BY <1>2, <2>1, <2>2, FileIsKnown
<1> QED BY <1>1, <1>2

\* What resealing a manifest changes of it.
LEMMA SealExcept ==
  ASSUME NEW a, NEW b, NEW c, NEW d, NEW e, NEW f, NEW g, NEW x, NEW y, NEW m, NEW n,
         m = [path |-> a, of |-> b, run |-> c, admitted |-> d, required |-> e, listed |-> f,
              anew |-> g]
  PROVE  /\ n = [m EXCEPT !.listed = x, !.anew = y] =>
              n = [path |-> a, of |-> b, run |-> c, admitted |-> d, required |-> e, listed |-> x,
                   anew |-> y]
         /\ n = [m EXCEPT !.admitted = x, !.anew = y] =>
              n = [path |-> a, of |-> b, run |-> c, admitted |-> x, required |-> e, listed |-> f,
                   anew |-> y]
  OBVIOUS

\* An edit leaves known files.
LEMMA ChangeFiles ==
  ASSUME TypeInv, NEW dir, DOMAIN dir \subseteq Paths, dir = [p \in DOMAIN dir |-> dir[p]],
         Change(dir),
         \A p \in DOMAIN dir \ {Manifest} : Known(dir[p]),
         Sealed(dir) => Seal(dir[Manifest])
  PROVE  FilesInv'
<1>1. writer'.phase = "idle" /\ UNCHANGED plan /\ subject' = subject
  BY DEF Change, subject
<1>2. CASE disk' = dir
  BY <1>1, <1>2 DEF FilesInv, Known, Seal, Sealed
<1>3. CASE /\ Manifest \in DOMAIN dir /\ dir[Manifest] # Torn
           /\ disk' = Resealed(dir)
  <2>1. PICK yes : yes = TRUE
    OBVIOUS
  <2>2. PICK m : m = dir[Manifest]
    OBVIOUS
  <2>3. PICK n : n = [m EXCEPT !.listed = Relative(dir), !.anew = yes]
    OBVIOUS
  <2>4. disk' = [dir EXCEPT ![Manifest] = n]
    BY <1>3, <2>1, <2>2, <2>3 DEF Resealed
  <2>5. Seal(m)
    BY <1>3, <2>2 DEF Sealed
  <2>6. /\ n.listed = Relative(dir)
        /\ n = [path |-> n.path, of |-> subject, run |-> n.run, admitted |-> n.admitted,
                required |-> Required(subject \in Admitted), listed |-> n.listed, anew |-> n.anew]
    <3>1. PICK r : r = Required(subject \in Admitted)
      OBVIOUS
    <3>a. PICK a, b, c, d, f, g :
            /\ a = m.path /\ b = subject /\ c = m.run /\ d = m.admitted
            /\ f = m.listed /\ g = m.anew
      OBVIOUS
    <3>2. m = [path |-> a, of |-> b, run |-> c, admitted |-> d, required |-> r,
              listed |-> f, anew |-> g]
      BY <2>5, <3>1, <3>a, Zenon DEF Seal
    <3>3. n = [path |-> a, of |-> b, run |-> c, admitted |-> d, required |-> r,
              listed |-> Relative(dir), anew |-> yes]
      BY <2>3, <3>2, SealExcept
    <3>4. /\ n.listed = Relative(dir)
          /\ n = [path |-> n.path, of |-> subject, run |-> n.run, admitted |-> n.admitted,
                  required |-> r, listed |-> n.listed, anew |-> n.anew]
      BY <3>a, <3>3
    <3> QED BY <3>1, <3>4, Zenon
  <2>7. Seal(n)
    BY <2>6 DEF Seal, Relative
  <2> QED BY <1>1, <1>3, <2>4, <2>7 DEF FilesInv, Known, Seal, Sealed
<1> QED BY <1>2, <1>3 DEF Change

\* One step leaves known files.
LEMMA FilesStep ==
  ASSUME WriterInv, WriterInv', FilesInv, Next
  PROVE  FilesInv'
<1> USE DEF WriterInv, TypeInv
<1>1. ASSUME UNCHANGED <<disk, plan>>, writer'.phase # "close"
      PROVE  FilesInv'
  BY <1>1 DEF FilesInv, Known, Seal, Sealed, subject
<1>2. ASSUME NEW render, StartWrite(render)
      PROVE  FilesInv'
  <2>1. /\ UNCHANGED <<disk, plan>>
        /\ writer' = [phase |-> "clear", run |-> writer.run + 1, render |-> render, at |-> 0,
                      content |-> Torn]
    BY <1>2, StartWriteIs
  <2> QED BY <1>1, <2>1
<1>3. CASE Clear
  <2>1. PICK path \in DOMAIN disk : disk' = Without(disk, path)
    BY <1>3 DEF Clear
  <2>2. writer'.phase = "clear" /\ UNCHANGED plan
    BY <1>3 DEF Clear
  <2> QED BY <2>1, <2>2 DEF Without, FilesInv, Known, Seal, Sealed, subject
<1>4. CASE Cleared \/ Return \/ Stop
  <2>1. UNCHANGED <<disk, plan>> /\ writer'.phase # "close"
    BY <1>4 DEF Cleared, Return, Stop, Shape
  <2> QED BY <1>1, <2>1
<1>5. CASE OpenFile
  <2>1. PICK content \in Contents(Current) :
          writer' = [writer EXCEPT !.phase = "close", !.content = content]
    BY <1>5 DEF OpenFile
  <2>2. /\ writer'.content = content /\ writer'.at = writer.at /\ writer'.render = writer.render
        /\ disk' = With(disk, Current, Torn) /\ UNCHANGED plan
    BY <1>5, <2>1 DEF OpenFile, Shape
  <2>3. Current' = Current /\ subject' = subject
    BY <2>2 DEF Current, Order, subject
  <2>4. IF Current = Manifest THEN Seal(content) ELSE Known(content)
    BY ContentsAreKnown
  <2>5. Known(Torn)
    BY TornIsKnown
  <2> QED BY <2>2, <2>3, <2>4, <2>5 DEF With, FilesInv, Known, Seal, Sealed
<1>6. CASE CloseFile
  <2>1. /\ writer.phase = "close" /\ writer'.phase = "write" /\ UNCHANGED plan
        /\ disk' = With(disk, Current, writer.content)
    BY <1>6 DEF CloseFile, Shape
  <2> QED BY <2>1 DEF With, FilesInv, Known, Seal, Sealed, subject
<1>7. CASE StartVerify \/ Verify
  <2>1. UNCHANGED <<disk, plan, writer>>
    BY <1>7 DEF StartVerify, Verify, ReadManifest, ListFiles, HashFile, Hashed, Read, Verified
  <2>2. Current' = Current /\ subject' = subject
    BY <2>1 DEF Current, Order, subject
  <2> QED BY <2>1, <2>2 DEF FilesInv, Known, Seal, Sealed
<1>8. ASSUME NEW path \in Paths \ {Manifest}, NEW content, Known(content),
             Change(With(disk, path, content))
      PROVE  FilesInv'
  <2> DEFINE dir == With(disk, path, content)
  <2>1. /\ DOMAIN dir \subseteq Paths /\ dir = [p \in DOMAIN dir |-> dir[p]]
        /\ \A p \in DOMAIN dir \ {Manifest} : Known(dir[p])
        /\ Sealed(dir) => Sealed(disk) /\ dir[Manifest] = disk[Manifest]
    BY <1>8 DEF With, FilesInv, Sealed, TypeOK
  <2> HIDE DEF dir
  <2> QED BY <1>8, <2>1, ChangeFiles DEF dir, FilesInv
<1>9. ASSUME NEW path \in Paths, Change(Without(disk, path))
      PROVE  FilesInv'
  <2> DEFINE dir == Without(disk, path)
  <2>1. /\ DOMAIN dir \subseteq Paths /\ dir = [p \in DOMAIN dir |-> dir[p]]
        /\ \A p \in DOMAIN dir \ {Manifest} : Known(dir[p])
        /\ Sealed(dir) => Sealed(disk) /\ dir[Manifest] = disk[Manifest]
    BY <1>9 DEF Without, FilesInv, Sealed, TypeOK
  <2> HIDE DEF dir
  <2> QED BY <1>9, <2>1, ChangeFiles DEF dir, FilesInv
<1>10. ASSUME NEW path \in Paths, Exchange(path) \/ Delete(path)
       PROVE  FilesInv'
  <2>1. CASE Exchange(path)
    <3>1. PICK content \in IF Versions(path) = {} THEN Others(path)
                           ELSE {File(path, version, 0) : version \in Versions(path)} :
            path # Manifest /\ Change(With(disk, path, content))
      BY <2>1 DEF Exchange
    <3>2. \E p, a : \E r \in 0..plan.runs : content = File(p, a, r)
      <4>1. 0 \in 0..plan.runs
        BY PlanIs
      <4> QED BY <4>1 DEF Others
    <3> QED BY <1>8, <3>1, <3>2, FileIsKnown
  <2> QED BY <1>9, <1>10, <2>1 DEF Delete
<1>11. ASSUME NEW path \in Extras, Add(path)
       PROVE  FilesInv'
  <2>1. path \in Paths \ {Manifest}
    BY PathsAre DEF Extras, Manifest
  <2>2. Change(With(disk, path, File(path, subject, 0))) /\ 0 \in 0..plan.runs
    BY <1>11, PlanIs DEF Add
  <2> QED BY <1>8, <2>1, <2>2, FileIsKnown
<1>12. CASE Reseal
  BY <1>12, ChangeFiles DEF Reseal, TypeOK, Shape, FilesInv
<1>13. CASE Relabel
  <2> DEFINE dir == [disk EXCEPT ![Manifest].admitted = TRUE, ![Manifest].anew = TRUE]
  <2>1. Change(dir) /\ Sealed(disk)
    BY <1>13 DEF Relabel, Sealed
  <2>2. PICK yes : yes = TRUE
    OBVIOUS
  <2>3. PICK m : m = disk[Manifest]
    OBVIOUS
  <2>4. PICK n : n = [m EXCEPT !.admitted = yes, !.anew = yes]
    OBVIOUS
  <2>5. dir = [disk EXCEPT ![Manifest] = n]
    BY <2>1, <2>2, <2>3, <2>4 DEF Sealed
  <2>6. Seal(m)
    BY <2>1, <2>3 DEF FilesInv
  <2>7. /\ n.listed = m.listed
        /\ n = [path |-> n.path, of |-> subject, run |-> n.run, admitted |-> n.admitted,
                required |-> Required(subject \in Admitted), listed |-> n.listed, anew |-> n.anew]
    <3>1. PICK r : r = Required(subject \in Admitted)
      OBVIOUS
    <3>a. PICK a, b, c, d, f, g :
            /\ a = m.path /\ b = subject /\ c = m.run /\ d = m.admitted
            /\ f = m.listed /\ g = m.anew
      OBVIOUS
    <3>2. m = [path |-> a, of |-> b, run |-> c, admitted |-> d, required |-> r,
              listed |-> f, anew |-> g]
      BY <2>6, <3>1, <3>a, Zenon DEF Seal
    <3>3. n = [path |-> a, of |-> b, run |-> c, admitted |-> yes, required |-> r,
              listed |-> f, anew |-> yes]
      BY <2>4, <3>2, SealExcept
    <3>4. /\ n.listed = m.listed
          /\ n = [path |-> n.path, of |-> subject, run |-> n.run, admitted |-> n.admitted,
                  required |-> r, listed |-> n.listed, anew |-> n.anew]
      BY <3>a, <3>3
    <3> QED BY <3>1, <3>4, Zenon
  <2>8. Seal(n)
    BY <2>6, <2>7 DEF Seal
  <2> HIDE DEF dir
  <2>9. /\ DOMAIN dir = DOMAIN disk /\ dir = [p \in DOMAIN dir |-> dir[p]]
        /\ \A p \in DOMAIN dir \ {Manifest} : dir[p] = disk[p]
        /\ dir[Manifest] = n
    BY <2>1, <2>5 DEF Sealed
  <2>10. DOMAIN dir \subseteq Paths /\ \A p \in DOMAIN dir \ {Manifest} : Known(dir[p])
    BY <2>9 DEF FilesInv, TypeOK
  <2> QED BY <2>1, <2>8, <2>9, <2>10, ChangeFiles
<1> QED BY <1>2, <1>3, <1>4, <1>5, <1>6, <1>7, <1>10, <1>11, <1>12, <1>13 DEF Next, Write, Edit

-----------------------------------------------------------------------------
(* The verdict of a verifier that nobody disturbs.                        *)

\* What a verifier holds that has read this directory.
As(dir) == [manifest |-> dir[Manifest], proof |-> dir["proof.json"], receipt |-> dir["receipt.json"]]

\* A reading that lets the verifier go on.
Settled(job) ==
  IF job.path \in DOMAIN disk
  THEN Accepts(As(disk), job, disk[job.path]) \/ Uncertain(job, disk[job.path])
  ELSE Skipped(job)

\* The manifest is complete and the hashes taken so far agree with it.
Compared ==
  LET m == disk[Manifest]
  IN  /\ Complete(m, disk) /\ verifier.left \subseteq DOMAIN m.listed
      /\ \A p \in DOMAIN m.listed \ verifier.left : disk[p] = m.listed[p]

\* Every reading made so far has let the verifier go on.
Inspected ==
  /\ verifier.left = {} /\ verifier.at >= 1
  /\ \A i \in 1..(verifier.at - 1) : Settled(Readings[i])
  /\ verifier.at > 1 => verifier.proof = disk["proof.json"]
  /\ verifier.at > 2 => verifier.receipt = disk["receipt.json"]

\* A verifier nobody disturbs has settled every step it has made, and its verdict is
\* right of the directory that is there.
SteadyInv ==
  verifier.steady =>
    /\ verifier.phase \in {"list", "hash", "read"} =>
         Sealed(disk) /\ verifier.manifest = disk[Manifest]
    /\ verifier.phase \in {"hash", "read"} => Compared
    /\ verifier.phase = "read" => Inspected
    /\ verifier.verdict = "verified" => Sound(disk)
    /\ verifier.verdict = "refused" => ~Pristine(disk)

\* A job is its purpose and path.
LEMMA JobIs ==
  ASSUME NEW purpose, NEW path
  PROVE  Job(purpose, path).purpose = purpose /\ Job(purpose, path).path = path
  BY DEF Job

\* The results of the two arms.
ArmFiles == {"baseline.json", "augmented.json"}
\* The receipts of the two arms.
ArmReceipts == {"receipts/baseline.receipt.json", "receipts/augmented.receipt.json"}

\* What a job may be.
OneOf(purpose, path) ==
  \/ purpose = "proof" /\ path = "proof.json"
  \/ purpose = "receipt" /\ path = "receipt.json"
  \/ purpose = "own" /\ path \in ArmFiles \cup ArmReceipts
  \/ purpose = "boundary" /\ path \in ArmReceipts \cup {"receipt.json", "findings.json"}
  \/ purpose = "contracts"
       /\ path \in {"contracts/package-contract-set.json", "contracts/arm-contract-set.json"}
  \/ purpose = "policy" /\ path = "policies/package-policy.json"
  \/ purpose = "arm policy" /\ path = "policies/arm-policy.json"
  \/ purpose = "recheck" /\ path \in ArmFiles
  \/ purpose = "scan" /\ path \in ArmFiles \cup {"README.md", "transcript.txt", "listing-assets.json"}
  \/ purpose = "listing" /\ path = "listing-assets.json"
  \/ purpose = "readme" /\ path = "README.md"
  \/ purpose = "image" /\ path = "thumbnail.png"
  \/ purpose = "video" /\ path = "demo.mp4"

\* A reading has this purpose and path.
Entry(i, purpose, path) ==
  Readings[i] = Job(purpose, path) /\ OneOf(purpose, path)

\* The readings, one by one.
LEMMA ReadingsInOrder ==
  /\ Entry(1, "proof", "proof.json")
  /\ Entry(2, "receipt", "receipt.json")
  /\ Entry(3, "own", "baseline.json")
  /\ Entry(4, "own", "receipts/baseline.receipt.json")
  /\ Entry(5, "own", "augmented.json")
  /\ Entry(6, "own", "receipts/augmented.receipt.json")
  /\ Entry(7, "boundary", "receipts/baseline.receipt.json")
  /\ Entry(8, "boundary", "receipts/augmented.receipt.json")
  /\ Entry(9, "boundary", "receipt.json")
  /\ Entry(10, "contracts", "contracts/package-contract-set.json")
  /\ Entry(11, "policy", "policies/package-policy.json")
  /\ Entry(12, "contracts", "contracts/arm-contract-set.json")
  /\ Entry(13, "arm policy", "policies/arm-policy.json")
  /\ Entry(14, "recheck", "baseline.json")
  /\ Entry(15, "recheck", "augmented.json")
  /\ Entry(16, "scan", "baseline.json")
  /\ Entry(17, "scan", "augmented.json")
  /\ Entry(18, "scan", "README.md")
  /\ Entry(19, "scan", "transcript.txt")
  /\ Entry(20, "scan", "listing-assets.json")
  /\ Entry(21, "boundary", "findings.json")
  /\ Entry(22, "listing", "listing-assets.json")
  /\ Entry(23, "readme", "README.md")
  /\ Entry(24, "image", "thumbnail.png")
  /\ Entry(25, "video", "demo.mp4")
  BY DEF Entry, Readings, ArmFile, ArmReceipt, OneOf, ArmFiles, ArmReceipts

\* What each reading may be, and that every check of a sound package is one.
LEMMA JobsAre ==
  ASSUME NEW i \in 1..25
  PROVE  /\ OneOf(Readings[i].purpose, Readings[i].path)
         /\ i > 1 => Readings[i].purpose # "proof"
         /\ i > 2 => Readings[i].purpose \notin {"proof", "receipt"}
         /\ i = 1 => Readings[i].purpose = "proof"
         /\ i = 2 => Readings[i].purpose = "receipt"
<1>1. \/ i = 1 \/ i = 2 \/ i = 3 \/ i = 4 \/ i = 5 \/ i = 6 \/ i = 7 \/ i = 8 \/ i = 9
      \/ i = 10 \/ i = 11 \/ i = 12 \/ i = 13 \/ i = 14 \/ i = 15 \/ i = 16 \/ i = 17
      \/ i = 18 \/ i = 19 \/ i = 20 \/ i = 21 \/ i = 22 \/ i = 23 \/ i = 24 \/ i = 25
  OBVIOUS
<1> DEFINE P(j) == OneOf(Readings[j].purpose, Readings[j].path)
           Q(j) == j > 2 => Readings[j].purpose \notin {"proof", "receipt"}
<1>a. ASSUME NEW j, NEW purpose, NEW path, Entry(j, purpose, path)
      PROVE  P(j) /\ (purpose \notin {"proof", "receipt"} => Q(j))
  BY <1>a, JobIs DEF Entry
<1>b. Q(1) /\ Q(2)
  OBVIOUS
<1> HIDE DEF P, Q
<1>2. P(1) /\ P(2) /\ P(3) /\ P(4) /\ P(5) /\ P(6) /\ P(7) /\ P(8) /\ P(9) /\ P(10) /\ P(11) /\ P(12)
      /\ P(13) /\ P(14) /\ P(15) /\ P(16) /\ P(17) /\ P(18) /\ P(19) /\ P(20) /\ P(21) /\ P(22)
      /\ P(23) /\ P(24) /\ P(25)
  BY <1>a, ReadingsInOrder, Zenon
<1>c. \A purpose \in {"own", "boundary", "contracts", "policy", "arm policy", "recheck",
                       "scan", "listing", "readme", "image", "video"} :
        purpose \notin {"proof", "receipt"}
  OBVIOUS
<1>3. Q(3) /\ Q(4) /\ Q(5) /\ Q(6) /\ Q(7) /\ Q(8) /\ Q(9) /\ Q(10) /\ Q(11) /\ Q(12) /\ Q(13) /\
      Q(14) /\ Q(15) /\ Q(16) /\ Q(17) /\ Q(18) /\ Q(19) /\ Q(20) /\ Q(21) /\ Q(22) /\ Q(23) /\
      Q(24) /\ Q(25)
  BY <1>a, <1>c, ReadingsInOrder, Zenon
<1>4. /\ i = 1 => Readings[i].purpose = "proof"
      /\ i = 2 => Readings[i].purpose = "receipt"
  <2>1. Entry(1, "proof", "proof.json") /\ Entry(2, "receipt", "receipt.json")
    BY ReadingsInOrder, Zenon
  <2> QED BY <2>1, JobIs DEF Entry
<1>5. P(i) /\ Q(i)
  BY <1>1, <1>2, <1>3, <1>b, Zenon
<1> QED BY <1>4, <1>5 DEF P, Q

\* A verdict on a reading depends on what was read before it only where it says so.
LEMMA AcceptsSame ==
  ASSUME NEW v, NEW w, NEW job, NEW content,
         v.manifest = w.manifest,
         job.purpose # "proof" => v.proof = w.proof,
         job.purpose \notin {"proof", "receipt"} => v.receipt = w.receipt,
         OneOf(job.purpose, job.path)
  PROVE  Accepts(v, job, content) <=> Accepts(w, job, content)
  BY DEF Accepts, OneOf, OfTheProof

\* The parts of what was read.
LEMMA AsIs ==
  ASSUME NEW dir
  PROVE  /\ As(dir).manifest = dir[Manifest] /\ As(dir).proof = dir["proof.json"]
         /\ As(dir).receipt = dir["receipt.json"]
  BY DEF As

\* What the checks of each purpose accept.
LEMMA AcceptsProof ==
  ASSUME NEW v, NEW job, NEW content, job.purpose = "proof"
  PROVE  Accepts(v, job, content) <=> content.path = "proof.json" /\ content.of = v.manifest.of
  BY DEF Accepts

LEMMA AcceptsReceipt ==
  ASSUME NEW v, NEW job, NEW content, job.purpose = "receipt"
  PROVE  Accepts(v, job, content) <=> /\ content.path = "receipt.json" /\ content.of = v.proof.of
                                   /\ content.of \in Admitted
  BY DEF Accepts

LEMMA AcceptsOwn ==
  ASSUME NEW v, NEW job, NEW content, job.purpose \in {"own", "listing"}
  PROVE  Accepts(v, job, content) <=> content.path = job.path /\ content.of = v.proof.of
  BY DEF Accepts

LEMMA AcceptsBoundary ==
  ASSUME NEW v, NEW job, NEW content, job.purpose = "boundary"
  PROVE  Accepts(v, job, content) <=> OfTheProof(v, job.path, content)
  BY DEF Accepts

LEMMA AcceptsBound ==
  ASSUME NEW v, NEW job, NEW content, job.purpose \in {"contracts", "policy"}
  PROVE  Accepts(v, job, content) <=> content.of = "bound"
  BY DEF Accepts

LEMMA AcceptsArmPolicy ==
  ASSUME NEW v, NEW job, NEW content, job.purpose = "arm policy"
  PROVE  Accepts(v, job, content) <=> content.of \in {"bound", "alike"}
  BY DEF Accepts

LEMMA AcceptsRecheck ==
  ASSUME NEW v, NEW job, NEW content, job.purpose = "recheck"
  PROVE  Accepts(v, job, content) <=> content # Torn /\ Judged(content.of) = Judged(v.proof.of)
  BY DEF Accepts

LEMMA AcceptsScan ==
  ASSUME NEW v, NEW job, NEW content, job.purpose = "scan"
  PROVE  Accepts(v, job, content) <=> Scanned(job.path, content)
  BY DEF Accepts

LEMMA AcceptsReadme ==
  ASSUME NEW v, NEW job, NEW content, job.purpose = "readme"
  PROVE  Accepts(v, job, content) <=> content = File("README.md", v.receipt.of, v.receipt.run)
  BY DEF Accepts

LEMMA AcceptsMedia ==
  ASSUME NEW v, NEW job, NEW content, job.purpose \in {"image", "video"}
  PROVE  Accepts(v, job, content) <=> content.path = job.path
  BY DEF Accepts

\* Only the scan for withheld text can end either way.
LEMMA UncertainIs ==
  ASSUME NEW job, NEW content, Uncertain(job, content)
  PROVE  job.purpose \in {"readme", "video"} /\ content = Torn
  BY DEF Uncertain

\* A package as it was written passes every reading.
LEMMA PristineIs ==
  ASSUME TypeInv, Pristine(disk)
  PROVE  /\ Sealed(disk) /\ Complete(disk[Manifest], disk) /\ disk[Manifest].admitted
         /\ disk[Manifest].listed = Relative(disk)
         /\ \A job : OneOf(job.purpose, job.path) =>
              job.path \in DOMAIN disk /\ Accepts(As(disk), job, disk[job.path])
<1>1. PICK run \in 1..plan.runs :
        Manifest \in DOMAIN disk /\ WholeOf(disk, subject, run, TRUE)
  BY DEF Pristine
<1>2. subject \in Admitted /\ subject \in Quiet
  BY DEF Pristine
<1> DEFINE written == ToSet(WriteOrder(subject, TRUE)) \ {Manifest}
<1>3. /\ DOMAIN Relative(disk) = written
      /\ disk[Manifest] = ManifestOf(disk, subject, run)
      /\ \A p \in written : IF Versions(p) # {} THEN disk[p] # Torn
                            ELSE disk[p] = File(p, subject, run)
  BY <1>1 DEF WholeOf
<1>4. written = ToSet(Records) \cup
        {"README.md", "listing-assets.json", "media/slides", "demo.mp4",
         "media/thumbnail.svg", "thumbnail.png"}
  <2>1. PICK render \in BOOLEAN : render = TRUE
    OBVIOUS
  <2>2. ToSet(WriteOrder(subject, render)) =
          ToSet(Records) \cup ToSet(Middle(subject, render)) \cup {Manifest}
    BY OrderIs
  <2>3. ToSet(Middle(subject, render)) =
          {"README.md", "listing-assets.json", "media/slides", "demo.mp4",
           "media/thumbnail.svg", "thumbnail.png"}
    BY <1>2, <2>1, MiddleIs
  <2>4. Manifest \notin ToSet(Records)
    BY RecordsAre DEF Manifest
  <2>5. ToSet(WriteOrder(subject, TRUE)) = ToSet(WriteOrder(subject, render))
    BY <2>1, Zenon
  <2> QED BY <2>2, <2>3, <2>4, <2>5 DEF Manifest
<1>5. PICK m : m = disk[Manifest]
  OBVIOUS
<1>6. /\ m.admitted /\ m.required = Required(TRUE) /\ m.listed = Relative(disk)
      /\ m.path = Manifest /\ m.of = subject
  <2>1. PICK yes : yes = TRUE
    OBVIOUS
  <2>2. PICK no : no = FALSE
    OBVIOUS
  <2>3. (subject \in Admitted) = yes
    BY <1>2, <2>1
  <2>4. m = [path |-> Manifest, of |-> subject, run |-> run, admitted |-> yes,
            required |-> Required(yes), listed |-> Relative(disk), anew |-> no]
    BY <1>3, <1>5, <2>2, <2>3, Zenon DEF ManifestOf
  <2>5. /\ m.admitted = yes /\ m.required = Required(yes) /\ m.listed = Relative(disk)
        /\ m.path = Manifest /\ m.of = subject
    BY <2>4
  <2> QED BY <2>1, <2>5, Zenon
<1>7. Sealed(disk)
  BY <1>1, <1>5, <1>6 DEF Sealed, Torn, Manifest
<1>8. Required(TRUE) \subseteq written
  BY <1>4, RecordsAre DEF Required, ArmFile
<1>9. Complete(disk[Manifest], disk)
  BY <1>3, <1>5, <1>6, <1>8 DEF Complete
<1>10. /\ disk["proof.json"] = File("proof.json", subject, run)
       /\ disk["receipt.json"] = File("receipt.json", subject, run)
  BY <1>3, <1>4, RecordsAre DEF Versions
<1>11. /\ disk["proof.json"].of = subject /\ disk["proof.json"].run = run
       /\ disk["receipt.json"].of = subject /\ disk["receipt.json"].run = run
  BY <1>10 DEF File, Dated
<1>12. ASSUME NEW job, OneOf(job.purpose, job.path)
       PROVE  job.path \in DOMAIN disk /\ Accepts(As(disk), job, disk[job.path])
  <2>1. job.path \in written
    BY <1>4, <1>12, RecordsAre DEF OneOf, ArmFiles, ArmReceipts
  <2>2. job.path \in DOMAIN disk
    BY <1>3, <2>1 DEF Relative
  <2>3. Versions(job.path) # {} => disk[job.path].of = "bound"
    <3>1. job.path \in Paths
      BY <2>2 DEF TypeInv, TypeOK
    <3> QED BY <3>1 DEF Pristine
  <2>4. CASE job.purpose \in {"contracts", "policy", "arm policy"}
    <3>1. Versions(job.path) # {}
      BY <1>12, <2>4 DEF OneOf, Versions
    <3>2. disk[job.path].of = "bound"
      BY <2>3, <3>1
    <3>3. CASE job.purpose \in {"contracts", "policy"}
      BY <2>2, <3>2, <3>3, AcceptsBound
    <3>4. CASE job.purpose = "arm policy"
      <4>1. disk[job.path].of \in {"bound", "alike"}
        BY <3>2
      <4> QED BY <2>2, <3>4, <4>1, AcceptsArmPolicy, Zenon
    <3> QED BY <2>4, <3>3, <3>4
  <2>5. CASE job.purpose \notin {"contracts", "policy", "arm policy"}
    <3>1. Versions(job.path) = {}
      BY <1>12, <2>5 DEF OneOf, Versions, ArmFiles, ArmReceipts
    <3>2. disk[job.path] = File(job.path, subject, run)
      BY <1>3, <2>1, <3>1
    <3>3. disk[job.path].path = job.path /\ disk[job.path].of = subject
      BY <3>2 DEF File
    <3>4. disk[job.path] # Torn
      <4>1. job.path # "torn"
        BY <2>2, PathsAre DEF TypeInv, TypeOK
      <4> QED BY <3>3, <4>1 DEF Torn
    <3>5. Scanned(job.path, disk[job.path])
      BY <1>2, <3>3 DEF Scanned
    <3> HIDE DEF written
    <3>6. /\ As(disk).manifest.of = subject
          /\ As(disk).proof.of = subject /\ As(disk).proof.run = run
          /\ As(disk).receipt.of = subject /\ As(disk).receipt.run = run
      BY <1>5, <1>6, <1>11, AsIs
    <3>7. CASE job.purpose \in {"proof", "receipt", "own", "listing", "image", "video"}
      <4>1. CASE job.purpose = "proof"
        <5>1. job.path = "proof.json"
          BY <1>12, <4>1 DEF OneOf
        <5> QED BY <2>2, <3>3, <3>6, <4>1, <5>1, AcceptsProof
      <4>2. CASE job.purpose = "receipt"
        <5>1. job.path = "receipt.json"
          BY <1>12, <4>2 DEF OneOf
        <5> QED BY <1>2, <2>2, <3>3, <3>6, <4>2, <5>1, AcceptsReceipt
      <4>3. CASE job.purpose \in {"own", "listing", "image", "video"}
        BY <2>2, <3>3, <3>6, <4>3, AcceptsOwn, AcceptsMedia
      <4> QED BY <3>7, <4>1, <4>2, <4>3
    <3>8. CASE job.purpose \in {"boundary", "readme"}
      <4>1. CASE job.purpose = "boundary"
        BY <2>2, <3>2, <3>6, <4>1, AcceptsBoundary DEF OfTheProof
      <4>2. CASE job.purpose = "readme"
        <5>1. job.path = "README.md"
          BY <1>12, <4>2 DEF OneOf
        <5> QED BY <2>2, <3>2, <3>6, <4>2, <5>1, AcceptsReadme
      <4> QED BY <3>8, <4>1, <4>2
    <3>9. CASE job.purpose \in {"recheck", "scan"}
      <4>1. CASE job.purpose = "recheck"
        BY <2>2, <3>3, <3>4, <3>6, <4>1, AcceptsRecheck
      <4>2. CASE job.purpose = "scan"
        BY <2>2, <3>5, <4>2, AcceptsScan
      <4> QED BY <3>9, <4>1, <4>2
    <3>10. \/ job.purpose \in {"proof", "receipt", "own", "listing", "image", "video"}
           \/ job.purpose \in {"boundary", "readme"}
           \/ job.purpose \in {"recheck", "scan"}
      BY <1>12, <2>5 DEF OneOf
    <3> QED BY <2>2, <3>7, <3>8, <3>9, <3>10
  <2> QED BY <2>4, <2>5
<1> QED BY <1>5, <1>6, <1>7, <1>9, <1>12

\* A directory that passes every reading is sound.
LEMMA SettledIsSound ==
  ASSUME TypeInv, FilesInv, Sealed(disk), Compared, verifier.left = {},
         \A i \in 1..25 : Settled(Readings[i])
  PROVE  Sound(disk)
<1> DEFINE m == disk[Manifest]
           proof == disk["proof.json"]
           receipt == disk["receipt.json"]
<1>1. /\ Seal(m) /\ Complete(m, disk)
      /\ \A p \in DOMAIN m.listed : disk[p] = m.listed[p]
  BY DEF FilesInv, Compared
<1>2. m.of = subject /\ m.required = Required(subject \in Admitted)
  <2>1. PICK r, a, b, c, d, f, g :
          /\ r = Required(subject \in Admitted)
          /\ a = m.path /\ b = subject /\ c = m.run /\ d = m.admitted
          /\ f = m.listed /\ g = m.anew
    OBVIOUS
  <2>2. PICK n : n = m
    OBVIOUS
  <2>3. n = [path |-> a, of |-> b, run |-> c, admitted |-> d, required |-> r,
            listed |-> f, anew |-> g]
    BY <1>1, <2>1, <2>2, Zenon DEF Seal
  <2>4. n.of = b /\ n.required = r
    BY <2>3
  <2> QED BY <2>1, <2>2, <2>4, Zenon
<1> DEFINE Taken(purpose, path) ==
             path \in DOMAIN disk =>
               \/ Accepts(As(disk), Job(purpose, path), disk[path])
               \/ Uncertain(Job(purpose, path), disk[path])
<1>3. ASSUME NEW i \in 1..25, NEW purpose, NEW path, Entry(i, purpose, path)
      PROVE  /\ Taken(purpose, path)
             /\ purpose \notin {"scan", "listing", "readme"} => path \in DOMAIN disk
  BY <1>3, JobIs DEF Settled, Entry, Skipped
<1>u. ASSUME NEW purpose, NEW path, path \in DOMAIN disk, Taken(purpose, path),
             purpose \notin {"readme", "video"}
      PROVE  Accepts(As(disk), Job(purpose, path), disk[path])
  BY <1>u, JobIs, UncertainIs
<1>4. /\ "proof.json" \in DOMAIN disk /\ "receipt.json" \in DOMAIN disk
      /\ Accepts(As(disk), Job("proof", "proof.json"), proof)
      /\ Accepts(As(disk), Job("receipt", "receipt.json"), receipt)
  <2>1. 1 \in 1..25 /\ 2 \in 1..25
    OBVIOUS
  <2>2. Entry(1, "proof", "proof.json") /\ Entry(2, "receipt", "receipt.json")
    BY ReadingsInOrder, Zenon
  <2>3. \A purpose \in {"proof", "receipt"} :
          purpose \notin {"readme", "video"} /\ purpose \notin {"scan", "listing", "readme"}
    OBVIOUS
  <2> HIDE DEF Taken
  <2>4. /\ "proof.json" \in DOMAIN disk /\ "receipt.json" \in DOMAIN disk
        /\ Taken("proof", "proof.json") /\ Taken("receipt", "receipt.json")
    BY <1>3, <2>1, <2>2, <2>3, Zenon
  <2> QED BY <1>u, <2>3, <2>4, Zenon
<1>5. /\ proof.path = "proof.json" /\ proof.of = subject
      /\ receipt.path = "receipt.json" /\ receipt.of = proof.of /\ receipt.of \in Admitted
  <2>1. proof.path = "proof.json" /\ proof.of = m.of
    BY <1>4, AsIs, JobIs, AcceptsProof
  <2>2. receipt.path = "receipt.json" /\ receipt.of = proof.of /\ receipt.of \in Admitted
    BY <1>4, AsIs, JobIs, AcceptsReceipt
  <2> QED BY <1>2, <2>1, <2>2
<1>6. subject \in Admitted /\ m.required = Required(TRUE)
  <2>1. subject \in Admitted
    BY <1>5
  <2>2. (subject \in Admitted) = TRUE
    BY <2>1
  <2> QED BY <1>2, <2>1, <2>2, Zenon
<1>7. /\ DOMAIN m.listed = DOMAIN Relative(disk) /\ Required(TRUE) \subseteq DOMAIN disk
      /\ Relative(disk) = m.listed
  <2>1. DOMAIN m.listed = DOMAIN Relative(disk) /\ Required(TRUE) \subseteq DOMAIN m.listed
    BY <1>1, <1>6 DEF Complete
  <2>2. /\ DOMAIN Relative(disk) \subseteq DOMAIN disk
        /\ Relative(disk) = [p \in DOMAIN Relative(disk) |-> disk[p]]
    BY DEF Relative
  <2>3. m.listed = [p \in DOMAIN m.listed |-> m.listed[p]]
    BY <1>1 DEF Seal
  <2> HIDE DEF m
  <2>4. Relative(disk) = m.listed
    BY <1>1, <2>1, <2>2, <2>3
  <2> QED BY <2>1, <2>2, <2>4
<1> DEFINE run == proof.run
<1>8. /\ run \in 0..plan.runs
      /\ proof = File("proof.json", subject, run)
      /\ As(disk).proof.of = subject /\ As(disk).proof.run = run
  <2>1. Known(proof)
    BY <1>4 DEF FilesInv, Manifest
  <2> QED BY <1>5, <2>1, AsIs DEF Known
<1>9. ASSUME NEW path, Accepts(As(disk), Job("boundary", path), disk[path])
      PROVE  disk[path] = File(path, subject, run)
  BY <1>8, <1>9, JobIs, AcceptsBoundary DEF OfTheProof
<1>10. ASSUME NEW path, NEW purpose \in {"own", "listing"}, path \in DOMAIN disk,
              path \notin Dated, path # Manifest,
              Accepts(As(disk), Job(purpose, path), disk[path])
       PROVE  disk[path] = File(path, subject, run) /\ disk[path].of = subject
  <2>1. disk[path].path = path /\ disk[path].of = subject
    BY <1>8, <1>10, JobIs, AcceptsOwn
  <2>2. Known(disk[path])
    BY <1>10 DEF FilesInv
  <2>3. File(path, subject, disk[path].run) = File(path, subject, run)
    BY <1>10 DEF File
  <2> QED BY <2>1, <2>2, <2>3 DEF Known
<1>11. ASSUME NEW path, NEW purpose \in {"contracts", "policy"},
              Accepts(As(disk), Job(purpose, path), disk[path])
       PROVE  disk[path].of = "bound"
  BY <1>11, JobIs, AcceptsBound
<1>12. ASSUME NEW path, Accepts(As(disk), Job("arm policy", path), disk[path])
       PROVE  disk[path].of \in {"bound", "alike"}
  <2>1. Job("arm policy", path).purpose = "arm policy"
    BY JobIs
  <2> QED BY <1>12, <2>1, AcceptsArmPolicy, Zenon
<1> HIDE DEF Taken
<1>14. /\ 3 \in 1..25 /\ 5 \in 1..25 /\ 7 \in 1..25 /\ 8 \in 1..25 /\ 9 \in 1..25
       /\ 10 \in 1..25 /\ 11 \in 1..25 /\ 12 \in 1..25 /\ 13 \in 1..25 /\ 19 \in 1..25
       /\ 20 \in 1..25 /\ 21 \in 1..25 /\ 22 \in 1..25 /\ 23 \in 1..25 /\ 24 \in 1..25
  OBVIOUS
<1>15. /\ Taken("own", "baseline.json") /\ Taken("own", "augmented.json")
       /\ Taken("boundary", "receipts/baseline.receipt.json")
       /\ Taken("boundary", "receipts/augmented.receipt.json")
       /\ Taken("boundary", "receipt.json") /\ Taken("boundary", "findings.json")
       /\ Taken("contracts", "contracts/package-contract-set.json")
       /\ Taken("policy", "policies/package-policy.json")
       /\ Taken("contracts", "contracts/arm-contract-set.json")
       /\ Taken("arm policy", "policies/arm-policy.json")
       /\ Taken("scan", "transcript.txt") /\ Taken("scan", "listing-assets.json")
       /\ Taken("listing", "listing-assets.json") /\ Taken("readme", "README.md")
       /\ Taken("image", "thumbnail.png")
  BY <1>3, <1>14, ReadingsInOrder, Zenon
<1>16. {"baseline.json", "augmented.json", "receipt.json", "findings.json", "transcript.txt",
        "listing-assets.json", "README.md", "thumbnail.png"} \subseteq DOMAIN disk
  BY <1>7 DEF Required, ArmFile
<1>17. {"receipts/baseline.receipt.json", "receipts/augmented.receipt.json",
        "contracts/package-contract-set.json", "contracts/arm-contract-set.json",
        "policies/package-policy.json", "policies/arm-policy.json"} \subseteq DOMAIN disk
  <2>1. \A purpose \in {"boundary", "contracts", "policy", "arm policy"} :
          purpose \notin {"scan", "listing", "readme"}
    OBVIOUS
  <2>2. /\ "receipts/baseline.receipt.json" \in DOMAIN disk
        /\ "receipts/augmented.receipt.json" \in DOMAIN disk
        /\ "contracts/package-contract-set.json" \in DOMAIN disk
        /\ "contracts/arm-contract-set.json" \in DOMAIN disk
        /\ "policies/package-policy.json" \in DOMAIN disk
        /\ "policies/arm-policy.json" \in DOMAIN disk
    BY <1>3, <1>14, <2>1, ReadingsInOrder, Zenon
  <2> QED BY <2>2
<1>a. \A purpose \in {"own", "listing", "boundary", "contracts", "policy", "arm policy", "scan",
                      "image"} : purpose \notin {"readme", "video"}
  OBVIOUS
<1>b. /\ Accepts(As(disk), Job("own", "baseline.json"), disk["baseline.json"])
      /\ Accepts(As(disk), Job("own", "augmented.json"), disk["augmented.json"])
      /\ Accepts(As(disk), Job("listing", "listing-assets.json"), disk["listing-assets.json"])
      /\ Accepts(As(disk), Job("scan", "listing-assets.json"), disk["listing-assets.json"])
      /\ Accepts(As(disk), Job("scan", "transcript.txt"), disk["transcript.txt"])
      /\ Accepts(As(disk), Job("image", "thumbnail.png"), disk["thumbnail.png"])
      /\ Accepts(As(disk), Job("boundary", "receipt.json"), disk["receipt.json"])
      /\ Accepts(As(disk), Job("boundary", "findings.json"), disk["findings.json"])
  <2>1. \A p \in {"baseline.json", "augmented.json", "receipt.json", "findings.json",
                   "transcript.txt", "listing-assets.json", "README.md", "thumbnail.png"} :
          p \in DOMAIN disk
    BY <1>16
  <2> QED BY <1>u, <1>a, <1>15, <2>1, Zenon
<1>c. /\ Accepts(As(disk), Job("boundary", "receipts/baseline.receipt.json"),
                 disk["receipts/baseline.receipt.json"])
      /\ Accepts(As(disk), Job("boundary", "receipts/augmented.receipt.json"),
                 disk["receipts/augmented.receipt.json"])
      /\ Accepts(As(disk), Job("contracts", "contracts/package-contract-set.json"),
                 disk["contracts/package-contract-set.json"])
      /\ Accepts(As(disk), Job("policy", "policies/package-policy.json"),
                 disk["policies/package-policy.json"])
      /\ Accepts(As(disk), Job("contracts", "contracts/arm-contract-set.json"),
                 disk["contracts/arm-contract-set.json"])
      /\ Accepts(As(disk), Job("arm policy", "policies/arm-policy.json"),
                 disk["policies/arm-policy.json"])
  <2>1. \A p \in {"receipts/baseline.receipt.json", "receipts/augmented.receipt.json",
                   "contracts/package-contract-set.json", "contracts/arm-contract-set.json",
                   "policies/package-policy.json", "policies/arm-policy.json"} :
          p \in DOMAIN disk
    BY <1>17
  <2> QED BY <1>u, <1>a, <1>15, <2>1, Zenon
<1>18. /\ disk["receipt.json"] = File("receipt.json", subject, run)
       /\ disk["findings.json"] = File("findings.json", subject, run)
       /\ disk["receipts/baseline.receipt.json"] =
            File("receipts/baseline.receipt.json", subject, run)
       /\ disk["receipts/augmented.receipt.json"] =
            File("receipts/augmented.receipt.json", subject, run)
  BY <1>9, <1>b, <1>c, Zenon
<1>19. /\ disk["baseline.json"] = File("baseline.json", subject, run)
       /\ disk["augmented.json"] = File("augmented.json", subject, run)
       /\ disk["listing-assets.json"] = File("listing-assets.json", subject, run)
       /\ disk["listing-assets.json"].of = subject
  <2>1. \A p \in {"baseline.json", "augmented.json", "listing-assets.json"} :
          p \notin Dated /\ p # Manifest
    BY DEF Dated, Manifest, ArmReceipt
  <2>2. \A p \in {"baseline.json", "augmented.json", "listing-assets.json"} : p \in DOMAIN disk
    BY <1>16
  <2> QED BY <1>10, <1>b, <2>1, <2>2, Zenon
<1>20. subject \in Quiet
  <2>1. Scanned("listing-assets.json", disk["listing-assets.json"])
    BY <1>b, JobIs, AcceptsScan
  <2> QED BY <1>19, <2>1 DEF Scanned, ArmFile
<1>21. disk["README.md"] \in {File("README.md", subject, run), Torn}
  <2>1. \/ Accepts(As(disk), Job("readme", "README.md"), disk["README.md"])
        \/ Uncertain(Job("readme", "README.md"), disk["README.md"])
    BY <1>15, <1>16 DEF Taken
  <2>2. receipt.of = subject /\ receipt.run = run
    BY <1>18 DEF File, Dated
  <2>3. CASE Accepts(As(disk), Job("readme", "README.md"), disk["README.md"])
    BY <2>2, <2>3, AsIs, JobIs, AcceptsReadme
  <2>4. CASE Uncertain(Job("readme", "README.md"), disk["README.md"])
    BY <2>4, UncertainIs
  <2> QED BY <2>1, <2>3, <2>4
<1>22. disk["transcript.txt"].of \in Quiet \/ disk["transcript.txt"] = Torn
  <2>1. Scanned("transcript.txt", disk["transcript.txt"])
    BY <1>b, JobIs, AcceptsScan
  <2> QED BY <2>1 DEF Scanned, ArmFile
<1>23. disk["thumbnail.png"] # Torn
  <2>1. disk["thumbnail.png"].path = "thumbnail.png"
    BY <1>b, JobIs, AcceptsMedia
  <2> QED BY <2>1 DEF Torn
<1>24. /\ \A p \in {"contracts/arm-contract-set.json", "contracts/package-contract-set.json",
                      "policies/package-policy.json"} : disk[p].of = "bound"
       /\ disk["policies/arm-policy.json"].of \in {"bound", "alike"}
  BY <1>11, <1>12, <1>c
<1>25. /\ ArmFile.baseline = "baseline.json" /\ ArmFile.augmented = "augmented.json"
       /\ ArmReceipt.baseline = "receipts/baseline.receipt.json"
       /\ ArmReceipt.augmented = "receipts/augmented.receipt.json"
  BY DEF ArmFile, ArmReceipt
<1>26. \A p \in {"proof.json", "receipt.json", "findings.json", "listing-assets.json",
                  ArmFile.baseline, ArmFile.augmented, ArmReceipt.baseline,
                  ArmReceipt.augmented} : disk[p] = File(p, subject, run)
  BY <1>8, <1>18, <1>19, <1>25
<1> HIDE DEF run, proof, receipt
<1> QED BY <1>6, <1>7, <1>8, <1>20, <1>21, <1>22, <1>23, <1>24, <1>26 DEF Sound

\* A steady verifier accepts what one that has read this directory accepts.
LEMMA AcceptsThen ==
  ASSUME TypeInv, SteadyInv, verifier.steady, verifier.phase = "read", verifier.at <= 25
  PROVE  LET job == Readings[verifier.at]
         IN  /\ verifier.at \in 1..25 /\ OneOf(job.purpose, job.path)
             /\ \A content : Accepts(verifier, job, content) <=> Accepts(As(disk), job, content)
<1> DEFINE job == Readings[verifier.at]
<1>1. Inspected /\ verifier.manifest = disk[Manifest]
  BY DEF SteadyInv
<1>2. verifier.at \in 1..25
  <2>1. verifier.at \in 0..26
    BY ReadingsAre DEF TypeInv, TypeOK
  <2>2. verifier.at >= 1
    BY <1>1 DEF Inspected
  <2> QED BY <2>1, <2>2
<1>3. PICK at \in 1..25 : at = verifier.at
  BY <1>2
<1>4. /\ OneOf(Readings[at].purpose, Readings[at].path)
      /\ at = 1 => Readings[at].purpose = "proof"
      /\ at = 2 => Readings[at].purpose = "receipt"
  BY JobsAre
<1>5. PICK j : j = job
  OBVIOUS
<1>6. PICK v, w : v = verifier /\ w = As(disk)
  OBVIOUS
<1>7. /\ OneOf(j.purpose, j.path)
      /\ v.manifest = w.manifest
      /\ j.purpose # "proof" => v.proof = w.proof
      /\ j.purpose \notin {"proof", "receipt"} => v.receipt = w.receipt
  BY <1>1, <1>3, <1>4, <1>5, <1>6, AsIs DEF Inspected
<1>8. \A content : Accepts(v, j, content) <=> Accepts(w, j, content)
  BY <1>7, AcceptsSame
<1> QED BY <1>2, <1>5, <1>6, <1>7, <1>8

\* A step of the verifier keeps its readings settled.
LEMMA VerifierSteady ==
  ASSUME TypeInv, FilesInv, SteadyInv, UNCHANGED <<disk, plan>>, StartVerify \/ Verify
  PROVE  SteadyInv'
<1> USE DEF TypeInv
<1>0. /\ subject' = subject
      /\ Sound(disk)' <=> Sound(disk)
      /\ Pristine(disk)' <=> Pristine(disk)
      /\ Sealed(disk)' <=> Sealed(disk)
      /\ \A job : Settled(job)' <=> Settled(job)
  BY DEF subject, Sound, Pristine, Sealed, Settled
<1>r. ASSUME Verdict("refused"), verifier.steady => ~Pristine(disk)
      PROVE  SteadyInv'
  <2>1. /\ verifier'.phase = "idle" /\ verifier'.verdict = "refused"
        /\ verifier'.steady = verifier.steady
    BY <1>r, VerdictIs
  <2> QED BY <1>0, <1>r, <2>1 DEF SteadyInv
<1>m. ASSUME verifier.steady, verifier.phase \in {"list", "hash", "read"}
      PROVE  Sealed(disk) /\ verifier.manifest = disk[Manifest]
  BY <1>m DEF SteadyInv
<1>c. ASSUME verifier.steady, verifier.phase \in {"hash", "read"}
      PROVE  Compared
  BY <1>c DEF SteadyInv
<1>1. CASE StartVerify
  <2>1. verifier'.phase = "manifest" /\ verifier'.verdict = "none"
    BY <1>1 DEF StartVerify, Resting
  <2> QED BY <2>1 DEF SteadyInv
<1>2. CASE ReadManifest
  <2>1. CASE Sealed(disk)
    <3>1. PICK whole : verifier' = [verifier EXCEPT !.phase = "list",
                                      !.manifest = disk[Manifest], !.whole = whole]
      BY <1>2, <2>1 DEF ReadManifest, Sealed
    <3>2. /\ verifier'.phase = "list" /\ verifier'.manifest = disk[Manifest]
          /\ verifier'.verdict = verifier.verdict
      BY <3>1 DEF Shape
    <3>3. verifier.verdict = "none"
      BY <1>2 DEF ReadManifest, TypeOK
    <3> QED BY <1>0, <2>1, <3>2, <3>3 DEF SteadyInv
  <2>2. CASE ~Sealed(disk)
    <3>1. Verdict("refused")
      BY <1>2, <2>2 DEF ReadManifest, Sealed
    <3> QED BY <1>r, <2>2, <3>1, PristineIs
  <2> QED BY <2>1, <2>2
<1>3. CASE ListFiles
  <2>1. CASE Complete(verifier.manifest, disk)
    <3>1. /\ verifier.phase = "list"
          /\ verifier' = [verifier EXCEPT !.phase = "hash",
                                          !.left = DOMAIN verifier.manifest.listed]
      BY <1>3, <2>1 DEF ListFiles
    <3>2. /\ verifier'.phase = "hash" /\ verifier'.manifest = verifier.manifest
          /\ verifier'.left = DOMAIN verifier.manifest.listed
          /\ verifier'.verdict = verifier.verdict /\ verifier'.steady = verifier.steady
      BY <3>1 DEF Shape
    <3>3. verifier.verdict = "none"
      BY <3>1 DEF TypeOK
    <3>4. verifier.steady => Compared'
      BY <1>m, <2>1, <3>1, <3>2 DEF Compared
    <3> QED BY <1>0, <1>m, <3>1, <3>2, <3>3, <3>4 DEF SteadyInv
  <2>2. CASE ~Complete(verifier.manifest, disk)
    <3>1. Verdict("refused") /\ verifier.phase = "list"
      BY <1>3, <2>2 DEF ListFiles
    <3> QED BY <1>m, <1>r, <2>2, <3>1, PristineIs
  <2> QED BY <2>1, <2>2
<1>4. CASE HashFile
  <2>1. PICK path \in verifier.left :
          IF Matches(verifier.manifest, path)
          THEN verifier' = [verifier EXCEPT !.left = @ \ {path}]
          ELSE Verdict("refused")
    BY <1>4 DEF HashFile
  <2>2. verifier.phase = "hash"
    BY <1>4 DEF HashFile
  <2>3. CASE Matches(verifier.manifest, path)
    <3>1. /\ verifier'.phase = "hash" /\ verifier'.manifest = verifier.manifest
          /\ verifier'.left = verifier.left \ {path}
          /\ verifier'.verdict = verifier.verdict /\ verifier'.steady = verifier.steady
      BY <2>1, <2>2, <2>3 DEF Shape
    <3>2. verifier.verdict = "none"
      BY <2>2 DEF TypeOK
    <3>3. verifier.steady => Compared'
      BY <1>m, <1>c, <2>2, <2>3, <3>1 DEF Compared, Matches
    <3> QED BY <1>0, <1>m, <2>2, <3>1, <3>2, <3>3 DEF SteadyInv
  <2>4. CASE ~Matches(verifier.manifest, path)
    <3>1. Verdict("refused")
      BY <2>1, <2>4
    <3>2. ASSUME verifier.steady, Pristine(disk) PROVE FALSE
      <4>1. disk[Manifest].listed = Relative(disk)
        BY <3>2, PristineIs
      <4>2. verifier.manifest = disk[Manifest] /\ path \in DOMAIN disk[Manifest].listed
        BY <1>m, <1>c, <2>2, <3>2 DEF Compared
      <4> QED BY <2>4, <4>1, <4>2 DEF Matches, Relative
    <3> QED BY <1>r, <3>1, <3>2
  <2> QED BY <2>3, <2>4
<1>5. CASE Hashed
  <2>1. verifier.phase = "hash" /\ verifier.left = {}
    BY <1>5 DEF Hashed
  <2>2. CASE verifier.manifest.admitted
    <3>1. verifier' = [verifier EXCEPT !.phase = "read", !.at = 1]
      BY <1>5, <2>2 DEF Hashed
    <3>2. /\ verifier'.phase = "read" /\ verifier'.manifest = verifier.manifest
          /\ verifier'.left = verifier.left /\ verifier'.at = 1
          /\ verifier'.verdict = verifier.verdict /\ verifier'.steady = verifier.steady
      BY <3>1 DEF Shape
    <3>3. verifier.verdict = "none"
      BY <2>1 DEF TypeOK
    <3>4. verifier.steady => Compared'
      BY <1>c, <2>1, <3>2 DEF Compared
    <3>5. Inspected'
      <4>1. 1..(1 - 1) = {} /\ 1 >= 1 /\ ~(1 > 1) /\ ~(1 > 2)
        OBVIOUS
      <4> QED BY <2>1, <3>2, <4>1 DEF Inspected
    <3> QED BY <1>0, <1>m, <2>1, <3>2, <3>3, <3>4, <3>5 DEF SteadyInv
  <2>3. CASE ~verifier.manifest.admitted
    <3>1. Verdict("refused")
      BY <1>5, <2>3 DEF Hashed
    <3> QED BY <1>m, <1>r, <2>1, <2>3, <3>1, PristineIs
  <2> QED BY <2>2, <2>3
<1>6. CASE Read
  <2> DEFINE job == Readings[verifier.at]
             content == disk[job.path]
             on == [verifier EXCEPT !.at = @ + 1]
  <2>1. verifier.phase = "read" /\ verifier.at <= 25 /\ verifier.verdict = "none"
    BY <1>6, ReadingsAre DEF Read, TypeOK
  <2>2. \/ /\ job.path \in DOMAIN disk
           /\ Accepts(verifier, job, content) \/ Uncertain(job, content)
           /\ verifier' = CASE job.purpose = "proof" -> [on EXCEPT !.proof = content]
                              [] job.purpose = "receipt" -> [on EXCEPT !.receipt = content]
                              [] OTHER -> on
        \/ job.path \notin DOMAIN disk /\ Skipped(job) /\ verifier' = on
        \/ /\ IF job.path \in DOMAIN disk THEN ~Accepts(verifier, job, content) ELSE ~Skipped(job)
           /\ Verdict("refused")
    BY <1>6 DEF Read
  <2>3. ASSUME verifier.steady
        PROVE  /\ verifier.at \in 1..25 /\ OneOf(job.purpose, job.path)
               /\ Accepts(verifier, job, content) <=> Accepts(As(disk), job, content)
    BY <2>1, <2>3, AcceptsThen
  <2>4. CASE /\ IF job.path \in DOMAIN disk THEN ~Accepts(verifier, job, content)
                ELSE ~Skipped(job)
             /\ Verdict("refused")
    <3>1. ASSUME verifier.steady, Pristine(disk) PROVE FALSE
      <4>1. OneOf(job.purpose, job.path)
        BY <2>3, <3>1
      <4>2. job.path \in DOMAIN disk /\ Accepts(As(disk), job, disk[job.path])
        BY <3>1, <4>1, PristineIs
      <4> QED BY <2>3, <2>4, <3>1, <4>2
    <3> QED BY <1>r, <2>4, <3>1
  <2>5. CASE \/ /\ job.path \in DOMAIN disk
                /\ Accepts(verifier, job, content) \/ Uncertain(job, content)
                /\ verifier' = CASE job.purpose = "proof" -> [on EXCEPT !.proof = content]
                                   [] job.purpose = "receipt" -> [on EXCEPT !.receipt = content]
                                   [] OTHER -> on
             \/ job.path \notin DOMAIN disk /\ Skipped(job) /\ verifier' = on
    <3>1. \/ verifier' = on
          \/ verifier' = [on EXCEPT !.proof = content] /\ job.purpose = "proof"
          \/ verifier' = [on EXCEPT !.receipt = content] /\ job.purpose = "receipt"
      BY <2>5
    <3>2. /\ verifier'.phase = "read" /\ verifier'.manifest = verifier.manifest
          /\ verifier'.left = verifier.left /\ verifier'.at = verifier.at + 1
          /\ verifier'.verdict = "none" /\ verifier'.steady = verifier.steady
          /\ job.purpose # "proof" => verifier'.proof = verifier.proof
          /\ job.purpose # "receipt" => verifier'.receipt = verifier.receipt
      BY <2>1, <3>1 DEF Shape
    <3> SUFFICES ASSUME verifier.steady PROVE SteadyInv'
      BY <3>2 DEF SteadyInv
    <3>3. Sealed(disk) /\ verifier.manifest = disk[Manifest] /\ Compared /\ Inspected
      BY <2>1 DEF SteadyInv
    <3>4. Compared'
      BY <3>2, <3>3 DEF Compared
    <3>5. verifier.at \in 1..25 /\ Settled(job)
      BY <2>3, <2>5 DEF Settled
    <3>6. \A i \in 1..(verifier.at + 1 - 1) : Settled(Readings[i])
      <4>1. 1..(verifier.at + 1 - 1) = 1..(verifier.at - 1) \cup {verifier.at}
        BY <3>5
      <4> QED BY <3>3, <3>5, <4>1 DEF Inspected
    <3>7. /\ verifier.at = 1 => job.purpose = "proof" /\ job.path = "proof.json"
          /\ verifier.at = 2 => job.purpose = "receipt" /\ job.path = "receipt.json"
          /\ verifier.at > 1 => job.purpose # "proof"
          /\ verifier.at > 2 => job.purpose # "receipt"
      <4>1. PICK at \in 1..25 : at = verifier.at
        BY <3>5
      <4>2. /\ at = 1 => Readings[at].purpose = "proof"
            /\ at = 2 => Readings[at].purpose = "receipt"
            /\ at > 1 => Readings[at].purpose # "proof"
            /\ at > 2 => Readings[at].purpose \notin {"proof", "receipt"}
            /\ OneOf(Readings[at].purpose, Readings[at].path)
        BY JobsAre
      <4> QED BY <4>1, <4>2 DEF OneOf
    <3>8. verifier.at + 1 > 1 => verifier'.proof = disk["proof.json"]
      <4>1. CASE verifier.at = 1
        <5>1. verifier' = [on EXCEPT !.proof = content]
          <6>1. job.purpose = "proof" /\ ~Skipped(job)
            BY <3>7, <4>1 DEF Skipped
          <6> QED BY <2>5, <6>1
        <5>2. verifier'.proof = content
          BY <5>1 DEF Shape
        <5> QED BY <3>7, <4>1, <5>2
      <4>2. CASE verifier.at > 1
        BY <3>2, <3>3, <3>7, <4>2 DEF Inspected
      <4> QED BY <3>5, <4>1, <4>2
    <3>9. verifier.at + 1 > 2 => verifier'.receipt = disk["receipt.json"]
      <4>1. CASE verifier.at = 1
        BY <4>1
      <4>2. CASE verifier.at = 2
        <5>1. verifier' = [on EXCEPT !.receipt = content]
          <6>1. job.purpose = "receipt" /\ ~Skipped(job)
            BY <3>7, <4>2 DEF Skipped
          <6> QED BY <2>5, <6>1
        <5>2. verifier'.receipt = content
          BY <5>1 DEF Shape
        <5> QED BY <3>7, <4>2, <5>2
      <4>3. CASE verifier.at > 2
        BY <3>2, <3>3, <3>7, <4>3 DEF Inspected
      <4> QED BY <3>5, <4>1, <4>2, <4>3
    <3>10. Inspected'
      <4>1. verifier.at + 1 >= 1
        BY <3>5
      <4>2. verifier'.left = {}
        BY <3>2, <3>3 DEF Inspected
      <4>3. \A i \in 1..(verifier.at + 1 - 1) : Settled(Readings[i])'
        BY <1>0, <3>6
      <4>4. /\ disk' = disk /\ verifier'.at = verifier.at + 1
        BY <3>2
      <4>5. \A i \in 1..(verifier'.at - 1) : Settled(Readings[i])'
        <5>1. SUFFICES ASSUME NEW i \in 1..(verifier'.at - 1) PROVE Settled(Readings[i])'
          OBVIOUS
        <5>2. PICK m \in 1..25 : m = verifier.at
          BY <3>5
        <5>3. verifier'.at - 1 = m
          BY <4>4, <5>2
        <5>4. i \in 1..(m + 1 - 1)
          BY <5>2, <5>3
        <5>5. i \in 1..(verifier.at + 1 - 1)
          BY <5>2, <5>4
        <5> QED BY <5>5, <4>3
      <4>6. verifier'.at >= 1
        BY <4>1, <4>4
      <4>7. verifier'.at > 1 => verifier'.proof = disk'["proof.json"]
        BY <3>8, <4>4
      <4>8. verifier'.at > 2 => verifier'.receipt = disk'["receipt.json"]
        BY <3>9, <4>4
      <4> QED BY <4>2, <4>5, <4>6, <4>7, <4>8 DEF Inspected
    <3>11. Sealed(disk)' /\ verifier'.manifest = disk'[Manifest]
      BY <1>0, <3>2, <3>3
    <3>12. verifier'.phase = "read" /\ verifier'.verdict = "none"
      BY <3>2
    <3>13. verifier'.phase # "idle" /\ verifier'.verdict \notin {"verified", "refused"}
      BY <3>12
    <3> HIDE DEF job, content, on
    <3> QED BY Zenon, <3>4, <3>10, <3>11, <3>13 DEF SteadyInv
  <2> HIDE DEF job, content, on
  <2> QED BY <2>2, <2>4, <2>5
<1>7. CASE Verified
  <2>1. verifier.phase = "read" /\ verifier.at > 25 /\ Verdict("verified")
    BY <1>7, ReadingsAre DEF Verified
  <2>2. /\ verifier'.phase = "idle" /\ verifier'.verdict = "verified"
        /\ verifier'.steady = verifier.steady
    BY <2>1, VerdictIs
  <2>3. ASSUME verifier.steady PROVE Sound(disk)
    <3>1. Sealed(disk) /\ Compared /\ Inspected
      BY <2>1, <2>3 DEF SteadyInv
    <3>2. verifier.at = 26
      <4>1. verifier.at \in 0..26
        BY ReadingsAre DEF TypeOK
      <4> QED BY <2>1, <4>1
    <3>3. verifier.left = {} /\ \A i \in 1..25 : Settled(Readings[i])
      BY <3>1, <3>2 DEF Inspected
    <3> QED BY <3>1, <3>3, SettledIsSound
  <2> QED BY <1>0, <2>2, <2>3 DEF SteadyInv
<1> QED BY <1>1, <1>2, <1>3, <1>4, <1>5, <1>6, <1>7 DEF Verify

\* One step keeps the readings settled.
LEMMA SteadyStep ==
  ASSUME WriterInv, FilesInv, SteadyInv, Next
  PROVE  SteadyInv'
<1>1. ASSUME UNCHANGED <<disk, plan, verifier>>
      PROVE  SteadyInv'
  <2>1. subject' = subject
    BY <1>1 DEF subject
  <2> QED BY <1>1, <2>1 DEF SteadyInv, Compared, Inspected, Settled, Sealed, Sound, Pristine
<1>2. ASSUME Disturb
      PROVE  SteadyInv'
  <2>1. verifier'.steady = FALSE
    BY <1>2 DEF Disturb, Resting, WriterInv, TypeInv, Shape
  <2> QED BY <2>1 DEF SteadyInv
<1>3. ASSUME NEW render, StartWrite(render)
      PROVE  SteadyInv'
  BY <1>1, <1>3 DEF StartWrite
<1>4. CASE Write \/ Stop
  <2>1. Disturb \/ UNCHANGED <<disk, plan, verifier>>
    BY <1>4 DEF Write, Clear, Cleared, OpenFile, CloseFile, Return, Stop
  <2> QED BY <1>1, <1>2, <2>1
<1>5. CASE StartVerify \/ Verify
  <2>1. UNCHANGED <<disk, plan>>
    BY <1>5 DEF StartVerify, Verify, ReadManifest, ListFiles, HashFile, Hashed, Read, Verified
  <2> QED BY <1>5, <2>1, VerifierSteady DEF WriterInv
<1>6. CASE Edit
  <2>1. verifier' = Resting
    BY <1>6, EditIs DEF WriterInv
  <2>2. ~verifier'.steady
    BY <2>1 DEF Resting
  <2> QED BY <2>2 DEF SteadyInv
<1> QED BY <1>3, <1>4, <1>5, <1>6 DEF Next

\* What holds of a steady verdict.
VerdictInv == WriterInv /\ FilesInv /\ SteadyInv

\* It holds at first.
LEMMA VerdictInit == Init => VerdictInv
<1> SUFFICES ASSUME Init PROVE VerdictInv
  OBVIOUS
<1>1. FilesInv
  BY DEF Init, FilesInv, Sealed, Idle
<1>2. SteadyInv
  BY DEF Init, SteadyInv, Resting
<1> QED BY <1>1, <1>2, WriterInit DEF VerdictInv

\* One step keeps it.
LEMMA VerdictStep == VerdictInv /\ [Next]_vars => VerdictInv'
<1> SUFFICES ASSUME VerdictInv, [Next]_vars PROVE VerdictInv'
  OBVIOUS
<1>1. WriterInv'
  BY WriterStep DEF VerdictInv
<1>2. CASE Next
  <2>1. FilesInv'
    BY <1>1, <1>2, FilesStep DEF VerdictInv
  <2>2. SteadyInv'
    BY <1>2, SteadyStep DEF VerdictInv
  <2> QED BY <1>1, <2>1, <2>2 DEF VerdictInv
<1>3. CASE UNCHANGED vars
  <2>1. /\ UNCHANGED <<disk, plan, writer, verifier, edits>>
        /\ Current' = Current /\ subject' = subject
    BY <1>3 DEF vars, Order, Current, subject
  <2>2. FilesInv'
    BY <2>1 DEF VerdictInv, FilesInv, Known, Seal, Sealed
  <2>3. SteadyInv'
    BY <2>1 DEF VerdictInv, SteadyInv, Compared, Inspected, Settled, Sealed, Sound, Pristine
  <2> QED BY <1>1, <2>2, <2>3 DEF VerdictInv
<1> QED BY <1>2, <1>3

\* Where nothing changes while verify_package runs, what it refuses was not as written and
\* what it verifies is Sound: the proof, receipts, arm files, findings and listing are of
\* one build of an admitted artifact under its contracts and package policy, and each file
\* that is listed is there as it was.  Nothing is said of a file below the directory that
\* is named like the manifest, nor of whose transcript it holds.
THEOREM SteadyHolds == Spec => []SteadyVerdictIsRight
<1>1. VerdictInv => SteadyVerdictIsRight
  BY DEF VerdictInv, SteadyInv, SteadyVerdictIsRight
<1> QED BY <1>1, VerdictInit, VerdictStep, PTL DEF Spec

-----------------------------------------------------------------------------
(* The directory as a shelf: when its package is whole.                   *)

\* A directory without a readable manifest, or without the transcript that every build
\* writes, holds no whole package.
Bare(dir) == ~Sealed(dir) \/ "transcript.txt" \notin DOMAIN dir

LEMMA NothingWhole ==
  ASSUME NEW dir, Bare(dir), NEW run, NEW render \in BOOLEAN
  PROVE  ~(Manifest \in DOMAIN dir /\ WholeOf(dir, subject, run, render))
<1>1. CASE ~Sealed(dir)
  <2>1. ManifestOf(dir, subject, run) # Torn
    BY DEF ManifestOf, Torn, Manifest
  <2> QED BY <1>1, <2>1 DEF Sealed, WholeOf
<1>2. CASE "transcript.txt" \notin DOMAIN dir
  <2>1. "transcript.txt" \in ToSet(WriteOrder(subject, render)) \ {Manifest}
    BY OrderIs, RecordsAre DEF Manifest
  <2>2. "transcript.txt" \notin DOMAIN Relative(dir)
    BY <1>2 DEF Relative
  <2> QED BY <2>1, <2>2 DEF WholeOf
<1> QED BY <1>1, <1>2 DEF Bare

\* Its shelf is bare.
LEMMA BareShelf ==
  ASSUME Bare(disk)
  PROVE  OnShelf = 0 /\ ~Pristine(disk)
<1>1. OnShelf = 0
  BY NothingWhole DEF OnShelf
<1>2. ~Pristine(disk)
  BY NothingWhole DEF Pristine
<1> QED BY <1>1, <1>2

\* The same of the next state.
LEMMA BareShelfNext ==
  ASSUME Bare(disk)', UNCHANGED plan
  PROVE  OnShelf' = 0 /\ ~Pristine(disk)'
<1>0. subject' = subject
  BY DEF subject
<1>1. PICK dir : dir = disk'
  OBVIOUS
<1>2. Bare(dir)
  BY <1>1 DEF Bare, Sealed
<1>3. ASSUME NEW run, NEW render \in BOOLEAN
      PROVE  ~(Manifest \in DOMAIN disk /\ WholeOf(disk, subject, run, render))'
  <2>1. ~(Manifest \in DOMAIN dir /\ WholeOf(dir, subject, run, render))
    BY <1>2, NothingWhole
  <2> QED BY <1>0, <1>1, <2>1 DEF WholeOf
<1>4. OnShelf' = 0
  BY <1>3 DEF OnShelf
<1>5. ~Pristine(disk)'
  BY <1>3 DEF Pristine
<1> QED BY <1>4, <1>5

\* What is removed first is the transcript, the last of all names.
LEMMA ClearBares ==
  ASSUME TypeInv, Clear
  PROVE  Bare(disk)'
<1>1. PICK path \in DOMAIN disk : IsLast(path, DOMAIN disk) /\ disk' = Without(disk, path)
  BY DEF Clear
<1>2. path \in Paths
  BY DEF TypeInv, TypeOK
<1>3. /\ DOMAIN Sorted = 1..22
      /\ \A i \in 1..22 : Sorted[i] = "transcript.txt" => i = 22
      /\ Sorted[22] = "transcript.txt"
  BY DEF Sorted, ArmFile, ArmReceipt, Manifest
<1>4. \A p \in Paths : Place[p] \in 1..22 /\ Sorted[Place[p]] = p
  <2>1. ASSUME NEW p \in Paths
        PROVE  Place[p] \in 1..22 /\ Sorted[Place[p]] = p
    <3>1. \E i \in DOMAIN Sorted : Sorted[i] = p
      BY DEF Paths, ToSet
    <3>2. Place[p] = CHOOSE i \in DOMAIN Sorted : Sorted[i] = p
      BY DEF Place
    <3> QED BY <1>3, <3>1, <3>2
  <2> QED BY <2>1
<1>5. "transcript.txt" \in Paths
  BY PathsAre
<1>6. Place["transcript.txt"] = 22
  BY <1>3, <1>4, <1>5
<1>7. "transcript.txt" \in DOMAIN disk => path = "transcript.txt"
  <2> SUFFICES ASSUME "transcript.txt" \in DOMAIN disk PROVE path = "transcript.txt"
    OBVIOUS
  <2>1. Place["transcript.txt"] <= Place[path]
    BY <1>1 DEF IsLast
  <2>2. Place[path] = 22
    BY <1>2, <1>4, <1>6, <2>1
  <2> QED BY <1>2, <1>3, <1>4, <2>2
<1>8. "transcript.txt" \notin DOMAIN disk'
  BY <1>1, <1>7 DEF Without
<1> QED BY <1>8 DEF Bare

\* A build that is not at its end has no manifest there that can be read.
LEMMA UnfinishedIsBare ==
  ASSUME TypeInv, WriteInv, writer.phase \in {"write", "close"}, writer.at <= Len(Order)
  PROVE  Bare(disk)
<1>1. /\ Len(Order) \in Nat /\ Distinct(Order) /\ DOMAIN Order = 1..Len(Order)
      /\ Order[Len(Order)] = Manifest /\ writer.at \in Nat
  BY CurrentOrder DEF TypeInv
<1>2. \A i \in 1..(writer.at - 1) : Order[i] # Manifest
  <2>1. writer.at \in 1..Len(Order)
    BY <1>1 DEF TypeInv, Position
  <2>2. \A i \in 1..(writer.at - 1) : i \in 1..Len(Order) /\ i # Len(Order)
    BY <1>1, <2>1, BelowIs
  <2>3. Len(Order) \in 1..Len(Order)
    BY <2>1, <1>1
  <2> QED BY <1>1, <2>2, <2>3 DEF Distinct
<1>3. Manifest \in DOMAIN disk => writer.phase = "close" /\ Current = Manifest
  BY <1>2 DEF WriteInv
<1>4. writer.phase = "close" => disk[Current] = Torn
  BY DEF WriteInv
<1> QED BY <1>3, <1>4 DEF Bare, Sealed

\* A build at its end has put its whole package there.
LEMMA FinishedIsWhole ==
  ASSUME TypeInv, WriteInv, writer.phase = "write", writer.at > Len(Order)
  PROVE  /\ Sealed(disk) /\ disk[Manifest].run = writer.run
         /\ writer.render \in BOOLEAN
         /\ WholeOf(disk, subject, writer.run, writer.render)
<1>1. /\ Len(Order) \in Nat /\ Distinct(Order) /\ DOMAIN Order = 1..Len(Order)
      /\ Order[Len(Order)] = Manifest /\ writer.at \in Nat /\ Len(Order) > 1
  BY CurrentOrder DEF TypeInv
<1>2. writer.at = Len(Order) + 1
  BY <1>1 DEF TypeInv, TypeOK
<1>3. ToSet(Order) = {Order[i] : i \in 1..(writer.at - 1)}
  BY <1>1, <1>2 DEF ToSet
<1>4. /\ DOMAIN disk = ToSet(Order)
      /\ \A i \in 1..(writer.at - 1) :
           Order[i] # Manifest => Good(Order[i], writer.run, disk[Order[i]])
      /\ disk[Manifest] = ManifestOf(disk, subject, writer.run)
  BY <1>3 DEF WriteInv
<1>5. \A p \in ToSet(Order) \ {Manifest} : Good(p, writer.run, disk[p])
  BY <1>3, <1>4
<1>6. PICK render \in BOOLEAN : render = writer.render
  BY DEF TypeInv, Shape
<1>7. Order = WriteOrder(subject, render)
  BY <1>6 DEF Order
<1>8. "media/proof-manifest.json" \notin ToSet(Order)
  <2>1. ToSet(Order) = ToSet(Records) \cup ToSet(Middle(subject, render)) \cup {Manifest}
    BY <1>7, OrderIs
  <2>2. "media/proof-manifest.json" \notin ToSet(Middle(subject, render))
    BY MiddleIs
  <2> QED BY <2>1, <2>2, RecordsAre DEF Manifest
<1>9. DOMAIN Relative(disk) = ToSet(Order) \ {Manifest}
  BY <1>4, <1>8 DEF Relative
<1>10. Manifest \in DOMAIN disk
  BY <1>1, <1>4 DEF ToSet
<1>11. WholeOf(disk, subject, writer.run, render)
  BY <1>4, <1>5, <1>7, <1>9, <1>10, Zenon DEF WholeOf, Good
<1>12. disk[Manifest] # Torn /\ disk[Manifest].run = writer.run
  BY <1>4 DEF ManifestOf, Torn, Manifest
<1> QED BY <1>6, <1>10, <1>11, <1>12 DEF Sealed

-----------------------------------------------------------------------------

\* A manifest that can be read is of a build that was begun, also one made anew.
RunInv == Sealed(disk) => disk[Manifest].run \in 1..writer.run

\* A manifest that was made anew, or relabelled, is of the run it was of.
LEMMA SealKeepsRun ==
  ASSUME NEW m, Seal(m)
  PROVE  \A n, x, y :
           n = [m EXCEPT !.listed = x, !.anew = y] \/ n = [m EXCEPT !.admitted = x, !.anew = y]
             => n.run = m.run
<1>1. PICK r, a, b, c, d, f, g :
        /\ r = Required(subject \in Admitted) /\ a = m.path /\ b = subject /\ c = m.run
        /\ d = m.admitted /\ f = m.listed /\ g = m.anew
  OBVIOUS
<1>2. m = [path |-> a, of |-> b, run |-> c, admitted |-> d, required |-> r,
           listed |-> f, anew |-> g]
  BY <1>1, Zenon DEF Seal
<1>3. TAKE n, x, y
<1>4. CASE n = [m EXCEPT !.listed = x, !.anew = y]
  <2>1. n = [path |-> a, of |-> b, run |-> c, admitted |-> d, required |-> r,
             listed |-> x, anew |-> y]
    BY <1>2, <1>4, SealExcept
  <2> QED BY <1>1, <2>1
<1>5. CASE n = [m EXCEPT !.admitted = x, !.anew = y]
  <2>1. n = [path |-> a, of |-> b, run |-> c, admitted |-> x, required |-> r,
             listed |-> f, anew |-> y]
    BY <1>2, <1>5, SealExcept
  <2> QED BY <1>1, <2>1
<1> QED BY <1>4, <1>5

\* A relabelled manifest is one of this artifact.
LEMMA RelabelKeepsSeal ==
  ASSUME NEW m, Seal(m), NEW y, NEW n, n = [m EXCEPT !.admitted = y, !.anew = y]
  PROVE  Seal(n)
<1>1. PICK r, a, b, c, d, f, g :
        /\ r = Required(subject \in Admitted) /\ a = m.path /\ b = subject /\ c = m.run
        /\ d = m.admitted /\ f = m.listed /\ g = m.anew
  OBVIOUS
<1>2. m = [path |-> a, of |-> b, run |-> c, admitted |-> d, required |-> r,
           listed |-> f, anew |-> g]
  BY <1>1, Zenon DEF Seal
<1>3. n = [path |-> a, of |-> b, run |-> c, admitted |-> y, required |-> r,
           listed |-> f, anew |-> y]
  BY <1>2, SealExcept
<1>4. /\ n.listed = m.listed
      /\ n = [path |-> n.path, of |-> subject, run |-> n.run, admitted |-> n.admitted,
              required |-> r, listed |-> n.listed, anew |-> n.anew]
  BY <1>1, <1>3
<1>5. /\ n.listed = m.listed
      /\ n = [path |-> n.path, of |-> subject, run |-> n.run, admitted |-> n.admitted,
              required |-> Required(subject \in Admitted), listed |-> n.listed, anew |-> n.anew]
  BY <1>1, <1>4, Zenon
<1> QED BY <1>5 DEF Seal

\* A change by others leaves no manifest of another run.
LEMMA ChangeRun ==
  ASSUME RunInv, NEW dir, Change(dir),
         Sealed(dir) => /\ Sealed(disk) /\ Seal(dir[Manifest])
                        /\ dir[Manifest].run = disk[Manifest].run
  PROVE  RunInv'
<1>1. UNCHANGED writer
  BY DEF Change
<1>2. CASE disk' = dir
  BY <1>1, <1>2 DEF RunInv, Sealed
<1>3. CASE /\ Manifest \in DOMAIN dir /\ dir[Manifest] # Torn
           /\ disk' = Resealed(dir)
  <2>1. PICK m : m = dir[Manifest]
    OBVIOUS
  <2>2. PICK yes : yes = TRUE
    OBVIOUS
  <2>x. PICK x : x = Relative(dir)
    OBVIOUS
  <2>3. PICK n : n = [m EXCEPT !.listed = x, !.anew = yes]
    OBVIOUS
  <2>4. disk' = [dir EXCEPT ![Manifest] = n]
    BY <1>3, <2>1, <2>2, <2>x, <2>3 DEF Resealed
  <2>5. Seal(m) /\ Sealed(disk) /\ m.run = disk[Manifest].run
    BY <1>3, <2>1 DEF Sealed
  <2>6. n.run = m.run
    <3>1. Seal(m)
      BY <2>5
    <3> QED BY <2>3, <3>1, SealKeepsRun
  <2>7. disk'[Manifest] = n
    BY <1>3, <2>4
  <2> QED BY <1>1, <2>5, <2>6, <2>7 DEF RunInv
<1> QED BY <1>2, <1>3 DEF Change

\* One step leaves no manifest of a build that was not begun.
LEMMA RunStep ==
  ASSUME WriterInv, FilesInv, RunInv, Next
  PROVE  RunInv'
<1> USE DEF WriterInv, TypeInv
<1>0. writer.run \in Nat
  BY PlanIs
<1>1. ASSUME UNCHANGED disk, writer'.run \in {writer.run, writer.run + 1}
      PROVE  RunInv'
  BY <1>0, <1>1 DEF RunInv, Sealed
<1>2. ASSUME NEW render, StartWrite(render)
      PROVE  RunInv'
  <2>1. /\ UNCHANGED <<disk, plan>>
        /\ writer' = [phase |-> "clear", run |-> writer.run + 1, render |-> render, at |-> 0,
                      content |-> Torn]
    BY <1>2, StartWriteIs
  <2> QED BY <1>1, <2>1
<1>3. CASE Clear
  <2>1. PICK path \in DOMAIN disk : disk' = Without(disk, path)
    BY <1>3 DEF Clear
  <2>2. UNCHANGED writer
    BY <1>3 DEF Clear
  <2> QED BY <2>1, <2>2 DEF Without, RunInv, Sealed
<1>4. CASE Cleared \/ Return \/ Stop
  <2>1. UNCHANGED disk /\ writer'.run = writer.run
    BY <1>4 DEF Cleared, Return, Stop, Shape
  <2> QED BY <1>1, <2>1
<1>5. CASE OpenFile
  <2>1. disk' = With(disk, Current, Torn) /\ writer'.run = writer.run
    BY <1>5 DEF OpenFile, Shape
  <2> QED BY <2>1 DEF With, RunInv, Sealed
<1>6. CASE CloseFile
  <2>1. /\ writer.phase = "close" /\ disk' = With(disk, Current, writer.content)
        /\ writer'.run = writer.run
    BY <1>6 DEF CloseFile, Shape
  <2>2. CASE Current = Manifest
    <3>1. writer.content = ManifestOf(disk, subject, writer.run)
      BY <2>1, <2>2 DEF WriteInv
    <3>2. writer.content.run = writer.run
      BY <3>1 DEF ManifestOf
    <3>3. writer.run \in 1..writer.run
      BY <1>0, <2>1 DEF Position
    <3>4. disk'[Manifest] = writer.content
      BY <2>1, <2>2 DEF With
    <3> QED BY <2>1, <3>2, <3>3, <3>4 DEF RunInv
  <2>3. CASE Current # Manifest
    BY <2>1, <2>3 DEF With, RunInv, Sealed
  <2> QED BY <2>2, <2>3
<1>7. CASE StartVerify \/ Verify
  <2>1. UNCHANGED <<disk, plan, writer>>
    BY <1>7 DEF StartVerify, Verify, ReadManifest, ListFiles, HashFile, Hashed, Read, Verified
  <2> QED BY <1>1, <2>1
<1>8. ASSUME NEW path, NEW content, path # Manifest, Change(With(disk, path, content))
      PROVE  RunInv'
  <2> DEFINE dir == With(disk, path, content)
  <2>1. Sealed(dir) => Sealed(disk) /\ dir[Manifest] = disk[Manifest]
    BY <1>8 DEF With, Sealed
  <2> HIDE DEF dir
  <2> QED BY <1>8, <2>1, ChangeRun DEF dir, FilesInv
<1>9. ASSUME NEW path, Change(Without(disk, path))
      PROVE  RunInv'
  <2> DEFINE dir == Without(disk, path)
  <2>1. Sealed(dir) => Sealed(disk) /\ dir[Manifest] = disk[Manifest]
    BY <1>9 DEF Without, Sealed
  <2> HIDE DEF dir
  <2> QED BY <1>9, <2>1, ChangeRun DEF dir, FilesInv
<1>10. ASSUME NEW path, Exchange(path) \/ Delete(path)
       PROVE  RunInv'
  BY <1>8, <1>9, <1>10 DEF Exchange, Delete
<1>11. ASSUME NEW path \in Extras, Add(path)
       PROVE  RunInv'
  <2>1. path # Manifest
    BY DEF Extras, Manifest
  <2> QED BY <1>8, <1>11, <2>1 DEF Add
<1>12. CASE Reseal
  BY <1>12, ChangeRun DEF Reseal, FilesInv
<1>13. CASE Relabel
  <2> DEFINE dir == [disk EXCEPT ![Manifest].admitted = TRUE, ![Manifest].anew = TRUE]
  <2>1. Change(dir) /\ Sealed(disk)
    BY <1>13 DEF Relabel, Sealed
  <2>2. PICK yes : yes = TRUE
    OBVIOUS
  <2>3. PICK m : m = disk[Manifest]
    OBVIOUS
  <2>4. PICK n : n = [m EXCEPT !.admitted = yes, !.anew = yes]
    OBVIOUS
  <2>5. dir = [disk EXCEPT ![Manifest] = n]
    BY <2>1, <2>2, <2>3, <2>4 DEF Sealed
  <2>6. Seal(m)
    BY <2>1, <2>3 DEF FilesInv
  <2>7. n.run = m.run /\ Seal(n)
    BY <2>4, <2>6, SealKeepsRun, RelabelKeepsSeal
  <2>8. dir[Manifest] = n
    BY <2>1, <2>5 DEF Sealed
  <2> HIDE DEF dir
  <2> QED BY <2>1, <2>3, <2>7, <2>8, ChangeRun
<1> QED BY <1>2, <1>3, <1>4, <1>5, <1>6, <1>7, <1>10, <1>11, <1>12, <1>13 DEF Next, Write, Edit

-----------------------------------------------------------------------------
(* The directory is a shelf.                                              *)

\* What holds of writer, verifier and directory together.
ShelfInv == FullInv /\ VerdictInv /\ RunInv

\* What it says of the shelf: a build under way has nothing there, one at its end has
\* its own, and a flawless package is a whole one of an admitted artifact.
OnShelfInv ==
  /\ OnShelf \in 0..writer.run
  /\ Pristine(disk) => OnShelf # 0 /\ subject \in Admitted
  /\ writer.phase \in {"write", "close"} /\ writer.at <= Len(Order) => OnShelf = 0
  /\ writer.phase = "write" /\ writer.at > Len(Order) => OnShelf = writer.run

\* It says so.
LEMMA ShelfIs == ShelfInv => OnShelfInv
<1> SUFFICES ASSUME ShelfInv PROVE OnShelfInv
  OBVIOUS
<1> USE DEF ShelfInv, FullInv, WriterInv
<1>1. OnShelf \in 0..writer.run
  BY PlanIs DEF TypeInv, RunInv, Sealed, OnShelf
<1>2. ASSUME Pristine(disk) PROVE OnShelf # 0 /\ subject \in Admitted
  <2>1. PICK run \in 1..plan.runs :
          Manifest \in DOMAIN disk /\ WholeOf(disk, subject, run, TRUE)
    BY <1>2 DEF Pristine
  <2>2. PICK render \in BOOLEAN : render = TRUE
    OBVIOUS
  <2>3. disk[Manifest] = ManifestOf(disk, subject, run)
    BY <2>1 DEF WholeOf
  <2>4. disk[Manifest].run = run
    BY <2>3 DEF ManifestOf
  <2>5. Sealed(disk)
    BY <1>2, PristineIs
  <2>6. WholeOf(disk, subject, disk[Manifest].run, render)
    BY <2>1, <2>2, <2>4
  <2>7. OnShelf = run
    BY <2>4, <2>5, <2>6 DEF OnShelf, Sealed
  <2>8. run # 0
    BY <2>1
  <2> QED BY <1>2, <2>7, <2>8 DEF Pristine
<1>3. writer.phase \in {"write", "close"} /\ writer.at <= Len(Order) => OnShelf = 0
  BY UnfinishedIsBare, BareShelf
<1>4. ASSUME writer.phase = "write", writer.at > Len(Order)
      PROVE  OnShelf = writer.run
  <2>1. PICK render \in BOOLEAN :
          Sealed(disk) /\ disk[Manifest].run = writer.run
          /\ WholeOf(disk, subject, writer.run, render)
    BY <1>4, FinishedIsWhole
  <2> QED BY <2>1 DEF OnShelf, Sealed
<1> QED BY <1>1, <1>2, <1>3, <1>4 DEF OnShelfInv

\* It holds of every state.
LEMMA ShelfInvariant == Spec => [](ShelfInv /\ OnShelfInv)
<1>1. Init => ShelfInv
  <2>1. Init => RaceInv /\ RunInv
    BY DEF Init, RaceInv, RunInv, Sealed, Resting
  <2> QED BY <2>1, WriterInit, VerdictInit DEF ShelfInv, FullInv
<1>2. ShelfInv /\ [Next]_vars => ShelfInv'
  <2> SUFFICES ASSUME ShelfInv, [Next]_vars PROVE ShelfInv'
    OBVIOUS
  <2>1. FullInv' /\ VerdictInv'
    BY RaceStep, VerdictStep DEF ShelfInv
  <2>2. CASE Next
    BY <2>1, <2>2, RunStep DEF ShelfInv, VerdictInv
  <2>3. CASE UNCHANGED vars
    BY <2>1, <2>3 DEF vars, ShelfInv, RunInv, Sealed
  <2> QED BY <2>2, <2>3
<1> QED BY <1>1, <1>2, ShelfIs, PTL DEF Spec

\* Nothing of the shelf changes where nothing of the directory does.
LEMMA ShelfStays ==
  ASSUME UNCHANGED <<disk, plan>>
  PROVE  /\ OnShelf' = OnShelf
         /\ Pristine(disk)' = Pristine(disk)
         /\ (subject \in Admitted)' = (subject \in Admitted)
<1>1. subject' = subject
  BY DEF subject
<1> QED BY <1>1 DEF OnShelf, Pristine

\* What disturbs a verifier stirs a visitor.
LEMMA DisturbStirs ==
  ASSUME TypeInv, Disturb
  PROVE  Shelf!Stir
<1>1. CASE verifier.phase = "idle"
  <2>1. verifier' = Resting
    BY <1>1 DEF Disturb
  <2>2. /\ verifier'.phase = "idle" /\ verifier'.whole = FALSE /\ verifier'.steady = FALSE
        /\ verifier'.verdict = "none"
    BY <2>1 DEF Resting
  <2> QED BY <1>1, <2>2 DEF Shelf!Stir, Visitor
<1>2. CASE verifier.phase # "idle"
  <2>1. /\ verifier'.phase = verifier.phase /\ verifier'.whole = verifier.whole
        /\ verifier'.steady = FALSE /\ verifier'.verdict = verifier.verdict
    BY <1>2 DEF Disturb, TypeInv, Shape
  <2>2. verifier.phase \in {"manifest", "list", "hash", "read"}
    BY <1>2 DEF TypeInv, TypeOK
  <2>3. Visitor # "idle"
    BY <2>2 DEF Visitor
  <2> QED BY <2>1, <2>3 DEF Shelf!Stir, Visitor
<1> QED BY <1>1, <1>2

\* Where the verifier rests, nothing of a visitor changes.
LEMMA VisitorStays ==
  ASSUME UNCHANGED verifier
  PROVE  /\ Visitor' = Visitor /\ UNCHANGED <<verifier.whole, verifier.steady, verifier.verdict>>
  BY DEF Visitor

\* What a step of the writer is on the shelf.
LEMMA WriterShelf ==
  ASSUME ShelfInv, ShelfInv', OnShelfInv, OnShelfInv',
         (\E render \in BOOLEAN : StartWrite(render)) \/ Write \/ Stop
  PROVE  [Shelf!Next]_(Shelf!vars)
<1> USE DEF ShelfInv, FullInv, WriterInv
<1>0. /\ writer.at \in Nat /\ Len(Order) \in Nat /\ Len(Order) > 1 /\ writer.run \in Nat
  BY CurrentOrder, PlanIs DEF TypeInv
<1>1. ASSUME NEW render \in BOOLEAN, StartWrite(render)
      PROVE  Shelf!Begin
  <2>1. /\ writer' = [phase |-> "clear", run |-> writer.run + 1, render |-> render, at |-> 0,
                      content |-> Torn]
        /\ UNCHANGED <<disk, plan, verifier, edits>>
    BY <1>1, StartWriteIs
  <2>2. writer.phase = "idle"
    BY <1>1 DEF StartWrite
  <2>3. writer'.phase = "clear" /\ writer'.run = writer.run + 1
    BY <2>1
  <2>4. Writing = "idle" /\ Writing' = "under way"
    BY <2>2, <2>3 DEF Writing
  <2> QED BY <2>1, <2>3, <2>4, ShelfStays, VisitorStays DEF Shelf!Begin
<1>2. CASE Clear
  <2>1. /\ writer.phase = "clear" /\ UNCHANGED <<plan, writer, edits>> /\ Disturb
    BY <1>2 DEF Clear
  <2>2. OnShelf' = 0 /\ Pristine(disk)' = FALSE
    BY <1>2, <2>1, ClearBares, BareShelfNext
  <2>3. Writing = "under way" /\ Writing' = "under way"
    BY <2>1 DEF Writing
  <2>4. (subject \in Admitted)' = (subject \in Admitted)
    BY <2>1 DEF subject
  <2>5. Shelf!Prepare
    BY <2>1, <2>2, <2>3, <2>4, DisturbStirs DEF Shelf!Prepare
  <2> QED BY <2>5 DEF Shelf!Next
<1>3. CASE Cleared
  <2>1. /\ writer.phase = "clear" /\ writer'.phase = "write" /\ writer'.at = 1
        /\ writer'.run = writer.run /\ writer'.render = writer.render
        /\ UNCHANGED <<disk, plan, verifier, edits>>
    BY <1>3 DEF Cleared, TypeInv, Shape
  <2>2. Order' = Order
    BY <2>1 DEF Order, subject
  <2>3. Writing = "under way" /\ Writing' = "under way"
    BY <1>0, <2>1, <2>2 DEF Writing
  <2> QED BY <2>1, <2>3, ShelfStays, VisitorStays DEF Shelf!vars
<1>4. CASE OpenFile
  <2>1. /\ writer.phase = "write" /\ writer.at <= Len(Order) /\ writer'.phase = "close"
        /\ writer'.at = writer.at /\ writer'.run = writer.run /\ writer'.render = writer.render
        /\ UNCHANGED <<plan, edits>> /\ Disturb
    BY <1>4 DEF OpenFile, TypeInv, Shape
  <2>2. Order' = Order /\ subject' = subject
    BY <2>1 DEF Order, subject
  <2>3. writer'.phase \in {"write", "close"} /\ writer'.at <= Len(Order')
    BY <2>1, <2>2
  <2>4. OnShelf' = 0 /\ Pristine(disk)' = FALSE
    BY <2>3 DEF OnShelfInv
  <2>5. Writing = "under way" /\ Writing' = "under way"
    BY <1>0, <2>1 DEF Writing
  <2>6. Shelf!Prepare
    BY <2>1, <2>2, <2>4, <2>5, DisturbStirs DEF Shelf!Prepare
  <2> QED BY <2>6 DEF Shelf!Next
<1>5. CASE CloseFile
  <2>1. /\ writer.phase = "close" /\ writer'.phase = "write"
        /\ writer'.at = writer.at + 1 /\ writer'.run = writer.run
        /\ writer'.render = writer.render /\ UNCHANGED <<plan, edits>> /\ Disturb
    BY <1>5 DEF CloseFile, TypeInv, Shape
  <2>2. Order' = Order /\ subject' = subject
    BY <2>1 DEF Order, subject
  <2>3. writer.at <= Len(Order) /\ OnShelf = 0 /\ Writing = "under way"
    BY <2>1 DEF TypeInv, Position, OnShelfInv, Writing
  <2>4. Shelf!Stir
    BY <2>1, DisturbStirs
  <2>5. CASE writer.at < Len(Order)
    <3>1. writer'.at <= Len(Order')
      BY <1>0, <2>1, <2>2, <2>5
    <3>2. OnShelf' = 0 /\ Pristine(disk)' = FALSE
      BY <2>1, <3>1 DEF OnShelfInv
    <3>3. Writing' = "under way"
      BY <1>0, <2>1, <2>2, <2>5 DEF Writing
    <3>4. Shelf!Prepare
      BY <2>1, <2>2, <2>3, <2>4, <3>2, <3>3 DEF Shelf!Prepare
    <3> QED BY <3>4 DEF Shelf!Next
  <2>6. CASE writer.at = Len(Order)
    <3>1. writer'.at > Len(Order')
      BY <1>0, <2>1, <2>2, <2>6
    <3>2. OnShelf' = writer.run /\ Writing' = "published"
      BY <2>1, <3>1 DEF OnShelfInv, Writing
    <3>3. Pristine(disk)' => subject \in Admitted
      BY <2>2 DEF OnShelfInv
    <3>4. Pristine(disk)' \in BOOLEAN
      BY DEF Pristine
    <3>5. Shelf!Publish
      BY <2>1, <2>2, <2>3, <2>4, <3>2, <3>3, <3>4 DEF Shelf!Publish
    <3> QED BY <3>5 DEF Shelf!Next
  <2>7. writer.at < Len(Order) \/ writer.at = Len(Order)
    <3>1. \A i, n \in Nat : i <= n => i < n \/ i = n
      OBVIOUS
    <3>2. writer.at <= Len(Order)
      BY <2>1 DEF TypeInv, Position
    <3> QED BY <1>0, <3>1, <3>2
  <2> QED BY <2>5, <2>6, <2>7
<1>6. CASE Return
  <2>1. /\ writer.phase = "write" /\ writer.at > Len(Order) /\ writer'.phase = "idle"
        /\ writer'.run = writer.run /\ UNCHANGED <<disk, plan, verifier, edits>>
    BY <1>6 DEF Return, TypeInv, Shape
  <2>2. Writing = "published" /\ Writing' = "idle" /\ OnShelf = writer.run
    BY <2>1 DEF Writing, OnShelfInv
  <2>3. Shelf!Return
    BY <2>1, <2>2, ShelfStays, VisitorStays DEF Shelf!Return
  <2> QED BY <2>3 DEF Shelf!Next
<1>7. CASE Stop
  <2>1. /\ writer.phase # "idle" /\ writer'.phase = "idle"
        /\ writer'.run = writer.run /\ UNCHANGED <<disk, plan, verifier, edits>>
    BY <1>7 DEF Stop, TypeInv, Shape
  <2>2. writer.phase \in {"clear", "write", "close"}
    BY <2>1 DEF TypeInv, TypeOK
  <2>3. Writing # "idle" /\ Writing' = "idle"
    BY <2>1, <2>2 DEF Writing
  <2>4. Shelf!Die
    BY <2>1, <2>3, ShelfStays, VisitorStays DEF Shelf!Die
  <2> QED BY <2>4 DEF Shelf!Next
<1> QED BY <1>1, <1>2, <1>3, <1>4, <1>5, <1>6, <1>7 DEF Write, Shelf!Next

\* What a step of the verifier is to a visitor.
LEMMA VerifierShelf ==
  ASSUME ShelfInv, ShelfInv', OnShelfInv, OnShelfInv', StartVerify \/ Verify
  PROVE  [Shelf!Next]_(Shelf!vars)
<1> USE DEF ShelfInv, FullInv, WriterInv
<1>0. UNCHANGED <<disk, plan, writer, edits>>
  BY DEF StartVerify, Verify, ReadManifest, ListFiles, HashFile, Hashed, Read, Verified
<1>1. /\ OnShelf' = OnShelf /\ Writing' = Writing
      /\ Pristine(disk)' = Pristine(disk)
      /\ (subject \in Admitted)' = (subject \in Admitted)
      /\ UNCHANGED <<writer.run, edits>>
  BY <1>0, ShelfStays DEF Writing, Order, subject
<1>2. ASSUME Verdict("refused"), verifier.phase # "idle"
      PROVE  Shelf!TurnAway
  <2>1. /\ verifier'.phase = "idle" /\ verifier'.verdict = "refused"
        /\ verifier'.whole = verifier.whole /\ verifier'.steady = verifier.steady
    BY <1>2, VerdictIs
  <2>2. ~(verifier.steady /\ Pristine(disk))
    BY <1>1, <2>1 DEF VerdictInv, SteadyInv
  <2>3. verifier.phase \in {"manifest", "list", "hash", "read"}
    BY <1>2 DEF TypeInv, TypeOK
  <2>4. Visitor # "idle" /\ Visitor' = "idle"
    BY <2>1, <2>3 DEF Visitor
  <2> QED BY <1>1, <2>1, <2>2, <2>4 DEF Shelf!TurnAway
<1>3. ASSUME verifier.phase \in {"list", "hash", "read"},
             verifier'.phase \in {"list", "hash", "read"},
             verifier'.whole = verifier.whole, verifier'.steady = verifier.steady,
             verifier'.verdict = verifier.verdict
      PROVE  UNCHANGED Shelf!vars
  <2>1. Visitor = "judging" /\ Visitor' = "judging"
    BY <1>3 DEF Visitor
  <2> QED BY <1>1, <1>3, <2>1 DEF Shelf!vars
<1>4. CASE StartVerify
  <2>1. /\ verifier.phase = "idle" /\ verifier'.phase = "manifest" /\ verifier'.whole = FALSE
        /\ verifier'.verdict = "none" /\ verifier'.steady = TRUE
    BY <1>4 DEF StartVerify, Resting
  <2>2. Shelf!Ask
    BY <1>1, <2>1 DEF Shelf!Ask, Visitor
  <2> QED BY <2>2 DEF Shelf!Next
<1>5. CASE ReadManifest
  <2>1. CASE Sealed(disk)
    <3>1. PICK whole :
            /\ whole = (\E render \in BOOLEAN :
                           WholeOf(disk, subject, disk[Manifest].run, render))
            /\ verifier' = [verifier EXCEPT !.phase = "list", !.manifest = disk[Manifest],
                                            !.whole = whole]
      BY <1>5, <2>1 DEF ReadManifest, Sealed
    <3>2. /\ verifier.phase = "manifest" /\ verifier'.phase = "list"
          /\ verifier'.whole = whole /\ verifier'.verdict = verifier.verdict
          /\ verifier'.steady = verifier.steady
      BY <1>5, <3>1 DEF ReadManifest, TypeInv, Shape
    <3>3. disk[Manifest].run # 0
      BY <2>1, PlanIs DEF RunInv, TypeInv
    <3>4. whole = (OnShelf # 0)
      BY <2>1, <3>1, <3>3 DEF OnShelf, Sealed
    <3>5. Shelf!Look
      BY <1>1, <3>2, <3>4 DEF Shelf!Look, Visitor
    <3> QED BY <3>5 DEF Shelf!Next
  <2>2. CASE ~Sealed(disk)
    BY <1>2, <1>5, <2>2 DEF ReadManifest, Sealed, Shelf!Next
  <2> QED BY <2>1, <2>2
<1>6. CASE ListFiles
  <2>1. CASE Complete(verifier.manifest, disk)
    <3>1. verifier.phase = "list" /\ verifier' = [verifier EXCEPT !.phase = "hash",
                                          !.left = DOMAIN verifier.manifest.listed]
      BY <1>6, <2>1 DEF ListFiles
    <3> QED BY <1>3, <3>1 DEF TypeInv, Shape
  <2>2. CASE ~Complete(verifier.manifest, disk)
    BY <1>2, <1>6, <2>2 DEF ListFiles, Shelf!Next
  <2> QED BY <2>1, <2>2
<1>7. CASE HashFile
  <2>1. PICK path : \/ verifier' = [verifier EXCEPT !.left = @ \ {path}]
                    \/ Verdict("refused")
    BY <1>7 DEF HashFile
  <2>2. verifier.phase = "hash"
    BY <1>7 DEF HashFile
  <2>3. CASE verifier' = [verifier EXCEPT !.left = @ \ {path}]
    BY <1>3, <2>2, <2>3 DEF TypeInv, Shape
  <2>4. CASE Verdict("refused")
    BY <1>2, <2>2, <2>4 DEF Shelf!Next
  <2> QED BY <2>1, <2>3, <2>4
<1>8. CASE Hashed
  <2>1. CASE verifier.manifest.admitted
    <3>1. verifier.phase = "hash" /\ verifier' = [verifier EXCEPT !.phase = "read", !.at = 1]
      BY <1>8, <2>1 DEF Hashed
    <3> QED BY <1>3, <3>1 DEF TypeInv, Shape
  <2>2. CASE ~verifier.manifest.admitted
    BY <1>2, <1>8, <2>2 DEF Hashed, Shelf!Next
  <2> QED BY <2>1, <2>2
<1>9. CASE Read
  <2> DEFINE on == [verifier EXCEPT !.at = @ + 1]
  <2>1. \/ verifier' = on
        \/ \E content : verifier' = [on EXCEPT !.proof = content]
        \/ \E content : verifier' = [on EXCEPT !.receipt = content]
        \/ Verdict("refused")
    BY <1>9 DEF Read
  <2>2. verifier.phase = "read"
    BY <1>9 DEF Read
  <2>3. CASE Verdict("refused")
    BY <1>2, <2>2, <2>3 DEF Shelf!Next
  <2>4. CASE ~Verdict("refused")
    BY <1>3, <2>1, <2>2, <2>4 DEF TypeInv, Shape
  <2> QED BY <2>3, <2>4
<1>10. CASE Verified
  <2>1. verifier.phase = "read" /\ Verdict("verified")
    BY <1>10 DEF Verified
  <2>2. /\ verifier'.phase = "idle" /\ verifier'.verdict = "verified"
        /\ verifier'.whole = verifier.whole /\ verifier'.steady = verifier.steady
    BY <2>1, VerdictIs
  <2>3. edits # 0 \/ (verifier.whole /\ subject \in Admitted)
    BY <1>0, <2>1 DEF RaceInv
  <2>4. Shelf!Accept
    BY <1>1, <2>1, <2>2, <2>3 DEF Shelf!Accept, Visitor
  <2> QED BY <2>4 DEF Shelf!Next
<1> QED BY <1>4, <1>5, <1>6, <1>7, <1>8, <1>9, <1>10 DEF Verify

\* What others do to the directory is done to the shelf.
LEMMA EditShelf ==
  ASSUME ShelfInv, ShelfInv', OnShelfInv', Edit
  PROVE  Shelf!Touch
<1> USE DEF ShelfInv, FullInv, WriterInv
<1>1. /\ UNCHANGED <<plan, writer>> /\ writer.phase = "idle"
      /\ edits' # 0 /\ verifier' = Resting
  BY EditIs
<1>2. verifier.phase = "idle"
  BY DEF Edit, Exchange, Delete, Add, Reseal, Relabel, Change
<1>3. subject' = subject
  BY <1>1 DEF subject
<1>4. OnShelf' \in 0..writer.run /\ (Pristine(disk)' => OnShelf' # 0 /\ subject \in Admitted)
  BY <1>1, <1>3 DEF OnShelfInv
<1>5. Pristine(disk)' \in BOOLEAN
  BY DEF Pristine
<1>6. /\ verifier'.phase = "idle" /\ verifier'.whole = FALSE /\ verifier'.steady = FALSE
      /\ verifier'.verdict = "none"
  BY <1>1 DEF Resting
<1>7. Writing = "idle" /\ Writing' = "idle" /\ Visitor = "idle" /\ Visitor' = "idle"
  BY <1>1, <1>2, <1>6 DEF Writing, Visitor
<1> QED BY <1>1, <1>3, <1>4, <1>5, <1>6, <1>7 DEF Shelf!Touch, Shelf!Stir

\* write_package and verify_package on one directory, each in its many steps, are a
\* shelf that holds one whole package or none: every step of theirs, in any interleaving,
\* with any crash and any edit, is one step of the shelf or none.
THEOREM Refinement == Spec => ImplementsProofShelf
<1>1. Init => Shelf!Init
  <2> SUFFICES ASSUME Init PROVE Shelf!Init
    OBVIOUS
  <2>1. /\ DOMAIN disk = {} /\ writer = Idle /\ verifier = Resting /\ edits = 0
    BY DEF Init
  <2>2. OnShelf = 0 /\ ~Pristine(disk)
    BY <2>1, BareShelf DEF Bare, Sealed
  <2>3. /\ writer.phase = "idle" /\ writer.run = 0 /\ verifier.phase = "idle"
        /\ verifier.whole = FALSE /\ verifier.steady = FALSE /\ verifier.verdict = "none"
    BY <2>1 DEF Idle, Resting
  <2>4. Writing = "idle" /\ Visitor = "idle"
    BY <2>3 DEF Writing, Visitor
  <2> QED BY <2>1, <2>2, <2>3, <2>4 DEF Shelf!Init
<1>2. ASSUME ShelfInv, ShelfInv', OnShelfInv, OnShelfInv', [Next]_vars
      PROVE  [Shelf!Next]_(Shelf!vars)
  <2>1. CASE (\E render \in BOOLEAN : StartWrite(render)) \/ Write \/ Stop
    BY <1>2, <2>1, WriterShelf
  <2>2. CASE StartVerify \/ Verify
    BY <1>2, <2>2, VerifierShelf
  <2>3. CASE Edit
    BY <1>2, <2>3, EditShelf DEF Shelf!Next
  <2>4. CASE UNCHANGED vars
    <3>1. UNCHANGED <<disk, plan, writer, verifier, edits>> /\ UNCHANGED <<subject, Order>>
      BY <2>4 DEF vars, subject, Order
    <3> QED BY <3>1, ShelfStays DEF Shelf!vars, Writing, Visitor
  <2> QED BY <1>2, <2>1, <2>2, <2>3, <2>4 DEF Next
<1> QED BY <1>1, <1>2, ShelfInvariant, PTL DEF Spec, ImplementsProofShelf, Shelf!Spec

-----------------------------------------------------------------------------
(* Termination.                                                            *)

\* How many steps a verification can still make: one for each file to compare, one for
\* each reading, and those in between.
VerifierSteps ==
  CASE verifier.phase = "idle" -> 0
    [] verifier.phase = "read" -> Len(Readings) + 2 - verifier.at
    [] verifier.phase = "hash" -> Cardinality(verifier.left) + Len(Readings) + 2
    [] verifier.phase = "list" -> Cardinality(Paths) + Len(Readings) + 3
    [] verifier.phase = "manifest" -> Cardinality(Paths) + Len(Readings) + 4

\* And a write: one for each file to remove, two for each to write, and those in between.
WriterSteps ==
  CASE writer.phase = "idle" -> 0
    [] writer.phase = "close" -> 2 * (Len(Order) + 1 - writer.at)
    [] writer.phase = "write" -> 2 * (Len(Order) + 1 - writer.at) + 1
    [] writer.phase = "clear" -> Cardinality(DOMAIN disk) + 2 * Len(Order) + 2

LEMMA PathsAreFinite == IsFiniteSet(Paths) /\ Cardinality(Paths) \in Nat
<1>1. Len(Sorted) = 22 /\ Sorted \in [1..22 -> Paths]
  BY DEF Sorted, Paths, ToSet
<1>2. \A p \in Paths : \E i \in 1..22 : Sorted[i] = p
  BY <1>1 DEF Paths, ToSet
<1>3. Sorted \in Surjection(1..22, Paths)
  BY <1>1, <1>2 DEF Surjection
<1> QED BY <1>3, FS_NatSurjection, FS_CardinalityType DEF ExistsSurjection

LEMMA SomePaths ==
  ASSUME NEW S, S \subseteq Paths
  PROVE  /\ IsFiniteSet(S) /\ Cardinality(S) \in 0..Cardinality(Paths)
         /\ \A p \in S : Cardinality(S \ {p}) = Cardinality(S) - 1
<1>1. IsFiniteSet(S) /\ Cardinality(S) <= Cardinality(Paths)
  BY PathsAreFinite, FS_Subset
<1>2. Cardinality(S) \in Nat
  BY <1>1, FS_CardinalityType
<1> QED BY <1>1, <1>2, PathsAreFinite, FS_RemoveElement

StepBounds ==
  /\ VerifierSteps \in 0..(Cardinality(Paths) + Len(Readings) + 4)
  /\ WriterSteps \in 0..(Cardinality(Paths) + 2 * Len(Order) + 2)
  /\ verifier.phase # "idle" => VerifierSteps # 0
  /\ writer.phase # "idle" => WriterSteps # 0

LEMMA StepsAreBounded == TypeInv => StepBounds
<1> SUFFICES ASSUME TypeInv PROVE StepBounds
  OBVIOUS
<1>1. /\ Cardinality(Paths) \in Nat /\ Len(Readings) = 25
      /\ Cardinality(verifier.left) \in 0..Cardinality(Paths)
      /\ Cardinality(DOMAIN disk) \in 0..Cardinality(Paths)
  BY PathsAreFinite, ReadingsAre, SomePaths DEF TypeInv, TypeOK
<1>2. /\ verifier.phase \in {"idle", "manifest", "list", "hash", "read"}
      /\ verifier.at \in 0..26
  BY ReadingsAre DEF TypeInv, TypeOK
<1>3. /\ VerifierSteps \in 0..(Cardinality(Paths) + Len(Readings) + 4)
      /\ verifier.phase # "idle" => VerifierSteps # 0
  BY <1>1, <1>2 DEF VerifierSteps
<1>4. /\ writer.phase \in {"idle", "clear", "write", "close"}
      /\ Len(Order) \in Nat /\ writer.at \in 0..(Len(Order) + 1)
      /\ writer.phase \in {"write", "close"} => writer.at >= 1
      /\ writer.phase = "close" => writer.at <= Len(Order)
  BY CurrentOrder DEF TypeInv, TypeOK, Position
<1>5. /\ WriterSteps \in 0..(Cardinality(Paths) + 2 * Len(Order) + 2)
      /\ writer.phase # "idle" => WriterSteps # 0
  <2>1. CASE writer.phase \in {"idle", "clear"}
    BY <1>1, <1>4, <2>1 DEF WriterSteps
  <2>2. CASE writer.phase = "write"
    BY <1>1, <1>4, <2>2 DEF WriterSteps
  <2>3. CASE writer.phase = "close"
    BY <1>1, <1>4, <2>3 DEF WriterSteps
  <2> QED BY <1>4, <2>1, <2>2, <2>3
<1> QED BY <1>3, <1>5 DEF StepBounds

\* A verification goes on by one step, whatever it meets.
LEMMA VerifyCounts ==
  ASSUME TypeInv, StepBounds, Verify
  PROVE  VerifierSteps' < VerifierSteps /\ WriterSteps' = WriterSteps
<1>1. UNCHANGED <<disk, plan, writer, edits>> /\ verifier.phase # "idle"
  BY DEF Verify, ReadManifest, ListFiles, HashFile, Hashed, Read, Verified
<1>2. WriterSteps' = WriterSteps
  BY <1>1 DEF WriterSteps, Order, subject
<1>3. VerifierSteps \in Nat \ {0} /\ Cardinality(Paths) \in Nat /\ Len(Readings) = 25
  BY <1>1, PathsAreFinite, ReadingsAre DEF StepBounds
<1>4. ASSUME NEW verdict \in {"verified", "refused"}, Verdict(verdict)
      PROVE  VerifierSteps' < VerifierSteps
  <2>1. verifier'.phase = "idle"
    BY <1>4, VerdictIs
  <2>2. VerifierSteps' = 0
    BY <2>1 DEF VerifierSteps
  <2> QED BY <1>3, <2>2
<1>5. ASSUME ReadManifest, ~Verdict("refused") PROVE VerifierSteps' < VerifierSteps
  <2>1. verifier.phase = "manifest"
    BY <1>5 DEF ReadManifest
  <2>2. verifier'.phase = "list"
    <3>1. PICK whole : verifier' = [verifier EXCEPT !.phase = "list",
                                      !.manifest = disk[Manifest], !.whole = whole]
      BY <1>5 DEF ReadManifest
    <3> QED BY <3>1 DEF TypeInv, Shape
  <2> QED BY <1>3, <2>1, <2>2 DEF VerifierSteps
<1>6. ASSUME ListFiles, ~Verdict("refused") PROVE VerifierSteps' < VerifierSteps
  <2>1. /\ verifier.phase = "list"
        /\ verifier' = [verifier EXCEPT !.phase = "hash",
                                        !.left = DOMAIN verifier.manifest.listed]
        /\ Complete(verifier.manifest, disk)
    BY <1>6 DEF ListFiles
  <2>2. verifier'.phase = "hash" /\ verifier'.left = DOMAIN verifier.manifest.listed
    BY <2>1 DEF TypeInv, Shape
  <2>3. verifier'.left \subseteq Paths
    BY <2>1, <2>2 DEF Complete, Relative, TypeInv, TypeOK
  <2>4. Cardinality(verifier'.left) \in 0..Cardinality(Paths)
    BY <2>3, SomePaths
  <2> QED BY <1>3, <2>1, <2>2, <2>4 DEF VerifierSteps
<1>7. ASSUME HashFile, ~Verdict("refused") PROVE VerifierSteps' < VerifierSteps
  <2>1. PICK path \in verifier.left : verifier' = [verifier EXCEPT !.left = @ \ {path}]
    BY <1>7 DEF HashFile
  <2>2. verifier.phase = "hash" /\ verifier'.phase = "hash"
        /\ verifier'.left = verifier.left \ {path}
    BY <1>7, <2>1 DEF HashFile, TypeInv, Shape
  <2>3. /\ Cardinality(verifier.left) \in Nat
        /\ Cardinality(verifier'.left) = Cardinality(verifier.left) - 1
    BY <2>2, PathsAreFinite, SomePaths DEF TypeInv, TypeOK
  <2> QED BY <1>3, <2>2, <2>3 DEF VerifierSteps
<1>8. ASSUME Hashed, ~Verdict("refused") PROVE VerifierSteps' < VerifierSteps
  <2>1. verifier.phase = "hash" /\ verifier' = [verifier EXCEPT !.phase = "read", !.at = 1]
    BY <1>8 DEF Hashed
  <2>2. verifier'.phase = "read" /\ verifier'.at = 1
    BY <2>1 DEF TypeInv, Shape
  <2>3. Cardinality(verifier.left) \in Nat
    BY PathsAreFinite, SomePaths DEF TypeInv, TypeOK
  <2> QED BY <1>3, <2>1, <2>2, <2>3 DEF VerifierSteps
<1>9. ASSUME Read, ~Verdict("refused") PROVE VerifierSteps' < VerifierSteps
  <2> DEFINE on == [verifier EXCEPT !.at = @ + 1]
  <2>1. \/ verifier' = on
        \/ \E content : verifier' = [on EXCEPT !.proof = content]
        \/ \E content : verifier' = [on EXCEPT !.receipt = content]
    BY <1>9 DEF Read
  <2>2. verifier.phase = "read" /\ verifier.at \in 0..25
    BY <1>9, ReadingsAre DEF Read, TypeInv, TypeOK
  <2>3. /\ on.phase = "read" /\ on.at = verifier.at + 1
        /\ on = [phase |-> on.phase, left |-> on.left, at |-> on.at,
                 manifest |-> on.manifest, proof |-> on.proof,
                 receipt |-> on.receipt, verdict |-> on.verdict,
                 whole |-> on.whole, steady |-> on.steady]
    BY <2>2 DEF TypeInv, Shape
  <2> HIDE DEF on
  <2>4. verifier'.phase = "read" /\ verifier'.at = verifier.at + 1
    BY <2>1, <2>3
  <2> QED BY <1>3, <2>2, <2>4 DEF VerifierSteps
<1>10. ASSUME Verified PROVE VerifierSteps' < VerifierSteps
  BY <1>4, <1>10 DEF Verified
<1> QED BY <1>2, <1>4, <1>5, <1>6, <1>7, <1>8, <1>9, <1>10 DEF Verify

\* A write goes on by one step, and leaves a verification as much to do as it had.
LEMMA WriteCounts ==
  ASSUME TypeInv, StepBounds, Write
  PROVE  WriterSteps' < WriterSteps /\ VerifierSteps' = VerifierSteps
<1>1. UNCHANGED <<plan, edits>> /\ writer.phase # "idle" /\ (Disturb \/ UNCHANGED verifier)
  BY DEF Write, Clear, Cleared, OpenFile, CloseFile, Return
<1>2. VerifierSteps' = VerifierSteps
  <2>1. CASE UNCHANGED verifier
    BY <2>1 DEF VerifierSteps
  <2>2. CASE Disturb /\ verifier.phase = "idle"
    <3>1. verifier'.phase = "idle"
      BY <2>2, DisturbIs
    <3> QED BY <2>2, <3>1 DEF VerifierSteps
  <2>3. CASE Disturb /\ verifier.phase # "idle"
    <3>1. /\ verifier'.phase = verifier.phase /\ verifier'.left = verifier.left
          /\ verifier'.at = verifier.at
      BY <2>3 DEF Disturb, TypeInv, Shape
    <3> QED BY <3>1 DEF VerifierSteps
  <2> QED BY <1>1, <2>1, <2>2, <2>3
<1>3. /\ WriterSteps \in Nat \ {0} /\ Len(Order) \in Nat /\ writer.at \in Nat
      /\ writer.phase = "write" => writer.at \in 1..(Len(Order) + 1)
  BY <1>1, PathsAreFinite, ReadingsAre, CurrentOrder DEF StepBounds, TypeInv, TypeOK, Position
<1>4. ASSUME writer'.render = writer.render PROVE Order' = Order
  BY <1>1, <1>4 DEF Order, subject
<1>5. CASE Clear
  <2>1. PICK path \in DOMAIN disk : disk' = Without(disk, path)
    BY <1>5 DEF Clear
  <2>2. DOMAIN disk' = DOMAIN disk \ {path}
    BY <2>1 DEF Without
  <2>3. writer.phase = "clear" /\ writer' = writer /\ Order' = Order
    BY <1>4, <1>5 DEF Clear
  <2>4. /\ Cardinality(DOMAIN disk) \in Nat
        /\ Cardinality(DOMAIN disk') = Cardinality(DOMAIN disk) - 1
    BY <2>2, PathsAreFinite, SomePaths DEF TypeInv, TypeOK
  <2> QED BY <1>2, <1>3, <2>3, <2>4 DEF WriterSteps
<1>6. CASE Cleared
  <2>1. writer.phase = "clear" /\ writer' = [writer EXCEPT !.phase = "write", !.at = 1]
    BY <1>6 DEF Cleared
  <2>2. writer'.phase = "write" /\ writer'.at = 1 /\ Order' = Order
    BY <1>4, <2>1 DEF TypeInv, Shape
  <2>3. Cardinality(DOMAIN disk) \in Nat
    BY PathsAreFinite, SomePaths DEF TypeInv, TypeOK
  <2> QED BY <1>2, <1>3, <2>1, <2>2, <2>3 DEF WriterSteps
<1>7. CASE OpenFile
  <2>1. PICK content : writer' = [writer EXCEPT !.phase = "close", !.content = content]
    BY <1>7 DEF OpenFile
  <2>2. writer.phase = "write" /\ writer'.phase = "close" /\ writer'.at = writer.at
        /\ Order' = Order
    BY <1>4, <1>7, <2>1 DEF OpenFile, TypeInv, Shape
  <2> QED BY <1>2, <1>3, <2>2 DEF WriterSteps
<1>8. CASE CloseFile
  <2>1. writer.phase = "close"
        /\ writer' = [writer EXCEPT !.phase = "write", !.at = @ + 1, !.content = Torn]
    BY <1>8 DEF CloseFile
  <2>2. writer'.phase = "write" /\ writer'.at = writer.at + 1 /\ Order' = Order
    BY <1>4, <2>1 DEF TypeInv, Shape
  <2> QED BY <1>2, <1>3, <2>1, <2>2 DEF WriterSteps
<1>9. CASE Return
  <2>1. writer' = [writer EXCEPT !.phase = "idle", !.at = 0]
    BY <1>9 DEF Return
  <2>2. writer'.phase = "idle"
    BY <2>1 DEF TypeInv, Shape
  <2>3. WriterSteps' = 0
    BY <2>2 DEF WriterSteps
  <2> QED BY <1>2, <1>3, <2>3
<1> QED BY <1>5, <1>6, <1>7, <1>8, <1>9 DEF Write

\* What WorkEnds rests on besides fairness: a verification makes at most a step for each
\* name a directory can have and each reading and four more, a write one for each name,
\* two for each file of its order and two more; every step is one less to go, and nothing
\* the other one does, no crash and no edit gives either of them more.
\* (write_package against verify_package.)
THEOREM WorkIsBounded ==
  Spec => /\ [](/\ VerifierSteps \in 0..(Cardinality(Paths) + Len(Readings) + 4)
                /\ WriterSteps \in 0..(Cardinality(Paths) + 2 * Len(Order) + 2))
          /\ [][/\ Verify => VerifierSteps' < VerifierSteps
                /\ Write => WriterSteps' < WriterSteps
                /\ VerifierSteps' > VerifierSteps => StartVerify
                /\ WriterSteps' > WriterSteps => \E render \in BOOLEAN : StartWrite(render)]_vars
<1>1. ASSUME TypeInv, TypeInv', StepBounds, StepBounds', [Next]_vars
      PROVE  [/\ Verify => VerifierSteps' < VerifierSteps
              /\ Write => WriterSteps' < WriterSteps
              /\ VerifierSteps' > VerifierSteps => StartVerify
              /\ WriterSteps' > WriterSteps => \E render \in BOOLEAN : StartWrite(render)]_vars
  <2> USE <1>1
  <2>1. /\ VerifierSteps \in Int /\ VerifierSteps' \in Int
        /\ WriterSteps \in Int /\ WriterSteps' \in Int
    <3>1. /\ Cardinality(Paths) \in Nat /\ Len(Readings) = 25 /\ Len(Order) \in Nat
          /\ 2 * Len(Order) \in Nat
      BY PathsAreFinite, ReadingsAre, CurrentOrder DEF TypeInv
    <3> QED BY <3>1 DEF StepBounds
  <2>2. ~(Verify /\ Write)
    <3>1. ASSUME Verify, Write PROVE FALSE
      <4>1. VerifierSteps' < VerifierSteps /\ VerifierSteps' = VerifierSteps
        BY <3>1, VerifyCounts, WriteCounts
      <4> QED BY <2>1, <4>1
    <3> QED BY <3>1
  <2>3. CASE Verify
    BY <2>1, <2>2, <2>3, VerifyCounts
  <2>4. CASE Write
    BY <2>1, <2>2, <2>4, WriteCounts
  <2>5. ASSUME ~Verify, ~Write, ~StartVerify PROVE ~(VerifierSteps' > VerifierSteps)
    <3>1. CASE UNCHANGED verifier
      <4>1. VerifierSteps' = VerifierSteps
        BY <3>1 DEF VerifierSteps
      <4> QED BY <2>1, <4>1
    <3>2. CASE Edit
      <4>1. verifier' = Resting
        BY <3>2, EditIs
      <4>2. VerifierSteps' = 0
        BY <4>1 DEF VerifierSteps, Resting
      <4> QED BY <2>1, <4>2 DEF StepBounds
    <3>3. CASE Stop \/ \E render \in BOOLEAN : StartWrite(render)
      BY <3>1, <3>3 DEF Stop, StartWrite
    <3> QED BY <2>5, <3>1, <3>2, <3>3 DEF Next, vars
  <2>6. ASSUME ~Verify, ~Write, ~\E render \in BOOLEAN : StartWrite(render)
        PROVE  ~(WriterSteps' > WriterSteps)
    <3>1. CASE Stop \/ Edit
      <4>1. writer'.phase = "idle"
        BY <3>1, EditIs DEF Stop, TypeInv, Shape
      <4>2. WriterSteps' = 0
        BY <4>1 DEF WriterSteps
      <4> QED BY <2>1, <4>2 DEF StepBounds
    <3>2. CASE UNCHANGED <<disk, plan, writer, edits>>
      <4>1. WriterSteps' = WriterSteps
        BY <3>2 DEF WriterSteps, Order, subject
      <4> QED BY <2>1, <4>1
    <3>3. StartVerify => UNCHANGED <<disk, plan, writer, edits>>
      BY DEF StartVerify
    <3> QED BY <2>6, <3>1, <3>2, <3>3 DEF Next, vars
  <2> QED BY <2>3, <2>4, <2>5, <2>6
<1>2. StepBounds => /\ VerifierSteps \in 0..(Cardinality(Paths) + Len(Readings) + 4)
                    /\ WriterSteps \in 0..(Cardinality(Paths) + 2 * Len(Order) + 2)
  BY DEF StepBounds
<1> QED BY <1>1, <1>2, TypeInit, TypeStep, StepsAreBounded, PTL DEF Spec
=============================================================================
