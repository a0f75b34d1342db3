---------------------------- MODULE ProofPackage ----------------------------
(***************************************************************************)
(* The directory of one artifact's proof: write_package, which removes     *)
(* what is there and writes the files one by one with the manifest last,   *)
(* and verify_package, which reads them one by one and may do so meanwhile.*)
(* A write may stop anywhere.  The directory's name is derived from the    *)
(* artifact, so every build that is written to it is of that artifact.     *)
(*                                                                         *)
(* The content of a file is the path it was written for, the artifact and, *)
(* if it carries digests of receipts or a time, the run of the build; no   *)
(* two of these are the same bytes.  Files may be exchanged for those of   *)
(* other builds, removed and added, and the manifest may be made anew; the *)
(* writer is not disturbed by this, as it alone decides what is there.     *)
(***************************************************************************)
EXTENDS Naturals, Sequences, SequencesExt

CONSTANTS
  Artifacts,    \* package artifacts
  Admitted,     \* those XI admits
  Quiet,        \* those whose documents show nothing the policy denies
  Judged(_),    \* the verdicts and admissions of an artifact's arms
  Plans         \* bound: for an artifact, how many builds are written to the
                \* directory and how many changes others make

ASSUME ArtifactsAssumption == Admitted \subseteq Artifacts /\ Quiet \subseteq Artifacts
ASSUME PlansAssumption == Plans \subseteq [subject : Artifacts, runs : Nat, edits : Nat]

VARIABLES
  disk,      \* the directory: the content of each file that is there
  plan,      \* the artifact it is named after, and the bounds
  writer,    \* what is left to do of write_package, and for which run
  verifier,  \* what is left to do of verify_package, and what it knows
  edits      \* changes made by others so far

vars == <<disk, plan, writer, verifier, edits>>

subject == plan.subject

-----------------------------------------------------------------------------
(* Files.                                                                  *)

Manifest == "proof-manifest.json"
ArmFile == [baseline |-> "baseline.json", augmented |-> "augmented.json"]
ArmReceipt == [baseline |-> "receipts/baseline.receipt.json",
               augmented |-> "receipts/augmented.receipt.json"]

\* The files of every package, in the order they are written.
Records ==
  <<"proof.json", "receipt.json", ArmFile.baseline, ArmReceipt.baseline,
    ArmFile.augmented, ArmReceipt.augmented, "contracts/arm-contract-set.json",
    "contracts/package-contract-set.json", "policies/arm-policy.json",
    "policies/package-policy.json", "findings.json", "transcript.txt">>
Documents == <<"README.md", "listing-assets.json">>
Media == <<"media/slides", "demo.mp4", "media/thumbnail.svg", "thumbnail.png">>

\* What someone may add: a file of any name, and one that is named like the manifest.
Extras == {"extra.txt", "media/proof-manifest.json"}

\* sorted(rglob): the parts of a path are compared one by one.
Sorted ==
  <<"NOT_ADMITTED.md", "README.md", ArmFile.augmented, ArmFile.baseline,
    "contracts/arm-contract-set.json", "contracts/package-contract-set.json", "demo.mp4",
    "extra.txt", "findings.json", "listing-assets.json", "media/proof-manifest.json",
    "media/slides", "media/thumbnail.svg", "policies/arm-policy.json",
    "policies/package-policy.json", Manifest, "proof.json", "receipt.json",
    ArmReceipt.augmented, ArmReceipt.baseline, "thumbnail.png", "transcript.txt">>
Paths == ToSet(Sorted)
\* Where a path comes in this order, and the first and the last of some paths.
Place == [path \in Paths |-> CHOOSE i \in DOMAIN Sorted : Sorted[i] = path]
IsFirst(path, paths) == \A p \in paths : Place[path] <= Place[p]
IsLast(path, paths) == \A p \in paths : Place[p] <= Place[path]

Required(admitted) ==
  IF admitted
  THEN {"README.md", ArmFile.augmented, ArmFile.baseline, "demo.mp4", "findings.json",
        "listing-assets.json", "proof.json", "receipt.json", "thumbnail.png",
        "transcript.txt"}
  ELSE {"proof.json", "receipt.json"}

Dated == {"proof.json", "receipt.json", ArmReceipt.baseline, ArmReceipt.augmented,
          "findings.json", "README.md", "media/slides", "demo.mp4"}

\* The versions of a contract set or policy file: the one the artifact binds; one that
\* decides the same, for the arm policy; one that decides otherwise.
Versions(path) ==
  CASE path = "policies/arm-policy.json" -> {"bound", "alike", "other"}
    [] path \in {"policies/package-policy.json", "contracts/arm-contract-set.json",
                 "contracts/package-contract-set.json"} -> {"bound", "other"}
    [] OTHER -> {}

File(path, artifact, run) ==
  [path |-> path, of |-> artifact, run |-> IF path \in Dated THEN run ELSE 0]
Torn == [path |-> "torn", of |-> "torn", run |-> 0]

\* The files below a directory, also those below a directory in it, that do not have the
\* manifest's name.
Relative(dir) ==
  [p \in DOMAIN dir \ {Manifest, "media/proof-manifest.json"} |-> dir[p]]

\* anew is no part of it: it tells the writer's manifests from those of others.
ManifestOf(dir, artifact, run) ==
  [path |-> Manifest, of |-> artifact, run |-> run, admitted |-> artifact \in Admitted,
   required |-> Required(artifact \in Admitted), listed |-> Relative(dir), anew |-> FALSE]

With(dir, path, content) ==
  [p \in DOMAIN dir \cup {path} |-> IF p = path THEN content ELSE dir[p]]
Without(dir, path) == [p \in DOMAIN dir \ {path} |-> dir[p]]

-----------------------------------------------------------------------------
(* write_package.                                                          *)

\* Mutant: the manifest is written when there is nothing yet to list wrongly.
WriteOrderManifestFirst(artifact, render) ==
  <<Manifest>> \o Records \o (IF artifact \in Admitted
                              THEN Documents \o (IF render THEN Media ELSE <<>>)
                              ELSE <<"NOT_ADMITTED.md">>)

WriteOrder(artifact, render) ==
  Records \o (IF artifact \in Admitted
              THEN Documents \o (IF render THEN Media ELSE <<>>)
              ELSE <<"NOT_ADMITTED.md">>) \o <<Manifest>>

Idle == [phase |-> "idle", run |-> 0, render |-> FALSE, at |-> 0, content |-> Torn]

Resting ==
  [phase |-> "idle", left |-> {}, at |-> 0, manifest |-> Torn, proof |-> Torn,
   receipt |-> Torn, verdict |-> "none", whole |-> FALSE, steady |-> FALSE]

Init ==
  /\ disk = [p \in {} |-> Torn] /\ plan \in Plans
  /\ writer = Idle
  /\ verifier = Resting
  /\ edits = 0

\* The directory changes, under a verification or after it: an old verdict says nothing.
Disturb ==
  verifier' = IF verifier.phase = "idle" THEN Resting ELSE [verifier EXCEPT !.steady = FALSE]

\* A build of the artifact is there and is to be written: first, what is there goes.
StartWrite(render) ==
  /\ writer.phase = "idle" /\ writer.run < plan.runs
  /\ writer' = [Idle EXCEPT !.phase = "clear", !.run = writer.run + 1, !.render = render]
  /\ UNCHANGED <<disk, plan, verifier, edits>>

\* _clear: the files that it found go from the last to the first; no other comes.
Clear ==
  /\ writer.phase = "clear"
  /\ \E path \in DOMAIN disk : IsLast(path, DOMAIN disk) /\ disk' = Without(disk, path)
  /\ Disturb
  /\ UNCHANGED <<plan, writer, edits>>

\* Mutant: what is there is written over.
ClearedAnyway ==
  /\ writer.phase = "clear"
  /\ writer' = [writer EXCEPT !.phase = "write", !.at = 1]
  /\ UNCHANGED <<disk, plan, verifier, edits>>

Cleared ==
  /\ writer.phase = "clear" /\ DOMAIN disk = {}
  /\ writer' = [writer EXCEPT !.phase = "write", !.at = 1]
  /\ UNCHANGED <<disk, plan, verifier, edits>>

\* What is written to a path.  The policies are read once more from their files, which
\* may have been edited since the build.
Contents(path) ==
  CASE path = Manifest -> {ManifestOf(disk, subject, writer.run)}
    [] path \in {"contracts/arm-contract-set.json", "contracts/package-contract-set.json"} ->
         {File(path, "bound", 0)}
    [] path \in {"policies/arm-policy.json", "policies/package-policy.json"} ->
         {File(path, version, 0) : version \in Versions(path)}
    [] OTHER -> {File(path, subject, writer.run)}

\* The files that this build writes, in their order, and the one that it is at.
Order == WriteOrder(subject, writer.render)
Current == Order[writer.at]

\* A file is first empty, then partly and then wholly written.
OpenFile ==
  /\ writer.phase = "write" /\ writer.at <= Len(Order)
  /\ \E content \in Contents(Current) :
       writer' = [writer EXCEPT !.phase = "close", !.content = content]
  /\ disk' = With(disk, Current, Torn) /\ Disturb
  /\ UNCHANGED <<plan, edits>>

CloseFile ==
  /\ writer.phase = "close"
  /\ disk' = With(disk, Current, writer.content) /\ Disturb
  /\ writer' = [writer EXCEPT !.phase = "write", !.at = @ + 1, !.content = Torn]
  /\ UNCHANGED <<plan, edits>>

Return ==
  /\ writer.phase = "write" /\ writer.at > Len(Order)
  /\ writer' = [writer EXCEPT !.phase = "idle", !.at = 0]
  /\ UNCHANGED <<disk, plan, verifier, edits>>

\* The process dies, a policy cannot be read, the encoder fails, the disk is full.
Stop ==
  /\ writer.phase # "idle"
  /\ writer' = [writer EXCEPT !.phase = "idle", !.at = 0, !.content = Torn]
  /\ UNCHANGED <<disk, plan, verifier, edits>>

-----------------------------------------------------------------------------
(* verify_package.  Every failure is final, so a verification ends here    *)
(* with the first one, where the code goes on to report the others.        *)

Job(purpose, path) == [purpose |-> purpose, path |-> path]

\* What is read once the files have been compared with the manifest.
Readings ==
  <<Job("proof", "proof.json"), Job("receipt", "receipt.json"),
    Job("own", ArmFile.baseline), Job("own", ArmReceipt.baseline),
    Job("own", ArmFile.augmented), Job("own", ArmReceipt.augmented),
    Job("boundary", ArmReceipt.baseline), Job("boundary", ArmReceipt.augmented),
    Job("boundary", "receipt.json"),
    Job("contracts", "contracts/package-contract-set.json"),
    Job("policy", "policies/package-policy.json"),
    Job("contracts", "contracts/arm-contract-set.json"),
    Job("arm policy", "policies/arm-policy.json"),
    Job("recheck", ArmFile.baseline), Job("recheck", ArmFile.augmented),
    Job("scan", ArmFile.baseline), Job("scan", ArmFile.augmented),
    Job("scan", "README.md"), Job("scan", "transcript.txt"), Job("scan", "listing-assets.json"),
    Job("boundary", "findings.json"), Job("listing", "listing-assets.json"),
    Job("readme", "README.md"), Job("image", "thumbnail.png"), Job("video", "demo.mp4")>>

\* Some files are passed over if they are not there.
Skipped(job) == /\ job.purpose \in {"scan", "listing", "readme"}
                /\ job.path \in {"README.md", "transcript.txt", "listing-assets.json"}

\* Mutant: what belongs to another run of the same artifact is good enough.
OfTheArtifact(v, path, content) == content.path = path /\ content.of = v.proof.of

\* The digest that proof.json records for it.
OfTheProof(v, path, content) == content = File(path, v.proof.of, v.proof.run)

\* Text is scanned whatever it is; JSON must be whole.
Scanned(path, content) ==
  CASE path \in {ArmFile.baseline, ArmFile.augmented} -> content.of \in Admitted \cup Quiet
    [] path = "listing-assets.json" -> content.of \in Quiet
    [] OTHER -> content.of \in Quiet \/ content = Torn

Accepts(v, job, content) ==
  CASE job.purpose = "proof" -> content.path = "proof.json" /\ content.of = v.manifest.of
    [] job.purpose = "receipt" -> /\ content.path = "receipt.json" /\ content.of = v.proof.of
                                   /\ content.of \in Admitted
    [] job.purpose \in {"own", "listing"} -> content.path = job.path /\ content.of = v.proof.of
    [] job.purpose = "boundary" -> OfTheProof(v, job.path, content)
    [] job.purpose \in {"contracts", "policy"} -> content.of = "bound"
    [] job.purpose = "arm policy" -> content.of \in {"bound", "alike"}
    [] job.purpose = "recheck" -> content # Torn /\ Judged(content.of) = Judged(v.proof.of)
    [] job.purpose = "scan" -> Scanned(job.path, content)
    [] job.purpose = "readme" -> content = File("README.md", v.receipt.of, v.receipt.run)
    [] job.purpose \in {"image", "video"} -> content.path = job.path

\* A part of one of these may have all that is looked for.
Uncertain(job, content) == job.purpose \in {"readme", "video"} /\ content = Torn

-----------------------------------------------------------------------------
(* The actions of a verification.                                          *)

\* A directory is as a build of the given run left it.
WholeOf(dir, artifact, run, render) ==
  LET written == ToSet(WriteOrder(artifact, render)) \ {Manifest}
  IN  /\ DOMAIN Relative(dir) = written /\ Manifest \in DOMAIN dir
      /\ dir[Manifest] = ManifestOf(dir, artifact, run)
      /\ \A p \in written : IF Versions(p) # {} THEN dir[p] # Torn
                            ELSE dir[p] = File(p, artifact, run)

Verdict(verdict) ==
  verifier' = [Resting EXCEPT !.verdict = verdict, !.whole = verifier.whole,
                              !.steady = verifier.steady]

\* Mutant: the verdict on the directory as it was is kept.
StartVerifyStale ==
  /\ verifier.phase = "idle"
  /\ verifier' = [verifier EXCEPT !.phase = "manifest"]
  /\ UNCHANGED <<disk, plan, writer, edits>>

StartVerify ==
  /\ verifier.phase = "idle"
  /\ verifier' = [Resting EXCEPT !.phase = "manifest", !.steady = TRUE]
  /\ UNCHANGED <<disk, plan, writer, edits>>

ReadManifest ==
  /\ verifier.phase = "manifest"
  /\ IF Manifest \in DOMAIN disk /\ disk[Manifest] # Torn
     THEN verifier' = [verifier EXCEPT
            !.phase = "list", !.manifest = disk[Manifest],
            !.whole = \E render \in BOOLEAN :
                        WholeOf(disk, subject, disk[Manifest].run, render)]
     ELSE Verdict("refused")
  /\ UNCHANGED <<disk, plan, writer, edits>>

\* Mutant: the list is not compared with what is there.
CompleteOnPaper(manifest, dir) == manifest.required \subseteq DOMAIN manifest.listed

\* All that is required is listed, all that is listed is there and nothing else is.
Complete(manifest, dir) ==
  /\ manifest.required \subseteq DOMAIN manifest.listed
  /\ DOMAIN manifest.listed = DOMAIN Relative(dir)

ListFiles ==
  /\ verifier.phase = "list"
  /\ IF Complete(verifier.manifest, disk)
     THEN verifier' = [verifier EXCEPT !.phase = "hash",
                                       !.left = DOMAIN verifier.manifest.listed]
     ELSE Verdict("refused")
  /\ UNCHANGED <<disk, plan, writer, edits>>

\* What the manifest lists under a path is what is there.
Matches(manifest, path) == path \in DOMAIN disk /\ disk[path] = manifest.listed[path]

\* Mutant: the file that was compared is still to be compared.
HashFileAgain ==
  /\ verifier.phase = "hash"
  /\ \E path \in verifier.left :
       /\ IsFirst(path, verifier.left)
       /\ IF Matches(verifier.manifest, path)
          THEN UNCHANGED verifier
          ELSE Verdict("refused")
  /\ UNCHANGED <<disk, plan, writer, edits>>

\* The listed files are compared in the order of the manifest.
HashFile ==
  /\ verifier.phase = "hash"
  /\ \E path \in verifier.left :
       /\ IsFirst(path, verifier.left)
       /\ IF Matches(verifier.manifest, path)
          THEN verifier' = [verifier EXCEPT !.left = @ \ {path}]
          ELSE Verdict("refused")
  /\ UNCHANGED <<disk, plan, writer, edits>>

Hashed ==
  /\ verifier.phase = "hash" /\ verifier.left = {}
  /\ IF verifier.manifest.admitted
     THEN verifier' = [verifier EXCEPT !.phase = "read", !.at = 1]
     ELSE Verdict("refused")
  /\ UNCHANGED <<disk, plan, writer, edits>>

Read ==
  LET job == Readings[verifier.at]
      there == job.path \in DOMAIN disk
      content == disk[job.path]
      on == [verifier EXCEPT !.at = @ + 1]
  IN  /\ verifier.phase = "read" /\ verifier.at <= Len(Readings)
      /\ \/ /\ there /\ (Accepts(verifier, job, content) \/ Uncertain(job, content))
            /\ verifier' = CASE job.purpose = "proof" -> [on EXCEPT !.proof = content]
                              [] job.purpose = "receipt" -> [on EXCEPT !.receipt = content]
                              [] OTHER -> on
         \/ /\ ~there /\ Skipped(job)
            /\ verifier' = on
         \/ /\ IF there THEN ~Accepts(verifier, job, content) ELSE ~Skipped(job)
            /\ Verdict("refused")
      /\ UNCHANGED <<disk, plan, writer, edits>>

Verified ==
  /\ verifier.phase = "read" /\ verifier.at > Len(Readings)
  /\ Verdict("verified")
  /\ UNCHANGED <<disk, plan, writer, edits>>

-----------------------------------------------------------------------------
(* What others do to the directory while it is not being written or        *)
(* verified.  Without a manifest there is no telling what it is.           *)

Resealed(dir) == [dir EXCEPT ![Manifest].listed = Relative(dir), ![Manifest].anew = TRUE]

\* The manifest keeps its identity and may be given the digests of what is there then.
Change(dir) ==
  /\ writer.phase = "idle" /\ verifier.phase = "idle" /\ edits < plan.edits
  /\ Manifest \in DOMAIN disk
  /\ \/ disk' = dir
     \/ /\ Manifest \in DOMAIN dir /\ dir[Manifest] # Torn
        /\ disk' = Resealed(dir)
  /\ disk' # disk /\ edits' = edits + 1 /\ Disturb
  /\ UNCHANGED <<plan, writer>>

\* A file of another build, also one made elsewhere, run 0; the receipts of the two arms
\* may be taken for each other.
Others(path) ==
  LET receipts == {ArmReceipt.baseline, ArmReceipt.augmented}
      kin == IF path \in receipts THEN receipts ELSE {path}
  IN  {File(p, artifact, run) : p \in kin, artifact \in Artifacts, run \in 0..plan.runs}

Exchange(path) ==
  \E content \in IF Versions(path) = {} THEN Others(path)
                  ELSE {File(path, version, 0) : version \in Versions(path)} :
    /\ path \in DOMAIN disk \ {Manifest} /\ content # disk[path]
    /\ Change(With(disk, path, content))

Delete(path) == path \in DOMAIN disk /\ Change(Without(disk, path))

Add(path) == /\ path \notin DOMAIN disk
             /\ Change(With(disk, path, File(path, subject, 0)))

Reseal == Change(disk)

\* The state of the package is rewritten in the manifest.
Relabel ==
  /\ Manifest \in DOMAIN disk /\ disk[Manifest] # Torn /\ ~disk[Manifest].admitted
  /\ Change([disk EXCEPT ![Manifest].admitted = TRUE, ![Manifest].anew = TRUE])

-----------------------------------------------------------------------------

Write == Clear \/ Cleared \/ OpenFile \/ CloseFile \/ Return
Verify == ReadManifest \/ ListFiles \/ HashFile \/ Hashed \/ Read \/ Verified
Edit ==
  \/ \E path \in Paths : Exchange(path) \/ Delete(path)
  \/ \E path \in Extras : Add(path)
  \/ Reseal \/ Relabel

Next ==
  \/ \E render \in BOOLEAN : StartWrite(render)
  \/ Write \/ Stop
  \/ StartVerify \/ Verify
  \/ Edit

\* Each process goes on once it is started; nobody has to start one.
Spec == Init /\ [][Next]_vars /\ WF_vars(Write) /\ WF_vars(Verify)

-----------------------------------------------------------------------------
(* Properties.                                                             *)

\* Types; a verification that goes on has given no verdict, and one without a manifest
\* has compared nothing.
TypeOK ==
  /\ DOMAIN disk \subseteq Paths /\ plan \in Plans
  /\ writer.phase \in {"idle", "clear", "write", "close"} /\ writer.run \in 0..plan.runs
  /\ writer.at \in 0..(Len(Order) + 1) /\ (writer.phase = "idle" => writer.at = 0)
  /\ verifier.phase \in {"idle", "manifest", "list", "hash", "read"}
  /\ verifier.left \subseteq Paths /\ verifier.at \in 0..(Len(Readings) + 1)
  /\ verifier.verdict \in {"none", "verified", "refused"}
  /\ verifier.phase # "idle" => verifier.verdict = "none"
  /\ verifier.phase \in {"list", "hash", "read"} => verifier.manifest # Torn
  /\ edits \in 0..plan.edits

\* As long as only builds are written, nothing in the directory contradicts a manifest in
\* it, however a write was interrupted: what is there is listed with its digest.  And
\* nothing but the diagnosis is written of an artifact that was not admitted.
\* (write_package: the manifest goes early and comes last.)
ManifestIsNotContradicted ==
  edits = 0 =>
    /\ Manifest \in DOMAIN disk /\ disk[Manifest] # Torn =>
         \A p \in DOMAIN Relative(disk) : /\ p \in DOMAIN disk[Manifest].listed
                                          /\ disk[p] = disk[Manifest].listed[p]
    /\ subject \notin Admitted =>
         DOMAIN disk \cap (ToSet(Documents) \cup ToSet(Media)) = {}

\* A verification that races with writes and their crashes says "verified" only of a
\* package that was whole when its manifest was read: the files of one build of an
\* admitted artifact, none missing, cut short or left from another build.
\* (verify_package against write_package.)
VerifiedWasWhole ==
  verifier.verdict = "verified" /\ edits = 0 => verifier.whole /\ subject \in Admitted

\* What verification finds out of a directory.  Its proof, receipts, arm files, findings
\* and listing are of one build of an admitted artifact, and its README is or is cut short.
\* Its contracts and package policy are those that the artifact binds, its arm policy one
\* that decides the arms alike.  Its transcript shows nothing denied, but may be that of
\* any artifact; of the still there is no more than that it is one.  All that is required
\* is there, and every file but those that are named like the manifest is listed as it is.
Sound(dir) ==
  \E artifact \in Admitted \cap Quiet, run \in 0..plan.runs :
    /\ \A p \in {"proof.json", "receipt.json", "findings.json", "listing-assets.json",
                  ArmFile.baseline, ArmFile.augmented, ArmReceipt.baseline,
                  ArmReceipt.augmented} : dir[p] = File(p, artifact, run)
    /\ dir["README.md"] \in {File("README.md", artifact, run), Torn}
    /\ dir["transcript.txt"].of \in Quiet \/ dir["transcript.txt"] = Torn
    /\ \A p \in {"contracts/arm-contract-set.json", "contracts/package-contract-set.json",
                  "policies/package-policy.json"} : dir[p].of = "bound"
    /\ dir["policies/arm-policy.json"].of \in {"bound", "alike"}
    /\ dir["thumbnail.png"] # Torn
    /\ Required(TRUE) \subseteq DOMAIN dir /\ Relative(dir) = dir[Manifest].listed

\* A package as write_package returns it, of an artifact that shows nothing denied and
\* with policies that were not edited between the build and the write.
Pristine(dir) ==
  /\ subject \in Admitted \cap Quiet
  /\ \E run \in 1..plan.runs : Manifest \in DOMAIN dir /\ WholeOf(dir, subject, run, TRUE)
  /\ \A p \in Paths : Versions(p) # {} => dir[p].of = "bound"

\* A verification during which nothing changes refuses no package that is as it was
\* written and, even if files were exchanged, removed or added and the manifest made anew,
\* verifies no directory that is not Sound: whose records are not of one build of the
\* artifact, or that lacks or alters a file that is listed.  (verify_package.)
SteadyVerdictIsRight ==
  verifier.steady =>
    /\ verifier.verdict = "verified" => Sound(disk)
    /\ verifier.verdict = "refused" => ~Pristine(disk)

\* A write and a verification that are started come to their end.
WorkEnds ==
  /\ []<>(writer.phase = "idle")
  /\ []<>(verifier.phase = "idle")

\* docs/PROOF_ENGINE.md:131, of a directory that verifies: "the directory holds no unlisted
\* file".
NothingUnlisted ==
  verifier.verdict = "verified" /\ verifier.steady =>
    DOMAIN disk \ {Manifest} \subseteq DOMAIN disk[Manifest].listed

\* docs/PROOF_ENGINE.md:136, of a directory that verifies: "the contract-set and policy
\* snapshots match the digests the artifact binds".
SnapshotsAreBound ==
  verifier.verdict = "verified" /\ verifier.steady =>
    \A p \in Paths : Versions(p) # {} => disk[p].of = "bound"

-----------------------------------------------------------------------------
(* What the directory is for those who write it and those who verify it.   *)

\* The build whose package is whole in it, 0 if there is none.
OnShelf ==
  IF /\ Manifest \in DOMAIN disk /\ disk[Manifest] # Torn
     /\ \E render \in BOOLEAN : WholeOf(disk, subject, disk[Manifest].run, render)
  THEN disk[Manifest].run ELSE 0

Writing ==
  CASE writer.phase = "idle" -> "idle"
    [] writer.phase = "write" /\ writer.at > Len(Order) -> "published"
    [] OTHER -> "under way"

Visitor ==
  CASE verifier.phase = "idle" -> "idle"
    [] verifier.phase = "manifest" -> "asking"
    [] OTHER -> "judging"

Shelf == INSTANCE ProofShelf WITH
  admitted <- subject \in Admitted, shelf <- OnShelf, flawless <- Pristine(disk),
  latest <- writer.run, writing <- Writing, visitor <- Visitor, saw <- verifier.whole,
  calm <- verifier.steady, answer <- verifier.verdict, touched <- edits # 0

\* The directory is a shelf that holds one whole package or none: a build replaces what
\* is there, never mixes with it, and has put its own there when it returns; a verifier
\* answers of what it once saw whole, and accepts a flawless package that nobody moves.
\* (write_package against verify_package.)
ImplementsProofShelf == Shelf!Spec
=============================================================================
