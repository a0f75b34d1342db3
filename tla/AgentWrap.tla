------------------------------ MODULE AgentWrap ------------------------------
(***************************************************************************)
(* The life of one scratch directory runs/agent-wrap/<run_id>: wrap_run    *)
(* writes a package there file by file, an exporter copies it to Drive     *)
(* through a transport that may fail or lose an answer, the process may be *)
(* killed anywhere, the run may be wrapped again into the same directory,  *)
(* and prune_run_dir deletes it.  One process at a time works on the       *)
(* directory, as the demo and the tests do.                                *)
(*                                                                         *)
(* run_id is derived from the trace, the agent, the tools and the config,  *)
(* not from the claim or the outcome, so several versions of the artifact  *)
(* share one directory; events.jsonl is the same for all of them.          *)
(*                                                                         *)
(* A file's content stands for its bytes and for its sha256; the eight     *)
(* hex digits of a content hash in a Drive title stand for the content.    *)
(***************************************************************************)
EXTENDS Naturals, FiniteSets

CONSTANTS Versions,  \* artifacts with this run_id: they differ in claim or outcome
          Stamps,    \* readings of the clock a receipt records
          None,      \* no version
          MaxWraps,  \* bound: wraps of this run
          MaxFaults  \* bound: faults of the Drive transport

ASSUME NoneAssumption == None \notin Versions
ASSUME BoundsAssumption == MaxWraps \in Nat /\ MaxFaults \in Nat

VARIABLES
  pc,        \* where the process working on the directory is
  artifact,  \* the version the wrap in progress holds in memory
  exporter,  \* the exporter that wrap was given
  cursor,    \* position in the exporter's loop over folders, then over files
  upload,    \* what _upload_file has read and the title it has allocated
  uploaded,  \* the ack entries of the files uploaded so far
  errors,    \* whether the exporter has recorded an error
  request,   \* expected_sha256 of the prune in progress, None when defaulted
  disk,      \* the local files, by name
  folders,   \* how many of Terminus / XI-Traces / <run_id> exist on Drive
  drive,     \* the files in the run's Drive folder
  wraps,     \* wraps started
  faults     \* calls of the transport that have failed

volatile == <<artifact, exporter, cursor, upload, uploaded, errors, request>>
vars == <<pc, volatile, disk, folders, drive, wraps, faults>>

-----------------------------------------------------------------------------
(* Files and their contents.                                               *)

ContentFiles == {"events", "artifact", "receipt"}          \* PACKAGE_CONTENT_FILES
UploadFiles == <<"events", "artifact", "receipt", "manifest">>
Uploads == ContentFiles \cup {"manifest"}
Files == Uploads \cup {"ack"}

Absent == [kind |-> "absent"]
Torn == [kind |-> "torn"]        \* a write cut short: not readable as JSON
EventsFile == [kind |-> "events"]
ArtifactFile(v) == [kind |-> "artifact", version |-> v]
ReceiptFile(v, t) == [kind |-> "receipt", version |-> v, stamp |-> t]

\* build_manifest hashes the files it lists as they are on disk.
ManifestFile(v, listed, pending) ==
  [kind |-> "manifest", version |-> v, pending |-> pending,
   files |-> [f \in listed |-> disk[f]]]

NoHash == [kind |-> "nohash"]
PlainTitle(f) == [name |-> f, hash |-> NoHash]
UniqueTitle(f, c) == [name |-> f, hash |-> c]   \* _unique_title
\* Mutant: only this export's own uploads are looked at.
TitleExistsForgetful(title) == \E e \in uploaded : e.title = title
TitleExists(title) == \E r \in drive : r.title = title

NoUpload == [title |-> PlainTitle("events"), content |-> Absent]

\* Mutant: the manifest is not waited for, nor the errors.
CompleteWithoutManifest == \A f \in ContentFiles : \E e \in uploaded : e.name = f

Complete == ~errors /\ \A f \in Uploads : \E e \in uploaded : e.name = f

\* Mutant: any upload at all counts as an export.
StatusLenient == IF exporter = "local" THEN "stubbed"
                 ELSE IF uploaded # {} THEN "exported" ELSE "failed"

Status == CASE exporter = "local" -> "stubbed"
            [] exporter = "drive" /\ Complete -> "exported"
            [] exporter = "drive" /\ ~Complete /\ uploaded # {} -> "partial"
            [] OTHER -> "failed"

AckFile == [kind |-> "ack", status |-> Status, sha |-> artifact, files |-> uploaded]

-----------------------------------------------------------------------------
Init ==
  /\ pc = "idle"
  /\ artifact = None /\ exporter = "local" /\ cursor = 0
  /\ upload = NoUpload /\ uploaded = {} /\ errors = FALSE /\ request = None
  /\ disk = [f \in Files |-> Absent]
  /\ folders \in 0..2      \* other runs may have made the two outer folders
  /\ drive = {} /\ wraps = 0 /\ faults = 0

\* What a process that ends, one way or the other, takes with it.
Forget ==
  /\ artifact' = None /\ exporter' = "local" /\ cursor' = 0
  /\ upload' = NoUpload /\ uploaded' = {} /\ errors' = FALSE /\ request' = None

\* wrap_run: the artifact is built in memory, the directory made or reused.
StartWrap(v, x) ==
  /\ pc \in {"idle", "done"} /\ wraps < MaxWraps
  /\ wraps' = wraps + 1
  /\ artifact' = v /\ exporter' = x
  /\ pc' = "events"
  /\ UNCHANGED <<cursor, upload, uploaded, errors, request, disk, folders, drive,
                 faults>>

Write(f, content, next) ==
  /\ disk' = [disk EXCEPT ![f] = content]
  /\ pc' = next
  /\ UNCHANGED <<volatile, folders, drive, wraps, faults>>

WriteEvents == pc = "events" /\ Write("events", EventsFile, "artifact")

WriteArtifact == pc = "artifact" /\ Write("artifact", ArtifactFile(artifact), "receipt")

\* Mutant: a receipt that is already there is kept.
WriteReceiptOnce ==
  /\ pc = "receipt"
  /\ \E t \in Stamps :
       Write("receipt", IF disk["receipt"].kind = "receipt" THEN disk["receipt"]
                        ELSE ReceiptFile(artifact, t), "manifest")

\* admit_run_artifact reads the artifact in memory, and its receipt the clock.
WriteReceipt ==
  /\ pc = "receipt"
  /\ \E t \in Stamps : Write("receipt", ReceiptFile(artifact, t), "manifest")

WritePendingManifest ==
  /\ pc = "manifest"
  /\ Write("manifest", ManifestFile(artifact, ContentFiles, TRUE), "export")

\* LocalOnlyExporter has its document at once.  GoogleDriveExporter refuses a
\* package with a file missing and otherwise starts on the folders.
BeginExport ==
  /\ pc = "export"
  /\ LET missing == \E f \in Uploads : disk[f] = Absent IN
     /\ pc' = IF exporter = "local" \/ missing THEN "ack" ELSE "folder"
     /\ errors' = (exporter = "drive" /\ missing)
  /\ UNCHANGED <<artifact, exporter, cursor, upload, uploaded, request, disk,
                 folders, drive, wraps, faults>>

-----------------------------------------------------------------------------
(* GoogleDriveExporter: the folder chain, then the files one by one.       *)

\* A call of the transport raises, its answer is lost, or the answer has no id.
Fault == faults < MaxFaults /\ faults' = faults + 1

\* _ensure_folder found the folder, or created it and got its id.
EnsureFolder ==
  /\ pc = "folder"
  /\ folders' = IF cursor < folders THEN folders ELSE folders + 1
  /\ cursor' = IF cursor = 2 THEN 1 ELSE cursor + 1
  /\ pc' = IF cursor = 2 THEN "title" ELSE "folder"
  /\ UNCHANGED <<artifact, exporter, upload, uploaded, errors, request, disk,
                 drive, wraps, faults>>

\* A search or create failed, or the answer to a create was lost or had no id:
\* the export ends with a failed ack.
EnsureFolderFails ==
  /\ pc = "folder" /\ Fault
  /\ folders' \in {folders, IF cursor < folders THEN folders ELSE folders + 1}
  /\ errors' = TRUE
  /\ pc' = "ack"
  /\ UNCHANGED <<artifact, exporter, cursor, upload, uploaded, request, disk,
                 drive, wraps>>

\* Mutants: one file too many; the loop starts over instead of ending.
NextFileTooFar ==
  /\ upload' = NoUpload
  /\ pc' = IF cursor = 5 THEN "ack" ELSE "title"
  /\ cursor' = IF cursor = 5 THEN 0 ELSE cursor + 1
NextFileForEver ==
  /\ upload' = NoUpload
  /\ pc' = "title"
  /\ cursor' = IF cursor = 4 THEN 1 ELSE cursor + 1

\* The loop over EXPORT_UPLOAD_FILES goes on whatever became of this file.
NextFile ==
  /\ upload' = NoUpload
  /\ pc' = IF cursor = 4 THEN "ack" ELSE "title"
  /\ cursor' = IF cursor = 4 THEN 0 ELSE cursor + 1

\* _upload_file reads the local bytes and _allocate_title picks a free title: the
\* file's own name, or that name with the hash of the content.
FreeTitle(f, c) ==
  IF TitleExists(PlainTitle(f)) THEN UniqueTitle(f, c) ELSE PlainTitle(f)

AllocateTitle ==
  /\ pc = "title"
  /\ LET f == UploadFiles[cursor]
         title == FreeTitle(f, disk[f])
     IN /\ ~TitleExists(title)
        /\ upload' = [title |-> title, content |-> disk[f]]
  /\ pc' = "create"
  /\ UNCHANGED <<artifact, exporter, cursor, uploaded, errors, request, disk,
                 folders, drive, wraps, faults>>

\* Both titles are taken: the file is skipped with an error, never overwritten.
TitleCollides ==
  /\ pc = "title"
  /\ LET f == UploadFiles[cursor] IN TitleExists(FreeTitle(f, disk[f]))
  /\ errors' = TRUE
  /\ NextFile
  /\ UNCHANGED <<artifact, exporter, uploaded, request, disk, folders, drive, wraps,
                 faults>>

\* A search for one of the titles failed: the file is skipped with an error.
SearchFails ==
  /\ pc = "title" /\ Fault
  /\ errors' = TRUE
  /\ NextFile
  /\ UNCHANGED <<artifact, exporter, uploaded, request, disk, folders, drive, wraps>>

\* Mutant: a create replaces the earlier files of that name.
StoredInPlace ==
  {r \in drive : r.title.name # upload.title.name}
    \cup {[title |-> upload.title, content |-> upload.content, copy |-> 1]}

\* What Drive holds after a create: an earlier file of that title stays.
Stored ==
  drive \cup {[title |-> upload.title, content |-> upload.content,
               copy |-> 1 + Cardinality({r \in drive : r.title = upload.title})]}

CreateFile ==
  /\ pc = "create"
  /\ drive' = Stored
  /\ uploaded' = uploaded \cup {[name |-> UploadFiles[cursor], title |-> upload.title,
                                 content |-> upload.content]}
  /\ NextFile
  /\ UNCHANGED <<artifact, exporter, errors, request, disk, folders, wraps, faults>>

\* The create failed, or its answer was lost or had no id.
CreateFileFails ==
  /\ pc = "create" /\ Fault
  /\ drive' \in {drive, Stored}
  /\ errors' = TRUE
  /\ NextFile
  /\ UNCHANGED <<artifact, exporter, uploaded, request, disk, folders, wraps>>

-----------------------------------------------------------------------------
WriteAck == pc = "ack" /\ Write("ack", AckFile, "final")

\* The manifest is refreshed to list drive_export.json; wrap_run returns.
WriteFinalManifest ==
  /\ pc = "final"
  /\ disk' = [disk EXCEPT !["manifest"] =
                 ManifestFile(artifact, ContentFiles \cup {"ack"}, FALSE)]
  /\ pc' = "done"
  /\ Forget
  /\ UNCHANGED <<folders, drive, wraps, faults>>

\* Mutant: an exported ack is enough, whatever version it covers.
PruneUnmatched(e) ==
  /\ pc \in {"idle", "done"}
  /\ disk["ack"].kind = "ack" /\ disk["ack"].status = "exported"
  /\ e # None => disk["ack"].sha = e
  /\ request' = e
  /\ pc' = "rmtree"
  /\ UNCHANGED <<artifact, exporter, cursor, upload, uploaded, errors, disk,
                 folders, drive, wraps, faults>>

\* prune_run_dir(expected_sha256 = e): every refusal leaves all as it was.
Prune(e) ==
  /\ pc \in {"idle", "done"}
  /\ disk["ack"].kind = "ack" /\ disk["ack"].status = "exported"
  /\ \/ e # None /\ disk["ack"].sha = e
     \/ e = None /\ disk["artifact"] = ArtifactFile(disk["ack"].sha)
  /\ request' = e
  /\ pc' = "rmtree"
  /\ UNCHANGED <<artifact, exporter, cursor, upload, uploaded, errors, disk,
                 folders, drive, wraps, faults>>

\* shutil.rmtree removes the files one after the other, in no fixed order.
RemoveFile(f) ==
  /\ pc = "rmtree" /\ disk[f] # Absent
  /\ disk' = [disk EXCEPT ![f] = Absent]
  /\ UNCHANGED <<pc, volatile, folders, drive, wraps, faults>>

RemoveDir ==
  /\ pc = "rmtree" /\ \A f \in Files : disk[f] = Absent
  /\ pc' = "idle"
  /\ Forget
  /\ UNCHANGED <<disk, folders, drive, wraps, faults>>

-----------------------------------------------------------------------------
\* The file a write that starts here truncates first.
BeingWritten ==
  CASE pc \in ContentFiles -> {pc}
    [] pc \in {"manifest", "final"} -> {"manifest"}
    [] pc = "ack" -> {"ack"}
    [] OTHER -> {}

\* The process is killed between two steps, or in the middle of a write.
Crash ==
  /\ pc \notin {"idle", "done"}
  /\ \/ disk' = disk
     \/ \E f \in BeingWritten : disk' = [disk EXCEPT ![f] = Torn]
  /\ pc' = "idle"
  /\ Forget
  /\ UNCHANGED <<folders, drive, wraps, faults>>

WrapStep ==
  \/ WriteEvents \/ WriteArtifact \/ WriteReceipt \/ WritePendingManifest
  \/ BeginExport \/ EnsureFolder \/ EnsureFolderFails
  \/ AllocateTitle \/ TitleCollides \/ SearchFails \/ CreateFile \/ CreateFileFails
  \/ WriteAck \/ WriteFinalManifest

PruneStep == (\E f \in Files : RemoveFile(f)) \/ RemoveDir

Next ==
  \/ \E v \in Versions, x \in {"local", "drive"} : StartWrap(v, x)
  \/ WrapStep
  \/ \E e \in Versions \cup {None} : Prune(e)
  \/ PruneStep
  \/ Crash

Spec == Init /\ [][Next]_vars

\* A process that is not killed goes on to its next step; nobody has to wrap
\* or prune again, and nothing has to crash.
FairSpec == Spec /\ WF_vars(WrapStep) /\ WF_vars(PruneStep)
-----------------------------------------------------------------------------
(* Types.                                                                  *)

LocalFile == {Absent, Torn, EventsFile} \cup {ArtifactFile(v) : v \in Versions}
               \cup {ReceiptFile(v, t) : v \in Versions, t \in Stamps}

PendingManifest == [kind : {"manifest"}, version : Versions, pending : {TRUE},
                    files : [ContentFiles -> LocalFile]]

Uploadable == LocalFile \cup PendingManifest
Title == [name : Uploads, hash : Uploadable \cup {NoHash}]
Entry == [name : Uploads, title : Title, content : Uploadable]

Ack == [kind : {"ack"}, status : {"stubbed", "exported", "partial", "failed"},
        sha : Versions, files : SUBSET Entry]

FinalManifest == [kind : {"manifest"}, version : Versions, pending : {FALSE},
                  files : [ContentFiles \cup {"ack"} -> LocalFile \cup Ack]]

MayHold(f) == CASE f \in ContentFiles -> LocalFile
                [] f = "manifest" -> {Absent, Torn} \cup PendingManifest \cup FinalManifest
                [] f = "ack" -> {Absent, Torn} \cup Ack

ControlType ==
  /\ pc \in {"idle", "events", "artifact", "receipt", "manifest", "export", "folder",
             "title", "create", "ack", "final", "done", "rmtree"}
  /\ artifact \in Versions \cup {None}
  /\ exporter \in {"local", "drive"}
  /\ request \in Versions \cup {None}
  /\ wraps \in 0..MaxWraps /\ faults \in 0..MaxFaults /\ folders \in 0..3

CursorType ==
  /\ cursor \in 0..4
  /\ pc \in {"title", "create"} => cursor \in 1..4
  /\ pc = "folder" => cursor \in 0..2
  /\ pc \notin {"folder", "title", "create", "ack", "final"} => cursor = 0

UploadType ==
  /\ upload \in [title : Title, content : Uploadable]
  /\ uploaded \in SUBSET Entry
  /\ errors \in BOOLEAN

DiskType == DOMAIN disk = Files /\ \A f \in Files : disk[f] \in MayHold(f)

DriveType == drive \in SUBSET [title : Title, content : Uploadable, copy : Nat]

\* Every variable keeps its type: what each local file may hold, what may have
\* been uploaded, and where each program counter's cursor may stand.
TypeOK == ControlType /\ CursorType /\ UploadType /\ DiskType /\ DriveType

-----------------------------------------------------------------------------
(* Properties.                                                             *)

Archived(v) == \E r \in drive : r.content = ArtifactFile(v)
Held(e) == \E r \in drive : r.title = e.title /\ r.content = e.content
Uploaded(ack, f, c) == \E e \in ack.files : e.name = f /\ e.content = c

\* The four files of one wrap: the receipt covers this version, and the manifest
\* lists this very trace, artifact and receipt.
WholePackage(ack) ==
  \E t \in Stamps :
    /\ Uploaded(ack, "events", EventsFile)
    /\ Uploaded(ack, "artifact", ArtifactFile(ack.sha))
    /\ Uploaded(ack, "receipt", ReceiptFile(ack.sha, t))
    /\ Uploaded(ack, "manifest",
         [kind |-> "manifest", version |-> ack.sha, pending |-> TRUE,
          files |-> [f \in ContentFiles |->
                       CASE f = "events" -> EventsFile
                         [] f = "artifact" -> ArtifactFile(ack.sha)
                         [] f = "receipt" -> ReceiptFile(ack.sha, t)]])

\* Whatever drive_export.json on disk says was uploaded is on Drive under that
\* title with those bytes, however many crashes and re-wraps lie between the
\* upload and the reading (export.py _upload_file, _ack).
AckedFilesAreHeld ==
  disk["ack"].kind = "ack" => \A e \in disk["ack"].files : Held(e)

\* "exported" vouches for one consistent package: never for a mixture of two
\* wraps' files, never for three of the four (export.py _export, wrap.py wrap_run).
ExportedIsWholePackage ==
  disk["ack"].kind = "ack" /\ disk["ack"].status = "exported"
    => WholePackage(disk["ack"])

\* No title is used twice in the run's Drive folder, though a create whose answer
\* was lost may have stored its file and is retried (export.py _allocate_title).
TitlesDistinct == \A r, s \in drive : r.title = s.title => r = s /\ r.copy = 1

\* When wrap_run returns, the directory is closed: MANIFEST.json lists all four
\* other files as they are, and artifact, receipt and ack are of one version,
\* whatever a crashed or earlier wrap had left there.
ReturnedPackageIsClosed ==
  pc = "done" =>
    LET m == disk["manifest"] IN
    /\ m.kind = "manifest" /\ ~m.pending
    /\ \A f \in ContentFiles \cup {"ack"} : m.files[f] = disk[f]
    /\ disk["artifact"] = ArtifactFile(m.version)
    /\ \E t \in Stamps : disk["receipt"] = ReceiptFile(m.version, t)
    /\ disk["ack"].kind = "ack" /\ disk["ack"].sha = m.version

\* The prune in progress takes version v out of scratch.
Deletes(v) ==
  /\ pc = "rmtree" /\ disk["artifact"] = ArtifactFile(v)
  /\ disk'["artifact"] # ArtifactFile(v)

\* A prune that checks the local artifact never deletes a version Drive does not
\* hold, whatever stale ack a crashed re-wrap left beside it (prune.py).
DefaultPruneIsSafe ==
  [][\A v \in Versions : Deletes(v) /\ request = None => Archived(v)]_vars

\* The rule as prune.py's docstring states it, for every prune: scratch is
\* deleted only under an ack that matches the local run-artifact.
EveryPruneIsSafe == [][\A v \in Versions : Deletes(v) => Archived(v)]_vars

\* Every wrap and every prune comes to an end.
OperationsReturn == pc \notin {"idle", "done"} ~> pc \in {"idle", "done"}

\* The wrapper implements the abstract archive: scratch is the version in a
\* readable run-artifact.json, the archive the versions Drive holds, and a wrap is
\* under way until it returns or is killed.
ScratchVersions == {v \in Versions : disk["artifact"] = ArtifactFile(v)}
ArchivedVersions == {v \in Versions : Archived(v)}
Wrapping == pc \notin {"idle", "done", "rmtree"}

Abstract == INSTANCE DurableArchive WITH scratch <- ScratchVersions,
                                         archive <- ArchivedVersions,
                                         wrapping <- Wrapping

ImplementsDurableArchive == Abstract!Spec
-----------------------------------------------------------------------------
(* The inductive invariant behind the safety properties.  Every part speaks *)
(* of what the process knows in memory against what disk and Drive hold.   *)

AfterArtifact == {"receipt", "manifest", "export", "folder", "title", "create",
                  "ack", "final"}
AfterManifest == {"export", "folder", "title", "create", "ack", "final"}
Uploading == {"title", "create", "ack", "final"}

\* The package on disk is the one the wrap holds in memory, as far as written.
PackageWritten ==
  /\ pc \in AfterArtifact \cup {"events", "artifact"} => artifact \in Versions
  /\ pc \in AfterArtifact \cup {"artifact"} => disk["events"] = EventsFile
  /\ pc \in AfterArtifact => disk["artifact"] = ArtifactFile(artifact)
  /\ pc \in AfterManifest \cup {"manifest"} =>
       \E t \in Stamps : disk["receipt"] = ReceiptFile(artifact, t)
  /\ pc \in AfterManifest =>
       disk["manifest"] = ManifestFile(artifact, ContentFiles, TRUE)

\* What the exporter has in hand: a free title for the bytes on disk, and entries
\* that Drive holds.
UploadsHeld ==
  /\ pc = "create" => /\ upload.content = disk[UploadFiles[cursor]]
                      /\ ~TitleExists(upload.title)
  /\ pc \notin Uploading => uploaded = {}
  /\ \A e \in uploaded : Held(e) /\ e.content = disk[e.name]

\* A prune under way has Drive's word for what it was asked about.
PruneCovered ==
  pc = "rmtree" =>
    /\ request \in Versions => Archived(request)
    /\ request = None =>
         \A v \in Versions : disk["artifact"] = ArtifactFile(v) => Archived(v)

IInv ==
  /\ TypeOK /\ PackageWritten /\ UploadsHeld /\ PruneCovered
  /\ pc = "final" => disk["ack"] = AckFile
  /\ AckedFilesAreHeld /\ ExportedIsWholePackage
  /\ TitlesDistinct /\ ReturnedPackageIsClosed
=============================================================================
