-------------------------- MODULE AgentWrap_proofs --------------------------
(***************************************************************************)
(* Proofs about AgentWrap, for every set of versions and clock readings    *)
(* and every bound: IInv is inductive, so the safety properties hold in    *)
(* every reachable state, and the wrapper implements DurableArchive.       *)
(***************************************************************************)
EXTENDS AgentWrap, TLAPS, FiniteSetTheorems

-----------------------------------------------------------------------------
(* The operators.                                                          *)

\* The upload list is the four files, the artifact the second of them.
LEMMA UploadFilesValue ==
  /\ UploadFiles[1] = "events" /\ UploadFiles[2] = "artifact"
  /\ UploadFiles[3] = "receipt" /\ UploadFiles[4] = "manifest"
  /\ \A i \in 1..4 : UploadFiles[i] \in Uploads
  BY DEF UploadFiles, Uploads, ContentFiles

\* A create under a title that is free makes the first copy of it.
LEMMA FirstCopy ==
  ASSUME ~TitleExists(upload.title)
  PROVE  Stored = drive \cup {[title |-> upload.title, content |-> upload.content,
                               copy |-> 1]}
<1>1. {r \in drive : r.title = upload.title} = {}
  BY DEF TitleExists
<1>2. Cardinality({}) = 0
  BY FS_EmptySet
<1>3. 1 + Cardinality({r \in drive : r.title = upload.title}) = 1
  BY <1>1, <1>2
<1>4. QED
  BY <1>3 DEF Stored

\* The exporter's verdict on itself is one of the four the schema knows, and
\* "exported" means that nothing failed and every file has its entry.
LEMMA StatusValue ==
  /\ Status \in {"stubbed", "exported", "partial", "failed"}
  /\ Status = "exported" => Complete
  BY DEF Status

\* A file whose content is of one kind is of no other kind.
LEMMA KindsDiffer ==
  /\ \A v : ArtifactFile(v) # EventsFile /\ ArtifactFile(v) # Absent
            /\ ArtifactFile(v) # Torn
  /\ \A v, w, t : ArtifactFile(v) # ReceiptFile(w, t)
  /\ \A v : \A m \in PendingManifest : ArtifactFile(v) # m
  /\ \A v, w : ArtifactFile(v) = ArtifactFile(w) => v = w
<1>1. \A v : ArtifactFile(v).kind = "artifact" /\ ArtifactFile(v).version = v
  BY DEF ArtifactFile
<1>2. EventsFile.kind = "events" /\ Absent.kind = "absent" /\ Torn.kind = "torn"
  BY DEF EventsFile, Absent, Torn
<1>3. \A w, t : ReceiptFile(w, t).kind = "receipt"
  BY DEF ReceiptFile
<1>4. \A m \in PendingManifest : m.kind = "manifest"
  BY DEF PendingManifest
<1>5. QED
  BY <1>1, <1>2, <1>3, <1>4

-----------------------------------------------------------------------------
(* The three properties that relate drive_export.json to Drive stand as    *)
(* long as the ack is left alone and Drive only gains files.               *)

LEMMA AckStands ==
  ASSUME AckedFilesAreHeld, ExportedIsWholePackage,
         disk'["ack"] = disk["ack"], drive \subseteq drive'
  PROVE  AckedFilesAreHeld' /\ ExportedIsWholePackage'
<1>1. \A e : Held(e) => Held(e)'
  BY DEF Held
<1>2. AckedFilesAreHeld'
  BY <1>1 DEF AckedFilesAreHeld
<1>3. ExportedIsWholePackage'
  BY DEF ExportedIsWholePackage
<1>4. QED
  BY <1>2, <1>3

\* An ack that cannot be read vouches for nothing.
LEMMA NoAckStands ==
  ASSUME disk'["ack"].kind # "ack"
  PROVE  AckedFilesAreHeld' /\ ExportedIsWholePackage'
  BY DEF AckedFilesAreHeld, ExportedIsWholePackage

\* An exported ack on disk means that Drive holds the version it names.
LEMMA ExportedIsArchived ==
  ASSUME AckedFilesAreHeld, ExportedIsWholePackage,
         disk["ack"].kind = "ack", disk["ack"].status = "exported"
  PROVE  Archived(disk["ack"].sha)
<1>1. Uploaded(disk["ack"], "artifact", ArtifactFile(disk["ack"].sha))
  BY DEF ExportedIsWholePackage, WholePackage
<1>2. PICK e \in disk["ack"].files : e.content = ArtifactFile(disk["ack"].sha)
  BY <1>1 DEF Uploaded
<1>3. Held(e)
  BY DEF AckedFilesAreHeld
<1>4. QED
  BY <1>2, <1>3 DEF Held, Archived

\* The empty upload, and one of a file on disk, have the type of an upload.
LEMMA UploadHasType ==
  /\ NoUpload \in [title : Title, content : Uploadable]
  /\ \A f \in Uploads, c \in Uploadable :
       [title |-> FreeTitle(f, c), content |-> c] \in [title : Title, content : Uploadable]
<1>1. \A f \in Uploads : PlainTitle(f) \in Title
  BY DEF PlainTitle, Title
<1>2. \A f \in Uploads, c \in Uploadable : UniqueTitle(f, c) \in Title
  BY DEF UniqueTitle, Title
<1>3. Absent \in Uploadable
  BY DEF Uploadable, LocalFile
<1>4. "events" \in Uploads
  BY DEF Uploads, ContentFiles
<1>5. QED
  BY <1>1, <1>2, <1>3, <1>4 DEF NoUpload, FreeTitle

\* What each file may hold, with the CASE of MayHold resolved.
LEMMA FileTypes ==
  /\ \A f \in ContentFiles : MayHold(f) = LocalFile
  /\ MayHold("manifest") = {Absent, Torn} \cup PendingManifest \cup FinalManifest
  /\ MayHold("ack") = {Absent, Torn} \cup Ack
<1>1. \A f \in ContentFiles : MayHold(f) = LocalFile
  <2>1. MayHold("events") = LocalFile
    BY DEF MayHold, ContentFiles
  <2>2. MayHold("artifact") = LocalFile
    BY DEF MayHold, ContentFiles
  <2>3. MayHold("receipt") = LocalFile
    BY DEF MayHold, ContentFiles
  <2>4. QED
    BY <2>1, <2>2, <2>3 DEF ContentFiles
<1>2. MayHold("manifest") = {Absent, Torn} \cup PendingManifest \cup FinalManifest
  BY DEF MayHold, ContentFiles
<1>3. MayHold("ack") = {Absent, Torn} \cup Ack
  BY DEF MayHold, ContentFiles
<1>4. QED
  BY <1>1, <1>2, <1>3

\* While an export runs, every file it may read has the type of an upload.
LEMMA LocalFilesUploadable ==
  ASSUME TypeOK, PackageWritten, pc \in AfterManifest
  PROVE  \A f \in Uploads : disk[f] \in Uploadable
<1>1. \A f \in ContentFiles : disk[f] \in LocalFile
  BY FileTypes DEF TypeOK, DiskType, Files, Uploads
<1>2. artifact \in Versions
  BY DEF PackageWritten, AfterManifest, AfterArtifact
<1>3. disk["manifest"] = ManifestFile(artifact, ContentFiles, TRUE)
  BY DEF PackageWritten
<1>4. ManifestFile(artifact, ContentFiles, TRUE) \in PendingManifest
  BY <1>1, <1>2 DEF ManifestFile, PendingManifest
<1>5. QED
  BY <1>1, <1>3, <1>4 DEF Uploads, Uploadable

\* A write changes one file and leaves the other four as they were.
LEMMA DiskWrite ==
  ASSUME DiskType, NEW f \in Files, NEW c, disk' = [disk EXCEPT ![f] = c]
  PROVE  /\ disk'[f] = c
         /\ \A g \in Files \ {f} : disk'[g] = disk[g]
         /\ DOMAIN disk' = Files
         /\ c \in MayHold(f) => DiskType'
  BY DEF DiskType, MayHold

\* What each step of wrap_run, of a prune or of a crash writes is a file of the
\* right type.
LEMMA WrittenHasType ==
  ASSUME TypeOK
  PROVE  /\ \A f \in Files : Absent \in MayHold(f) /\ Torn \in MayHold(f)
         /\ EventsFile \in MayHold("events")
         /\ \A v \in Versions : ArtifactFile(v) \in MayHold("artifact")
         /\ \A v \in Versions, t \in Stamps : ReceiptFile(v, t) \in MayHold("receipt")
         /\ artifact \in Versions => AckFile \in Ack
         /\ \A v \in Versions :
              /\ ManifestFile(v, ContentFiles, TRUE) \in PendingManifest
              /\ disk["ack"] \in Ack =>
                   ManifestFile(v, ContentFiles \cup {"ack"}, FALSE) \in FinalManifest
<1>1. \A f \in ContentFiles : disk[f] \in LocalFile
  BY FileTypes DEF TypeOK, DiskType, Files, Uploads
<1>2. \A v \in Versions : ManifestFile(v, ContentFiles, TRUE) \in PendingManifest
  BY <1>1 DEF ManifestFile, PendingManifest
<1>3. ASSUME NEW v \in Versions, disk["ack"] \in Ack
      PROVE  ManifestFile(v, ContentFiles \cup {"ack"}, FALSE) \in FinalManifest
  BY <1>1, <1>3 DEF ManifestFile, FinalManifest
<1>4. artifact \in Versions => AckFile \in Ack
  BY StatusValue DEF TypeOK, UploadType, AckFile, Ack
<1>5. \A f \in Files : Absent \in MayHold(f) /\ Torn \in MayHold(f)
  BY FileTypes DEF LocalFile, Files, Uploads
<1>6. /\ EventsFile \in MayHold("events")
      /\ \A v \in Versions : ArtifactFile(v) \in MayHold("artifact")
      /\ \A v \in Versions, t \in Stamps : ReceiptFile(v, t) \in MayHold("receipt")
  BY FileTypes DEF LocalFile, ContentFiles
<1>7. QED
  BY <1>2, <1>3, <1>4, <1>5, <1>6

-----------------------------------------------------------------------------
(* Every action preserves the invariant.                                   *)

\* A new wrap changes nothing on disk or on Drive yet.
LEMMA StartWrapStep ==
  ASSUME IInv, NEW v \in Versions, NEW x \in {"local", "drive"}, StartWrap(v, x)
  PROVE  IInv'
<1> USE DEF IInv, TypeOK
<1>1. ControlType'
  BY BoundsAssumption DEF ControlType, StartWrap
<1>2. CursorType'
  BY DEF CursorType, StartWrap
<1>3. UploadType'
  BY DEF UploadType, StartWrap
<1>4. DiskType'
  BY DEF DiskType, MayHold, StartWrap
<1>5. DriveType'
  BY DEF DriveType, StartWrap
<1>6. PackageWritten'
  BY DEF PackageWritten, AfterArtifact, AfterManifest, ManifestFile, StartWrap
<1>7. UploadsHeld'
  BY DEF UploadsHeld, Uploading, TitleExists, Held, StartWrap
<1>8. PruneCovered'
  BY DEF PruneCovered, Archived, StartWrap
<1>9. (pc = "final" => disk["ack"] = AckFile)'
  BY DEF StartWrap
<1>10. AckedFilesAreHeld' /\ ExportedIsWholePackage'
  BY AckStands DEF StartWrap
<1>11. TitlesDistinct'
  BY DEF TitlesDistinct, StartWrap
<1>12. ReturnedPackageIsClosed'
  BY DEF ReturnedPackageIsClosed, StartWrap
<1>13. QED
  BY <1>1, <1>2, <1>3, <1>4, <1>5, <1>6, <1>7, <1>8, <1>9, <1>10, <1>11, <1>12

\* The exporter starts from the package as wrap_run wrote it.
LEMMA BeginExportStep ==
  ASSUME IInv, BeginExport
  PROVE  IInv'
<1> USE DEF IInv, TypeOK
<1>1. ControlType'
  BY BoundsAssumption DEF ControlType, BeginExport
<1>2. CursorType'
  BY DEF CursorType, BeginExport
<1>3. UploadType'
  <2>1. errors' \in BOOLEAN
    BY Zenon DEF BeginExport
  <2>2. QED
    BY <2>1 DEF UploadType, BeginExport
<1>4. DiskType'
  BY DEF DiskType, MayHold, BeginExport
<1>5. DriveType'
  BY DEF DriveType, BeginExport
<1>6. PackageWritten'
  BY DEF PackageWritten, AfterArtifact, AfterManifest, ManifestFile, BeginExport
<1>7. UploadsHeld'
  BY DEF UploadsHeld, Uploading, TitleExists, Held, BeginExport
<1>8. PruneCovered'
  BY DEF PruneCovered, Archived, BeginExport
<1>9. (pc = "final" => disk["ack"] = AckFile)'
  BY DEF BeginExport
<1>10. AckedFilesAreHeld' /\ ExportedIsWholePackage'
  BY AckStands DEF BeginExport
<1>11. TitlesDistinct'
  BY DEF TitlesDistinct, BeginExport
<1>12. ReturnedPackageIsClosed'
  BY DEF ReturnedPackageIsClosed, BeginExport
<1>13. QED
  BY <1>1, <1>2, <1>3, <1>4, <1>5, <1>6, <1>7, <1>8, <1>9, <1>10, <1>11, <1>12

\* One folder of the chain is there.
LEMMA EnsureFolderStep ==
  ASSUME IInv, EnsureFolder
  PROVE  IInv'
<1> USE DEF IInv, TypeOK
<1>1. ControlType'
  BY DEF ControlType, CursorType, EnsureFolder
<1>2. CursorType'
  BY DEF CursorType, EnsureFolder
<1>3. UploadType'
  BY DEF UploadType, EnsureFolder
<1>4. DiskType'
  BY DEF DiskType, MayHold, EnsureFolder
<1>5. DriveType'
  BY DEF DriveType, EnsureFolder
<1>6. PackageWritten'
  BY DEF PackageWritten, AfterArtifact, AfterManifest, ManifestFile, EnsureFolder
<1>7. UploadsHeld'
  BY DEF UploadsHeld, Uploading, TitleExists, Held, EnsureFolder
<1>8. PruneCovered'
  BY DEF PruneCovered, Archived, EnsureFolder
<1>9. (pc = "final" => disk["ack"] = AckFile)'
  BY DEF EnsureFolder
<1>10. AckedFilesAreHeld' /\ ExportedIsWholePackage'
  BY AckStands DEF EnsureFolder
<1>11. TitlesDistinct'
  BY DEF TitlesDistinct, EnsureFolder
<1>12. ReturnedPackageIsClosed'
  BY DEF ReturnedPackageIsClosed, EnsureFolder
<1>13. QED
  BY <1>1, <1>2, <1>3, <1>4, <1>5, <1>6, <1>7, <1>8, <1>9, <1>10, <1>11, <1>12

\* The folder chain breaks and the export ends without uploads.
LEMMA EnsureFolderFailsStep ==
  ASSUME IInv, EnsureFolderFails
  PROVE  IInv'
<1> USE DEF IInv, TypeOK
<1>1. ControlType'
  BY BoundsAssumption DEF ControlType, CursorType, EnsureFolderFails, Fault
<1>2. CursorType'
  BY DEF CursorType, EnsureFolderFails, Fault
<1>3. UploadType'
  BY DEF UploadType, EnsureFolderFails, Fault
<1>4. DiskType'
  BY DEF DiskType, MayHold, EnsureFolderFails, Fault
<1>5. DriveType'
  BY DEF DriveType, EnsureFolderFails, Fault
<1>6. PackageWritten'
  BY DEF PackageWritten, AfterArtifact, AfterManifest, ManifestFile,
     EnsureFolderFails, Fault
<1>7. UploadsHeld'
  BY DEF UploadsHeld, Uploading, TitleExists, Held, EnsureFolderFails, Fault
<1>8. PruneCovered'
  BY DEF PruneCovered, Archived, EnsureFolderFails, Fault
<1>9. (pc = "final" => disk["ack"] = AckFile)'
  BY DEF EnsureFolderFails, Fault
<1>10. AckedFilesAreHeld' /\ ExportedIsWholePackage'
  BY AckStands DEF EnsureFolderFails, Fault
<1>11. TitlesDistinct'
  BY DEF TitlesDistinct, EnsureFolderFails, Fault
<1>12. ReturnedPackageIsClosed'
  BY DEF ReturnedPackageIsClosed, EnsureFolderFails, Fault
<1>13. QED
  BY <1>1, <1>2, <1>3, <1>4, <1>5, <1>6, <1>7, <1>8, <1>9, <1>10, <1>11, <1>12

\* The title picked is free and the bytes are those on disk.
LEMMA AllocateTitleStep ==
  ASSUME IInv, AllocateTitle
  PROVE  IInv'
<1> USE DEF IInv, TypeOK
<1>1. ControlType'
  BY BoundsAssumption DEF ControlType, AllocateTitle
<1>2. CursorType'
  BY DEF CursorType, AllocateTitle
<1>3. UploadType'
  <2>1. upload' \in [title : Title, content : Uploadable]
    BY UploadHasType, UploadFilesValue, LocalFilesUploadable DEF CursorType,
       AllocateTitle, AfterManifest
  <2>2. QED
    BY <2>1 DEF UploadType, AllocateTitle
<1>4. DiskType'
  BY DEF DiskType, MayHold, AllocateTitle
<1>5. DriveType'
  BY DEF DriveType, AllocateTitle
<1>6. PackageWritten'
  BY DEF PackageWritten, AfterArtifact, AfterManifest, ManifestFile, AllocateTitle
<1>7. UploadsHeld'
  BY DEF UploadsHeld, Uploading, TitleExists, Held, AllocateTitle
<1>8. PruneCovered'
  BY DEF PruneCovered, Archived, AllocateTitle
<1>9. (pc = "final" => disk["ack"] = AckFile)'
  BY DEF AllocateTitle
<1>10. AckedFilesAreHeld' /\ ExportedIsWholePackage'
  BY AckStands DEF AllocateTitle
<1>11. TitlesDistinct'
  BY DEF TitlesDistinct, AllocateTitle
<1>12. ReturnedPackageIsClosed'
  BY DEF ReturnedPackageIsClosed, AllocateTitle
<1>13. QED
  BY <1>1, <1>2, <1>3, <1>4, <1>5, <1>6, <1>7, <1>8, <1>9, <1>10, <1>11, <1>12

\* A file skipped leaves no entry.
LEMMA TitleCollidesStep ==
  ASSUME IInv, TitleCollides
  PROVE  IInv'
<1> USE DEF IInv, TypeOK
<1>1. ControlType'
  BY BoundsAssumption DEF ControlType, TitleCollides, NextFile
<1>2. CursorType'
  BY DEF CursorType, TitleCollides, NextFile
<1>3. UploadType'
  BY UploadHasType DEF UploadType, TitleCollides, NextFile
<1>4. DiskType'
  BY DEF DiskType, MayHold, TitleCollides, NextFile
<1>5. DriveType'
  BY DEF DriveType, TitleCollides, NextFile
<1>6. PackageWritten'
  BY DEF PackageWritten, AfterArtifact, AfterManifest, ManifestFile, TitleCollides,
     NextFile
<1>7. UploadsHeld'
  BY DEF UploadsHeld, Uploading, TitleExists, Held, TitleCollides, NextFile
<1>8. PruneCovered'
  BY DEF PruneCovered, Archived, TitleCollides, NextFile
<1>9. (pc = "final" => disk["ack"] = AckFile)'
  BY DEF TitleCollides, NextFile
<1>10. AckedFilesAreHeld' /\ ExportedIsWholePackage'
  BY AckStands DEF TitleCollides, NextFile
<1>11. TitlesDistinct'
  BY DEF TitlesDistinct, TitleCollides, NextFile
<1>12. ReturnedPackageIsClosed'
  BY DEF ReturnedPackageIsClosed, TitleCollides, NextFile
<1>13. QED
  BY <1>1, <1>2, <1>3, <1>4, <1>5, <1>6, <1>7, <1>8, <1>9, <1>10, <1>11, <1>12

\* A file skipped leaves no entry.
LEMMA SearchFailsStep ==
  ASSUME IInv, SearchFails
  PROVE  IInv'
<1> USE DEF IInv, TypeOK
<1>1. ControlType'
  BY BoundsAssumption DEF ControlType, SearchFails, NextFile, Fault
<1>2. CursorType'
  BY DEF CursorType, SearchFails, NextFile, Fault
<1>3. UploadType'
  BY UploadHasType DEF UploadType, SearchFails, NextFile, Fault
<1>4. DiskType'
  BY DEF DiskType, MayHold, SearchFails, NextFile, Fault
<1>5. DriveType'
  BY DEF DriveType, SearchFails, NextFile, Fault
<1>6. PackageWritten'
  BY DEF PackageWritten, AfterArtifact, AfterManifest, ManifestFile, SearchFails,
     NextFile, Fault
<1>7. UploadsHeld'
  BY DEF UploadsHeld, Uploading, TitleExists, Held, SearchFails, NextFile, Fault
<1>8. PruneCovered'
  BY DEF PruneCovered, Archived, SearchFails, NextFile, Fault
<1>9. (pc = "final" => disk["ack"] = AckFile)'
  BY DEF SearchFails, NextFile, Fault
<1>10. AckedFilesAreHeld' /\ ExportedIsWholePackage'
  BY AckStands DEF SearchFails, NextFile, Fault
<1>11. TitlesDistinct'
  BY DEF TitlesDistinct, SearchFails, NextFile, Fault
<1>12. ReturnedPackageIsClosed'
  BY DEF ReturnedPackageIsClosed, SearchFails, NextFile, Fault
<1>13. QED
  BY <1>1, <1>2, <1>3, <1>4, <1>5, <1>6, <1>7, <1>8, <1>9, <1>10, <1>11, <1>12

\* A prune starts only with Drive's word for what it was asked about.
LEMMA PruneGoStep ==
  ASSUME IInv, NEW e \in Versions \cup {None}, Prune(e)
  PROVE  IInv'
<1> USE DEF IInv, TypeOK
<1>1. ControlType'
  BY BoundsAssumption DEF ControlType, Prune
<1>2. CursorType'
  BY DEF CursorType, Prune
<1>3. UploadType'
  BY DEF UploadType, Prune
<1>4. DiskType'
  BY DEF DiskType, MayHold, Prune
<1>5. DriveType'
  BY DEF DriveType, Prune
<1>6. PackageWritten'
  BY DEF PackageWritten, AfterArtifact, AfterManifest, ManifestFile, Prune
<1>7. UploadsHeld'
  BY DEF UploadsHeld, Uploading, TitleExists, Held, Prune
<1>8. PruneCovered'
  <2>1. disk["ack"] \in Ack
    BY KindsDiffer DEF DiskType, MayHold, Files, Uploads, ContentFiles, Absent, Torn,
       Prune
  <2>2. Archived(disk["ack"].sha)
    BY ExportedIsArchived DEF Prune
  <2>3. e \in Versions => e # None
    BY NoneAssumption
  <2>4. QED
    BY <2>1, <2>2, <2>3, KindsDiffer DEF PruneCovered, Archived, Prune
<1>9. (pc = "final" => disk["ack"] = AckFile)'
  BY DEF Prune
<1>10. AckedFilesAreHeld' /\ ExportedIsWholePackage'
  BY AckStands DEF Prune
<1>11. TitlesDistinct'
  BY DEF TitlesDistinct, Prune
<1>12. ReturnedPackageIsClosed'
  BY DEF ReturnedPackageIsClosed, Prune
<1>13. QED
  BY <1>1, <1>2, <1>3, <1>4, <1>5, <1>6, <1>7, <1>8, <1>9, <1>10, <1>11, <1>12

\* The trace is on disk.
LEMMA WriteEventsStep ==
  ASSUME IInv, WriteEvents
  PROVE  IInv'
<1> USE DEF IInv, TypeOK
<1>w. /\ disk'["events"] = EventsFile
      /\ \A g \in Files \ {"events"} : disk'[g] = disk[g]
      /\ DiskType'
  BY DiskWrite, WrittenHasType, FileTypes DEF WriteEvents, Write, Files, Uploads,
     ContentFiles
<1>f. /\ UNCHANGED <<artifact, exporter, cursor, upload, uploaded, errors, request,
                      folders, drive, wraps, faults>>
      /\ pc' = "artifact"
  BY DEF WriteEvents, Write, volatile
<1>1. ControlType'
  BY <1>f DEF ControlType
<1>2. CursorType'
  BY <1>f DEF CursorType, WriteEvents
<1>3. UploadType'
  BY <1>f DEF UploadType
<1>4. DiskType'
  BY <1>w
<1>5. DriveType'
  BY <1>f DEF DriveType
<1>6. PackageWritten'
  BY <1>w, <1>f DEF PackageWritten, AfterArtifact, AfterManifest, ManifestFile,
     WriteEvents, Files, Uploads, ContentFiles
<1>7. UploadsHeld'
  BY <1>f DEF UploadsHeld, Uploading, WriteEvents
<1>8. PruneCovered'
  BY <1>f DEF PruneCovered
<1>9. (pc = "final" => disk["ack"] = AckFile)'
  BY <1>f
<1>10. AckedFilesAreHeld' /\ ExportedIsWholePackage'
  BY <1>w, <1>f, AckStands DEF Files, Uploads, ContentFiles
<1>11. TitlesDistinct'
  BY <1>f DEF TitlesDistinct
<1>12. ReturnedPackageIsClosed'
  BY <1>f DEF ReturnedPackageIsClosed
<1>13. QED
  BY <1>1, <1>2, <1>3, <1>4, <1>5, <1>6, <1>7, <1>8, <1>9, <1>10, <1>11, <1>12

\* The artifact in memory is on disk.
LEMMA WriteArtifactStep ==
  ASSUME IInv, WriteArtifact
  PROVE  IInv'
<1> USE DEF IInv, TypeOK
<1>w. /\ disk'["artifact"] = ArtifactFile(artifact)
      /\ \A g \in Files \ {"artifact"} : disk'[g] = disk[g]
      /\ DiskType'
  BY DiskWrite, WrittenHasType, FileTypes DEF WriteArtifact, Write, Files, Uploads,
     ContentFiles, PackageWritten
<1>f. /\ UNCHANGED <<artifact, exporter, cursor, upload, uploaded, errors, request,
                      folders, drive, wraps, faults>>
      /\ pc' = "receipt"
  BY DEF WriteArtifact, Write, volatile
<1>1. ControlType'
  BY <1>f DEF ControlType
<1>2. CursorType'
  BY <1>f DEF CursorType, WriteArtifact
<1>3. UploadType'
  BY <1>f DEF UploadType
<1>4. DiskType'
  BY <1>w
<1>5. DriveType'
  BY <1>f DEF DriveType
<1>6. PackageWritten'
  BY <1>w, <1>f DEF PackageWritten, AfterArtifact, AfterManifest, ManifestFile,
     WriteArtifact, Files, Uploads, ContentFiles
<1>7. UploadsHeld'
  BY <1>f DEF UploadsHeld, Uploading, WriteArtifact
<1>8. PruneCovered'
  BY <1>f DEF PruneCovered
<1>9. (pc = "final" => disk["ack"] = AckFile)'
  BY <1>f
<1>10. AckedFilesAreHeld' /\ ExportedIsWholePackage'
  BY <1>w, <1>f, AckStands DEF Files, Uploads, ContentFiles
<1>11. TitlesDistinct'
  BY <1>f DEF TitlesDistinct
<1>12. ReturnedPackageIsClosed'
  BY <1>f DEF ReturnedPackageIsClosed
<1>13. QED
  BY <1>1, <1>2, <1>3, <1>4, <1>5, <1>6, <1>7, <1>8, <1>9, <1>10, <1>11, <1>12

\* A receipt for the artifact in memory is on disk.
LEMMA WriteReceiptStep ==
  ASSUME IInv, WriteReceipt
  PROVE  IInv'
<1> USE DEF IInv, TypeOK
<1>w. /\ disk'["receipt"] \in {ReceiptFile(artifact, t) : t \in Stamps}
      /\ \A g \in Files \ {"receipt"} : disk'[g] = disk[g]
      /\ DiskType'
  BY DiskWrite, WrittenHasType, FileTypes DEF WriteReceipt, Write, Files, Uploads,
     ContentFiles, PackageWritten, AfterArtifact
<1>f. /\ UNCHANGED <<artifact, exporter, cursor, upload, uploaded, errors, request,
                      folders, drive, wraps, faults>>
      /\ pc' = "manifest"
  BY DEF WriteReceipt, Write, volatile
<1>1. ControlType'
  BY <1>f DEF ControlType
<1>2. CursorType'
  BY <1>f DEF CursorType, WriteReceipt
<1>3. UploadType'
  BY <1>f DEF UploadType
<1>4. DiskType'
  BY <1>w
<1>5. DriveType'
  BY <1>f DEF DriveType
<1>6. PackageWritten'
  BY <1>w, <1>f DEF PackageWritten, AfterArtifact, AfterManifest, ManifestFile,
     WriteReceipt, Files, Uploads, ContentFiles
<1>7. UploadsHeld'
  BY <1>f DEF UploadsHeld, Uploading, WriteReceipt
<1>8. PruneCovered'
  BY <1>f DEF PruneCovered
<1>9. (pc = "final" => disk["ack"] = AckFile)'
  BY <1>f
<1>10. AckedFilesAreHeld' /\ ExportedIsWholePackage'
  BY <1>w, <1>f, AckStands DEF Files, Uploads, ContentFiles
<1>11. TitlesDistinct'
  BY <1>f DEF TitlesDistinct
<1>12. ReturnedPackageIsClosed'
  BY <1>f DEF ReturnedPackageIsClosed
<1>13. QED
  BY <1>1, <1>2, <1>3, <1>4, <1>5, <1>6, <1>7, <1>8, <1>9, <1>10, <1>11, <1>12

\* The pending manifest lists the three files before it.
LEMMA WritePendingManifestStep ==
  ASSUME IInv, WritePendingManifest
  PROVE  IInv'
<1> USE DEF IInv, TypeOK
<1>w. /\ disk'["manifest"] = ManifestFile(artifact, ContentFiles, TRUE)
      /\ \A g \in Files \ {"manifest"} : disk'[g] = disk[g]
      /\ DiskType'
  BY DiskWrite, WrittenHasType, FileTypes DEF WritePendingManifest, Write, Files,
     Uploads, ContentFiles, PackageWritten, AfterManifest, AfterArtifact
<1>f. /\ UNCHANGED <<artifact, exporter, cursor, upload, uploaded, errors, request,
                      folders, drive, wraps, faults>>
      /\ pc' = "export"
  BY DEF WritePendingManifest, Write, volatile
<1>1. ControlType'
  BY <1>f DEF ControlType
<1>2. CursorType'
  BY <1>f DEF CursorType, WritePendingManifest
<1>3. UploadType'
  BY <1>f DEF UploadType
<1>4. DiskType'
  BY <1>w
<1>5. DriveType'
  BY <1>f DEF DriveType
<1>6. PackageWritten'
  BY <1>w, <1>f DEF PackageWritten, AfterArtifact, AfterManifest, ManifestFile,
     WritePendingManifest, Files, Uploads, ContentFiles
<1>7. UploadsHeld'
  BY <1>f DEF UploadsHeld, Uploading, WritePendingManifest
<1>8. PruneCovered'
  BY <1>f DEF PruneCovered
<1>9. (pc = "final" => disk["ack"] = AckFile)'
  BY <1>f
<1>10. AckedFilesAreHeld' /\ ExportedIsWholePackage'
  BY <1>w, <1>f, AckStands DEF Files, Uploads, ContentFiles
<1>11. TitlesDistinct'
  BY <1>f DEF TitlesDistinct
<1>12. ReturnedPackageIsClosed'
  BY <1>f DEF ReturnedPackageIsClosed
<1>13. QED
  BY <1>1, <1>2, <1>3, <1>4, <1>5, <1>6, <1>7, <1>8, <1>9, <1>10, <1>11, <1>12

\* An exported ack vouches for the package that is on disk, file by file.
LEMMA WriteAckStep ==
  ASSUME IInv, WriteAck
  PROVE  IInv'
<1> USE DEF IInv, TypeOK
<1>w. /\ disk'["ack"] = AckFile
      /\ \A g \in Files \ {"ack"} : disk'[g] = disk[g]
      /\ DiskType'
  BY DiskWrite, WrittenHasType, FileTypes DEF WriteAck, Write, Files, Uploads,
     ContentFiles, PackageWritten, AfterArtifact
<1>f. /\ UNCHANGED <<artifact, exporter, cursor, upload, uploaded, errors, request,
                      folders, drive, wraps, faults>>
      /\ pc' = "final"
  BY DEF WriteAck, Write, volatile
<1>1. ControlType'
  BY <1>f DEF ControlType
<1>2. CursorType'
  BY <1>f DEF CursorType, WriteAck
<1>3. UploadType'
  BY <1>f DEF UploadType
<1>4. DiskType'
  BY <1>w
<1>5. DriveType'
  BY <1>f DEF DriveType
<1>6. PackageWritten'
  BY <1>w, <1>f DEF PackageWritten, AfterArtifact, AfterManifest, ManifestFile,
     WriteAck, Files, Uploads, ContentFiles
<1>7. UploadsHeld'
  <2>1. \A e \in uploaded : e.name \in Files \ {"ack"}
    BY DEF UploadType, Entry, Files, Uploads, ContentFiles
  <2>2. \A e \in uploaded : Held(e)' /\ e.content = disk'[e.name]
    BY <1>w, <1>f, <2>1 DEF UploadsHeld, Held
  <2>3. QED
    BY <1>f, <2>2 DEF UploadsHeld, Uploading
<1>8. PruneCovered'
  BY <1>f DEF PruneCovered
<1>9. (pc = "final" => disk["ack"] = AckFile)'
  BY <1>w, <1>f DEF AckFile, Status, Complete
<1>10. AckedFilesAreHeld' /\ ExportedIsWholePackage'
  <2>1. AckFile.kind = "ack" /\ AckFile.status = Status /\ AckFile.sha = artifact
        /\ AckFile.files = uploaded
    BY DEF AckFile
  <2>2. AckedFilesAreHeld'
    BY <1>w, <1>f, <2>1 DEF AckedFilesAreHeld, UploadsHeld, Held
  <2>3. CASE Status = "exported"
    <3>1. \A f \in Uploads : \E e \in uploaded : e.name = f /\ e.content = disk[f]
      BY <2>3, StatusValue DEF Complete, UploadsHeld
    <3>2. \A f \in Uploads : Uploaded(AckFile, f, disk[f])
      BY <2>1, <3>1 DEF Uploaded
    <3>3. PICK t \in Stamps : disk["receipt"] = ReceiptFile(artifact, t)
      BY DEF PackageWritten, AfterManifest, WriteAck
    <3>4. disk["events"] = EventsFile /\ disk["artifact"] = ArtifactFile(artifact)
          /\ disk["manifest"] = ManifestFile(artifact, ContentFiles, TRUE)
      BY DEF PackageWritten, AfterManifest, AfterArtifact, WriteAck
    <3>5. ManifestFile(artifact, ContentFiles, TRUE) =
            [kind |-> "manifest", version |-> artifact, pending |-> TRUE,
             files |-> [f \in ContentFiles |->
                          CASE f = "events" -> EventsFile
                            [] f = "artifact" -> ArtifactFile(artifact)
                            [] f = "receipt" -> ReceiptFile(artifact, t)]]
      <4>1. \A f \in ContentFiles : disk[f] = CASE f = "events" -> EventsFile
                            [] f = "artifact" -> ArtifactFile(artifact)
                            [] f = "receipt" -> ReceiptFile(artifact, t)
        BY <3>3, <3>4 DEF ContentFiles
      <4>2. QED
        BY <4>1 DEF ManifestFile
    <3>6. WholePackage(AckFile)
      BY <2>1, <3>2, <3>3, <3>4, <3>5 DEF WholePackage, Uploads, ContentFiles
    <3>7. QED
      BY <1>w, <2>2, <3>6 DEF ExportedIsWholePackage
  <2>4. CASE Status # "exported"
    <3>1. disk'["ack"].status # "exported"
      BY <1>w, <2>1, <2>4
    <3>2. QED
      BY <2>2, <3>1 DEF ExportedIsWholePackage
  <2>5. QED
    BY <2>2, <2>3, <2>4
<1>11. TitlesDistinct'
  BY <1>f DEF TitlesDistinct
<1>12. ReturnedPackageIsClosed'
  BY <1>f DEF ReturnedPackageIsClosed
<1>13. QED
  BY <1>1, <1>2, <1>3, <1>4, <1>5, <1>6, <1>7, <1>8, <1>9, <1>10, <1>11, <1>12

\* The refreshed manifest closes the directory.
LEMMA WriteFinalManifestStep ==
  ASSUME IInv, WriteFinalManifest
  PROVE  IInv'
<1> USE DEF IInv, TypeOK
<1>a. artifact \in Versions /\ disk["ack"] \in Ack
  BY WrittenHasType DEF PackageWritten, AfterArtifact, WriteFinalManifest
<1>w. /\ disk'["manifest"] = ManifestFile(artifact, ContentFiles \cup {"ack"}, FALSE)
      /\ \A g \in Files \ {"manifest"} : disk'[g] = disk[g]
      /\ DiskType'
  BY <1>a, DiskWrite, WrittenHasType, FileTypes DEF WriteFinalManifest, Files,
     Uploads, ContentFiles
<1>f. /\ artifact' = None /\ exporter' = "local" /\ cursor' = 0 /\ upload' = NoUpload
      /\ uploaded' = {} /\ errors' = FALSE /\ request' = None
      /\ UNCHANGED <<folders, drive, wraps, faults>> /\ pc' = "done"
  BY DEF WriteFinalManifest, Forget
<1>1. ControlType'
  BY <1>f DEF ControlType
<1>2. CursorType'
  BY <1>f DEF CursorType
<1>3. UploadType'
  BY <1>f, UploadHasType DEF UploadType
<1>4. DiskType'
  BY <1>w
<1>5. DriveType'
  BY <1>f DEF DriveType
<1>6. PackageWritten'
  BY <1>f DEF PackageWritten, AfterArtifact, AfterManifest
<1>7. UploadsHeld'
  BY <1>f DEF UploadsHeld, Uploading
<1>8. PruneCovered'
  BY <1>f DEF PruneCovered
<1>9. (pc = "final" => disk["ack"] = AckFile)'
  BY <1>f
<1>10. AckedFilesAreHeld' /\ ExportedIsWholePackage'
  BY <1>w, <1>f, AckStands DEF Files, Uploads, ContentFiles
<1>11. TitlesDistinct'
  BY <1>f DEF TitlesDistinct
<1>12. ReturnedPackageIsClosed'
  <2>1. artifact \in Versions /\ disk["ack"] = AckFile
    BY DEF PackageWritten, AfterArtifact, WriteFinalManifest
  <2>2. disk["artifact"] = ArtifactFile(artifact)
        /\ \E t \in Stamps : disk["receipt"] = ReceiptFile(artifact, t)
    BY DEF PackageWritten, AfterArtifact, AfterManifest, WriteFinalManifest
  <2>3. \A f \in ContentFiles \cup {"ack"} : disk'[f] = disk[f]
    BY <1>w DEF Files, Uploads, ContentFiles
  <2>4. /\ disk'["manifest"].kind = "manifest" /\ ~disk'["manifest"].pending
        /\ disk'["manifest"].version = artifact
        /\ \A f \in ContentFiles \cup {"ack"} : disk'["manifest"].files[f] = disk[f]
    BY <1>w DEF ManifestFile
  <2>5. AckFile.kind = "ack" /\ AckFile.sha = artifact
    BY DEF AckFile
  <2>6. QED
    BY <2>1, <2>2, <2>3, <2>4, <2>5 DEF ReturnedPackageIsClosed, ContentFiles
<1>13. QED
  BY <1>1, <1>2, <1>3, <1>4, <1>5, <1>6, <1>7, <1>8, <1>9, <1>10, <1>11, <1>12

\* A file the prune removes is missed by no promise.
LEMMA RemoveFileStep ==
  ASSUME IInv, NEW f \in Files, RemoveFile(f)
  PROVE  IInv'
<1> USE DEF IInv, TypeOK
<1>w. /\ disk'[f] = Absent /\ \A g \in Files \ {f} : disk'[g] = disk[g]
      /\ DiskType'
  BY DiskWrite, WrittenHasType DEF RemoveFile
<1>f. UNCHANGED <<pc, artifact, exporter, cursor, upload, uploaded, errors, request,
                  folders,
                  drive, wraps, faults>> /\ pc = "rmtree"
  BY DEF RemoveFile, volatile
<1>1. ControlType'
  BY <1>f DEF ControlType
<1>2. CursorType'
  BY <1>f DEF CursorType
<1>3. UploadType'
  BY <1>f DEF UploadType
<1>4. DiskType'
  BY <1>w
<1>5. DriveType'
  BY <1>f DEF DriveType
<1>6. PackageWritten'
  BY <1>f DEF PackageWritten, AfterArtifact, AfterManifest
<1>7. UploadsHeld'
  BY <1>f DEF UploadsHeld, Uploading
<1>8. PruneCovered'
  BY <1>w, <1>f, KindsDiffer DEF PruneCovered, Archived, Files, Uploads, ContentFiles
<1>9. (pc = "final" => disk["ack"] = AckFile)'
  BY <1>f
<1>10. AckedFilesAreHeld' /\ ExportedIsWholePackage'
  <2>1. CASE f = "ack"
    BY <1>w, <2>1, NoAckStands DEF Absent
  <2>2. CASE f # "ack"
    BY <1>w, <1>f, <2>2, AckStands DEF Files
  <2>3. QED
    BY <2>1, <2>2
<1>11. TitlesDistinct'
  BY <1>f DEF TitlesDistinct
<1>12. ReturnedPackageIsClosed'
  BY <1>f DEF ReturnedPackageIsClosed
<1>13. QED
  BY <1>1, <1>2, <1>3, <1>4, <1>5, <1>6, <1>7, <1>8, <1>9, <1>10, <1>11, <1>12

\* The directory is gone, and with it the prune.
LEMMA RemoveDirStep ==
  ASSUME IInv, RemoveDir
  PROVE  IInv'
<1> USE DEF IInv, TypeOK
<1>w. disk' = disk /\ DiskType'
  BY DEF RemoveDir, DiskType
<1>f. /\ artifact' = None /\ exporter' = "local" /\ cursor' = 0 /\ upload' = NoUpload
      /\ uploaded' = {} /\ errors' = FALSE /\ request' = None
      /\ UNCHANGED <<folders, drive, wraps, faults>> /\ pc' = "idle"
  BY DEF RemoveDir, Forget
<1>1. ControlType'
  BY <1>f DEF ControlType
<1>2. CursorType'
  BY <1>f DEF CursorType
<1>3. UploadType'
  BY <1>f, UploadHasType DEF UploadType
<1>4. DiskType'
  BY <1>w
<1>5. DriveType'
  BY <1>f DEF DriveType
<1>6. PackageWritten'
  BY <1>f DEF PackageWritten, AfterArtifact, AfterManifest
<1>7. UploadsHeld'
  BY <1>f DEF UploadsHeld, Uploading
<1>8. PruneCovered'
  BY <1>f DEF PruneCovered
<1>9. (pc = "final" => disk["ack"] = AckFile)'
  BY <1>f
<1>10. AckedFilesAreHeld' /\ ExportedIsWholePackage'
  BY <1>w, <1>f, AckStands
<1>11. TitlesDistinct'
  BY <1>f DEF TitlesDistinct
<1>12. ReturnedPackageIsClosed'
  BY <1>f DEF ReturnedPackageIsClosed
<1>13. QED
  BY <1>1, <1>2, <1>3, <1>4, <1>5, <1>6, <1>7, <1>8, <1>9, <1>10, <1>11, <1>12

\* A crash leaves a prefix of the package, and perhaps one torn file.
LEMMA CrashStep ==
  ASSUME IInv, Crash
  PROVE  IInv'
<1> USE DEF IInv, TypeOK
<1>w. disk' = disk \/ \E f \in Files : disk' = [disk EXCEPT ![f] = Torn]
  BY DEF Crash, BeingWritten, Files, Uploads, ContentFiles
<1>f. /\ artifact' = None /\ exporter' = "local" /\ cursor' = 0 /\ upload' = NoUpload
      /\ uploaded' = {} /\ errors' = FALSE /\ request' = None
      /\ UNCHANGED <<folders, drive, wraps, faults>> /\ pc' = "idle"
  BY DEF Crash, Forget
<1>1. ControlType'
  BY <1>f DEF ControlType
<1>2. CursorType'
  BY <1>f DEF CursorType
<1>3. UploadType'
  BY <1>f, UploadHasType DEF UploadType
<1>4. DiskType'
  <2>1. CASE disk' = disk
    BY <2>1 DEF DiskType
  <2>2. CASE \E f \in Files : disk' = [disk EXCEPT ![f] = Torn]
    BY <2>2, DiskWrite, WrittenHasType
  <2>3. QED
    BY <1>w, <2>1, <2>2
<1>5. DriveType'
  BY <1>f DEF DriveType
<1>6. PackageWritten'
  BY <1>f DEF PackageWritten, AfterArtifact, AfterManifest
<1>7. UploadsHeld'
  BY <1>f DEF UploadsHeld, Uploading
<1>8. PruneCovered'
  BY <1>f DEF PruneCovered
<1>9. (pc = "final" => disk["ack"] = AckFile)'
  BY <1>f
<1>10. AckedFilesAreHeld' /\ ExportedIsWholePackage'
  <2>1. CASE disk' = disk
    BY <1>f, <2>1, AckStands
  <2>2. ASSUME NEW f \in Files, disk' = [disk EXCEPT ![f] = Torn]
        PROVE  AckedFilesAreHeld' /\ ExportedIsWholePackage'
    <3>1. disk'[f] = Torn /\ \A g \in Files \ {f} : disk'[g] = disk[g]
      BY <2>2, DiskWrite
    <3>2. CASE f = "ack"
      BY <3>1, <3>2, NoAckStands DEF Torn
    <3>3. CASE f # "ack"
      BY <1>f, <3>1, <3>3, AckStands DEF Files
    <3>4. QED
      BY <3>2, <3>3
  <2>3. QED
    BY <1>w, <2>1, <2>2
<1>11. TitlesDistinct'
  BY <1>f DEF TitlesDistinct
<1>12. ReturnedPackageIsClosed'
  BY <1>f DEF ReturnedPackageIsClosed
<1>13. QED
  BY <1>1, <1>2, <1>3, <1>4, <1>5, <1>6, <1>7, <1>8, <1>9, <1>10, <1>11, <1>12

\* The file is on Drive under a title that was free, and its entry says so.
LEMMA CreateFileStep ==
  ASSUME IInv, CreateFile
  PROVE  IInv'
<1> USE DEF IInv, TypeOK
<1>a. pc = "create" /\ cursor \in 1..4 /\ UploadFiles[cursor] \in Uploads
      /\ upload.content = disk[UploadFiles[cursor]] /\ ~TitleExists(upload.title)
  BY UploadFilesValue DEF CursorType, UploadsHeld, CreateFile
<1>d. Stored = drive \cup {[title |-> upload.title, content |-> upload.content, copy |-> 1]}
  BY <1>a, FirstCopy
<1>1. ControlType'
  BY BoundsAssumption DEF ControlType, CreateFile, NextFile
<1>2. CursorType'
  BY DEF CursorType, CreateFile, NextFile
<1>3. UploadType'
  <2>1. [name |-> UploadFiles[cursor], title |-> upload.title,
         content |-> upload.content] \in Entry
    BY <1>a DEF UploadType, Entry
  <2>2. uploaded' \in SUBSET Entry
    BY <2>1 DEF UploadType, CreateFile
  <2>3. QED
    BY <2>2, UploadHasType DEF UploadType, CreateFile, NextFile
<1>4. DiskType'
  BY DEF DiskType, MayHold, CreateFile, NextFile
<1>5. DriveType'
  <2>1. Stored \in SUBSET [title : Title, content : Uploadable, copy : Nat]
    BY <1>d DEF UploadType, DriveType
  <2>2. QED
    BY <2>1 DEF DriveType, CreateFile
<1>6. PackageWritten'
  BY DEF PackageWritten, AfterArtifact, AfterManifest, ManifestFile, CreateFile,
     NextFile
<1>7. UploadsHeld'
  <2>1. \A e : Held(e) => Held(e)'
    BY <1>d DEF Held, CreateFile
  <2>2. PICK new : new = [name |-> UploadFiles[cursor], title |-> upload.title,
                        content |-> upload.content]
    OBVIOUS
  <2>3. Held(new)' /\ new.content = disk'[new.name]
    <3>1. [title |-> upload.title, content |-> upload.content, copy |-> 1] \in drive'
      BY <1>d DEF CreateFile
    <3>2. Held(new)'
      BY <2>2, <3>1 DEF Held
    <3>3. disk' = disk
      BY DEF CreateFile
    <3>4. QED
      BY <1>a, <2>2, <3>2, <3>3
  <2>4. \A e \in uploaded' : e \in uploaded \/ e = new
    BY <2>2 DEF CreateFile
  <2>5. \A e \in uploaded' : Held(e)' /\ e.content = disk'[e.name]
    <3>1. disk' = disk
      BY DEF CreateFile
    <3>2. QED
      BY <2>1, <2>3, <2>4, <3>1 DEF UploadsHeld
  <2>6. pc' \in {"ack", "title"}
    BY DEF CreateFile, NextFile
  <2>7. QED
    BY <2>5, <2>6 DEF UploadsHeld, Uploading
<1>8. PruneCovered'
  BY <1>a DEF PruneCovered, CreateFile, NextFile
<1>9. (pc = "final" => disk["ack"] = AckFile)'
  BY DEF CreateFile, NextFile
<1>10. AckedFilesAreHeld' /\ ExportedIsWholePackage'
  BY <1>d, AckStands DEF CreateFile
<1>11. TitlesDistinct'
  <2>1. \A r, s \in Stored : r.title = s.title => r = s /\ r.copy = 1
    BY <1>a, <1>d DEF TitlesDistinct, TitleExists
  <2>2. QED
    BY <2>1 DEF TitlesDistinct, CreateFile
<1>12. ReturnedPackageIsClosed'
  BY DEF ReturnedPackageIsClosed, CreateFile, NextFile
<1>13. QED
  BY <1>1, <1>2, <1>3, <1>4, <1>5, <1>6, <1>7, <1>8, <1>9, <1>10, <1>11, <1>12

\* A create that failed may have stored its file all the same.
LEMMA CreateFileFailsStep ==
  ASSUME IInv, CreateFileFails
  PROVE  IInv'
<1> USE DEF IInv, TypeOK
<1>a. pc = "create" /\ cursor \in 1..4 /\ UploadFiles[cursor] \in Uploads
      /\ upload.content = disk[UploadFiles[cursor]] /\ ~TitleExists(upload.title)
  BY UploadFilesValue DEF CursorType, UploadsHeld, CreateFileFails
<1>d. Stored = drive \cup {[title |-> upload.title, content |-> upload.content, copy |-> 1]}
  BY <1>a, FirstCopy
<1>1. ControlType'
  BY BoundsAssumption DEF ControlType, CreateFileFails, NextFile, Fault
<1>2. CursorType'
  BY DEF CursorType, CreateFileFails, NextFile, Fault
<1>3. UploadType'
  BY UploadHasType DEF UploadType, CreateFileFails, NextFile
<1>4. DiskType'
  BY DEF DiskType, MayHold, CreateFileFails, NextFile, Fault
<1>5. DriveType'
  <2>1. Stored \in SUBSET [title : Title, content : Uploadable, copy : Nat]
    BY <1>d DEF UploadType, DriveType
  <2>2. QED
    BY <2>1 DEF DriveType, CreateFileFails
<1>6. PackageWritten'
  BY DEF PackageWritten, AfterArtifact, AfterManifest, ManifestFile, CreateFileFails,
     NextFile, Fault
<1>7. UploadsHeld'
  <2>1. \A e : Held(e) => Held(e)'
    BY <1>d DEF Held, CreateFileFails
  <2>2. pc' \in {"ack", "title"}
    BY DEF CreateFileFails, NextFile
  <2>3. QED
    BY <2>1, <2>2 DEF UploadsHeld, Uploading, CreateFileFails
<1>8. PruneCovered'
  BY <1>a DEF PruneCovered, CreateFileFails, NextFile
<1>9. (pc = "final" => disk["ack"] = AckFile)'
  BY DEF CreateFileFails, NextFile, Fault
<1>10. AckedFilesAreHeld' /\ ExportedIsWholePackage'
  BY <1>d, AckStands DEF CreateFileFails
<1>11. TitlesDistinct'
  <2>1. \A r, s \in Stored : r.title = s.title => r = s /\ r.copy = 1
    BY <1>a, <1>d DEF TitlesDistinct, TitleExists
  <2>2. QED
    BY <2>1 DEF TitlesDistinct, CreateFileFails
<1>12. ReturnedPackageIsClosed'
  BY DEF ReturnedPackageIsClosed, CreateFileFails, NextFile, Fault
<1>13. QED
  BY <1>1, <1>2, <1>3, <1>4, <1>5, <1>6, <1>7, <1>8, <1>9, <1>10, <1>11, <1>12

\* Nothing changes when nothing happens.
LEMMA StutterStep ==
  ASSUME IInv, UNCHANGED vars
  PROVE  IInv'
<1> USE DEF IInv, TypeOK
<1>1. ControlType'
  BY BoundsAssumption DEF ControlType, vars, volatile
<1>2. CursorType'
  BY DEF CursorType, vars, volatile
<1>3. UploadType'
  BY DEF UploadType, vars, volatile
<1>4. DiskType'
  BY DEF DiskType, MayHold, vars, volatile
<1>5. DriveType'
  BY DEF DriveType, vars, volatile
<1>6. PackageWritten'
  BY DEF PackageWritten, AfterArtifact, AfterManifest, ManifestFile, vars, volatile
<1>7. UploadsHeld'
  BY DEF UploadsHeld, Uploading, TitleExists, Held, vars, volatile
<1>8. PruneCovered'
  BY DEF PruneCovered, Archived, vars, volatile
<1>9. (pc = "final" => disk["ack"] = AckFile)'
  BY DEF AckFile, Status, Complete, vars, volatile
<1>10. AckedFilesAreHeld' /\ ExportedIsWholePackage'
  BY AckStands DEF vars, volatile
<1>11. TitlesDistinct'
  BY DEF TitlesDistinct, vars, volatile
<1>12. ReturnedPackageIsClosed'
  BY DEF ReturnedPackageIsClosed, vars, volatile
<1>13. QED
  BY <1>1, <1>2, <1>3, <1>4, <1>5, <1>6, <1>7, <1>8, <1>9, <1>10, <1>11, <1>12

-----------------------------------------------------------------------------
(* The invariant holds from the start and is kept by every step.           *)

LEMMA InitIInv == Init => IInv
<1> SUFFICES ASSUME Init PROVE IInv
  OBVIOUS
<1>1. ControlType /\ CursorType
  BY BoundsAssumption DEF Init, ControlType, CursorType
<1>2. UploadType
  BY UploadHasType DEF Init, UploadType
<1>3. \A f \in Files : disk[f] = Absent
  BY DEF Init
<1>4. DiskType
  <2>1. \A f \in Files : Absent \in MayHold(f)
    BY FileTypes DEF LocalFile, Files, Uploads
  <2>2. QED
    BY <1>3, <2>1 DEF Init, DiskType
<1>5. DriveType
  BY DEF Init, DriveType
<1>6. PackageWritten /\ UploadsHeld /\ PruneCovered
  BY DEF Init, PackageWritten, AfterArtifact, AfterManifest, UploadsHeld, Uploading,
         PruneCovered
<1>7. disk["ack"].kind # "ack"
  BY <1>3 DEF Files, Absent
<1>8. AckedFilesAreHeld /\ ExportedIsWholePackage
  BY <1>7 DEF AckedFilesAreHeld, ExportedIsWholePackage
<1>9. TitlesDistinct /\ ReturnedPackageIsClosed /\ (pc = "final" => disk["ack"] = AckFile)
  BY DEF Init, TitlesDistinct, ReturnedPackageIsClosed
<1>10. QED
  BY <1>1, <1>2, <1>4, <1>5, <1>6, <1>8, <1>9 DEF IInv, TypeOK

LEMMA NextIInv == IInv /\ [Next]_vars => IInv'
<1> SUFFICES ASSUME IInv, [Next]_vars PROVE IInv'
  OBVIOUS
<1>1. ASSUME NEW v \in Versions, NEW x \in {"local", "drive"}, StartWrap(v, x) PROVE IInv'
  BY <1>1, StartWrapStep
<1>2. CASE WrapStep
  BY <1>2, WriteEventsStep, WriteArtifactStep, WriteReceiptStep,
     WritePendingManifestStep,
     BeginExportStep, EnsureFolderStep, EnsureFolderFailsStep, AllocateTitleStep,
     TitleCollidesStep, SearchFailsStep, CreateFileStep, CreateFileFailsStep,
     WriteAckStep, WriteFinalManifestStep DEF WrapStep
<1>3. ASSUME NEW e \in Versions \cup {None}, Prune(e) PROVE IInv'
  BY <1>3, PruneGoStep
<1>4. CASE PruneStep
  BY <1>4, RemoveFileStep, RemoveDirStep DEF PruneStep
<1>5. CASE Crash
  BY <1>5, CrashStep
<1>6. CASE UNCHANGED vars
  BY <1>6, StutterStep
<1>7. QED
  BY <1>1, <1>2, <1>3, <1>4, <1>5, <1>6 DEF Next

\* The inductive invariant of AgentWrap holds in every reachable state.
THEOREM InductiveInvariant == Spec => []IInv
  BY InitIInv, NextIInv, PTL DEF Spec

\* Every variable keeps its type.
THEOREM TypeCorrect == Spec => []TypeOK
<1>1. IInv => TypeOK
  BY DEF IInv
<1>2. QED
  BY <1>1, InductiveInvariant, PTL

\* An ack on disk never claims an upload Drive does not hold.
THEOREM AckIsTruthful == Spec => []AckedFilesAreHeld
<1>1. IInv => AckedFilesAreHeld
  BY DEF IInv
<1>2. QED
  BY <1>1, InductiveInvariant, PTL

\* An ack that says "exported" vouches for one whole package of one wrap.
THEOREM ExportedIsWhole == Spec => []ExportedIsWholePackage
<1>1. IInv => ExportedIsWholePackage
  BY DEF IInv
<1>2. QED
  BY <1>1, InductiveInvariant, PTL

\* The exporter never gives two files one title.
THEOREM NoTitleTwice == Spec => []TitlesDistinct
<1>1. IInv => TitlesDistinct
  BY DEF IInv
<1>2. QED
  BY <1>1, InductiveInvariant, PTL

\* A wrap that returns leaves a directory its manifest closes.
THEOREM ReturnedIsClosed == Spec => []ReturnedPackageIsClosed
<1>1. IInv => ReturnedPackageIsClosed
  BY DEF IInv
<1>2. QED
  BY <1>1, InductiveInvariant, PTL

-----------------------------------------------------------------------------
(* What a prune deletes, and the refinement.                               *)

\* The artifact on disk changes only where the code writes or deletes it.
LEMMA ArtifactChanges ==
  ASSUME IInv, [Next]_vars
  PROVE  \/ disk'["artifact"] = disk["artifact"]
         \/ /\ pc = "artifact" /\ disk'["artifact"] = ArtifactFile(artifact)
            /\ drive' = drive /\ pc' = "receipt"
         \/ /\ pc = "artifact" /\ disk'["artifact"] = Torn
            /\ drive' = drive /\ pc' = "idle"
         \/ /\ pc = "rmtree" /\ disk'["artifact"] = Absent
            /\ drive' = drive /\ pc' = "rmtree"
<1> USE DEF IInv, TypeOK, DiskType
<1>1. \A v \in Versions, x \in {"local", "drive"} : StartWrap(v, x) => disk' = disk
  BY DEF StartWrap
<1>2. CASE WriteArtifact
  BY <1>2, DiskWrite DEF WriteArtifact, Write, Files, Uploads, ContentFiles
<1>3. CASE WriteEvents \/ WriteReceipt \/ WritePendingManifest \/ WriteAck
           \/ WriteFinalManifest
  BY <1>3, DiskWrite DEF WriteEvents, WriteReceipt, WritePendingManifest, WriteAck,
     WriteFinalManifest, Write, Files, Uploads, ContentFiles
<1>4. CASE BeginExport \/ EnsureFolder \/ EnsureFolderFails \/ AllocateTitle
           \/ TitleCollides \/ SearchFails \/ CreateFile \/ CreateFileFails
  BY <1>4 DEF BeginExport, EnsureFolder, EnsureFolderFails, AllocateTitle,
     TitleCollides, SearchFails, CreateFile, CreateFileFails
<1>5. \A e \in Versions \cup {None} : Prune(e) => disk' = disk
  BY DEF Prune
<1>6. ASSUME NEW f \in Files, RemoveFile(f)
      PROVE  \/ disk'["artifact"] = disk["artifact"]
             \/ /\ pc = "rmtree" /\ disk'["artifact"] = Absent
                /\ drive' = drive /\ pc' = "rmtree"
  <2>1. disk'[f] = Absent /\ \A g \in Files \ {f} : disk'[g] = disk[g]
    BY <1>6, DiskWrite DEF RemoveFile
  <2>2. "artifact" \in Files
    BY DEF Files, Uploads, ContentFiles
  <2>3. QED
    BY <1>6, <2>1, <2>2 DEF RemoveFile
<1>7. CASE RemoveDir \/ UNCHANGED vars
  BY <1>7 DEF RemoveDir, vars
<1>8. CASE Crash
  <2>1. CASE disk' = disk
    BY <2>1
  <2>2. ASSUME NEW f \in BeingWritten, disk' = [disk EXCEPT ![f] = Torn]
        PROVE  \/ disk'["artifact"] = disk["artifact"]
               \/ /\ pc = "artifact" /\ disk'["artifact"] = Torn
                  /\ drive' = drive /\ pc' = "idle"
    <3>1. f \in Files /\ (f = "artifact" => pc = "artifact")
      BY <2>2 DEF BeingWritten, Files, Uploads, ContentFiles
    <3>2. disk'[f] = Torn /\ \A g \in Files \ {f} : disk'[g] = disk[g]
      BY <2>2, <3>1, DiskWrite
    <3>3. "artifact" \in Files
      BY DEF Files, Uploads, ContentFiles
    <3>4. QED
      BY <1>8, <3>1, <3>2, <3>3 DEF Crash
  <2>3. QED
    BY <1>8, <2>1, <2>2 DEF Crash
<1>9. QED
  BY <1>1, <1>2, <1>3, <1>4, <1>5, <1>6, <1>7, <1>8 DEF Next, WrapStep, PruneStep

\* A prune that was told no digest deletes only what Drive holds.
THEOREM DefaultPruneOnlyArchived == Spec => DefaultPruneIsSafe
<1>1. ASSUME IInv, [Next]_vars, NEW v \in Versions, Deletes(v), request = None
      PROVE  Archived(v)
  BY <1>1 DEF IInv, PruneCovered, Deletes
<1>2. IInv /\ [Next]_vars =>
        [\A v \in Versions : Deletes(v) /\ request = None => Archived(v)]_vars
  BY <1>1
<1>3. QED
  BY <1>2, InductiveInvariant, PTL DEF Spec, DefaultPruneIsSafe

\* Drive changes only by a create, and then gains the bytes of a local file.
LEMMA DriveChanges ==
  ASSUME IInv, [Next]_vars
  PROVE  \/ drive' = drive
         \/ /\ pc = "create" /\ disk' = disk /\ pc' \in {"title", "ack"}
            /\ \E r : /\ drive' = drive \cup {r}
                      /\ r.content = disk[UploadFiles[cursor]]
<1> USE DEF IInv, TypeOK
<1>1. CASE CreateFile \/ CreateFileFails
  <2>1. /\ pc = "create" /\ disk' = disk /\ drive' \in {drive, Stored}
        /\ pc' \in {"title", "ack"}
    BY <1>1 DEF CreateFile, CreateFileFails, NextFile
  <2>2. Stored = drive \cup {[title |-> upload.title, content |-> upload.content,
                              copy |-> 1]}
    BY <2>1, FirstCopy DEF UploadsHeld
  <2>3. [title |-> upload.title, content |-> upload.content, copy |-> 1].content
          = disk[UploadFiles[cursor]]
    BY <2>1 DEF UploadsHeld
  <2>4. QED
    BY <2>1, <2>2, <2>3
<1>2. CASE ~(CreateFile \/ CreateFileFails)
  BY <1>2 DEF Next, WrapStep, PruneStep, StartWrap, WriteEvents, WriteArtifact,
     WriteReceipt, WritePendingManifest, BeginExport, EnsureFolder, EnsureFolderFails,
     AllocateTitle, TitleCollides, SearchFails, WriteAck, WriteFinalManifest, Write,
     Prune, RemoveFile, RemoveDir, Crash, vars
<1>3. QED
  BY <1>1, <1>2

\* A create of the artifact saves the version in scratch; any other saves none.
LEMMA ArchiveStep ==
  ASSUME IInv, [Next]_vars, drive' # drive
  PROVE  /\ ScratchVersions' = ScratchVersions
         /\ ArchivedVersions' \in {ArchivedVersions, ArchivedVersions \cup ScratchVersions}
<1> USE DEF IInv, TypeOK
<1>1. pc = "create" /\ disk' = disk
  BY DriveChanges
<1>2. PICK r : drive' = drive \cup {r} /\ r.content = disk[UploadFiles[cursor]]
  BY DriveChanges
<1>3. ScratchVersions' = ScratchVersions
  BY <1>1 DEF ScratchVersions
<1>4. \A v \in Versions : Archived(v)' <=> Archived(v) \/ r.content = ArtifactFile(v)
  BY <1>2 DEF Archived
<1>5. cursor \in 1..4
  BY <1>1 DEF CursorType
<1>6. CASE cursor = 2
  <2>1. r.content = disk["artifact"]
    BY <1>2, <1>6, UploadFilesValue
  <2>2. ArchivedVersions' = ArchivedVersions \cup ScratchVersions
    BY <1>4, <2>1 DEF ArchivedVersions, ScratchVersions
  <2>3. QED
    BY <1>3, <2>2
<1>7. CASE cursor # 2
  <2>1. r.content = EventsFile \/ (\E t \in Stamps : r.content = ReceiptFile(artifact, t))
        \/ r.content \in PendingManifest
    <3>1. artifact \in Versions /\ pc \in AfterManifest
      BY <1>1 DEF PackageWritten, AfterArtifact, AfterManifest
    <3>2. ManifestFile(artifact, ContentFiles, TRUE) \in PendingManifest
      BY <3>1, WrittenHasType
    <3>3. cursor = 1 \/ cursor = 3 \/ cursor = 4
      BY <1>5, <1>7
    <3>4. QED
      BY <1>1, <1>2, <3>1, <3>2, <3>3, UploadFilesValue
      DEF PackageWritten, AfterArtifact, AfterManifest
  <2>2. \A v \in Versions : r.content # ArtifactFile(v)
    BY <2>1, KindsDiffer
  <2>3. ArchivedVersions' = ArchivedVersions
    BY <1>4, <2>2 DEF ArchivedVersions
  <2>4. QED
    BY <1>3, <2>3
<1>8. QED
  BY <1>6, <1>7

\* Every step of the wrapper is a step of the abstract archive, or none.
LEMMA StepRefines ==
  ASSUME IInv, [Next]_vars
  PROVE  [Abstract!Next]_(Abstract!vars)
<1> USE DEF IInv
<1>1. CASE drive' # drive
  <2>1. /\ ScratchVersions' = ScratchVersions
        /\ ArchivedVersions' \in {ArchivedVersions, ArchivedVersions \cup ScratchVersions}
        /\ Wrapping /\ UNCHANGED Wrapping
    <3>1. Wrapping /\ UNCHANGED Wrapping
      BY <1>1, DriveChanges DEF Wrapping
    <3>2. QED
      BY <1>1, <3>1, ArchiveStep
  <2>2. CASE ArchivedVersions' = ArchivedVersions
    BY <2>1, <2>2 DEF Abstract!vars
  <2>3. CASE ArchivedVersions' = ArchivedVersions \cup ScratchVersions
    BY <2>1, <2>3 DEF Abstract!Next, Abstract!Save
  <2>4. QED
    BY <2>1, <2>2, <2>3
<1>2. CASE drive' = drive
  <2>1. ArchivedVersions' = ArchivedVersions
    BY <1>2 DEF ArchivedVersions, Archived
  <2>2. CASE disk'["artifact"] = disk["artifact"]
    <3>1. ScratchVersions' = ScratchVersions
      BY <2>2 DEF ScratchVersions
    <3>2. CASE Wrapping' = Wrapping
      BY <2>1, <3>1, <3>2 DEF Abstract!vars
    <3>3. CASE Wrapping' # Wrapping
      <4>1. Wrapping \in BOOLEAN /\ Wrapping' \in BOOLEAN
        BY DEF Wrapping
      <4>2. Abstract!Begin \/ Abstract!End
        BY <2>1, <3>1, <3>3, <4>1 DEF Abstract!Begin, Abstract!End
      <4>3. QED
        BY <4>2 DEF Abstract!Next
    <3>4. QED
      BY <3>2, <3>3
  <2>3. CASE pc = "artifact" /\ disk'["artifact"] = ArtifactFile(artifact) /\ pc' = "receipt"
    <3>1. artifact \in Versions
      BY <2>3 DEF PackageWritten
    <3>2. ScratchVersions' = {artifact}
      BY <2>3, <3>1, KindsDiffer DEF ScratchVersions
    <3>3. PICK v \in Versions : v = artifact
      BY <3>1
    <3>4. Abstract!Keep(v)
      BY <2>1, <2>3, <3>2, <3>3 DEF Abstract!Keep, Wrapping
    <3>5. QED
      BY <3>4 DEF Abstract!Next
  <2>4. CASE pc = "artifact" /\ disk'["artifact"] = Torn /\ pc' = "idle"
    <3>1. ScratchVersions' = {}
      BY <2>4, KindsDiffer DEF ScratchVersions
    <3>2. QED
      BY <2>1, <2>4, <3>1 DEF Abstract!Next, Abstract!Spoil, Wrapping
  <2>5. CASE pc = "rmtree" /\ disk'["artifact"] = Absent /\ pc' = "rmtree"
    <3>1. ScratchVersions' = {}
      BY <2>5, KindsDiffer DEF ScratchVersions
    <3>2. CASE request = None
      <4>1. ScratchVersions \subseteq ArchivedVersions
        BY <2>5, <3>2 DEF PruneCovered, ScratchVersions, ArchivedVersions
      <4>2. QED
        BY <2>1, <2>5, <3>1, <4>1 DEF Abstract!Next, Abstract!DropVerified, Wrapping
    <3>3. CASE request # None
      <4>1. request \in Versions
        BY <3>3 DEF TypeOK, ControlType
      <4>2. request \in ArchivedVersions
        BY <2>5, <4>1 DEF PruneCovered, ArchivedVersions
      <4>3. PICK v \in Versions : v = request
        BY <4>1
      <4>4. Abstract!DropOnRequest(v)
        BY <2>1, <2>5, <3>1, <4>2, <4>3 DEF Abstract!DropOnRequest, Wrapping
      <4>5. QED
        BY <4>4 DEF Abstract!Next
    <3>4. QED
      BY <3>2, <3>3
  <2>6. QED
    BY <2>2, <2>3, <2>4, <2>5, ArtifactChanges
<1>3. QED
  BY <1>1, <1>2

\* The wrapper implements the abstract archive.
THEOREM Refinement == Spec => ImplementsDurableArchive
<1>1. Init => Abstract!Init
  <2>1. ASSUME Init PROVE ScratchVersions = {} /\ ArchivedVersions = {} /\ Wrapping = FALSE
    <3>1. disk["artifact"] = Absent /\ drive = {} /\ pc = "idle"
      BY <2>1 DEF Init, Files, Uploads, ContentFiles
    <3>2. QED
      BY <3>1, KindsDiffer DEF ScratchVersions, ArchivedVersions, Archived, Wrapping
  <2>2. QED
    BY <2>1 DEF Abstract!Init
<1>2. IInv /\ [Next]_vars => [Abstract!Next]_(Abstract!vars)
  BY StepRefines
<1>3. QED
  BY <1>1, <1>2, InductiveInvariant, PTL DEF Spec, Abstract!Spec,
     ImplementsDurableArchive

-----------------------------------------------------------------------------
(* Termination.                                                            *)

Present == {f \in Files : disk[f] # Absent}

\* How many steps the operation under way can still make: a wrap one for each of the
\* files it writes and each folder, two for each upload; a prune one for each file.
StepsLeft ==
  CASE pc = "events" -> 18 [] pc = "artifact" -> 17 [] pc = "receipt" -> 16
    [] pc = "manifest" -> 15 [] pc = "export" -> 14
    [] pc = "folder" -> 13 - cursor
    [] pc = "title" -> 12 - 2 * cursor
    [] pc = "create" -> 11 - 2 * cursor
    [] pc = "ack" -> 2 [] pc = "final" -> 1
    [] pc = "rmtree" -> Cardinality(Present) + 1
    [] pc \in {"idle", "done"} -> 0

LEMMA FiveFiles == IsFiniteSet(Files) /\ Cardinality(Files) = 5
<1>1. IsFiniteSet({}) /\ Cardinality({}) = 0
  BY FS_EmptySet
<1>2. IsFiniteSet({"events"}) /\ Cardinality({"events"}) = 1
  <2>1. {"events"} = {} \cup {"events"}
    OBVIOUS
  <2> QED BY <1>1, <2>1, FS_AddElement
<1>3. IsFiniteSet({"events", "artifact"}) /\ Cardinality({"events", "artifact"}) = 2
  <2>1. {"events", "artifact"} = {"events"} \cup {"artifact"}
    OBVIOUS
  <2> QED BY <1>2, <2>1, FS_AddElement
<1>4. IsFiniteSet(ContentFiles) /\ Cardinality(ContentFiles) = 3
  <2>1. ContentFiles = {"events", "artifact"} \cup {"receipt"}
    BY DEF ContentFiles
  <2> QED BY <1>3, <2>1, FS_AddElement
<1>5. IsFiniteSet(Uploads) /\ Cardinality(Uploads) = 4
  <2>1. "manifest" \notin ContentFiles
    BY DEF ContentFiles
  <2> QED BY <1>4, <2>1, FS_AddElement DEF Uploads
<1> QED
  <2>1. "ack" \notin Uploads
    BY DEF Uploads, ContentFiles
  <2> QED BY <1>5, <2>1, FS_AddElement DEF Files

LEMMA PresentFiles ==
  /\ IsFiniteSet(Present) /\ Cardinality(Present) \in 0..5
  /\ \A f \in Present : Cardinality(Present \ {f}) = Cardinality(Present) - 1
<1>1. IsFiniteSet(Present) /\ Cardinality(Present) <= 5
  BY FiveFiles, FS_Subset DEF Present
<1>2. Cardinality(Present) \in Nat
  BY <1>1, FS_CardinalityType
<1> QED BY <1>1, <1>2, FS_RemoveElement

StepBounds == StepsLeft \in 0..18 /\ (pc \notin {"idle", "done"} => StepsLeft # 0)

LEMMA StepsAreBounded == IInv => StepBounds
<1> SUFFICES ASSUME IInv PROVE StepBounds
  OBVIOUS
<1>1. /\ pc \in {"idle", "events", "artifact", "receipt", "manifest", "export", "folder",
                 "title", "create", "ack", "final", "done", "rmtree"}
      /\ pc \in {"title", "create"} => cursor \in 1..4
      /\ pc = "folder" => cursor \in 0..2
      /\ Cardinality(Present) \in 0..5
  BY PresentFiles DEF IInv, TypeOK, ControlType, CursorType
<1> QED BY <1>1 DEF StepBounds, StepsLeft

\* The loop over the files goes on by one file, whatever became of the last.
LEMMA NextFileCounts ==
  ASSUME pc \in {"title", "create"}, cursor \in 1..4, NextFile
  PROVE  StepsLeft' < StepsLeft
<1>1. CASE cursor = 4
  BY <1>1 DEF NextFile, StepsLeft
<1>2. CASE cursor # 4
  <2>1. pc' = "title" /\ cursor' = cursor + 1 /\ cursor \in 1..3
    BY <1>2 DEF NextFile
  <2>2. StepsLeft' = 10 - 2 * cursor
    BY <2>1 DEF StepsLeft
  <2>3. StepsLeft \in {12 - 2 * cursor, 11 - 2 * cursor}
    BY DEF StepsLeft
  <2> QED BY <2>1, <2>2, <2>3
<1> QED BY <1>1, <1>2

\* Every step of a wrap is one less to go, whatever the transport answers.
LEMMA WrapCounts ==
  ASSUME IInv, WrapStep
  PROVE  StepsLeft' < StepsLeft
<1>1. /\ pc \in {"title", "create"} => cursor \in 1..4
      /\ pc = "folder" => cursor \in 0..2
  BY DEF IInv, TypeOK, CursorType
<1>2. CASE WriteEvents \/ WriteArtifact \/ WriteReceipt \/ WritePendingManifest
  <2>1. \/ pc = "events" /\ pc' = "artifact"
        \/ pc = "artifact" /\ pc' = "receipt"
        \/ pc = "receipt" /\ pc' = "manifest"
        \/ pc = "manifest" /\ pc' = "export"
    BY <1>2 DEF WriteEvents, WriteArtifact, WriteReceipt, WritePendingManifest, Write
  <2> QED BY <2>1 DEF StepsLeft
<1>3. CASE BeginExport
  <2>1. pc = "export" /\ cursor = 0 /\ cursor' = cursor /\ pc' \in {"ack", "folder"}
    BY <1>3 DEF BeginExport, IInv, TypeOK, CursorType
  <2> QED BY <2>1 DEF StepsLeft
<1>4. CASE EnsureFolder
  <2>1. /\ pc = "folder" /\ cursor \in 0..2
        /\ cursor = 2 => pc' = "title" /\ cursor' = 1
        /\ cursor # 2 => pc' = "folder" /\ cursor' = cursor + 1
    BY <1>1, <1>4 DEF EnsureFolder
  <2> QED BY <2>1 DEF StepsLeft
<1>5. CASE EnsureFolderFails
  <2>1. pc = "folder" /\ cursor \in 0..2 /\ pc' = "ack"
    BY <1>1, <1>5 DEF EnsureFolderFails
  <2> QED BY <2>1 DEF StepsLeft
<1>6. CASE AllocateTitle
  <2>1. pc = "title" /\ cursor \in 1..4 /\ pc' = "create" /\ cursor' = cursor
    BY <1>1, <1>6 DEF AllocateTitle
  <2> QED BY <2>1 DEF StepsLeft
<1>7. CASE TitleCollides \/ SearchFails \/ CreateFile \/ CreateFileFails
  <2>1. pc \in {"title", "create"} /\ NextFile
    BY <1>7 DEF TitleCollides, SearchFails, CreateFile, CreateFileFails
  <2> QED BY <1>1, <2>1, NextFileCounts
<1>8. CASE WriteAck \/ WriteFinalManifest
  <2>1. CASE WriteAck
    <3>1. pc = "ack" /\ pc' = "final"
      BY <2>1 DEF WriteAck, Write
    <3> QED BY <3>1 DEF StepsLeft
  <2>2. CASE WriteFinalManifest
    <3>1. pc = "final" /\ pc' = "done"
      BY <2>2 DEF WriteFinalManifest
    <3> QED BY <3>1 DEF StepsLeft
  <2> QED BY <1>8, <2>1, <2>2
<1> QED BY <1>2, <1>3, <1>4, <1>5, <1>6, <1>7, <1>8 DEF WrapStep

\* A prune goes on by one file.
LEMMA PruneCounts ==
  ASSUME IInv, PruneStep
  PROVE  StepsLeft' < StepsLeft
<1>1. ASSUME NEW f \in Files, RemoveFile(f)
      PROVE  StepsLeft' < StepsLeft
  <2>1. pc = "rmtree" /\ pc' = "rmtree" /\ f \in Present /\ disk' = [disk EXCEPT ![f] = Absent]
    BY <1>1 DEF RemoveFile, Present
  <2>2. Present' = Present \ {f}
    BY <2>1 DEF Present, IInv, TypeOK, DiskType
  <2>3. Cardinality(Present') = Cardinality(Present) - 1 /\ Cardinality(Present) \in 0..5
    BY <2>1, <2>2, PresentFiles
  <2> QED BY <2>1, <2>3 DEF StepsLeft
<1>2. CASE RemoveDir
  <2>1. pc = "rmtree" /\ pc' = "idle" /\ Cardinality(Present) \in 0..5
    BY <1>2, PresentFiles DEF RemoveDir
  <2> QED BY <2>1 DEF StepsLeft
<1> QED BY <1>1, <1>2 DEF PruneStep

\* What OperationsReturn rests on besides fairness: a wrap ends within eighteen steps,
\* whatever the transport answers or loses and whatever Drive holds already, a prune
\* within six; nothing but the start of an operation, after the last one has ended or was
\* killed, gives it more: no fault makes the exporter begin again.
\* (wrap.py wrap_run, export.py _export, prune.py prune_run_dir.)
THEOREM OperationsAreBounded ==
  Spec => /\ [](StepsLeft \in 0..18)
          /\ [][/\ WrapStep \/ PruneStep => StepsLeft' < StepsLeft
                /\ StepsLeft' > StepsLeft => pc \in {"idle", "done"}]_vars
<1>1. ASSUME IInv, StepBounds, StepBounds', [Next]_vars
      PROVE  [/\ WrapStep \/ PruneStep => StepsLeft' < StepsLeft
              /\ StepsLeft' > StepsLeft => pc \in {"idle", "done"}]_vars
  <2> USE <1>1
  <2>1. StepsLeft \in Int /\ StepsLeft' \in Int /\ StepsLeft >= 0
    BY DEF StepBounds
  <2>2. CASE WrapStep \/ PruneStep
    BY <2>1, <2>2, WrapCounts, PruneCounts
  <2>3. CASE Crash
    <3>1. pc' = "idle"
      BY <2>3 DEF Crash
    <3>2. StepsLeft' = 0
      BY <3>1 DEF StepsLeft
    <3> QED BY <2>1, <2>2, <3>2
  <2>4. ASSUME \/ \E v \in Versions, x \in {"local", "drive"} : StartWrap(v, x)
               \/ \E e \in Versions \cup {None} : Prune(e)
        PROVE  pc \in {"idle", "done"}
    BY <2>4 DEF StartWrap, Prune
  <2>5. CASE UNCHANGED vars
    BY <2>5
  <2> QED BY <2>2, <2>3, <2>4, <2>5 DEF Next
<1>2. StepBounds => StepsLeft \in 0..18
  BY DEF StepBounds
<1> QED BY <1>1, <1>2, InductiveInvariant, StepsAreBounded, PTL DEF Spec
=============================================================================
