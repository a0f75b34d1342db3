CONSTANTS
  Versions = {v1, v2}
  Stamps = {t1}
  None = None
  MaxWraps = 3
  MaxFaults = 1
SPECIFICATION FairSpec
INVARIANTS
  TypeOK
  AckedFilesAreHeld
  ExportedIsWholePackage
  TitlesDistinct
  ReturnedPackageIsClosed
PROPERTIES
  DefaultPruneIsSafe
  ImplementsDurableArchive
  OperationsReturn
CHECK_DEADLOCK FALSE
