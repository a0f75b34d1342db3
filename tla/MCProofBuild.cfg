CONSTANTS
  Absent = "absent"
  Null = "null"
  Every = Every
  Lexicon <- MCLexicon
  Keys <- MCKeys
  Alike <- MCAlike
  Inputs <- MCInputs
SPECIFICATION Spec
INVARIANTS
  TypeOK
  OutcomeIsEarned
  RedactionIsExact
  RefusalsNameTheDefects
  DocumentsAreBacked
CHECK_DEADLOCK FALSE
