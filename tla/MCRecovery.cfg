CONSTANTS
  check = check
  strict = strict
  good = good
  odd = odd
  ptr = ptr
  id = id
  Artifacts = {good, odd}
  Names = {check}
  Impls = {strict}
  Missing = Missing
  Raises = Raises
  Pointers = {ptr}
  Resolves <- MCResolves
  Emits <- MCEmits
  CheckIds = {id}
  contracts <- MCContracts
  policy <- MCPolicy
  Registries <- MCRegistries
  NoParent = NoParent
  Budgets = {0, 1, 2}
  MaxRuns = 2
SPECIFICATION Spec
INVARIANTS
  TypeOK
  LedgerIsLinked
  OutcomeIsTruthful
PROPERTIES
  ImplementsBoundedRecovery
  RunsEnd
CHECK_DEADLOCK FALSE
