CONSTANTS
  b1 = b1
  c1 = c1
  c2 = c2
  good = good
  odd = odd
  bare = bare
  strict = strict
  broken = broken
  ptr = ptr
  id1 = id1
  id2 = id2
  Artifacts = {good, odd, bare}
  Names = {b1, c1, c2}
  Impls = {strict, broken}
  Missing = Missing
  Raises = Raises
  Pointers = {ptr}
  Resolves <- MCResolves
  Emits <- MCEmits
  CheckIds = {id1, id2}
  Builtins = {b1}
  BuiltinImpl <- MCBuiltinImpl
  ContractSets <- MCContractSets
  Policies <- MCPolicies
  NoParent = NoParent
  MaxBlocks = 2
  MaxReceipts = 1
SPECIFICATION Spec
INVARIANTS
  TypeOK
  AdmissionIsEarned
  ReceiptsVerify
  RefusalsAreExplained
  BuiltinReceiptsReproduce
PROPERTIES
  ImplementsScopedRegistry
