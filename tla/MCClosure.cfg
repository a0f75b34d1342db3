CONSTANTS
  old = old
  new = new
  Trees <- MCTrees
  Boundaries = {old, new}
  None = None
  Torn = Torn
  MaxDetours = 3
SPECIFICATION Spec
INVARIANTS
  TypeOK
  ClosedRestsOnPassingTests
PROPERTIES
  BoundaryIsNotFrozenOver
  UndisturbedWorkCloses
