CONSTANTS
  old = old
  new = new
  Trees <- MCTrees
  Boundaries = {old, new}
  None = None
  Torn = Torn
  MaxDetours = 1
SPECIFICATION Spec
PROPERTIES
  StaleFreezeIsRefrozen
