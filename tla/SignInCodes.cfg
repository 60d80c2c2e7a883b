SPECIFICATION Spec
CONSTANTS
  Slots = {1, 2}
  MaxHandles = 2
INVARIANTS
  CodesAreShown
CHECK_DEADLOCK FALSE
