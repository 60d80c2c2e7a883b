SPECIFICATION Spec
CONSTANTS
  Slots = {1, 2}
  MaxHandles = 2
INVARIANTS
  TypeOK
  OneInitiate
  SuccessIsSession
  RightHandle
  LoadingIsAnswered
PROPERTIES
  LookupLeadsOn
CHECK_DEADLOCK FALSE
