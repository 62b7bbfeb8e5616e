SPECIFICATION Spec
CONSTANTS
  Events <- MCEvents
  MoveLimit = 11
  STRUCT_NEST_LIMIT = 2
  MaxTopLevel = 2
  CountModulus = 256
INVARIANTS PositionsInRange WalkMatchesReference MetadataVerdict
PROPERTIES SiblingReturns
CHECK_DEADLOCK FALSE
