SPECIFICATION RTSpec
CONSTANTS
  Events = {}
  MoveLimit = 40
  STRUCT_NEST_LIMIT = 8
  MaxTopLevel = 2
  CountModulus = 256
  U16Max = 29
  EventMax = 29
  HeadersMax = 6
  Names <- MCNames
  Tags = {256}
  IdVersions <- MCIdVersions
  Opcodes = {1}
  Calls <- MCCalls
  FieldCounts = {1, 2}
  Sends <- MCSends
  MaxFields = 3
INVARIANTS WrittenFits HeaderReadsBack JsonIsWhatWasAsked
