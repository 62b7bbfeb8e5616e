SPECIFICATION Spec
CONSTANTS
  Traces <- MCTraces
  Formats = {1}
  Names = {"name"}
  MaxDescs = 2
  ReadCount = 1
INVARIANTS OffsetsAgree FormatsAttached InfoIsKernels
CHECK_DEADLOCK FALSE
