CONSTANTS
  N = 3
  Primitives <- MCPrimitives
  Known <- MCKnown
  newarray_class <- MCNewarray
  MaxDims = 2
  MaxDirect = 2
SPECIFICATION Spec
INVARIANTS
  TypeOK
  PlainSound
  PlainComplete
  ArrayByHeader
  Linking
CHECK_DEADLOCK FALSE
