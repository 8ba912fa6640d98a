CONSTANTS
  N = 3
  Primitives <- MCPrimitives
  Known <- MCKnown
  newarray_class <- MCNewarray
  MaxDims = 2
  MaxDirect = 2
SPECIFICATION Spec
INVARIANT
  EveryInterface
CHECK_DEADLOCK FALSE
