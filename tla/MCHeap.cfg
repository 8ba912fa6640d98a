CONSTANTS
  Slots = {1, 2, 3}
  Methods = {main, callee}
  main = main
  callee = callee
  Main = main
  Statics = {f}
  Fields = {g, h}
  MaxDepth = 2
  MaxOps = 7
  MaxSlipped = 4
SPECIFICATION Spec
INVARIANTS
  TypeOK
  CountsExact
  PointersValid
  ReachableKept
CHECK_DEADLOCK FALSE
