CONSTANTS
  Slots = {1, 2, 3}
  Methods = {main, callee}
  main = main
  callee = callee
  Main = main
  Statics = {f}
  Fields = {g, h}
  MaxDepth = 2
  MaxOps = 6
  MaxSlipped = 6
SPECIFICATION Spec
INVARIANT
  RecordedIsCounted
CHECK_DEADLOCK FALSE
