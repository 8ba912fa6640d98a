CONSTANTS
  Classes = {"Main", "A", "B"}
  OBJECT = "java/lang/Object"
  Primitives = {"[I", "[B"}
  Arrays = {"[LA;", "[LB;", "[J"}
  ElementOf <- MCElementOf
  MAIN = "Main"
  NOFILE = NOFILE
  ClassPaths <- MCClassPaths
  FdLimit = 6
SPECIFICATION Spec
INVARIANTS
  TypeOK
  CompleteOrLoading
  ListedOnce
  StuckNeedsLeak
  SupportedRuns
PROPERTIES
  WildOnlyWhileLoading
  Halts
CHECK_DEADLOCK FALSE
