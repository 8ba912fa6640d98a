CONSTANTS
  BYTE = 2
  SHORT = 4
  INT = 8
  LONG = 16
  MAX_STACK = 2
  MAX_LOCALS = 3
  Variables = {0}
  Residue = {15}
  Contents = {6}
  Refs = {9}
SPECIFICATION Spec
VIEW View
INVARIANTS
  TypeOK
PROPERTIES
  ImplementsJvm
CHECK_DEADLOCK FALSE

