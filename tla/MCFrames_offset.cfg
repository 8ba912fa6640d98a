CONSTANTS
  Main = Main
  A = A
  clinit = clinit
  main = main
  a = a
  b = b
  NULL = NULL
  WILD = WILD
  MainLength = 4
  LoopLimit = 12
  Garbage = {0}
  Positions = {0, 1, 2, 3, 4, 5, 6}
  Values = {0, 1, 2, 3, 4, 5, 6, 7, 8}
  Methods <- MCMethods
  Classes <- MCClasses
  ClassOf <- MCClassOf
  Clinit <- MCClinit
  Args <- MCArgs
  ArgsRead <- MCArgsRead
  Boot <- MCBoot
  Programs <- MCPrograms
SPECIFICATION Spec
INVARIANT
  OffsetIsAnIndex
