CONSTANTS
  Main = Main
  Other = Other
  Lazy = Lazy
  main = main
  rec = rec
  mutual = mutual
  clinit = clinit
  init = init
  NULL = NULL
  WILD = WILD
  LoopLimit = 5
  Positions = {0, 1, 2, 3, 4, 5, 6, 7, 8}
  Values = {0, 1, 2, 3, 4, 5, 6, 7, 8}
  Garbage = {0}
  Methods <- MCMethods
  Classes <- MCClasses
  ClassOf <- MCClassOf
  Clinit <- MCClinit
  Args <- MCArgs
  ArgsRead <- MCArgsRead
  Boot <- MCBoot
  Programs <- RecursivePrograms
SPECIFICATION Spec
PROPERTY
  PrevFrameRecorded
