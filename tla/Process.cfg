\* Startup and every way to end, with two threads.
SPECIFICATION FairSpec
CONSTANTS
  main = main
  Others = {t}
  Argv <- ArgvHere
  Envp <- EnvpHere
  Auxv <- AuxvHere
  AuxLen = 4
  PageTag = 2
  PageSize = 4
  Codes <- CodesHere
  NumFuncs = 2
  Aborts = TRUE
CHECK_DEADLOCK FALSE
INVARIANTS TypeOK ReadsInside StartupExact StatusHonest
PROPERTY ExitEnds
