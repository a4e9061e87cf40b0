\* Two threads that leave the standard streams open.
SPECIFICATION Spec
CONSTANTS
  BufLen = 18
  BufBase = 1
  Threads = {t1, t2}
  stdin = stdin
  stdout = stdout
  stderr = stderr
  Names = {a}
  PathLen <- OneChar
  MaxFd = 5
  UndefHandles = {3}
  Closable = {}
  Unfinished = {"freopen", "io"}
  NoFile = NoFile
  NoCall = NoCall
SYMMETRY ThreadSymmetry
CHECK_DEADLOCK FALSE
INVARIANTS TypeOK DescriptorsOwned OthersInitialised OneOwner
PROPERTY FirmHandles
