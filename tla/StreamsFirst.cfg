\* The first call of a program.
SPECIFICATION Spec
CONSTANTS
  BufLen = 4
  BufBase = 1
  Threads = {t1}
  stdin = stdin
  stdout = stdout
  stderr = stderr
  Names = {a}
  PathLen <- OneChar
  MaxFd = 5
  UndefHandles = {0, 99}
  Closable = {}
  Unfinished = {}
  NoFile = NoFile
  NoCall = NoCall
INVARIANT FirstInitialised
