\* Two threads whose calls may overlap, calloc of one element.
SPECIFICATION Spec
CONSTANTS
  BufLen = 3
  BufBase = 1
  Threads = {t1, t2}
  Sizes = {0, 1, 2}
  Nums = {1}
  Alignments = {1}
  MaxRaced = 2
  NoCall = NoCall
SYMMETRY ThreadSymmetry
INVARIANTS TypeOK GrantsDisjoint BytesStay
PROPERTIES RefusalIsFinal ActsAsHeap
