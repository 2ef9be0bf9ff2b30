SPECIFICATION Spec
CONSTANTS
  Main = main
  Tealets = {main, t1, t2, t3}
  Stacks = {s1, s2, s3, s4}
  NoStack = NoStack
  Depth = 3
  Pointers = {0}
  Boundaries = {1, 2}
  Forcing = FALSE
  Duplicating = FALSE
  Overreaching = FALSE
  OutOfMemory = {"save"}
SYMMETRY Symmetry
INVARIANTS
  NothingTorn
