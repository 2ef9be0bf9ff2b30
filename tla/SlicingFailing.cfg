SPECIFICATION Spec
CONSTANTS
  Main = main
  Tealets = {main, t1, t2}
  Stacks = {s1, s2, s3}
  NoStack = NoStack
  Depth = 3
  Pointers = {0, 1}
  Boundaries = {1, 2}
  Forcing = TRUE
  Duplicating = TRUE
  Overreaching = FALSE
  OutOfMemory = {"grow", "save", "forced save"}
SYMMETRY Symmetry
INVARIANTS
  Recoverable
