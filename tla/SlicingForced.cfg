SPECIFICATION Spec
CONSTANTS
  Main = main
  Tealets = {main, t1, t2, t3}
  Stacks = {s1, s2, s3, s4}
  NoStack = NoStack
  Depth = 4
  Pointers = {0}
  Boundaries = {1, 2, 3}
  Forcing = TRUE
  Duplicating = FALSE
  Overreaching = FALSE
  OutOfMemory = {"grow", "forced save"}
SYMMETRY Symmetry
INVARIANTS
  NothingTorn
  MainReachable
  UnboundedAlone
PROPERTIES
  ImplementsCoroutines
