SPECIFICATION Spec
CONSTANTS
  Tealets = {main, t1, t2, t3}
  Main = main
  Stacks = {s1, s2, s3}
  NULL = NULL
  Head = head
  TealetSize = 7
  StackHeader = 5
  ChunkHeader = 3
  Sizes = {1}
  MaxGrown = 2
  BoundedMain = FALSE
SYMMETRY Symmetry
INVARIANTS
  TypeOK
  RingExact
  CountersExact
  AllocatorsAgree
  WalkOnList
PROPERTIES
  ImplementsPrevList
