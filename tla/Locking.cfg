SPECIFICATION Spec
CONSTANTS
  Threads = {owner, other}
  Owner = owner
  Nobody = Nobody
  Tealets = {main, t1, t2}
  Main = main
  NoTealet = NoTealet
  Stacks = {s1, s2}
  NoStack = NoStack
  Sharing = FALSE
INVARIANTS
  TypeOK
  RunsUnlocked
  OneAtWork
  CountsExact
  ActiveHasStack
PROPERTIES
  ImplementsCoroutines
  CallsReturn
