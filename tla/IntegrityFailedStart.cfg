SPECIFICATION Spec
CONSTANTS
  Backends = {"GUARD", "SNAPSHOT"}
  PageSize = 3
  Furthest = 9
  NULL = NULL
  Tealets = {main, t1}
  Main = main
  Probe = 4
  DefaultMax = 6
  Asked <- SomeRequests
  Windows = {0}
  KernelFails = FALSE
INVARIANT OwnFramesOpen
