SPECIFICATION Spec
CONSTANTS
  Main = main
  Tealets = {main, t1, t2}
  None = None
  Args = {a}
  NoArg = NoArg
  Forcing = TRUE
  Duplicating = FALSE
  Deferrals = {}
  PanicReaches = {"switch", "run", "start", "fork", "forked"}
  MemoryFails = TRUE
  CallerErrors = {}
SYMMETRY Symmetry
INVARIANTS
  CurrentRuns
