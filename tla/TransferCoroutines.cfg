SPECIFICATION Spec
CONSTANTS
  Main = main
  Tealets = {main, t1, t2}
  None = None
  Args = {a}
  NoArg = NoArg
  Forcing = TRUE
  Duplicating = TRUE
  Deferrals = {}
  PanicReaches = {"switch"}
  MemoryFails = TRUE
  CallerErrors = {"INVAL", "INTEGRITY"}
SYMMETRY Symmetry
INVARIANTS
  ActiveCanResume
PROPERTIES
  ImplementsCoroutines
  StatusForward
