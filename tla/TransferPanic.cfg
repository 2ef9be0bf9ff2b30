SPECIFICATION Spec
CONSTANTS
  Main = main
  Tealets = {main, t1, t2}
  None = None
  Args = {a}
  NoArg = NoArg
  Forcing = TRUE
  Duplicating = FALSE
  Deferrals = {{"DELETE"}}
  PanicReaches = {"switch", "run", "fork"}
  MemoryFails = TRUE
  CallerErrors = {"INVAL", "INTEGRITY"}
SYMMETRY Symmetry
INVARIANTS
  TypeOK
  CurrentRuns
PROPERTIES
  PreviousIsSender
  NofailSucceeds
