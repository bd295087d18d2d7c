SPECIFICATION Spec
CONSTANTS
  Procs = {"p1", "p2"}
  StaleAfter = 2
  MaxStarts = 3
  BeatsFail = {}
INVARIANT OneInstaller
CHECK_DEADLOCK FALSE
