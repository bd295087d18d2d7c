SPECIFICATION FairSpec
CONSTANTS
  Procs = {"p1", "p2"}
  StaleAfter = 2
  MaxStarts = 3
  BeatsFail = {"p1"}
INVARIANT RollbackKept
PROPERTY OutcomeTrue
PROPERTY LiveHolderNotStale
PROPERTY InterruptEnds
CHECK_DEADLOCK FALSE
