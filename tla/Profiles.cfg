CONSTANTS
  Procs = {"p1", "p2", "p3"}
  Names <- MCNames
  Plans <- MCPlans
  Roots <- MCRoots
  Together <- MCTogether
  MaxDirs = 4
  MaxFaults = 1
SPECIFICATION Spec
INVARIANTS ActiveExists
PROPERTIES GlobalAtomic FieldsPreserved
CHECK_DEADLOCK FALSE
