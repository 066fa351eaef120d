SPECIFICATION Spec
CONSTANTS
  Tasks = {t1, t2}
  NumPages = 5
  FreeStackMax = 2
  SpacePages = 2
  WindowPages = 4
  MappingMax = 2
  Preemptive = TRUE
SYMMETRY Symmetry
INVARIANTS
  NoPageTwice
