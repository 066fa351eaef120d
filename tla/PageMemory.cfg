SPECIFICATION Spec
CONSTANTS
  Tasks = {t1, t2}
  NumPages = 5
  FreeStackMax = 2
  SpacePages = 2
  WindowPages = 4
  MappingMax = 2
  Preemptive = FALSE
SYMMETRY Symmetry
INVARIANTS
  TypeOK
  NoPageTwice
  NoLeak
  MappedIsTracked
  TrackedIsMapped
  GuardsUnmapped
  DeadHoldsNothing
