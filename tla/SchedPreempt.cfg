SPECIFICATION FairSpec
CONSTANTS
  ProcessCount = 3
  PidBound = 3
  Preemptive = TRUE
INVARIANTS
  TypeOK
  RunningIsCurrent
  ReadyHasContext
  LiveStackMapped
  Cr3Follows
  AddressSpaceOwned
PROPERTIES
  SlotZeroRuns
  OnlyConsoleRevives
\* A fault handler halts the machine, and the console may sit idle once PidBound
\* pids have been handed out.
CHECK_DEADLOCK FALSE
