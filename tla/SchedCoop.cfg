SPECIFICATION Spec
CONSTANTS
  ProcessCount = 3
  PidBound = 4
  Preemptive = FALSE
INVARIANTS
  NoLostWakeup
PROPERTIES
  NoDanglingSwitch
  ReclaimsExitedOnly
  ExitLeavesStatus
  
\* A fault handler halts the machine, and the console may sit idle once PidBound
\* pids have been handed out.
CHECK_DEADLOCK FALSE
