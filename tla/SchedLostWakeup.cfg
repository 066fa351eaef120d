SPECIFICATION Spec
CONSTANTS
  ProcessCount = 2
  PidBound = 3
  Preemptive = TRUE
INVARIANTS
  NoLostWakeup
\* A fault handler halts the machine, and the console may sit idle once PidBound
\* pids have been handed out.
CHECK_DEADLOCK FALSE
