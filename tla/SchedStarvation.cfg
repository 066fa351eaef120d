SPECIFICATION ProgressSpec
CONSTANTS
  ProcessCount = 3
  PidBound = 3
  Preemptive = TRUE
PROPERTIES
  ReadyRuns
\* A fault handler halts the machine, and the console may sit idle once PidBound
\* pids have been handed out.
CHECK_DEADLOCK FALSE
