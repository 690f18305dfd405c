CONSTANTS
  Asks = {"proc.states", "proc.top", "proc.threads", "systemd.status"}
  Pids = {1, 2, 3, 4}
  MaxBirths = 5
  Amounts = {1, 2}
  LIST_MAX = 2
  TOP_N = 2
  Phases = {"starting", "up", "maintenance", "stopping"}
  Units = {"ssh", "cron"}
  None = None
SPECIFICATION FairSpec
CONSTRAINT Bounded
\* The call ends, and the machine may come to its bound.
CHECK_DEADLOCK FALSE
INVARIANTS CountsEachOnce LeavesOutLess UnitsAgree
PROPERTY Answers
