CONSTANTS
  Programs = {"systemctl", "journalctl", "sh"}
  ALLOWED = {"systemctl", "journalctl"}
  Installed = {"systemctl", "sh"}
  PipeSize = 2
  MaxOutput = 4
  TIMEOUT = 3
  MayFork = TRUE
SPECIFICATION FairSpec
\* A call ends.
CHECK_DEADLOCK FALSE
PROPERTY Returns
