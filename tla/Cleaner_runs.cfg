SPECIFICATION MCSpec
CONSTANTS
  Jobs = {j1}
  Interactive = {j1}
  Alerting = {j1}
  Distributed = {j1}
  Runs = {r1, r2}
  BatchLimit = 2
  InteractiveLimit = 1
  RemindTime = 1
  TimeRange = 1
  WaitTime = 1
  JupyterWait = 1
  MaxAge = 2
  MaxLock = 1
  MaxFaults = 1
SYMMETRY Symmetry
INVARIANTS LockedIsSpared MailOnce DeletionsRecorded
CHECK_DEADLOCK FALSE
