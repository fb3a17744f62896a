\* The comment at ui_app.cpp:88: the daemon has created the segment by then.
CONSTANTS
  d1 = d1
  d2 = d2
  u1 = u1
  None = None
  Daemons <- TwoDaemons
  Uis <- OneUi
  Retries = 2
  Backlog = 1
  AlertMax = 1
  MaxAlerts = 0
  MaxFaults = 0
SPECIFICATION Spec
INVARIANTS CreatedBeforeConnect
CHECK_DEADLOCK FALSE
