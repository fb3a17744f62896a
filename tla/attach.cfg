\* A daemon and its successor, one UI, one fault.
CONSTANTS
  d1 = d1
  d2 = d2
  u1 = u1
  None = None
  Daemons <- TwoDaemons
  Uis <- OneUi
  Retries = 2
  Backlog = 1
  AlertMax = 1
  MaxAlerts = 1
  MaxFaults = 1
SPECIFICATION FairSpec
INVARIANTS TypeOK NothingLeft NamesLead SharesWithServer AlertsAreFresh
PROPERTIES StopIsObeyed
CHECK_DEADLOCK FALSE
