\* Alerts: adxl345 with both ends of the alert queue, which may be full at the start.
CONSTANTS
  Sensors <- Motion
  Helpers <- None
  Inputs <- None
  DaemonQueue = 2
  UiQueue = 2
  SockCap = 1
  AlertMax = 1
  Opened <- AlertQueue
  MaxReadings = 1
  MaxFaults = 1
  MaxInputs = 0
  Muted = FALSE
SPECIFICATION RestartSpec
PROPERTIES FreshFlowSpec NewsReachesScreen HandlersEnd
CHECK_DEADLOCK FALSE
