\* The claim that threads leave when g_running falls.
CONSTANTS
  Sensors <- Motion
  Helpers <- None
  Inputs <- None
  DaemonQueue = 2
  UiQueue = 2
  SockCap = 1
  AlertMax = 1
  Opened <- AlertQueue
  MaxReadings = 1
  MaxFaults = 1
  MaxInputs = 0
  Muted = FALSE
SPECIFICATION FairSpec
PROPERTIES ReceiverObeysStop
CHECK_DEADLOCK FALSE
