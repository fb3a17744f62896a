\* dht11 and comfort, two readings, small queues.
CONSTANTS
  Sensors <- Climate
  Inputs <- None
  DaemonQueue = 2
  UiQueue = 2
  SockCap = 1
  AlertMax = 1
  MaxReadings = 2
  MaxFaults = 2
  MaxInputs = 0
  Helpers <- None
  Opened <- None
  Muted = FALSE
SPECIFICATION Spec
INVARIANTS TypeOK DisconnectCostsOneEvent NoReadingLost ComfortNotAhead
PROPERTIES FlowSpec
CHECK_DEADLOCK FALSE
