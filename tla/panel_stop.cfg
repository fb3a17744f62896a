\* The way out: one sensor, shm_sync, an input thread, the segment in both processes.
CONSTANTS
  Sensors <- Distance
  Helpers <- Sync
  Inputs <- Remote
  DaemonQueue = 1
  UiQueue = 1
  SockCap = 1
  AlertMax = 1
  Opened <- SegmentAndBroker
  MaxReadings = 1
  MaxFaults = 1
  MaxInputs = 1
  Muted = FALSE
SPECIFICATION FairSpec
PROPERTIES FlowSpec QuietTeardown UiGoneStopsDaemon DaemonGoneStopsUi
CHECK_DEADLOCK FALSE
