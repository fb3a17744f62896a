\* Every stream of seven samples over three slots.
CONSTANTS
  HISTORY_LEN = 3
  Magnitudes <- SmallMagnitudes
  Thresholds <- SmallThresholds
  MaxSamples = 7
SPECIFICATION Spec
INVARIANTS TypeOK RingHoldsWindow AlertsExact OneAlertPerShock
CHECK_DEADLOCK FALSE
