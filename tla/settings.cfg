\* Settings in EEPROM, memory and shared segment, with two faults.
CONSTANTS
  t03 = t03
  t10 = t10
  quiet = quiet
  loud = loud
  Blank = Blank
  Thresholds <- TwoThresholds
  DefaultThreshold = t03
  Rests <- TwoRests
  DefaultRest = loud
  MaxChanges = 2
  MaxFaults = 2
  MaxSegments = 2
SPECIFICATION FairSpec
INVARIANTS TypeOK Exclusion ReadsAreWhole EepromIsWhole SavedChoiceSurvives
PROPERTIES ThresholdReachesDetector CallbackReturns
CHECK_DEADLOCK FALSE
