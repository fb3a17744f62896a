\* Frames of four bytes through buffers that hold six.
CONSTANTS
  FrameSize = 4
  WireCap = 6
  MaxFrames = 6
SPECIFICATION FairSpec
INVARIANTS TypeOK FramesWhole
PROPERTIES ChannelSpec FrameGetsThrough SendReturns
CHECK_DEADLOCK FALSE
