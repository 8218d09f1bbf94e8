SPECIFICATION EncoderSpec
CONSTANTS
  Positions = 4
  SamplePeriod = 2
  MaxTravel = 3
  Reach = 9
INVARIANTS PositionFollowsShaft DriftIsEven
PROPERTY ImplementsKnob
