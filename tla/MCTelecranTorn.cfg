SPECIFICATION Spec
CONSTANTS
  HVisible = 4
  HFp = 0
  HSync = 1
  HBp = 0
  HTotal = 5
  VVisible = 1
  VFp = 0
  VSync = 1
  VBp = 0
  VTotal = 2
  LeftPositions = 4
  RightPositions = 1
  Arm = 0
  TornReads = TRUE
PROPERTY InkOnlyUnderPen
