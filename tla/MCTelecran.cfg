SPECIFICATION FairSpec
CONSTANTS
  HVisible = 2
  HFp = 0
  HSync = 1
  HBp = 0
  HTotal = 3
  VVisible = 2
  VFp = 0
  VSync = 1
  VBp = 0
  VTotal = 3
  LeftPositions = 3
  RightPositions = 2
  Arm = 1
  TornReads = FALSE
INVARIANTS ClearErasesAll NoReadDuringDraw
PROPERTIES RasterIsFrameScan InkOnlyUnderPen PenLeavesItsMark PressBlanksScreen
