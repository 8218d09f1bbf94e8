SPECIFICATION Spec
CONSTANTS
  HVisible = 6
  HFp = 2
  HSync = 1
  HBp = 2
  HTotal = 11
  VVisible = 5
  VFp = 1
  VSync = 3
  VBp = 1
  VTotal = 10
PROPERTY ImplementsFrameScan
