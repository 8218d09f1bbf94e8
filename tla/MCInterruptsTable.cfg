SPECIFICATION Spec
CONSTANTS
  NIRQ = 2
  Isrs = {"a"}
  Nesting = 1
  MaxRises = 1
INVARIANT OnlyTheTable
