SPECIFICATION Spec
CONSTANTS
  Headers <- MCHeaders
  First <- MCFirst
  ROMs <- MCROMs
  NONE = 0
  DFH_PARENT_STACK_INCR_SIZE = 4
  MaxOpen = 1
INVARIANTS
  EveryFeatureOnce
  ParentIsTheBrancher
  OverrunOnlyWhenDeep
  HeapIsTheTable
CHECK_DEADLOCK FALSE
