SPECIFICATION FairSpec
CONSTANTS
  Depth = 2
  Sizes = {1, 2, 4}
INVARIANTS
  TypeOK
  SuccessIsDone
  LeavesNothing
  HandedOverIsDone
PROPERTIES
  TransactionEnds
