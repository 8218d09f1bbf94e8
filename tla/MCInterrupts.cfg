SPECIFICATION FairSpec
CONSTANTS
  NIRQ = 3
  Isrs = {"a", "b"}
  Nesting = 2
  MaxRises = 4
INVARIANTS
  CalledAsRegistered
  SectionsAreClosed
PROPERTY EveryInterruptIsServed
