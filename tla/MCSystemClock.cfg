SPECIFICATION FairSpec
CONSTANTS
  Alarms = {a1, a2}
  HEAD = HEAD
  NULL = NULL
  Word = 4
  DELTA = 2
  MHZ = 1
  Sleeps = {2}
  Periods = {0, 1}
  MaxTime = 5
  US = 4
  RATE = 2
INVARIANT ListIsARing
INVARIANT NoneOverdue
INVARIANT WallClockRuns
PROPERTY TicksAreApart
PROPERTY SleepsLongEnough
PROPERTY TickEnds
