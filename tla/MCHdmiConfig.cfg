SPECIFICATION FairSpec
CONSTANTS
  Entries = {0, 1, 2}
  LUT_SIZE = 3
  ClkDiv = 1
INVARIANT PassedMeansTaken
PROPERTIES BusFraming GetsReady
