SPECIFICATION AlternatingSpec
CONSTANTS
  Bytes = {0, 1}
  BUF_LEN = 3
  RxDepth = 1
  TxDepth = 1
  DEFAULT_TIMEOUT = 2
  INT_MAX = 4
  MaxCount = 2
  Timeouts = {2}
  TickRates = {1000}
INVARIANTS ReceiverArmed TransmitterArmed
PROPERTIES ReceivesInOrder TransmitsInOrder GoneHostIsNoticed
