SPECIFICATION PartsSpec
CONSTANTS
  StkSize = 8
  Timeouts = {3, 20}
  MaxGap = 7
  MaxElapsed = 30
  RingSize = 8
  Counters = 32
  Starts = {0, 29}
  Texts <- Texts_
  MaxPrints = 2
  Strings <- Strings_
  Decimals = {7, 22}
  MaxWrites = 2
  MaxMisses = 3
  MemSize = 9
  Block = 4
  Align = 2
  IntBits = 6
  ShortBits = 5
  CharBits = 4
  Conversions <- Conversions_
  MaxSize = 7
  MaxStr = 3
  CrcStarts = {0, 65535, 7439}
  CrcBytes = {0, 1, 90, 128, 255}
  Keys = {1, 2, 3}
  MaxNr = 6
  Kinds <- Kinds_
  CmdBytes = 32
  NpDepth = 8
INVARIANTS
  Timely
  InOrder
  Shown
  MemoryRight
  Sorted
  LibRight
  RegistersSound
PROPERTIES
  Drained
  PortKept
CHECK_DEADLOCK FALSE
