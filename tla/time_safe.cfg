SPECIFICATION Spec
CONSTANTS
  StkSize = 16
  TimeSize = 32
  Period = 11
  SlackTicks = 1
  Fine = 5
  Unit = 2
  Early = 1
  MaxArr = 3
  Others = {t1, t2}
  Aheads = {0, 3, 9}
  Latency = 1
  MaxPause = 1
SYMMETRY Symmetric
INVARIANTS
  IInv
  ClockTrue
  NotForgotten
PROPERTIES
  InOrder
