SPECIFICATION FairSpec
CONSTANTS
  Faults = {"lost", "ack_lost", "in_lost", "nak", "stall", "slow", "hasty"}
  MaxFaults = 3
  ErrorCounts = 5
INVARIANTS
  IInv
  RightAnswer
  Agreed
PROPERTIES
  RequestEnds
  Configures
