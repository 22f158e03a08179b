SPECIFICATION FairSpec
CONSTANTS
  Faults = {"slow", "hasty"}
  MaxFaults = 2
  ErrorCounts = 5
PROPERTIES
  Recovers
