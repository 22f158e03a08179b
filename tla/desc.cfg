SPECIFICATION DescSpec
CONSTANTS
  Configurations <- Kinds
INVARIANTS
  DescTypeOK
  NothingInherited
  LargestKept
