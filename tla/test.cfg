SPECIFICATION FairSpec
CONSTANTS
  outp <- MCoutp
  inp <- MCinp
  Boards <- MCBoards
  MaxOuter = 3
  MaxWiring = 2
INVARIANTS
  IInv
  Passed
  Blamed
  Released
PROPERTIES
  Decided
