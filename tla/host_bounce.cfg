SPECIFICATION FairSpec
CONSTANTS
  MaxPlugs = 2
  MaxGlitches = 0
  MaxBounces = 2
  DropIsJoint = TRUE
PROPERTIES
  Reenumerated
