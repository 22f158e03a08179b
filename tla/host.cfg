SPECIFICATION FairSpec
CONSTANTS
  MaxPlugs = 3
  MaxGlitches = 2
  MaxBounces = 2
  DropIsJoint = FALSE
INVARIANTS
  IInv
  SameDevice
  ChannelsSound
PROPERTIES
  NoStaleConnection
  UnplugNoticed
  Quiesces
  Enumerated
