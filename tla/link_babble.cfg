SPECIFICATION FairSpec
CONSTANTS
  MaxCmds = 1
  CmdPackets = 1
  Faults = {"babble"}
PROPERTIES
  InterruptsCleared
