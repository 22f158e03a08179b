SPECIFICATION Spec
CONSTANTS
  MaxCmds = 2
  CmdPackets = 1
  Faults = {"zlp"}
INVARIANTS
  XferCntTrue
