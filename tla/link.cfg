SPECIFICATION FairSpec
CONSTANTS
  MaxCmds = 3
  CmdPackets = 2
  Faults = {"nak", "stall", "lost", "ack_lost", "silent", "babble"}
INVARIANTS
  IInv
  NoBadCallback
  Delivered
  FreshResponse
PROPERTIES
  ImplementsCmdRsp
  Resolved
  OtherInterruptsCleared
