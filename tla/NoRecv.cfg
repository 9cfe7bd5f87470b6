\* The peer sends a fixed number of messages.
SPECIFICATION FairSpec
CONSTANTS
  Lens <- MCLens
  HdrLen = 3
  MTU = 12
  HasRecv = {FALSE}
  Faults = {}
PROPERTIES RecvOptional
CHECK_DEADLOCK FALSE
