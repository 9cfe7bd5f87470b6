\* The peer sends a fixed number of messages.
SPECIFICATION FairSpec
CONSTANTS
  Lens <- MCLens
  HdrLen = 3
  MTU = 12
  HasRecv = {TRUE, FALSE}
  Faults = {"msg", "append", "send"}
INVARIANTS TotalExact Intact NothingWaits
PROPERTIES ImplementsOrderedDelivery AllTaken
CHECK_DEADLOCK FALSE
