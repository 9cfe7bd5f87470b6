SPECIFICATION Spec
CONSTANTS
  a = a
  b = b
  a1 = a1
  a2 = a2
  b1 = b1
  ta = ta
  tb = tb
  fs_read = fs_read
  long_name = long_name
  Null = Null
  Node <- MCNode
  Caller <- OneCaller
  home <- Homes1
  Transport <- MCTransport
  owner <- MCOwner
  peer <- MCPeer
  Name <- TwoNames
  NameLen <- TwoNameLen
  RespLen <- TwoRespLen
  METHOD_LEN = 2
  BufSize = 2
  SeqMax = 3
  ChanCap = 2
  Polled = {ta}
  Binds <- BindsA
  Registers <- RegistersB
  Faults = {"alloc", "link"}
  MaxCalls = 3
INVARIANTS
  PendingExact
  AtMostOnce
  OutcomeTruthful
