SPECIFICATION FairSpec
CONSTANTS
  a = a
  b = b
  a1 = a1
  a2 = a2
  b1 = b1
  ta = ta
  tb = tb
  fs_read = fs_read
  long_name = long_name
  Null = Null
  Node <- MCNode
  Caller <- TwoSides
  home <- HomesSides
  Transport <- MCTransport
  owner <- MCOwner
  peer <- MCPeer
  Name <- OneName
  NameLen <- OneNameLen
  RespLen <- OneRespLen
  METHOD_LEN = 2
  BufSize = 2
  SeqMax = 3
  ChanCap = 4
  Polled = {}
  Binds <- BindsAB
  Registers <- RegistersAB
  Faults = {"alloc", "link"}
  MaxCalls = 1
PROPERTIES
  ImplementsContract
  CallReturns
