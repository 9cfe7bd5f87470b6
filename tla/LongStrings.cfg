\* A node may die of a NULL pointer, and then stops.
SPECIFICATION Spec
CHECK_DEADLOCK FALSE
CONSTANTS
  Method = {"shell.exec", "fs.read", "log.put"}
  Params <- MCParams
  Results <- MCResults
  Strings <- MCStrings
  Blobs <- MCBlobs
  Words <- MCWords
  Base = 5
INVARIANT AnyParamsArrive
