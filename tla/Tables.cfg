\* A radix tree that gave up growing is not used any more.
SPECIFICATION TablesSpec
CONSTANTS
  Key <- MCKeys
  Value = {1, 2}
  Hash <- MCHashes
  Entry = {e1, e2, e3}
  Cap = 2
  Reader = {r1}
  Null = Null
  BIT_LEVEL = 1
  Index = {0, 1, 2, 5}
  Stamp = {1, 2}
  MaxNodes = 6
  MaxRoom = 3
  NULL = NULL
INVARIANTS RingsIntact LookupExact RadixShape UpperBoundExact
PROPERTIES ImplementsTable LookupReturns
CHECK_DEADLOCK FALSE
