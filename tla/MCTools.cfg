SPECIFICATION ToolsSpec
CONSTANTS
  INT_MAX = 127
  MaxFmt = 4
  ArgInts <- SomeInts
  Chars = {"a", "%"}
  MaxText = 2
  MemBytes = 5
  Bytes = {0, 1, 2}
  Nodes = {n1, n2, n3, n4, n5}
  Lists = {l1, l2}
  NULL = NULL
INVARIANTS
  OutputRight
  BufferEnough
  HelpersRight
  Linked
PROPERTIES
  CallsReturn
  PopReturns
