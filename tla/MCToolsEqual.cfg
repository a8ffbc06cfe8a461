SPECIFICATION ToolsSpec
CONSTANTS
  INT_MAX = 127
  MaxFmt = 1
  ArgInts <- SomeInts
  Chars = {"a"}
  MaxText = 1
  MemBytes = 6
  Bytes = {0, 1, 2}
  Nodes = {n1}
  Lists = {l1}
  NULL = NULL
INVARIANT
  StrEqualRight
