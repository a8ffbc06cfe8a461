SPECIFICATION Spec
CONSTANTS
  BYTE = 16
  NIBBLE = 4
  Creators = {1, 2, 3}
  GDT_TABLE_SIZE = 5
  TASK_SIZE = 5000
  TSS_SIZE = 26
  NULL = NULL
INVARIANT
  ZeroMeansUsable
