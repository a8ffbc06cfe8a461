SPECIFICATION Spec
CONSTANTS
  BOOT_RAM_REGION_MAX = 3
  UINT_MOD = 4
  Entries <- SomeEntries
  MaxEntries = 3
  LastIgnored = {FALSE}
  REG = 2
  KERNEL_BEGIN_SECTOR = 5
  KERNEL_MAX_SECTORS_IN_SIZE = 2
  SYS_KERNEL_LOAD_ADDR = 4
  Phdrs <- KernelPhdrs
  MaxPhdrs = 2
  BYTE = 256
  NIBBLE = 16
  IDT_TABLE_NR = 128
  IRQ_PIC_START = 32
  Devices = {0, 1, 8}
  main_task = main_task
  NULL = NULL
INVARIANTS
  RegionsRight
  KernelInPlace
  BootAssertsHold
PROPERTIES
  OnlyTimerInterrupts
  ComesUp
