SPECIFICATION Spec
CONSTANTS
  Tasks = {main_task, a}
  boot = main_task
  Versions = 3
INVARIANTS
  FlagsRight
  ListsNotTorn
PROPERTY
  TicksForever
