SPECIFICATION Spec
CONSTANTS
  here = here there = there
  Procs = {here, there}
  MaxEvents = 1
  MaxCommands = 4
  MaxFaults = 1
SYMMETRY Terminals
INVARIANTS
  OptOutHolds
  RotateForgets
  AskedOnce
\* Nothing is left to do when no command is started.
CHECK_DEADLOCK FALSE
