SPECIFICATION FairSpec
CONSTANTS
  install = install first_step = first_step
  ComponentKeys = {install}
  StepKeys = {first_step}
  UnitsPerDay = 2
  Retention = 1
  MaxPass = 1
  MaxTime = 4
  MaxEvents = 2
  MaxFaults = 2
\* A process without its database never does anything again.
CHECK_DEADLOCK FALSE
INVARIANTS
  NothingCountedTwice
  DayIsWhole
PROPERTIES
  EventuallyCounted
