SPECIFICATION Spec
CONSTANTS
  Day = 3
  WeekDays = 2
  CycleDays = 4
  FirstStep = 1
  Scenarios <- MCScenarios
  Undefined = Undefined
  Refused = Refused
  Stop = 36
  MaxTime = 40
  MaxWork = 6
INVARIANTS TimesAgree CapacityAgrees
CHECK_DEADLOCK FALSE
