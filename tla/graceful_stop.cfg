SPECIFICATION Spec
CONSTANTS
  Hello = Hello
  Users = {u1}
  Targets = {t1}
  MaxPending = 1
  MaxWrites = 1
  MaxReads = 1
  Faults = {"finish"}
PROPERTY GracefulStopsDesirable
CHECK_DEADLOCK FALSE
