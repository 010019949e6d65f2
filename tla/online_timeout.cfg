SPECIFICATION SilentSpec
CONSTANTS
  Hello = Hello
  Users = {u1}
  Targets = {t1}
  MaxPending = 1
  MaxWrites = 0
  MaxReads = 2
  Faults = {"token", "break"}
PROPERTY OnlineStateDecided
CHECK_DEADLOCK FALSE
