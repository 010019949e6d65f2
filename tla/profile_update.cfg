SPECIFICATION Spec
CONSTANTS
  Absent = Absent
  Keep = Keep
  Blank = Blank
  a1 = a1
  a2 = a2
  Accounts = {a1}
  Names = {n1, n2}
  LastDoc <- SignUpLast
  Habits = {"rename"}
  Faults = {}
  MaxForms = 1
  MaxQueue = 1
INVARIANTS UpdateIsShown
