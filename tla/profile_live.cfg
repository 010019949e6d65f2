SPECIFICATION FairSpec
CONSTANTS
  Absent = Absent
  Keep = Keep
  Blank = Blank
  a1 = a1
  a2 = a2
  Accounts = {a1, a2}
  Names = {n1}
  LastDoc <- OneEach
  Habits = {"leave", "retype"}
  Faults = {"kill"}
  MaxForms = 1
  MaxQueue = 1
PROPERTIES SignUpLands
