SPECIFICATION Spec
CONSTANTS
  Absent = Absent
  Keep = Keep
  Blank = Blank
  a1 = a1
  a2 = a2
  Accounts = {a1, a2}
  Names = {n1}
  LastDoc <- OneEach
  Habits = {"photo", "rename", "google"}
  Faults = {"auth", "encode", "put", "url", "fetch", "refuse", "kill"}
  MaxForms = 1
  MaxQueue = 1
INVARIANTS TypeOK LinkedPhotoStored ProfilesApart UpdatesOfTheirUser
