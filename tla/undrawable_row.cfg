SPECIFICATION Spec
CONSTANTS
  Absent = Absent
  Keep = Keep
  u1 = u1
  u2 = u2
  v1 = v1
  v2 = v2
  Devices = {v1}
  Users = {u1}
  UserOf <- OneUser
  Habits <- Everything
  Docs = {d1}
  Forms = {f1}
  Tasks = {t1}
  MaxQueue = 1
  MaxFetch = 2
  Rejectable = {}
  Faults = {}
INVARIANT ListsDrawable
