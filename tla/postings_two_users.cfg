SPECIFICATION Spec
CONSTANTS
  Absent = Absent
  Keep = Keep
  u1 = u1
  u2 = u2
  v1 = v1
  v2 = v2
  Devices = {v1, v2}
  Users = {u1, u2}
  UserOf <- TwoUsers
  Habits <- WriterOwner
  Docs = {d1, d2}
  Forms = {f1}
  Tasks = {t1, t2}
  MaxQueue = 1
  MaxFetch = 1
  Rejectable = {}
  Faults = {}
SYMMETRY Perms
INVARIANTS OwnPostingsOnly AuthorKept
