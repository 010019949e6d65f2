SPECIFICATION Spec
CONSTANTS
  Absent = Absent
  Keep = Keep
  u1 = u1
  u2 = u2
  v1 = v1
  v2 = v2
  Devices = {v1, v2}
  Users = {u1}
  UserOf <- OneUser
  Habits <- WriterEditor
  Docs = {d1}
  Forms = {f1}
  Tasks = {t1}
  MaxQueue = 1
  MaxFetch = 1
  Rejectable = {"add", "form", "delete"}
  Faults = {"kill", "put", "url", "encode", "fetch", "load"}
INVARIANTS TypeOK LinkHasPhoto ChainsAwaited UpdateScreenSafe OrderInv ShownComplete
PROPERTIES ImplementsBoard AnnouncedKept
