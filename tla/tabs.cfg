SPECIFICATION MCFairSpec
CONSTANTS
  CAD = CAD
  Currencies = {CAD, INR}
  One = One
  Amounts = {One, Ten}
  Texts = {One, Ten, NoNumber}
  MaxRequests = 4
  Absent = Absent
  Keep = Keep
  job = job
  Users = {u1}
  Forms = {job}
  MaxFetch = 2
  MaxPicks = 2
  MaxForms = 2
  Faults = {"refuse", "put", "url", "load", "kill"}
  Docs = {1, 2}
  Visible = 1
INVARIANTS TypeOK RowsNotOlder DetailIsTapped FilterKept SpinnerOff PhotoOfItsForm PicturesExist PictureOfThisList
PROPERTIES ConvertShows
