SPECIFICATION LSpec
CONSTANTS
  Proc = {p1, p2}
  Plan = Plan
  Credential = Credential
  Bindings = {}
  Gates = {}
  Content <- MCContent
  Plans = {A, B}
  NoPlan = NoPlan
  MaxSecond = 0
  DistinctSeconds = FALSE
  Absent = Absent
  Nobody = Nobody
  NoView = NoView
  NoJournal = NoJournal
  MaxCrashes = 0
  MaxEdits = 0
PROPERTIES RollbackRemovesAll
