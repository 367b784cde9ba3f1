SPECIFICATION LSpec
CONSTANTS
  Proc = {p1, p2}
  Plan = Plan
  Credential = Credential
  Bindings = {Binding}
  Gates = {Gate}
  Content <- MCContent
  Plans = {A, B}
  NoPlan = NoPlan
  MaxSecond = 2
  DistinctSeconds = TRUE
  Absent = Absent
  Nobody = Nobody
  NoView = NoView
  NoJournal = NoJournal
  MaxCrashes = 1
  MaxEdits = 0
INVARIANTS NeverInvalid JournalResolvable
PROPERTIES AtomicSpec GateUnderCurrentPlan RollbackRemovesAll
SYMMETRY Symmetric
