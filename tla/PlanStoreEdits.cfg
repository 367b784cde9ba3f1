SPECIFICATION LiveEditedSpec
CONSTANTS
  Proc = {p1}
  Plan = Plan
  Credential = Credential
  Bindings = {}
  Gates = {Gate}
  Content = {a, b}
  Absent = Absent
  Nobody = Nobody
  NoView = NoView
  NoJournal = NoJournal
  MaxCrashes = 2
  MaxEdits = 1
PROPERTIES ForeignStaysPut OverwritesOnlySeen LockReleased RecoveryCompletes
