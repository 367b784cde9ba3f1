SPECIFICATION LiveEdits
CONSTANTS
  Last = 2
  LastSkill = 1
  Shared = {}
  Retired = {}
  Kit = {v1}
  Bare = Bare
  Mine = Mine
  Absent = Absent
  NoTx = NoTx
  Commands = {"install", "uninstall", "roll-forward"}
  Afterwards = {"roll-forward"}
  MaxCrashes = 1
  MaxEdits = 2
PROPERTIES DeletesSpareEdits RemovalSparesLinks CommandEnds RecoveryResolves
