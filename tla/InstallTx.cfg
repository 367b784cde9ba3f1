SPECIFICATION ToolSpec
CONSTANTS
  Last = 3
  LastSkill = 1
  Shared = {1}
  Retired = {2}
  Kit = {v1, v2}
  Bare = Bare
  Mine = Mine
  Absent = Absent
  NoTx = NoTx
  Commands = {"install", "uninstall", "rollback", "roll-forward"}
  Afterwards = {}
  MaxCrashes = 1
  MaxEdits = 0
INVARIANTS  UndoAvailable NothingStranded NeverNeedsHuman
PROPERTY LinksAsFound
