SPECIFICATION ToolSpec
CONSTANTS
  Last = 3
  LastSkill = 0
  Shared = {1}
  Retired = {2}
  Kit = {v1}
  Bare = Bare
  Mine = Mine
  Absent = Absent
  NoTx = NoTx
  Commands = {"install", "uninstall"}
  Afterwards = {}
  MaxCrashes = 1
  MaxEdits = 0
PROPERTIES CleanupHarmless
