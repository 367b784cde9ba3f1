SPECIFICATION Spec
CONSTANTS
  None = None
  X = X
  Y = Y
  D1 = D1
  D2 = D2
  i1 = i1
  Section = {1, 2}
  Outline <- OneDocument
  Known = {X, Y}
  External = {}
  Texts <- OneTexts
  FirstText <- OneFirst
  Deps = {"plan"}
  FirstDep = "plan"
  Versions = {2}
  Issue = {1, 2}
  Where <- EachIn2
  At <- EachIn2
  MaxIterations = 3
  MaxEdits = 1
  MaxSent = 4
  MaxReviews = 3
  MaxCrashes = 0
PROPERTY NeverRepeats
CHECK_DEADLOCK FALSE
