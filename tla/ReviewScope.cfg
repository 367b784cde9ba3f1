SPECIFICATION Spec
CONSTANTS
  None = None
  X = X
  Y = Y
  D1 = D1
  D2 = D2
  i1 = i1
  Section = {1, 2, 3, 4, 5}
  Outline <- MCOutline
  Known = {X, Y}
  External = {}
  Texts <- MCTexts
  FirstText <- MCFirst
  FirstDep = "plan"
  Deps = {"plan", "replan"}
  Versions = {1, 2}
  Issue = {i1}
  Where <- MCWhere
  At <- MCAt
  MaxIterations = 3
  MaxEdits = 1
  MaxSent = 2
  MaxReviews = 3
  MaxCrashes = 1
INVARIANT CoherentPass
PROPERTY VerifiedWasShown
CHECK_DEADLOCK FALSE
