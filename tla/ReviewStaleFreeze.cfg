SPECIFICATION Spec
CONSTANTS
  Issue = {i1}
  Tolerated = {}
  Docs = {d1, d2}
  Observation <- Reviews
  MaxIterations = 2
  None = None
  MaxGates = 3
  MaxClaims = 1
  MaxEdits = 1
  MaxCrashes = 0
PROPERTY OldReviewNeverFreezes
