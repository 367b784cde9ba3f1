SPECIFICATION Spec
CONSTANTS
  Issue = {i1, i2}
  Tolerated = {i2}
  Docs = {d1, d2}
  Observation <- Reviews
  MaxIterations = 2
  None = None
  MaxGates = 3
  MaxClaims = 1
  MaxEdits = 1
  MaxCrashes = 1
SYMMETRY Symmetry
INVARIANTS AcceptedIsResolved ClosedByAGate FreshHitsBlock
PROPERTY VerdictSpec
