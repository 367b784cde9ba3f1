SPECIFICATION PSpec
CONSTANTS
  Refs <- CaseRefs
  Facts <- CaseFacts
  Versions = {"v1"}
  Proposals <- CaseProposals
  Inventories <- CaseInventories
  Sources <- CaseSources
  FindingRefs = {late, side, tree}
  Route <- CaseRequirements
  Window = 1
  Horizon = 2
  Moments <- CaseMoments
  Subjects = 2
  Gathered = 1
  Nothing = Nothing
  None = None
  Absent = Absent
  Garbled = Garbled
  Odd = Odd
  NoVersion = NoVersion
  Blank = Blank
  Picture = {a, b}
  Contract = {k1, k2}
  Evidence = {e1}
  Context = {c1}
  Prototype = {proto}
  Region = {r1}
  MaxEdits = 2
  MaxKept = 2
  advice = advice
  late = late
  side = side
  fit = fit
  test1 = test1
  test2 = test2
  tree = tree
  ship = ship
SYMMETRY Symmetry
CHECK_DEADLOCK FALSE
INVARIANTS FindingBlocksAdoption ClosedUncontradicted JudgedAsLooked BoundHasEvidence DisplacedForGood
PROPERTIES AdoptionNeverRipens UserPartKept InstallSettles ServedWasJudged
