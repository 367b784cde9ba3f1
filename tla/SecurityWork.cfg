SPECIFICATION SWSpec
CONSTANTS
  Writers = {"w1", "w2"}
  Step = {"scan"}
  Identities = {"now", "before"}
  Receipts <- ScanReceipts
  Events <- AllEvents
  MaxEpoch = 3
  NoUnit = NoUnit
  NoReceipt = NoReceipt
  Sessions = {s1, s2}
  Plans = {p1, p2}
  Results = {"passed"}
  Blocked = Blocked
  ActsFor <- OneAuthor
  Recorded = "now"
  None = None
  MaxRevision = 2
  Findings = {"f1"}
  Sources = {"repair", "counter"}
  Proves <- RepairProves
  Refutes <- CounterRefutes
  Requests <- Asked
  Reviewers = {"author", "other"}
  Author = "author"
  Horizon = 1
  Lease = 1
  MaxEvents = 4
  MaxReceipts = 4
  MaxRevoked = 1
SYMMETRY Symmetry
CHECK_DEADLOCK FALSE
INVARIANTS DurableInOrder BegunNeedsProof OneProofOneRevision ClosedIsProved
PROPERTIES OutcomeSpec RecordGrows LapsedForGood
