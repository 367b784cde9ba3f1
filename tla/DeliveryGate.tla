---------------------------- MODULE DeliveryGate ----------------------------
(***************************************************************************)
(* The verdict of the delivery gate (src/aek/application/delivery_gate.py) *)
(* over the route, the comparison of identities, the plan of the review's  *)
(* evidence (review_evidence.py) and one row of evidence per requirement.  *)
(***************************************************************************)
EXTENDS FiniteSets

Statuses == {"PASS", "FAIL", "PENDING", "NOT_APPLICABLE"}
Verdicts == {"READY", "NOT_READY", "NEEDS_HUMAN_REVIEW"}

(***************************************************************************)
(* The order in which a review gathers evidence                            *)
(***************************************************************************)
MemoryPaths == {"stop", "mcp", "cli", "bounded_text"}
GraphActions == {"CHECK_STATUS", "REFRESH_ONCE", "USE_GRAPH", "BOUNDED_SOURCE"}

\* Memory first, then a graph known to be fresh or bounded reading of source;
\* anything else blocks the review.
ReadyForReview(memory, graph) ==
  memory # "stop" /\ graph \in {"USE_GRAPH", "BOUNDED_SOURCE"}

(***************************************************************************)
(* The identity a receipt was made for against the current one: every      *)
(* required component must be there and agree.                             *)
(***************************************************************************)
Compared(expected, current, required) ==
  IF required = {} \/ ~(required \subseteq DOMAIN expected) THEN "INVALID"
  ELSE IF \A c \in required : c \in DOMAIN current /\ current[c] = expected[c]
  THEN "VALID" ELSE "STALE"

(***************************************************************************)
(* The verdict                                                             *)
(***************************************************************************)
Human == {"reviews:independent", "reviews:human"}

\* The checks of the route and those of the governance, whichever lists them.
RequiredOfTheRoute(route) == route.checks \cup route.others
Required(route) == route.checks \cup route.risk \cup route.others

\* A requirement nobody gave evidence for is pending.
Row(evidence, q) ==
  IF q \in DOMAIN evidence THEN evidence[q] ELSE [status |-> "PENDING", refs |-> {}]

\* Evidence for a requirement nobody stated, and a pass without a reference,
\* are refused before any verdict.
Composable(route, evidence) ==
  /\ route.decided
  /\ DOMAIN evidence \subseteq Required(route)
  /\ \A q \in DOMAIN evidence : evidence[q].status = "PASS" => evidence[q].refs # {}

Verdict(route, identity, ready, evidence) ==
  LET rows == [q \in Required(route) |-> Row(evidence, q).status]
      pending == {q \in Required(route) : rows[q] = "PENDING"}
      failed == {q \in Required(route) : rows[q] \notin {"PENDING", "PASS"}}
      sound == route.ok /\ identity = "VALID" /\ ready /\ failed = {}
  IN IF sound /\ pending = {} THEN "READY"
     ELSE IF sound /\ pending \cap Human # {} THEN "NEEDS_HUMAN_REVIEW"
     ELSE "NOT_READY"
=============================================================================
