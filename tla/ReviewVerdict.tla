--------------------------- MODULE ReviewVerdict ---------------------------
(* What the review gate of one stage promises: the state of each issue and    *)
(* whether the stage is accepted change together, in one step, and an issue   *)
(* is closed by the acceptance of the stage and by nothing else.              *)
CONSTANTS Issue, Blocking

VARIABLES state, accepted

Unresolved == {"OPEN", "FIXED", "REOPENED"}

(* Where one round of claims and observations can take an issue. *)
Moves == [none     |-> {"none", "OPEN"},
          OPEN     |-> {"OPEN", "FIXED", "VERIFIED", "REOPENED"},
          REOPENED |-> {"REOPENED", "FIXED", "VERIFIED"},
          FIXED    |-> {"FIXED", "VERIFIED", "REOPENED"},
          VERIFIED |-> {"VERIFIED", "REOPENED"},
          CLOSED   |-> {"CLOSED", "REOPENED"}]

Resolved(s) == \A i \in Blocking : s[i] \notin Unresolved

VInit == state = [i \in Issue |-> "none"] /\ accepted = FALSE

(* A round is recorded.  A stage it takes back to what was accepted before is *)
(* accepted again.                                                           *)
Record == /\ state' \in [Issue -> DOMAIN Moves]
          /\ \A i \in Issue : state'[i] \in Moves[state[i]]
          /\ accepted' \in BOOLEAN
          /\ accepted' => Resolved(state')

Pass == /\ Resolved(state)
        /\ state' = [i \in Issue |-> IF state[i] = "VERIFIED" THEN "CLOSED" ELSE state[i]]
        /\ accepted' = TRUE

Reject == accepted' = FALSE /\ UNCHANGED state

VNext == Record \/ Pass \/ Reject
VSpec == VInit /\ [][VNext]_<<state, accepted>>
=============================================================================
