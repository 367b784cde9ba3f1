--------------------------- MODULE MCReviewScope ----------------------------
(* Two design documents: X has a global section with the boundary marker, the *)
(* owner D1 and a part of it that uses D2; Y has one with D2.                 *)
EXTENDS ReviewScope, TLC
CONSTANTS X, Y, D1, D2, i1
Line(d, p, t) == [doc |-> d, parent |-> p, title |-> t]
MCOutline == <<Line(X, None, None), Line(X, None, D1), Line(X, 2, None),
               Line(Y, None, None), Line(Y, None, D2)>>
Body(def, use, m, n) == [defines |-> def, mentions |-> def \cup use, marked |-> m, clear |-> TRUE, rev |-> n]
Unclear == [Body({D2}, {}, FALSE, 1) EXCEPT !.clear = FALSE]
MCFirst == <<Body({}, {}, TRUE, 1), Body({D1}, {}, FALSE, 1), Body({}, {D2}, FALSE, 1),
             Body({}, {}, TRUE, 1), Body({D2}, {}, FALSE, 1)>>
MCTexts == <<{MCFirst[1], Body({}, {}, TRUE, 2)},
             {MCFirst[2], Body({D1}, {}, FALSE, 2)},
             {MCFirst[3], None},
             {MCFirst[4]},
             {MCFirst[5], Body({D2}, {}, FALSE, 2), Unclear}>>
MCWhere == i1 :> {3}
MCAt == i1 :> {2, 3}

(* One document with a global section and one owner, and two issues in it.    *)
OneDocument == <<Line(X, None, None), Line(X, None, D1)>>
OneFirst == <<MCFirst[1], MCFirst[2]>>
OneTexts == <<{OneFirst[1]}, MCTexts[2]>>
EachIn2  == [i \in Issue |-> {2}]

ASSUME InstanceAssumption == ReportsNameOwners
=============================================================================
