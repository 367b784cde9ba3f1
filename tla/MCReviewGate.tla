---------------------------- MODULE MCReviewGate ----------------------------
(* TLC instances of ReviewGate. *)
EXTENDS ReviewGate, TLC

(* One clean review and one that reports everything for each content; the     *)
(* clean one may leave an issue out of what it covers.                       *)
Review(d, hits, covered, up) ==
    [doc |-> d, reports |-> hits, covers |-> covered, upstream |-> up]

Reviews ==
    {Review(d, {}, Issue, FALSE) : d \in Docs} \cup {Review(d, Issue, Issue, FALSE) : d \in Docs}
        \cup {Review(d, {}, {}, TRUE) : d \in Docs}

(* Contents are only ever compared. *)
Symmetry == Permutations(Docs)
=============================================================================
