---------------------------- MODULE DependencyCase ----------------------------
(* The data of a TLC instance of DependencyCheck: one package, a declaration *)
(* that must be resolved and one that names its version, both of the main    *)
(* scope.  What comes under `late` is a source of the record that no         *)
(* proposal names, and speaks against the dependency or says that none has   *)
(* changed.  What comes under `side` is known to the finding alone.          *)
EXTENDS Naturals

CONSTANTS advice, late, side, fit, test1, test2, tree, ship  \* the references

CaseRefs == {advice, late, side, fit, test1, test2, tree, ship}

Proposal(id, version) == [id |-> id, scope |-> "main", version |-> version, named |-> {advice, fit}]
CaseProposals == {Proposal("p1", "dyn"), Proposal("p2", "v1")}

Instance(id) == [id |-> id, scope |-> "main", version |-> "v1", known |-> TRUE, source |-> tree]
Tree == [kind |-> "RESOLVED", subject |-> 1, whole |-> TRUE,
         packages |-> {Instance("i1"), Instance("i2")}]
Grown(owners) ==
  [kind |-> "inventory", whole |-> TRUE, listing |-> Tree, owners |-> owners,
   occurs |-> {[instance |-> "i1", declared |-> "dyn", scope |-> "main", version |-> "v1"]}]

Advice(match) == [kind |-> "advisory", whole |-> TRUE, version |-> "v1",
                  rows |-> {[match |-> match, at |-> 0], [match |-> match, at |-> 1]}]
Test(dep, good) == [kind |-> "regression", whole |-> TRUE, dep |-> dep, version |-> "v1", good |-> good]
FitTest(good) == [kind |-> "compatibility", whole |-> TRUE, version |-> "v1", good |-> good]
Shipping(good) == [kind |-> "delivery-scope", whole |-> TRUE, good |-> good]
Unchanged == [kind |-> "scope", whole |-> TRUE, good |-> FALSE]

CaseInventories == {Tree}
CaseSources == CaseRefs \ {fit, side}
CaseFacts ==
  [r \in CaseRefs |->
     CASE r = advice -> {[Advice("UNAFFECTED") EXCEPT !.rows = {}]}
       [] r = late -> {Advice("AFFECTED"), FitTest(FALSE), Test("p1", FALSE), Shipping(TRUE), Unchanged}
       [] r = side -> {Advice("AFFECTED")}
       [] r = fit -> {FitTest(TRUE)}
       [] r = test1 -> {Test("p1", TRUE)}
       [] r = test2 -> {Test("p2", TRUE)}
       [] r = tree -> {Grown([i \in {"i1", "i2"} |-> IF i = "i1" THEN "p1" ELSE "p2"]),
                         Grown([i \in {"i2"} |-> "p2"])}
       [] r = ship -> {Shipping(FALSE)}]
CaseMoments == [r \in CaseRefs |-> CASE r \in {late, tree} -> {0, 1}
                                     [] r \in {advice, fit, test1, ship} -> {1}
                                     [] r = test2 -> {0}
                                     [] r = side -> {2}]
CaseRoute(design, delivery) ==
  [decided |-> TRUE, ok |-> TRUE, checks |-> {design},
   risk |-> {design, delivery}, others |-> {"reviews:independent"}]
=============================================================================
