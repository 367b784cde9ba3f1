--------------------------- MODULE DependencyProofs ---------------------------
(* What the dependency decisions can be relied on for, for any references,    *)
(* reports, versions, declarations, inventories, routes and ages.             *)
EXTENDS DependencyCheck, TLAPS

-----------------------------------------------------------------------------
(* What is registered was reported under its reference, not before it was     *)
(* gathered; the record was made for a subject that has been.                 *)

StoreTrue ==
  \A r \in Refs : held[r] # Nothing =>
    /\ held[r].facts \in Facts[r]
    /\ held[r].at \in Moments[r] /\ held[r].at \in Nat /\ held[r].at <= now
    /\ held[r].subject \in Nat /\ held[r].subject <= subject
Consented == \A c \in consents : c.until \in Nat

CaseInv == /\ now \in Nat /\ subject \in Nat
           /\ drafted.subject \in Nat /\ drafted.subject <= subject
           /\ StoreTrue /\ Consented
           /\ held = [r \in Refs |-> held[r]]

LEMMA CaseInit == DCInit => CaseInv
BY DEF DCInit, CaseInv, StoreTrue, Consented

LEMMA CaseStep ==
  ASSUME DCAssumption, CaseInv, [DCNext]_dcVars
  PROVE  CaseInv'
<1> USE DEF CaseInv, StoreTrue, Consented
<1>1. ASSUME NEW r \in Refs, NEW f \in Facts[r], NEW at \in Moments[r], Register(r, f, at)
      PROVE  CaseInv'
  <2>1. at \in Nat BY DEF DCAssumption
  <2>2. /\ at <= now /\ UNCHANGED <<consents, gate, drafted, subject, now>>
        /\ held' = [held EXCEPT ![r] = [facts |-> f, at |-> at, subject |-> subject]]
    BY <1>1 DEF Register
  <2>3. held'[r] = [facts |-> f, at |-> at, subject |-> subject]
        /\ \A q \in Refs : q # r => held'[q] = held[q]
    BY <2>2
  <2>4. StoreTrue'
    <3> SUFFICES ASSUME NEW q \in Refs, held'[q] # Nothing
                 PROVE  /\ held'[q].facts \in Facts[q]
                        /\ held'[q].at \in Moments[q] /\ held'[q].at \in Nat /\ held'[q].at <= now
                        /\ held'[q].subject \in Nat /\ held'[q].subject <= subject
      BY <2>2
    <3>1. CASE q = r BY <2>1, <2>2, <2>3, <3>1
    <3>2. CASE q # r BY <2>3, <3>2
    <3> QED BY <3>1, <3>2
  <2> QED BY <2>2, <2>4
<1>2. ASSUME NEW p \in Proposals, Accept(p) PROVE CaseInv'
  <2>1. UNCHANGED <<held, gate, drafted, subject, now>>
        /\ \E v, refs :
             consents' = consents \cup {[dep |-> p.id, version |-> v, evidence |-> refs,
                                          subject |-> subject, until |-> now + 1]}
    BY <1>2 DEF Accept
  <2>2. Consented' BY <2>1
  <2> QED BY <2>1, <2>2
<1>3. ASSUME UNCHANGED <<held, consents, drafted, subject, now>> PROVE CaseInv' BY <1>3
<1>4. CASE Draft BY <1>4 DEF Draft
<1>5. CASE Move BY <1>5 DEF Move
<1>6. CASE Tick BY <1>6 DEF Tick
<1>7. ASSUME NEW asked, NEW cited, NEW identity, NEW ready, NEW cut,
             Compose(asked, cited, identity, ready, cut)
      PROVE  CaseInv'
  <2>1. UNCHANGED <<held, consents, drafted, subject, now>> BY <1>7 DEF Compose
  <2> QED BY <2>1, <1>3
<1>8. CASE UNCHANGED dcVars BY <1>3, <1>8 DEF dcVars
<1>9. ASSUME NEW cut \in BOOLEAN, Close(cut) PROVE CaseInv' BY <1>7, <1>9 DEF Close
<1> QED BY <1>1, <1>2, <1>4, <1>5, <1>6, <1>8, <1>9 DEF DCNext

LEMMA CaseHolds == ASSUME DCAssumption PROVE DCSpec => []CaseInv
<1>1. DCInit => CaseInv BY CaseInit
<1>2. CaseInv /\ [DCNext]_dcVars => CaseInv' BY CaseStep
<1> QED BY <1>1, <1>2, PTL DEF DCSpec

-----------------------------------------------------------------------------
(* What a decision says.                                                      *)

Dynamic(p) == p.version \notin Versions \cup {NoVersion}

Broken(refs, p) ==
  \E r \in Applicable(refs, p) : ~Attested(r) \/ \E o \in Occurrences(r, p) : ~Placed(r, p, o)
Chosen(refs, p) == {o.version : o \in UNION {Occurrences(r, p) : r \in Applicable(refs, p)}}

(* A dynamic version is resolved when all that is said of it can be relied on *)
(* and says the same.                                                        *)
LEMMA ResolvedIs ==
  ASSUME NEW refs, NEW p, NEW v, v # NoVersion
  PROVE  Resolution(refs, p).version = v <=> ~Broken(refs, p) /\ Chosen(refs, p) = {v}
<1> DEFINE b == Broken(refs, p)
           c == Chosen(refs, p)
<1>1. Resolution(refs, p).version =
        IF ~b /\ \E u \in c : c = {u} THEN CHOOSE u \in c : TRUE ELSE NoVersion
  BY DEF Resolution, Broken, Chosen
<1> HIDE DEF b, c
<1>2. ASSUME NEW u, c = {u} PROVE (CHOOSE w \in c : TRUE) = u BY <1>2
<1>3. ASSUME ~b, c = {v} PROVE Resolution(refs, p).version = v BY <1>1, <1>2, <1>3
<1>4. ASSUME Resolution(refs, p).version = v PROVE ~b /\ c = {v}
  <2>1. ~b /\ \E u \in c : c = {u} BY <1>1, <1>4
  <2>2. PICK u \in c : c = {u} BY <2>1
  <2>3. u = v BY <1>1, <1>2, <1>4, <2>1, <2>2
  <2> QED BY <2>1, <2>2, <2>3
<1> QED BY <1>3, <1>4 DEF b, c

LEMMA TargetIs ==
  ASSUME NEW refs, NEW p
  PROVE  /\ Dynamic(p) => /\ Target(refs, p).version = Resolution(refs, p).version
                          /\ Target(refs, p).refs = Applicable(refs, p)
         /\ ~Dynamic(p) => /\ Target(refs, p).version = p.version
                           /\ Target(refs, p).refs = {}
BY DEF Target, Dynamic, Resolution

(* A version that is known is one of those there are, and the one declared.   *)
LEMMA VersionIs ==
  ASSUME NEW refs, NEW p, Target(refs, p).version # NoVersion
  PROVE  /\ Target(refs, p).version \in Versions
         /\ p.version \in Versions => Target(refs, p).version = p.version
<1>1. PICK v : v = Target(refs, p).version OBVIOUS
<1>2. CASE Dynamic(p)
  <2>1. Resolution(refs, p).version = v BY <1>1, <1>2, TargetIs
  <2>2. ~Broken(refs, p) /\ Chosen(refs, p) = {v} BY <1>1, <2>1, ResolvedIs
  <2>3. PICK r \in Applicable(refs, p) : \E o \in Occurrences(r, p) : o.version = v
    <3>1. v \in Chosen(refs, p) BY <2>2
    <3> QED BY <3>1 DEF Chosen
  <2>4. v \in Versions BY <2>2, <2>3 DEF Broken, Placed
  <2> QED BY <1>1, <1>2, <2>4 DEF Dynamic
<1>3. CASE ~Dynamic(p) BY <1>3, TargetIs DEF Dynamic
<1> QED BY <1>2, <1>3

(* What makes a dependency adoptable. *)
Adoptable(p, v, refs, missing) ==
  /\ v # NoVersion /\ missing = {}
  /\ \A r \in refs : Sound(r)
  /\ About(refs, "advisory", v) # {}
  /\ \A r \in About(refs, "advisory", v) : ~Doubtful(r)
  /\ About(refs, "compatibility", v) # {}
  /\ \A r \in About(refs, "compatibility", v) : held[r].facts.good
  /\ drafted.risk \/ (\E r \in About(refs, "advisory", v) : Affected(r))
       => Accepting(p, refs, v) # {}

LEMMA AdoptableIs ==
  ASSUME NEW p, NEW t, NEW refs, NEW missing
  PROVE  DesignOn(p, t, refs, missing).status = "ADOPTABLE"
           <=> Adoptable(p, t.version, refs, missing)
<1> DEFINE v == t.version
           sound == {r \in refs : Sound(r)}
           advised == About(sound, "advisory", v)
           advisories == {r \in advised : ~Doubtful(r)}
           fits == About(sound, "compatibility", v)
           compatible == {r \in fits : held[r].facts.good}
           accepted == Accepting(p, refs, v)
           unread == missing # {} \/ (drafted.risk /\ accepted = {})
           gap == Gap(refs, missing) \/ unread \/ advisories # advised
           affected == \E r \in advisories : Affected(r)
           known == advisories # {} /\ compatible # {} /\ ~gap
<1>1. DesignOn(p, t, refs, missing).status =
        IF v = NoVersion THEN "PENDING" ELSE IF fits # compatible THEN "REJECTED"
        ELSE IF known /\ (affected => accepted # {}) THEN "ADOPTABLE" ELSE "PENDING"
  BY DEF DesignOn
<1>2. DesignOn(p, t, refs, missing).status = "ADOPTABLE" <=>
        v # NoVersion /\ fits = compatible /\ known /\ (affected => accepted # {})
  <2> HIDE DEF v, fits, compatible, known, affected, accepted
  <2> QED BY <1>1
<1>3. known <=> /\ advisories # {} /\ compatible # {} /\ advisories = advised
                /\ missing = {} /\ (drafted.risk => accepted # {})
                /\ \A r \in refs : Sound(r)
  <2> HIDE DEF advisories, advised, compatible, accepted
  <2> QED BY DEF Gap
<1>4. CASE \A r \in refs : Sound(r)
  <2>1. sound = refs BY <1>4
  <2>2. fits = compatible <=> \A r \in About(refs, "compatibility", v) : held[r].facts.good
    <3>1. fits = About(refs, "compatibility", v) BY <2>1
    <3> HIDE DEF sound, fits
    <3> QED BY <3>1
  <2>3. advised = About(refs, "advisory", v) BY <2>1
  <2>4. fits = About(refs, "compatibility", v) BY <2>1
  <2> HIDE DEF v, sound, advised, fits, accepted, known
  <2>5. advisories = advised <=> \A r \in advised : ~Doubtful(r) OBVIOUS
  <2> QED BY <1>2, <1>3, <1>4, <2>2, <2>3, <2>4, <2>5 DEF Adoptable, v, accepted
<1>5. CASE ~ \A r \in refs : Sound(r)
  <2> HIDE DEF v, fits, compatible, known, affected, accepted, advisories, advised
  <2> QED BY <1>2, <1>3, <1>5 DEF Adoptable
<1> QED BY <1>4, <1>5

(* What makes it deliverable. *)
CountedAs(ls, p, k) == UNION {Instances(ls, l, p) : l \in {m \in ls : m.kind = k}}
Scoping(refs) == OfKind({r \in refs : Sound(r)}, "delivery-scope")
TestsOf(p, v, refs) ==
  {r \in About({q \in refs : Sound(q)}, "regression", v) : held[r].facts.dep = p.id}

LEMMA DeliverableIs ==
  ASSUME NEW p, NEW v, NEW refs, NEW design, NEW ls,
         DeliveryOn(p, v, refs, design, ls).status = "PASS"
  PROVE  /\ design.status = "ADOPTABLE" /\ v # NoVersion
         /\ ~Misplaced(ls, p)
         /\ CountedAs(ls, p, "RESOLVED") # {}
         /\ (\E r \in Scoping(refs) : held[r].facts.good) => CountedAs(ls, p, "SHIPPED") # {}
         /\ \A i \in CountedAs(ls, p, "RESOLVED") \cup CountedAs(ls, p, "SHIPPED") : i.version = v
         /\ TestsOf(p, v, refs) # {} /\ \A r \in TestsOf(p, v, refs) : held[r].facts.good
<1> DEFINE valid == {r \in refs : Sound(r)}
           scope == OfKind(valid, "delivery-scope")
           tests == {r \in About(valid, "regression", v) : held[r].facts.dep = p.id}
           resolved == UNION {Instances(ls, l, p) : l \in {m \in ls : m.kind = "RESOLVED"}}
           packed == UNION {Instances(ls, l, p) : l \in {m \in ls : m.kind = "SHIPPED"}}
           counted == resolved \cup packed
           shipped == \E r \in scope : held[r].facts.good
           failed == \/ design.status = "REJECTED"
                     \/ \E i \in counted : i.version \notin {NoVersion, v} /\ v # NoVersion
                     \/ \E r \in tests : ~held[r].facts.good
           pending == \/ design.status # "ADOPTABLE" \/ v = NoVersion
                      \/ Misbound(refs) \/ Misattributed(ls) \/ Misplaced(ls, p)
                      \/ resolved = {} \/ (shipped /\ packed = {})
                      \/ \E i \in counted : i.version = NoVersion \/ ~i.known
                      \/ scope = {} \/ Cardinality({held[r].facts.good : r \in scope}) > 1
                      \/ tests = {}
<1>1. DeliveryOn(p, v, refs, design, ls).status =
        IF failed THEN "FAIL" ELSE IF pending THEN "PENDING" ELSE "PASS"
  BY DEF DeliveryOn
<1>2. ~failed /\ ~pending
  <2> HIDE DEF failed, pending
  <2> QED BY <1>1
<1>3. /\ design.status = "ADOPTABLE" /\ v # NoVersion /\ ~Misplaced(ls, p)
      /\ resolved # {} /\ (shipped => packed # {}) /\ tests # {}
  <2> HIDE DEF resolved, packed, counted, shipped, scope, tests, failed
  <2> QED BY <1>2
<1>4. (\A i \in counted : i.version = v) /\ \A r \in tests : held[r].facts.good
  <2> HIDE DEF resolved, packed, counted, shipped, scope, tests
  <2> QED BY <1>2
<1> QED BY <1>3, <1>4 DEF CountedAs, Scoping, TestsOf

-----------------------------------------------------------------------------
(* A closure and the evidence.                                               *)

LEMMA AllAreRefs == ASSUME DCAssumption PROVE AllRefs \subseteq Refs
BY DEF DCAssumption, AllRefs

(* What is told of a version resolved over all references is told again over  *)
(* those that the decision sees.                                             *)
LEMMA SeenResolves ==
  ASSUME NEW p, NEW refs, NEW seen, Applicable(seen, p) = Applicable(refs, p)
  PROVE  Target(seen, p) = Target(refs, p)
BY DEF Target, Resolution

LEMMA ExtraIsSeen ==
  ASSUME NEW refs, NEW v, NEW r \in refs, Kind(r) \in {"advisory", "compatibility"},
         held[r].facts.version = v
  PROVE  r \in Extra(refs, v)
BY DEF Extra, About, OfKind

LEMMA DeliveryTarget ==
  ASSUME NEW p \in Proposals
  PROVE  Target(DeliverySees(p), p) = Target(Readable(AllRefs), p)
<1> DEFINE refs == Readable(AllRefs)
           t == Target(refs, p)
           seen == DeliverySees(p)
<1>1. seen = Readable(p.named) \cup t.refs \cup Extra(refs, t.version) BY DEF DeliverySees
<1>2. Readable(p.named) \subseteq refs BY DEF Readable, AllRefs
<1>3. t.refs \subseteq refs
  <2>1. t.refs = {} \/ t.refs = Applicable(refs, p) BY TargetIs
  <2> HIDE DEF refs, t
  <2> QED BY <2>1 DEF Applicable, OfKind
<1>4. Extra(refs, t.version) \subseteq refs
  <2> HIDE DEF refs, t
  <2> QED BY DEF Extra, About, OfKind
<1>5. seen \subseteq refs
  <2> HIDE DEF seen, refs, t
  <2> QED BY <1>1, <1>2, <1>3, <1>4
<1>6. CASE Dynamic(p)
  <2>1. t.refs = Applicable(refs, p) BY <1>6, TargetIs
  <2> HIDE DEF seen, refs, t
  <2>2. Applicable(seen, p) = Applicable(refs, p) BY <1>1, <1>5, <2>1 DEF Applicable, OfKind
  <2>3. Target(seen, p) = Target(refs, p) BY <2>2, SeenResolves
  <2> QED BY <2>3 DEF seen, refs
<1>7. CASE ~Dynamic(p) BY <1>7 DEF Dynamic, Target
<1> QED BY <1>6, <1>7

LEMMA Delivered ==
  ASSUME DCAssumption, CaseInv, NEW p \in Proposals, DeliveryOf(p).status = "PASS"
  PROVE  Uncontradicted(p)
<1> DEFINE all == Readable(AllRefs)
           v == Target(all, p).version
           seen == DeliverySees(p)
           ls == Trusted(all)
           refs == {r \in all : Sound(r)}
           shipped == \E r \in OfKind(refs, "delivery-scope") : held[r].facts.good
<1>1. DeliveryOn(p, v, all, Design(p, seen), ls).status = "PASS" BY DEF DeliveryOf
<1>2. /\ Design(p, seen).status = "ADOPTABLE" /\ v # NoVersion /\ ~Misplaced(ls, p)
      /\ CountedAs(ls, p, "RESOLVED") # {}
      /\ (\E r \in Scoping(all) : held[r].facts.good) => CountedAs(ls, p, "SHIPPED") # {}
      /\ \A i \in CountedAs(ls, p, "RESOLVED") \cup CountedAs(ls, p, "SHIPPED") : i.version = v
      /\ TestsOf(p, v, all) # {} /\ \A r \in TestsOf(p, v, all) : held[r].facts.good
  <2> DEFINE d == Design(p, seen)
  <2> HIDE DEF all, v, d, ls
  <2> QED BY <1>1, DeliverableIs DEF d
<1>3. Adoptable(p, v, seen, p.named \ seen)
  <2>1. Target(seen, p).version = v BY DeliveryTarget
  <2>2. Design(p, seen) = DesignOn(p, Target(seen, p), seen, p.named \ seen) BY DEF Design
  <2> HIDE DEF seen, v
  <2> QED BY <1>2, <2>1, <2>2, AdoptableIs
<1>4. v \in Versions /\ (p.version \in Versions => v = p.version) BY <1>2, VersionIs
(* Advice and tests on the version are seen, whichever reference they have. *)
<1>5. Extra(all, v) \subseteq seen BY DEF DeliverySees
<1>6. ASSUME NEW k \in {"advisory", "compatibility"}
      PROVE  About(refs, k, v) = About(seen, k, v)
  <2>1. seen \subseteq all
    <3>1. seen = Readable(p.named) \cup Target(all, p).refs \cup Extra(all, v) BY DEF DeliverySees
    <3>2. Readable(p.named) \subseteq all BY DEF Readable, AllRefs
    <3>3. Target(all, p).refs = {} \/ Target(all, p).refs = Applicable(all, p) BY TargetIs
    <3> HIDE DEF all, seen, v
    <3>4. Applicable(all, p) \subseteq all /\ Extra(all, v) \subseteq all
      BY DEF Applicable, Extra, About, OfKind
    <3> QED BY <3>1, <3>2, <3>3, <3>4
  <2>2. \A r \in seen : Sound(r) BY <1>3 DEF Adoptable
  <2> HIDE DEF all, seen, v
  <2>3. ASSUME NEW r \in About(refs, k, v) PROVE r \in About(seen, k, v)
    <3>1. r \in all /\ Kind(r) = k /\ held[r].facts.version = v BY <2>3 DEF About, OfKind
    <3>2. r \in Extra(all, v) BY <3>1, ExtraIsSeen
    <3> QED BY <1>5, <3>1, <3>2 DEF About, OfKind
  <2>4. ASSUME NEW r \in About(seen, k, v) PROVE r \in About(refs, k, v)
    BY <2>1, <2>2, <2>4 DEF About, OfKind
  <2> QED BY <2>3, <2>4
<1>7. \A r \in About(refs, "advisory", v) :
         \A w \in Rows(r) : w.match = "UNAFFECTED" \/ \E c \in consents : c.dep = p.id /\ c.until > now
  <2> SUFFICES ASSUME NEW r \in About(refs, "advisory", v), NEW w \in Rows(r), w.match # "UNAFFECTED"
               PROVE  \E c \in consents : c.dep = p.id /\ c.until > now
    OBVIOUS
  <2>1. r \in About(seen, "advisory", v) BY <1>6
  <2>2. w.match \in MatchStatus
    <3>1. r \in all /\ Kind(r) = "advisory" BY DEF About, OfKind
    <3>2. r \in Refs /\ held[r] # Nothing BY <3>1, AllAreRefs DEF Readable
    <3>3. held[r].facts \in Facts[r] BY <3>2 DEF CaseInv, StoreTrue
    <3> QED BY <3>1, <3>2, <3>3 DEF DCAssumption, Kind, Rows
  <2>3. w.match # "UNKNOWN" BY <1>3, <2>1 DEF Adoptable, Doubtful
  <2>4. Affected(r) BY <2>2, <2>3 DEF Affected, MatchStatus
  <2>5. Accepting(p, seen, v) # {}
    <3> HIDE DEF seen, v
    <3> QED BY <1>3, <2>1, <2>4 DEF Adoptable
  <2> QED BY <2>5 DEF Accepting
<1>8. About(refs, "advisory", v) # {} /\ About(refs, "compatibility", v) # {}
      /\ \A r \in About(refs, "compatibility", v) : held[r].facts.good
  <2> HIDE DEF seen, refs, v
  <2> QED BY <1>3, <1>6 DEF Adoptable
<1>9. \A k \in {"RESOLVED"} \cup (IF shipped THEN {"SHIPPED"} ELSE {}) :
         \E l \in ls : l.kind = k /\ \E i \in l.packages : i.version = v
  <2>1. ASSUME NEW k \in {"RESOLVED", "SHIPPED"}, CountedAs(ls, p, k) # {}
        PROVE  \E l \in ls : l.kind = k /\ \E i \in l.packages : i.version = v
    <3> HIDE DEF ls, v, all
    <3>1. PICK i : i \in CountedAs(ls, p, k) BY <2>1
    <3>2. PICK l \in ls : l.kind = k /\ i \in Instances(ls, l, p) BY <3>1 DEF CountedAs
    <3>3. i.version = v BY <1>2, <3>1
    <3>4. i \in l.packages BY <3>2 DEF Instances
    <3> QED BY <3>2, <3>3, <3>4
  <2>2. shipped <=> \E s \in Scoping(all) : held[s].facts.good BY DEF Scoping
  <2> HIDE DEF shipped, ls, v, all
  <2>3. CountedAs(ls, p, "RESOLVED") # {} BY <1>2
  <2>4. shipped => CountedAs(ls, p, "SHIPPED") # {} BY <1>2, <2>2
  <2> QED BY <2>1, <2>3, <2>4
<1>10. \A l \in ls : \A i \in l.packages :
         i.scope = p.scope /\ Owners(ls, i.id) \in {{}, {p.id}} => i.version = v
  <2> SUFFICES ASSUME NEW l \in ls, NEW i \in l.packages,
                      i.scope = p.scope, Owners(ls, i.id) \in {{}, {p.id}}
               PROVE  i.version = v
    OBVIOUS
  <2>1. ~Guessed(ls, l, p, i) BY <1>2 DEF Misplaced
  <2>2. i \in Instances(ls, l, p) BY <2>1 DEF Instances
  <2>3. l.kind \in {"RESOLVED", "SHIPPED"} BY DEF Trusted, Counted
  <2> HIDE DEF ls, v
  <2>4. i \in CountedAs(ls, p, "RESOLVED") \cup CountedAs(ls, p, "SHIPPED")
    BY <2>2, <2>3 DEF CountedAs
  <2> QED BY <1>2, <2>4
<1>11. (\E r \in About(refs, "regression", v) : held[r].facts.dep = p.id)
       /\ \A r \in About(refs, "regression", v) : held[r].facts.dep = p.id => held[r].facts.good
  <2>1. TestsOf(p, v, all) = {r \in About(refs, "regression", v) : held[r].facts.dep = p.id}
    BY DEF TestsOf
  <2> HIDE DEF refs, v, all
  <2> QED BY <1>2, <2>1
<1>12. Trusted(refs) = ls
  <2>1. refs \subseteq all OBVIOUS
  <2>2. ASSUME NEW l \in ls PROVE SourcesOf(l) \subseteq refs BY DEF Trusted
  <2> HIDE DEF refs, all
  <2> QED BY <2>1, <2>2 DEF Trusted
<1>13. Speaks(p, v, refs)
  <2> HIDE DEF v, refs, ls
  <2> QED BY <1>4, <1>7, <1>8, <1>9, <1>10, <1>11, <1>12 DEF Speaks
<1> HIDE DEF v
<1> QED BY <1>4, <1>13 DEF Uncontradicted

(* What closes.                                                               *)
LEMMA ReadyMeansPass ==
  ASSUME NEW identity, NEW ready, NEW rows, NEW q \in Required(Route),
         Verdict(Route, identity, ready, rows) = "READY"
  PROVE  q \in DOMAIN rows /\ rows[q].status = "PASS"
<1> DEFINE said == [x \in Required(Route) |-> Row(rows, x).status]
           pending == {x \in Required(Route) : said[x] = "PENDING"}
           failed == {x \in Required(Route) : said[x] \notin {"PENDING", "PASS"}}
           sound == Route.ok /\ identity = "VALID" /\ ready /\ failed = {}
<1>1. Verdict(Route, identity, ready, rows) =
        IF sound /\ pending = {} THEN "READY"
        ELSE IF sound /\ pending \cap Human # {} THEN "NEEDS_HUMAN_REVIEW" ELSE "NOT_READY"
  BY DEF Verdict
<1>2. sound /\ pending = {}
  <2> HIDE DEF sound, pending
  <2> QED BY <1>1
<1>3. said[q] = "PASS" BY <1>2
<1>4. Row(rows, q).status = "PASS" BY <1>3
<1> QED BY <1>4 DEF Row

(* While a closure holds that had to have the delivery check, no sound        *)
(* evidence known to the record, under whichever reference, speaks against a  *)
(* dependency: recover() recomputes the decision over all references, so what *)
(* the proposals do not name counts as well.  The closure is one by an answer *)
(* that came with its decisions, whatever the gate was composed on: an answer *)
(* above its limit comes without, and then the evidence that no dependency    *)
(* changed is enough, proposals or not.                                      *)
THEOREM ClosureIsUncontradicted ==
  ASSUME DCAssumption, DeliveryCheck \in Required(Route)
  PROVE  DCSpec => []ClosedUncontradicted
<1>1. CaseInv => ClosedUncontradicted
  <2> SUFFICES ASSUME CaseInv, StillClosed(FALSE), NEW p \in Proposals PROVE Uncontradicted(p)
    BY DEF ClosedUncontradicted
  <2>1. DeliveryCheck \in DOMAIN gate.rows /\ gate.rows[DeliveryCheck].status = "PASS"
    BY ReadyMeansPass DEF StillClosed
  <2>2. Assessed(DeliveryCheck, FALSE).status = "PASS"
    BY <2>1 DEF StillClosed, Backed, Recomputed, Covered
  <2>3. DeliveryOf(p).status = "PASS"
    <3> DEFINE rows == {DeliveryOf(x) : x \in Proposals}
    <3>1. Assessed(DeliveryCheck, FALSE) = Combined(rows, "FAIL", "PASS")
      BY DEF Assessed, DesignCheck, DeliveryCheck
    <3>2. DeliveryOf(p) \in rows OBVIOUS
    <3> HIDE DEF rows
    <3>3. Combined(rows, "FAIL", "PASS").status = "PASS" BY <2>2, <3>1
    <3> QED BY <3>2, <3>3 DEF Combined, AllOf
  <2> QED BY <2>3, Delivered
<1>2. DCSpec => []CaseInv BY CaseHolds
<1> QED BY <1>1, <1>2, PTL

-----------------------------------------------------------------------------
(* A finding and the design decision.                                        *)

LEMMA ApplicableIn ==
  ASSUME NEW S, NEW T, S \subseteq T, NEW p
  PROVE  /\ Applicable(S, p) \subseteq Applicable(T, p)
         /\ Chosen(S, p) \subseteq Chosen(T, p)
         /\ ~Broken(T, p) => ~Broken(S, p)
BY DEF Applicable, OfKind, Chosen, Broken

LEMMA DesignedIs ==
  ASSUME NEW p, DesignOf(p).status = "ADOPTABLE"
  PROVE  LET seen == DesignSees(p)
         IN Adoptable(p, Target(seen, p).version, seen, p.named \ seen)
<1> DEFINE seen == DesignSees(p)
           v == Target(seen, p).version
<1>1. DesignOf(p) = DesignOn(p, Target(seen, p), seen, p.named \ seen) BY DEF DesignOf, Design
<1>2. Adoptable(p, v, seen, p.named \ seen)
  <2> HIDE DEF seen
  <2> QED BY <1>1, AdoptableIs
<1> QED BY <1>2

(* What makes a version known from the references of a proposal and a finding *)
(* makes the record know the same one.                                       *)
LEMMA RecordKnowsVersion ==
  ASSUME DCAssumption, InventoriesRecorded, CaseInv, NEW p \in Proposals,
         NEW v, v # NoVersion,
         NEW w, w # NoVersion,
         Target(Readable(p.named \cup FindingRefs), p).version = v,
         Target(DesignSees(p), p).version = w
  PROVE  v = w /\ Target(Recorded, p).version = w
<1> DEFINE shown == Readable(p.named \cup FindingRefs)
           seen == DesignSees(p)
<1>1. CASE ~Dynamic(p) BY <1>1, TargetIs
<1>2. CASE Dynamic(p)
  <2>1. /\ Resolution(shown, p).version = v /\ Resolution(seen, p).version = w
        /\ Target(Recorded, p).version = Resolution(Recorded, p).version
        /\ Target(Recorded, p).refs = Applicable(Recorded, p)
    BY <1>2, TargetIs
  <2>2. Chosen(shown, p) = {v} /\ ~Broken(shown, p) /\ Chosen(seen, p) = {w} /\ ~Broken(seen, p)
    <3>1. Resolution(shown, p).version = v BY <2>1
    <3>2. Resolution(seen, p).version = w BY <2>1
    <3>3. ~Broken(shown, p) /\ Chosen(shown, p) = {v} BY <3>1, ResolvedIs
    <3>4. ~Broken(seen, p) /\ Chosen(seen, p) = {w} BY <3>2, ResolvedIs
    <3> QED BY <3>3, <3>4
  <2>3. Applicable(Recorded, p) \subseteq seen BY <2>1 DEF DesignSees
  <2>4. Applicable(shown, p) \subseteq Applicable(Recorded, p)
    <3> SUFFICES ASSUME NEW r \in Applicable(shown, p) PROVE r \in Applicable(Recorded, p) OBVIOUS
    <3>1. r \in p.named \cup FindingRefs /\ held[r] # Nothing /\ held[r].facts.kind = "inventory"
          /\ Occurrences(r, p) # {}
      BY DEF Applicable, OfKind, Readable, Kind
    <3>2. r \in Refs BY <3>1 DEF DCAssumption
    <3>3. held[r].facts \in Facts[r] BY <3>1, <3>2 DEF CaseInv, StoreTrue
    <3>4. r \in Sources BY <3>1, <3>3 DEF InventoriesRecorded
    <3> QED BY <3>1, <3>4 DEF Recorded, Applicable, OfKind, Readable, Kind
  <2>6. Applicable(Recorded, p) \subseteq Applicable(seen, p)
    <3> HIDE DEF seen
    <3> QED BY <2>3 DEF Applicable, OfKind
  <2> HIDE DEF shown, seen
  <2>7. Chosen(shown, p) \subseteq Chosen(Recorded, p) BY <2>4 DEF Chosen
  <2>8. Chosen(Recorded, p) \subseteq Chosen(seen, p) BY <2>6 DEF Chosen
  <2>9. ~Broken(Recorded, p) BY <2>2, <2>6 DEF Broken
  <2>10. v = w /\ Chosen(Recorded, p) = {w} BY <2>2, <2>7, <2>8
  <2>11. Resolution(Recorded, p).version = w BY <2>9, <2>10, ResolvedIs
  <2> QED BY <2>1, <2>10, <2>11
<1> QED BY <1>1, <1>2

(* A dependency that the report shows as affected on advice that the record   *)
(* lists or the proposal names is adopted by the same record only with the    *)
(* user's consent: inspect_evidence() adds the advice among the sources to    *)
(* what the proposal names.  It does not add what the finding names, though   *)
(* _dependency_verification() reads it: advice under such a reference shows   *)
(* the dependency as affected and stops nothing.  The inventories that the    *)
(* proposals and the finding name have to be among the sources: the report    *)
(* reads them, and the version that the record resolves decides which advice  *)
(* is added.                                                                 *)
THEOREM FindingsReachDecisions ==
  ASSUME DCAssumption, InventoriesRecorded
  PROVE  DCSpec => []FindingBlocksAdoption
<1>1. CaseInv => FindingBlocksAdoption
  <2> SUFFICES ASSUME CaseInv, NEW p \in Proposals, NEW cut \in BOOLEAN,
                      Showing(p) \cap (Sources \cup p.named) # {},
                      Assessed(DesignCheck, cut).status = "PASS"
               PROVE  \E c \in consents : c.dep = p.id /\ c.until > now
    BY DEF FindingBlocksAdoption
  <2>0. ~cut
    <3>1. drafted.finding BY DEF Showing
    <3>2. Untouched.status # "PASS" BY <3>1 DEF Untouched
    <3> QED BY <3>2 DEF Assessed
  <2>1. DesignOf(p).status = "ADOPTABLE"
    <3> DEFINE rows == {DesignOf(x) : x \in Proposals}
    <3>1. Assessed(DesignCheck, cut) = Combined(rows, "REJECTED", "ADOPTABLE")
      BY <2>0 DEF Assessed
    <3>2. DesignOf(p) \in rows OBVIOUS
    <3> HIDE DEF rows
    <3> QED BY <3>1, <3>2 DEF Combined, AllOf
  <2> DEFINE seen == DesignSees(p)
             shown == Readable(p.named \cup FindingRefs)
  <2>2. PICK w : w = Target(seen, p).version OBVIOUS
  <2>3. Adoptable(p, w, seen, p.named \ seen) BY <2>1, <2>2, DesignedIs
  <2>4. PICK v : v = Target(shown, p).version OBVIOUS
  <2>5. PICK r \in Sources \cup p.named :
          v # NoVersion /\ r \in About(shown, "advisory", v) /\ Affected(r)
    BY <2>4 DEF Showing, Affected
  <2>6. w # NoVersion BY <2>3 DEF Adoptable
  <2>7. v = w /\ Target(Recorded, p).version = w
    BY <2>2, <2>4, <2>5, <2>6, RecordKnowsVersion
  <2>8. r \in About(shown, "advisory", w) /\ Affected(r) BY <2>5, <2>7
  <2>9. r \in seen
    <3>1. r \in p.named \cup FindingRefs /\ held[r] # Nothing /\ Kind(r) = "advisory"
          /\ held[r].facts.version = w
      BY <2>8 DEF About, OfKind, Readable
    <3>2. CASE r \in p.named BY <3>1, <3>2 DEF DesignSees, Readable
    <3>3. CASE r \in Sources
      <4>1. r \in Recorded BY <3>1, <3>3 DEF Recorded, Readable
      <4>2. r \in Extra(Recorded, w) BY <3>1, <4>1, ExtraIsSeen
      <4> QED BY <2>7, <4>2 DEF DesignSees
    <3> QED BY <3>2, <3>3
  <2>10. r \in About(seen, "advisory", w)
    <3> HIDE DEF seen
    <3> QED BY <2>8, <2>9 DEF About, OfKind
  <2>11. Accepting(p, seen, w) # {}
    <3> HIDE DEF seen
    <3> QED BY <2>3, <2>8, <2>10 DEF Adoptable
  <2> QED BY <2>11 DEF Accepting
<1>2. DCSpec => []CaseInv BY CaseHolds
<1> QED BY <1>1, <1>2, PTL

-----------------------------------------------------------------------------
(* Time and the design decision.                                             *)

(* What counts later counted before, once it is registered. *)
LEMMA SoundBefore ==
  ASSUME DCAssumption, CaseInv, UNCHANGED <<held, subject>>, now' = now + 1,
         NEW r \in Refs, held[r] # Nothing, Sound(r)'
  PROVE  Sound(r)
<1>1. held[r].at \in Nat /\ held[r].at <= now /\ now \in Nat BY DEF CaseInv, StoreTrue
<1>2. Window \in Nat BY DEF DCAssumption
<1>3. held' = held /\ subject' = subject OBVIOUS
<1>4. Sound(r)' <=> /\ held'[r].subject = subject' /\ held'[r].facts.whole
                   /\ held'[r].at <= now' /\ now' - held'[r].at <= Window
  BY DEF Sound, Recent
<1>5. held[r].subject = subject /\ held[r].facts.whole
  <2>1. held'[r].subject = subject' /\ held'[r].facts.whole BY <1>4
  <2> QED BY <1>3, <2>1
<1>6. now + 1 - held[r].at <= Window
  <2>1. now' - held'[r].at <= Window BY <1>4
  <2> QED BY <1>1, <1>2, <1>3, <2>1
<1>7. now - held[r].at <= Window BY <1>1, <1>2, <1>6
<1> QED BY <1>1, <1>5, <1>7 DEF Sound, Recent

(* The references and what they say stay; less of it counts. *)
LEMMA ResolutionBefore ==
  ASSUME DCAssumption, CaseInv, UNCHANGED <<held, subject>>, now' = now + 1,
         NEW refs \in SUBSET Refs, \A r \in refs : held[r] # Nothing, NEW p
  PROVE  /\ Applicable(refs, p)' = Applicable(refs, p) /\ Chosen(refs, p)' = Chosen(refs, p)
         /\ ~Broken(refs, p)' => ~Broken(refs, p)
<1>1. \A r : Occurrences(r, p)' = Occurrences(r, p) BY DEF Occurrences
<1>2. Applicable(refs, p)' = Applicable(refs, p) BY <1>1 DEF Applicable, OfKind, Kind
<1>3. Chosen(refs, p)' = Chosen(refs, p) BY <1>1, <1>2 DEF Chosen
<1>4. ASSUME ~Broken(refs, p)' PROVE ~Broken(refs, p)
  <2> SUFFICES ASSUME NEW r \in Applicable(refs, p)
               PROVE  Attested(r) /\ \A o \in Occurrences(r, p) : Placed(r, p, o)
    BY DEF Broken
  <2>1. Attested(r)' /\ \A o \in Occurrences(r, p)' : Placed(r, p, o)' BY <1>2, <1>4 DEF Broken
  <2>2. r \in refs BY DEF Applicable, OfKind
  <2>3. Sound(r)
    <3>1. Sound(r)' BY <2>1 DEF Attested
    <3> QED BY <2>2, <3>1, SoundBefore
  <2>4. Attested(r) BY <2>1, <2>3 DEF Attested
  <2>5. \A o : Placed(r, p, o)' <=> Placed(r, p, o) BY DEF Placed
  <2> QED BY <1>1, <2>1, <2>4, <2>5
<1> QED BY <1>2, <1>3, <1>4

(* A decision to adopt, with what it is taken on. *)
Adopted(p, known, t, seen, v) ==
  /\ known = Recorded /\ t = Target(known, p)
  /\ seen = Readable(p.named) \cup t.refs \cup Extra(known, t.version)
  /\ v = Target(seen, p).version
  /\ Adoptable(p, v, seen, p.named \ seen)

AdoptedFacts ==
  \A q : DesignOf(q).status = "ADOPTABLE" <=> \E known, t, seen, v : Adopted(q, known, t, seen, v)

LEMMA AdoptedIs == AdoptedFacts
<1> SUFFICES ASSUME NEW p
             PROVE  DesignOf(p).status = "ADOPTABLE"
                      <=> \E known, t, seen, v : Adopted(p, known, t, seen, v)
  BY DEF AdoptedFacts
<1>1. PICK known, t : known = Recorded /\ t = Target(known, p) OBVIOUS
<1>2. PICK seen : seen = Readable(p.named) \cup t.refs \cup Extra(known, t.version) OBVIOUS
<1>3. PICK v : v = Target(seen, p).version OBVIOUS
<1>4. DesignSees(p) = seen BY <1>1, <1>2 DEF DesignSees
<1>5. DesignOf(p) = DesignOn(p, Target(seen, p), seen, p.named \ seen)
  BY <1>4 DEF DesignOf, Design
<1>6. DesignOf(p).status = "ADOPTABLE" <=> Adoptable(p, v, seen, p.named \ seen)
  BY <1>3, <1>5, AdoptableIs
<1>7. Adopted(p, known, t, seen, v) <=> Adoptable(p, v, seen, p.named \ seen)
  BY <1>1, <1>2, <1>3 DEF Adopted
<1>8. ASSUME NEW k, NEW u, NEW s, NEW w, Adopted(p, k, u, s, w)
      PROVE  k = known /\ u = t /\ s = seen /\ w = v
  <2>1. k = known /\ u = t BY <1>1, <1>8 DEF Adopted
  <2>2. s = seen BY <1>2, <1>8, <2>1 DEF Adopted
  <2> QED BY <1>3, <1>8, <2>1, <2>2 DEF Adopted
<1> QED BY <1>6, <1>7, <1>8

ResolvedFacts ==
  \A refs, q, u :
    /\ u # NoVersion =>
         (Resolution(refs, q).version = u <=> ~Broken(refs, q) /\ Chosen(refs, q) = {u})
    /\ Chosen(refs, q) = {} => Resolution(refs, q).version = NoVersion

LEMMA ResolvedAll == ResolvedFacts
<1> SUFFICES ASSUME NEW refs, NEW p, NEW u
             PROVE  /\ u # NoVersion =>
                         (Resolution(refs, p).version = u
                            <=> ~Broken(refs, p) /\ Chosen(refs, p) = {u})
                    /\ Chosen(refs, p) = {} => Resolution(refs, p).version = NoVersion
  BY Zenon DEF ResolvedFacts
<1>1. u # NoVersion =>
        (Resolution(refs, p).version = u <=> ~Broken(refs, p) /\ Chosen(refs, p) = {u})
  BY ResolvedIs
<1>2. ASSUME Chosen(refs, p) = {} PROVE Resolution(refs, p).version = NoVersion
  <2>1. Resolution(refs, p).version =
          IF ~Broken(refs, p) /\ \E w \in Chosen(refs, p) : Chosen(refs, p) = {w}
          THEN CHOOSE w \in Chosen(refs, p) : TRUE ELSE NoVersion
    BY DEF Resolution, Broken, Chosen
  <2> QED BY <1>2, <2>1
<1> QED BY <1>1, <1>2

TargetFacts ==
  \A refs, q : /\ Dynamic(q) => /\ Target(refs, q).version = Resolution(refs, q).version
                                /\ Target(refs, q).refs = Applicable(refs, q)
               /\ ~Dynamic(q) => Target(refs, q) = [version |-> q.version, refs |-> {}]

LEMMA TargetAll == TargetFacts
BY TargetIs DEF TargetFacts, Target, Dynamic

LEMMA AdoptedBefore ==
  ASSUME DCAssumption, RowsDated, CaseInv, NEW p \in Proposals,
         UNCHANGED <<held, consents, drafted, subject>>, now' = now + 1,
         (DesignOf(p).status = "ADOPTABLE")'
  PROVE  DesignOf(p).status = "ADOPTABLE"
<1>1. held' = held /\ consents' = consents /\ drafted' = drafted /\ subject' = subject OBVIOUS
<1>2. AdoptedFacts' BY AdoptedIs, PTL
<1>3. PICK known, t, seen, v : Adopted(p, known, t, seen, v)' BY <1>2 DEF AdoptedFacts
<1>4. ResolvedFacts' BY ResolvedAll, PTL
<1>5. TargetFacts' BY TargetAll, PTL
<1>6. Dynamic(p)' = Dynamic(p) BY DEF Dynamic
(* What is registered and what it says stays. *)
<1>7. /\ known = Recorded
      /\ seen = Readable(p.named) \cup t.refs \cup Extra(known, t.version)
  <2>1. Recorded' = Recorded /\ Readable(p.named)' = Readable(p.named) BY <1>1 DEF Recorded, Readable
  <2>2. Extra(known, t.version)' = Extra(known, t.version)
    BY <1>1 DEF Extra, About, OfKind, Kind
  <2>3. known = Recorded' BY <1>3 DEF Adopted
  <2>4. seen = Readable(p.named)' \cup t.refs \cup Extra(known, t.version)' BY <1>3 DEF Adopted
  <2> QED BY <2>1, <2>2, <2>3, <2>4
<1>8. /\ t = Target(known, p)' /\ v = Target(seen, p)'.version
      /\ Adoptable(p, v, seen, p.named \ seen)'
  BY <1>3 DEF Adopted
<1>9. v # NoVersion BY <1>8 DEF Adoptable
<1>10. /\ known \in SUBSET Refs /\ seen \in SUBSET Refs
       /\ \A r \in known \cup seen : held[r] # Nothing
  <2>1. known \subseteq Refs /\ (\A r \in known : held[r] # Nothing)
        /\ Readable(p.named) \subseteq Refs /\ (\A r \in Readable(p.named) : held[r] # Nothing)
    BY <1>7 DEF Recorded, Readable, DCAssumption
  <2>2. Extra(known, t.version) \subseteq known BY DEF Extra, About, OfKind
  <2>3. t.refs \subseteq known
    <3>1. CASE Dynamic(p)
      <4>1. t.refs = Applicable(known, p)' BY <1>5, <1>6, <1>8, <3>1 DEF TargetFacts
      <4> QED BY <4>1 DEF Applicable, OfKind
    <3>2. CASE ~Dynamic(p)
      <4>1. t = [version |-> p.version, refs |-> {}] BY <1>5, <1>6, <1>8, <3>2 DEF TargetFacts
      <4> QED BY <4>1
    <3> QED BY <3>1, <3>2
  <2> QED BY <1>7, <2>1, <2>2, <2>3
<1>11. ASSUME NEW refs \in {known, seen}
       PROVE  /\ Applicable(refs, p)' = Applicable(refs, p) /\ Chosen(refs, p)' = Chosen(refs, p)
              /\ ~Broken(refs, p)' => ~Broken(refs, p)
  BY <1>10, ResolutionBefore
(* So does what the declaration is taken for. *)
<1>12. t.refs = Target(known, p).refs /\ t.version = Target(known, p).version
       /\ Target(seen, p).version = v
  <2>1. CASE ~Dynamic(p)
    <3>1. t = [version |-> p.version, refs |-> {}]
          /\ Target(seen, p)' = [version |-> p.version, refs |-> {}]
      BY <1>5, <1>6, <1>8, <2>1 DEF TargetFacts
    <3>2. Target(known, p) = [version |-> p.version, refs |-> {}]
          /\ Target(seen, p) = [version |-> p.version, refs |-> {}]
      BY <2>1, TargetAll DEF TargetFacts
    <3>3. v = p.version BY <1>8, <3>1
    <3> QED BY <3>1, <3>2, <3>3
  <2>2. CASE Dynamic(p)
    <3>1. t.version = Resolution(known, p)'.version /\ t.refs = Applicable(known, p)'
          /\ Resolution(seen, p)'.version = v
      BY <1>5, <1>6, <1>8, <2>2 DEF TargetFacts
    <3>2. ~Broken(seen, p)' /\ Chosen(seen, p)' = {v}
      <4>1. Resolution(seen, p)'.version = v BY <3>1
      <4> QED BY <1>4, <1>9, <4>1 DEF ResolvedFacts
    <3>3. ~Broken(seen, p) /\ Chosen(seen, p) = {v} BY <1>11, <3>2
    <3>4. Target(seen, p).version = v
      <4>1. Target(seen, p).version = Resolution(seen, p).version BY <2>2, TargetAll DEF TargetFacts
      <4> QED BY <1>9, <3>3, <4>1, ResolvedAll DEF ResolvedFacts
    <3>5. Applicable(known, p) \subseteq Applicable(seen, p)
      <4>1. Applicable(known, p) \subseteq seen BY <1>7, <1>11, <3>1
      <4> QED BY <4>1 DEF Applicable, OfKind
    <3>6. ~Broken(known, p)' /\ ~Broken(known, p)
      <4>1. Applicable(known, p)' \subseteq Applicable(seen, p)' BY <1>11, <3>5
      <4>2. ~Broken(known, p)' BY <3>2, <4>1 DEF Broken
      <4> QED BY <1>11, <4>2
    <3>7. Chosen(known, p) = {} \/ Chosen(known, p) = {v}
      <4>1. Chosen(known, p) \subseteq Chosen(seen, p) BY <3>5 DEF Chosen
      <4> QED BY <3>3, <4>1
    <3>8. Chosen(known, p)' = Chosen(known, p) BY <1>11
    <3>9. Resolution(known, p)'.version = Resolution(known, p).version
      <4>1. CASE Chosen(known, p) = {}
        <5>1. Resolution(known, p).version = NoVersion BY <4>1, ResolvedAll DEF ResolvedFacts
        <5>2. Resolution(known, p)'.version = NoVersion BY <1>4, <3>8, <4>1 DEF ResolvedFacts
        <5> QED BY <5>1, <5>2
      <4>2. CASE Chosen(known, p) = {v}
        <5>1. Resolution(known, p).version = v BY <1>9, <3>6, <4>2, ResolvedAll DEF ResolvedFacts
        <5>2. Resolution(known, p)'.version = v BY <1>4, <1>9, <3>6, <3>8, <4>2 DEF ResolvedFacts
        <5> QED BY <5>1, <5>2
      <4> QED BY <3>7, <4>1, <4>2
    <3>10. Target(known, p).version = Resolution(known, p).version
           /\ Target(known, p).refs = Applicable(known, p)
      BY <2>2, TargetAll DEF TargetFacts
    <3> QED BY <1>11, <3>1, <3>4, <3>9, <3>10
  <2> QED BY <2>1, <2>2
(* Less speaks for it, and what speaks against it does so already. *)
<1>13. \A k : About(seen, k, v)' = About(seen, k, v) BY <1>1 DEF About, OfKind, Kind
<1>14. /\ p.named \ seen = {}
       /\ \A r \in seen : Sound(r)'
       /\ About(seen, "advisory", v) # {}
       /\ \A r \in About(seen, "advisory", v) : ~Doubtful(r)'
       /\ About(seen, "compatibility", v) # {}
       /\ \A r \in About(seen, "compatibility", v) : held[r].facts.good
       /\ drafted.risk \/ (\E r \in About(seen, "advisory", v) : Affected(r)')
            => Accepting(p, seen, v)' # {}
  BY <1>1, <1>8, <1>13 DEF Adoptable
<1>15. \A r \in seen : Sound(r) BY <1>10, <1>14, SoundBefore
<1>16. ASSUME NEW r \in About(seen, "advisory", v) PROVE ~Doubtful(r)
  <2>1. r \in Refs /\ held[r] # Nothing /\ held[r].facts.kind = "advisory"
    BY <1>10 DEF About, OfKind, Kind
  <2>2. /\ held[r].facts \in Facts[r] /\ held[r].at \in Moments[r]
        /\ held[r].at \in Nat /\ held[r].at <= now /\ now \in Nat
    BY <2>1 DEF CaseInv, StoreTrue
  <2>3. ASSUME NEW w \in Rows(r) PROVE Recent(w.at) /\ w.match # "UNKNOWN"
    <3>1. w \in held[r].facts.rows BY DEF Rows
    <3>2. w.at \in Nat /\ w.at <= held[r].at
      BY <2>1, <2>2, <3>1 DEF DCAssumption, RowsDated
    <3>3. w \in Rows(r)' BY <1>1, <3>1 DEF Rows
    <3>4. Recent(w.at)' /\ w.match # "UNKNOWN" BY <1>14, <3>3 DEF Doubtful
    <3>5. now' - w.at <= Window BY <3>4 DEF Recent
    <3>6. Window \in Nat BY DEF DCAssumption
    <3>7. w.at <= now /\ now - w.at <= Window BY <2>2, <3>2, <3>5, <3>6
    <3> QED BY <3>4, <3>7 DEF Recent
  <2> QED BY <2>3 DEF Doubtful
<1>17. \A r : Affected(r)' <=> Affected(r) BY <1>1 DEF Affected, Rows
<1>18. Accepting(p, seen, v)' \subseteq Accepting(p, seen, v)
  <2> SUFFICES ASSUME NEW c \in Accepting(p, seen, v)' PROVE c \in Accepting(p, seen, v) OBVIOUS
  <2>1. /\ c \in consents /\ drafted.risk /\ v # NoVersion
        /\ c.subject = subject /\ c.until > now'
        /\ c.dep = p.id /\ c.version = v /\ c.evidence = seen
    BY <1>1 DEF Accepting
  <2>2. c.until \in Nat /\ now \in Nat BY <2>1 DEF CaseInv, Consented
  <2>3. c.until > now BY <2>1, <2>2
  <2> QED BY <2>1, <2>3 DEF Accepting
<1>19. Adoptable(p, v, seen, p.named \ seen)
  BY <1>9, <1>14, <1>15, <1>16, <1>17, <1>18 DEF Adoptable
<1>20. Adopted(p, known, Target(known, p), seen, v) BY <1>7, <1>12, <1>19 DEF Adopted
<1> QED BY <1>20, AdoptedIs DEF AdoptedFacts

(* Only the move and the clock change the subject or the time. *)
LEMMA Passage ==
  ASSUME [DCNext]_dcVars, now' # now \/ subject' # subject
  PROVE  Move \/ Tick
<1>1. ASSUME NEW r \in Refs, NEW f \in Facts[r], NEW at \in Moments[r], Register(r, f, at)
      PROVE  FALSE
  BY <1>1 DEF Register
<1>2. ASSUME NEW p \in Proposals, Accept(p) PROVE FALSE BY <1>2 DEF Accept
<1>3. ASSUME NEW cut \in BOOLEAN, Close(cut) PROVE FALSE BY <1>3 DEF Close, Compose
<1>4. CASE Draft BY <1>4 DEF Draft
<1>5. CASE UNCHANGED dcVars BY <1>5 DEF dcVars
<1> QED BY <1>1, <1>2, <1>3, <1>4, <1>5 DEF DCNext

(* What the design check says of an answer that is not cut. *)
Whole == Assessed(DesignCheck, FALSE)

LEMMA WholePasses ==
  ASSUME Proposals # {}
  PROVE  Whole.status = "PASS" <=> UpToDate /\ \A p \in Proposals : DesignOf(p).status = "ADOPTABLE"
<1> DEFINE rows == {DesignOf(x) : x \in Proposals}
<1>1. Whole = Combined(rows, "REJECTED", "ADOPTABLE") BY DEF Whole, Assessed
<1>2. AllOf(rows, "REJECTED", "ADOPTABLE") = "PASS"
        <=> \A p \in Proposals : DesignOf(p).status = "ADOPTABLE"
  BY DEF AllOf
<1> HIDE DEF rows
<1>3. Whole.status = IF UpToDate THEN AllOf(rows, "REJECTED", "ADOPTABLE") ELSE "PENDING"
  BY <1>1 DEF Combined
<1> QED BY <1>2, <1>3

(* The design check comes to pass only by new evidence, a new consent or a    *)
(* new record: what evaluate_design_dependency() could not rely on stays a    *)
(* gap when it gets older.  (There has to be a proposal: what says that the   *)
(* dependencies changed may get too old where none is made of them, and where *)
(* the answer is above its limit and comes without decisions, which the       *)
(* property leaves out.  And no row may be dated after the evidence it is in: *)
(* nothing checks that.)                                                     *)
THEOREM NothingRipens ==
  ASSUME DCAssumption, RowsDated, Proposals # {}
  PROVE  DCSpec => AdoptionNeverRipens
<1> DEFINE A == (now' # now \/ subject' # subject) /\ held' = held /\ consents' = consents
                /\ drafted' = drafted /\ Whole.status # "PASS" => Whole'.status # "PASS"
<1>1. Whole.status = "PASS"
        <=> UpToDate /\ \A p \in Proposals : DesignOf(p).status = "ADOPTABLE"
  BY WholePasses
<1>2. (Whole.status = "PASS"
         <=> UpToDate /\ \A p \in Proposals : DesignOf(p).status = "ADOPTABLE")'
  BY <1>1, PTL
<1>3. ASSUME CaseInv, [DCNext]_dcVars, now' # now \/ subject' # subject, held' = held,
             consents' = consents, drafted' = drafted, Whole'.status = "PASS"
      PROVE  Whole.status = "PASS"
  <2>1. UpToDate' /\ \A p \in Proposals : (DesignOf(p).status = "ADOPTABLE")' BY <1>2, <1>3
  <2>2. UpToDate' => drafted'.subject = subject' BY DEF UpToDate, Compared
  <2>3. ~Move
    <3>1. drafted.subject \in Nat /\ drafted.subject <= subject /\ subject \in Nat
      BY <1>3 DEF CaseInv
    <3> QED BY <1>3, <2>1, <2>2, <3>1 DEF Move
  <2>4. subject' = subject /\ now' = now + 1 BY <1>3, <2>3, Passage DEF Tick
  <2>5. UpToDate BY <1>3, <2>1, <2>4 DEF UpToDate, Compared
  <2>6. \A p \in Proposals : DesignOf(p).status = "ADOPTABLE"
    BY <1>3, <2>1, <2>4, AdoptedBefore
  <2> QED BY <1>1, <2>5, <2>6
<1>4. CaseInv /\ [DCNext]_dcVars => [A]_dcVars BY <1>3
<1>5. DCSpec => []CaseInv BY CaseHolds
<1>6. DCSpec => [][A]_dcVars BY <1>4, <1>5, PTL DEF DCSpec
<1> QED BY <1>6 DEF AdoptionNeverRipens, Whole
=============================================================================
