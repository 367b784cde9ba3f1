--------------------------- MODULE DependencyCheck ---------------------------
(***************************************************************************)
(* Whether a dependency may be adopted and delivered, decided again each   *)
(* time from the evidence that is registered: the resolution of a dynamic  *)
(* version and the design decision (src/aek/core/security/dependencies.py),*)
(* the delivery decision (core/security/delivery.py), the two requirements *)
(* the review service makes of them (application/security_review.py) and   *)
(* the closure that rests on the requirements (security_workflow.py with   *)
(* delivery_gate.py).                                                      *)
(*                                                                         *)
(* Evidence is never rewritten: it is registered once, with the moment it  *)
(* was gathered, and gets old; the subject of the review changes under it. *)
(* One package is considered, declared by several proposals.               *)
(***************************************************************************)
EXTENDS Naturals, FiniteSets, DeliveryGate

CONSTANTS
  Refs,         \* references evidence is registered under
  Facts,        \* [Refs -> what a producer may report under the reference]
  Versions,     \* concrete versions of the package
  Proposals,    \* the declarations: [id, scope, version, named]
  Inventories,  \* the inventories the record holds
  Sources,      \* the references the record lists as its sources
  FindingRefs,  \* the evidence of the dependency finding, where the record has one
  Route,        \* the route's requirements: [decided, ok, checks, risk, others]
  Window,       \* the greatest age of evidence
  Horizon,      \* bound: the last instant
  Moments,      \* bound: [Refs -> the instants its evidence is gathered at]
  Subjects,     \* bound: the identities the subject goes through, 1 to Subjects
  Gathered,     \* bound: the last subject evidence is gathered for
  NoVersion,    \* the version of a declaration that names none
  Nothing          \* nothing registered, nothing closed

Kinds == {"advisory", "compatibility", "regression", "delivery-scope", "scope", "inventory"}
MatchStatus == {"AFFECTED", "UNAFFECTED", "UNKNOWN"}
Ids == {p.id : p \in Proposals}

DCAssumption ==
  /\ \A r \in Refs : \A f \in Facts[r] :
       /\ f.kind \in Kinds /\ f.whole \in BOOLEAN
       /\ f.kind = "advisory" => \A w \in f.rows : w.match \in MatchStatus /\ w.at \in Nat
  /\ NoVersion \notin Versions
  /\ Sources \subseteq Refs
  /\ FindingRefs \subseteq Refs
  /\ \A p \in Proposals : p.named \subseteq Refs
  /\ \A l \in Inventories : \A k \in l.packages : k.source \in Refs
  /\ \A r \in Refs : Moments[r] \subseteq 0 .. Horizon
  /\ {Window, Horizon, Subjects, Gathered} \subseteq Nat

\* The record lists among its sources the inventories that its proposals and
\* its finding name.  (Nothing in the code makes it do so.)
InventoriesRecorded ==
  \A r \in FindingRefs \cup UNION {p.named : p \in Proposals} :
    \A f \in Facts[r] : f.kind = "inventory" => r \in Sources

\* No row of an advice is dated after the moment the advice was gathered.
RowsDated ==
  \A r \in Refs : \A f \in Facts[r] :
    f.kind = "advisory" => \A w \in f.rows : \A m \in Moments[r] : w.at <= m

VARIABLES
  held,     \* [Refs -> the observation registered, or Nothing]
  consents, \* the user's acceptances of a known risk
  gate,     \* what the delivery gate was closed on, or Nothing
  drafted,  \* the record: the subject it was made for, whether it cites
            \* consents, whether it has a finding about the dependency
  subject,  \* the subject now
  now

dcVars == <<held, consents, gate, drafted, subject, now>>

(***************************************************************************)
(* Observations                                                            *)
(***************************************************************************)
Readable(refs) == {r \in refs : held[r] # Nothing}
Kind(r) == held[r].facts.kind
Recent(at) == at <= now /\ now - at <= Window

\* What counts as evidence: of this subject, complete, and not too old.
Sound(r) == /\ held[r].subject = subject
            /\ held[r].facts.whole
            /\ Recent(held[r].at)

OfKind(refs, k) == {r \in refs : Kind(r) = k}

\* The advice given about a version, and the tests of it.
About(refs, k, v) == {r \in OfKind(refs, k) : held[r].facts.version = v}

(***************************************************************************)
(* The version a dynamic declaration was resolved to                       *)
(***************************************************************************)
Occurrences(r, p) == {o \in held[r].facts.occurs : o.declared = p.version /\ o.scope = p.scope}

Attested(r) ==
  LET l == held[r].facts.listing IN
  Sound(r) /\ l.kind = "RESOLVED" /\ l.subject = subject /\ l.whole

Placed(r, p, o) ==
  LET same == {k \in held[r].facts.listing.packages : k.id = o.instance} IN
  /\ o.version \in Versions
  /\ \E k \in same : /\ same = {k}
                     /\ k.scope = p.scope /\ k.version = o.version /\ k.source = r

Applicable(refs, p) == {r \in OfKind(refs, "inventory") : Occurrences(r, p) # {}}

\* One observation that does not attest its occurrences spoils the others;
\* every observation concerned stays among the references.
Resolution(refs, p) ==
  LET concerned == Applicable(refs, p)
      broken == \E r \in concerned : ~Attested(r) \/ \E o \in Occurrences(r, p) : ~Placed(r, p, o)
      chosen == {o.version : o \in UNION {Occurrences(r, p) : r \in concerned}}
  IN [version |-> IF ~broken /\ \E v \in chosen : chosen = {v}
                  THEN CHOOSE v \in chosen : TRUE ELSE NoVersion,
      refs |-> concerned]

Target(refs, p) ==
  IF p.version \in Versions \/ p.version = NoVersion
  THEN [version |-> p.version, refs |-> {}] ELSE Resolution(refs, p)

(***************************************************************************)
(* The design decision                                                     *)
(***************************************************************************)
\* A consent is to one version, on exactly the evidence the user was shown.
Accepting(p, refs, v) ==
  {c \in consents : /\ drafted.risk /\ v # NoVersion
                    /\ c.subject = subject /\ c.until > now
                    /\ c.dep = p.id /\ c.version = v /\ c.evidence = refs}

Rows(r) == held[r].facts.rows
Doubtful(r) == \E w \in Rows(r) : ~Recent(w.at) \/ w.match = "UNKNOWN"
Affected(r) == \E w \in Rows(r) : w.match = "AFFECTED"

\* A reference that could not be read and an observation that does not count
\* are gaps, and a gap keeps the decision pending.
GapWhenMissing(refs, missing) == missing # {}
Gap(refs, missing) == missing # {} \/ \E r \in refs : ~Sound(r)

\* One favourable test of compatibility is cited, whichever comes first.
First(refs) == IF refs = {} THEN {} ELSE {CHOOSE r \in refs : TRUE}

DesignOn(p, t, refs, missing) ==
  LET sound == {r \in refs : Sound(r)}
      advised == About(sound, "advisory", t.version)
      advisories == {r \in advised : ~Doubtful(r)}
      fits == About(sound, "compatibility", t.version)
      compatible == {r \in fits : held[r].facts.good}
      accepted == Accepting(p, refs, t.version)
      unread == missing # {} \/ (drafted.risk /\ accepted = {})
      gap == Gap(refs, missing) \/ unread \/ advisories # advised
      affected == \E r \in advisories : Affected(r)
      known == advisories # {} /\ compatible # {} /\ ~gap
  IN [status |-> IF t.version = NoVersion THEN "PENDING" ELSE IF fits # compatible THEN "REJECTED"
                 ELSE IF known /\ (affected => accepted # {}) THEN "ADOPTABLE" ELSE "PENDING",
      refs |-> t.refs \cup advisories \cup First(compatible)
               \cup (IF affected THEN accepted ELSE {})]

Design(p, refs) == DesignOn(p, Target(refs, p), refs, p.named \ refs)

\* The requirement reads, beyond what the proposal names, every advice on the
\* version among the record's sources.
Recorded == Readable(Sources)
ExtraTests(refs, v) == About(refs, "compatibility", v)
Extra(refs, v) == About(refs, "advisory", v) \cup About(refs, "compatibility", v)

DesignSees(p) ==
  LET t == Target(Recorded, p) IN Readable(p.named) \cup t.refs \cup Extra(Recorded, t.version)

DesignOf(p) == Design(p, DesignSees(p))

(***************************************************************************)
(* The delivery decision                                                   *)
(***************************************************************************)
AllRefs == Sources \cup (UNION {p.named : p \in Proposals})
           \cup {k.source : k \in UNION {l.packages : l \in Inventories}}

DeliverySees(p) ==
  LET refs == Readable(AllRefs)
      t == Target(refs, p)
  IN Readable(p.named) \cup t.refs \cup Extra(refs, t.version)

Counted == {l \in Inventories : l.kind \in {"RESOLVED", "SHIPPED"}}
SourcesOf(l) == {k.source : k \in l.packages}

\* An inventory of the record counts when every source of it says the same.
Trusted(refs) ==
  {l \in Counted :
     /\ l.subject = subject /\ l.whole
     /\ SourcesOf(l) # {} /\ SourcesOf(l) \subseteq refs
     /\ \A r \in SourcesOf(l) : /\ Sound(r) /\ Kind(r) = "inventory"
                               /\ held[r].facts.listing = l}

\* A source that counts and says something else of the inventory.
Misbound(refs) ==
  \E l \in Counted : \E r \in SourcesOf(l) \cap refs :
    Sound(r) /\ (Kind(r) # "inventory" \/ held[r].facts.listing # l)

\* The proposals an instance was attributed to by a source that lists it.
Attributes(l, id) == {r \in SourcesOf(l) : id \in DOMAIN held[r].facts.owners}
Owners(ls, id) ==
  UNION {{held[r].facts.owners[id] : r \in Attributes(l, id)} :
         l \in {m \in ls : id \in {k.id : k \in m.packages}}}

Misattributed(ls) ==
  \E l \in ls : \E r \in SourcesOf(l) : \E id \in DOMAIN held[r].facts.owners :
    \/ id \notin {k.id : k \in l.packages}
    \/ ~(Owners(ls, id) \subseteq Ids)
    \/ Cardinality(Owners(ls, id)) > 1

Candidates(ls, k, p) == {i \in UNION {l.packages : l \in {m \in ls : m.kind = k}} : i.scope = p.scope}

Ambiguous(ls, k, p) ==
  /\ Cardinality({i.id : i \in Candidates(ls, k, p)}) > 1
  /\ Cardinality({i.version : i \in Candidates(ls, k, p)}) > 1

\* The instances an inventory counts for a proposal: those attributed to it,
\* and the unattributed of its scope when nothing makes that a guess.
Associated(ls, p) == \E k \in {"RESOLVED", "SHIPPED"} :
                       \E i \in Candidates(ls, k, p) : Owners(ls, i.id) # {}
Guessed(ls, l, p, i) ==
  Owners(ls, i.id) = {} /\ i.scope = p.scope /\ (Associated(ls, p) \/ Ambiguous(ls, l.kind, p))

Instances(ls, l, p) ==
  {i \in l.packages : /\ i.scope = p.scope
                      /\ Owners(ls, i.id) \in {{}, {p.id}}
                      /\ ~Guessed(ls, l, p, i)}

Misplaced(ls, p) ==
  \E l \in ls : \E i \in l.packages :
    Guessed(ls, l, p, i) \/ (Owners(ls, i.id) = {p.id} /\ i.scope # p.scope)

DeliveryOn(p, v, refs, design, ls) ==
  LET valid == {r \in refs : Sound(r)}
      resolved == UNION {Instances(ls, l, p) : l \in {m \in ls : m.kind = "RESOLVED"}}
      packed == UNION {Instances(ls, l, p) : l \in {m \in ls : m.kind = "SHIPPED"}}
      counted == resolved \cup packed
      scope == OfKind(valid, "delivery-scope")
      shipped == \E r \in scope : held[r].facts.good
      tests == {r \in About(valid, "regression", v) : held[r].facts.dep = p.id}
      failed == \/ design.status = "REJECTED"
                \/ \E i \in counted : i.version \notin {NoVersion, v} /\ v # NoVersion
                \/ \E r \in tests : ~held[r].facts.good
      pending == \/ design.status # "ADOPTABLE" \/ v = NoVersion
                 \/ Misbound(refs) \/ Misattributed(ls) \/ Misplaced(ls, p)
                 \/ resolved = {} \/ (shipped /\ packed = {})
                 \/ \E i \in counted : i.version = NoVersion \/ ~i.known
                 \/ scope = {} \/ Cardinality({held[r].facts.good : r \in scope}) > 1
                 \/ tests = {}
  IN [status |-> IF failed THEN "FAIL" ELSE IF pending THEN "PENDING" ELSE "PASS",
      refs |-> design.refs \cup (UNION {SourcesOf(l) : l \in ls}) \cup scope \cup tests]

DeliveryOf(p) ==
  LET refs == Readable(AllRefs) IN
  DeliveryOn(p, Target(refs, p).version, refs, Design(p, DeliverySees(p)), Trusted(refs))

(***************************************************************************)
(* The two requirements                                                    *)
(***************************************************************************)
DesignCheck == "checks:dependency-design-check"
DeliveryCheck == "checks:dependency-delivery-check"

UpToDate ==
  Compared([subject |-> drafted.subject], [subject |-> subject], {"subject"}) = "VALID"

AllOf(rows, fail, pass) ==
  IF \E w \in rows : w.status = fail THEN "FAIL"
  ELSE IF \A w \in rows : w.status = pass THEN "PASS" ELSE "PENDING"

\* Where there is nothing to decide on, there has to be current evidence that
\* nothing changed.
Untouched ==
  LET rows == {r \in OfKind(Recorded, "scope") : Sound(r)}
      proven == /\ UpToDate /\ ~drafted.finding
                /\ rows # {} /\ \A r \in rows : ~held[r].facts.good
  IN [status |-> IF proven THEN "PASS" ELSE "PENDING", refs |-> IF proven THEN rows ELSE {}]

Combined(rows, fail, pass) ==
  [status |-> IF UpToDate THEN AllOf(rows, fail, pass) ELSE "PENDING",
   refs |-> IF UpToDate THEN UNION {w.refs : w \in rows} ELSE {}]

\* The requirements are made of evaluate()'s answer.  One above its limit comes
\* back without decisions (cut), as if nothing had been proposed.
Assessed(q, cut) ==
  IF Proposals = {} \/ cut THEN Untouched
  ELSE IF q = DesignCheck
  THEN Combined({DesignOf(p) : p \in Proposals}, "REJECTED", "ADOPTABLE")
  ELSE Combined({DeliveryOf(p) : p \in Proposals}, "FAIL", "PASS")

\* The advice for which the report shows the dependency of p as affected.
Showing(p) ==
  LET refs == Readable(p.named \cup FindingRefs)
      v == Target(refs, p).version
  IN {r \in About(refs, "advisory", v) :
        /\ drafted.finding /\ v # NoVersion
        /\ Sound(r) /\ \E w \in Rows(r) : w.match = "AFFECTED" /\ Recent(w.at)}

(***************************************************************************)
(* The closure                                                             *)
(***************************************************************************)
\* Evidence presented as passing is recomputed, and must cite all of it.
RecomputedOnce(q, row, cut) == gate # Nothing \/ Assessed(q, cut).status = "PASS"
Covered(own, cited) == own.status = "PASS" /\ own.refs # {} /\ own.refs \subseteq cited
Recomputed(q, row, cut) == Covered(Assessed(q, cut), row.refs)

\* Nothing cited may have lapsed or say that a test failed.
Stands(r) ==
  /\ r \in Refs => /\ held[r].subject = subject /\ held[r].facts.whole
                   /\ ~(Kind(r) = "regression" /\ ~held[r].facts.good)
  /\ r \notin Refs => r \in consents /\ r.until > now

Backed(rows, cut) ==
  \A q \in DOMAIN rows \cap {DesignCheck, DeliveryCheck} :
    rows[q].status = "PASS" => Recomputed(q, rows[q], cut) /\ \A r \in rows[q].refs : Stands(r)

StillClosed(cut) ==
  /\ gate # Nothing /\ gate.subject = subject
  /\ Verdict(Route, gate.identity, gate.ready, gate.rows) = "READY"
  /\ Backed(gate.rows, cut)

(***************************************************************************)
(* The steps                                                               *)
(***************************************************************************)
DCInit ==
  /\ held = [r \in Refs |-> Nothing]
  /\ consents = {} /\ gate = Nothing
  /\ drafted \in [subject : {1}, risk : BOOLEAN, finding : BOOLEAN]
  /\ subject = 1 /\ now = 0

\* A producer reports what it found, at a moment that may be past.
Register(r, f, at) ==
  /\ held[r] = Nothing /\ at <= now /\ subject <= Gathered
  /\ held' = [held EXCEPT ![r] = [facts |-> f, at |-> at, subject |-> subject]]
  /\ UNCHANGED <<consents, gate, drafted, subject, now>>

\* The user is asked to accept a known risk, on the evidence before them: once,
\* until the next instant.
Accept(p) ==
  /\ drafted.risk /\ \A c \in consents : c.dep # p.id
  /\ \E refs \in {DesignSees(p), DeliverySees(p)} :
       LET v == Target(refs, p).version IN
       /\ \E r \in About(refs, "advisory", v) : Affected(r)
       /\ consents' = consents \cup {[dep |-> p.id, version |-> v, evidence |-> refs,
                                     subject |-> subject, until |-> now + 1]}
  /\ UNCHANGED <<held, gate, drafted, subject, now>>

\* The gate is composed from the rows the caller brings: for some of the
\* requirements, claimed to pass with what the service cites now.  (A row that
\* does not claim to pass closes as little as none.)
Brought(asked, cited) == [q \in asked |-> [status |-> "PASS", refs |-> cited]]

Compose(asked, cited, identity, ready, cut) ==
  LET rows == Brought(asked, cited) IN
  /\ Verdict(Route, identity, ready, rows) = "READY"
  /\ Composable(Route, rows)
  /\ Backed(rows, cut)
  /\ gate' = [rows |-> rows, identity |-> identity, ready |-> ready, subject |-> subject]
  /\ UNCHANGED <<held, consents, drafted, subject, now>>

Close(cut) ==
  LET cited == UNION {Assessed(q, cut).refs : q \in {DesignCheck, DeliveryCheck}} IN
  \E asked \in SUBSET Required(Route), identity \in {"VALID", "STALE"},
     ready \in {ReadyForReview(m, g) : m \in MemoryPaths, g \in GraphActions} :
    Compose(asked, cited, identity, ready, cut)

Draft ==
  /\ drafted.subject # subject
  /\ \E risk, finding \in BOOLEAN :
       drafted' = [subject |-> subject, risk |-> risk, finding |-> finding]
  /\ UNCHANGED <<held, consents, gate, subject, now>>

\* (Bound: before a closure a move is left out, for it only takes evidence
\* away, as time does.)
Move ==
  /\ subject < Subjects /\ gate # Nothing
  /\ subject' = subject + 1
  /\ UNCHANGED <<held, consents, gate, drafted, now>>

Tick ==
  /\ now < Horizon
  /\ now' = now + 1
  /\ UNCHANGED <<held, consents, gate, drafted, subject>>

DCNext ==
  \/ \E r \in Refs : \E f \in Facts[r], at \in Moments[r] : Register(r, f, at)
  \/ \E p \in Proposals : Accept(p)
  \/ gate = Nothing /\ \E cut \in BOOLEAN : Close(cut)
  \/ Draft
  \/ Move
  \/ Tick

DCSpec == DCInit /\ [][DCNext]_dcVars

(***************************************************************************)
(* Properties                                                              *)
(***************************************************************************)
DCTypeOK ==
  /\ \A r \in Refs : held[r] # Nothing =>
       /\ held[r].facts \in Facts[r]
       /\ held[r].at \in 0 .. now /\ held[r].subject \in 1 .. subject
  /\ \A c \in consents : c.dep \in Ids /\ c.version \in Versions /\ c.subject \in 1 .. subject
  /\ gate # Nothing => gate.subject \in 1 .. subject
  /\ drafted \in [subject : 1 .. subject, risk : BOOLEAN, finding : BOOLEAN]
  /\ subject \in 1 .. Subjects /\ now \in 0 .. Horizon

\* Time and change never make a dependency adoptable: the design check comes
\* to pass only by new evidence, a new consent or a new record, not because
\* what spoke against it got too old or belongs to another subject.
\* (evaluate_design_dependency: a gap keeps the decision pending.  Of answers
\* that are not cut: one that is may pass when a report of a change is old.)
AdoptionNeverRipens ==
  [][(now' # now \/ subject' # subject) /\ held' = held /\ consents' = consents /\ drafted' = drafted
     /\ Assessed(DesignCheck, FALSE).status # "PASS"
       => Assessed(DesignCheck, FALSE)'.status # "PASS"]_dcVars

\* A dependency the report shows as affected, on advice that the record has
\* among its sources or a proposal names, is not adopted by the same record,
\* unless the user accepted the risk; cutting the answer does not help either.
\* (_dependency_verification against inspect_evidence.  Advice under references
\* that only the finding names is shown, and nothing else reads it: the check
\* does pass in spite of it.)
FindingBlocksAdoption ==
  \A p \in Proposals, cut \in BOOLEAN :
    Showing(p) \cap (Sources \cup p.named) # {} /\ Assessed(DesignCheck, cut).status = "PASS"
      => \E c \in consents : c.dep = p.id /\ c.until > now

\* While a closure holds, no sound evidence known to the record speaks
\* against any dependency, whichever reference it is under: one version was
\* advised on, fits, passed its regression and is what every instance not
\* attributed to another proposal resolves to, in the shipped inventory too
\* when something is shipped.  (recover over evaluate_dependency_delivery.  It
\* holds by an answer with its decisions, whatever the gate was composed on: by
\* one that is cut it holds when no change of the dependencies is reported.)
Speaks(p, v, refs) ==
  LET ls == Trusted(refs)
      shipped == \E r \in OfKind(refs, "delivery-scope") : held[r].facts.good
  IN /\ p.version \in Versions => v = p.version
     /\ About(refs, "advisory", v) # {}
     /\ \A r \in About(refs, "advisory", v) :
          \A w \in Rows(r) : w.match = "UNAFFECTED" \/ \E c \in consents : c.dep = p.id /\ c.until > now
     /\ About(refs, "compatibility", v) # {}
     /\ \A r \in About(refs, "compatibility", v) : held[r].facts.good
     /\ \E r \in About(refs, "regression", v) : held[r].facts.dep = p.id
     /\ \A r \in About(refs, "regression", v) : held[r].facts.dep = p.id => held[r].facts.good
     /\ \A k \in {"RESOLVED"} \cup (IF shipped THEN {"SHIPPED"} ELSE {}) :
          \E l \in ls : l.kind = k /\ \E i \in l.packages : i.version = v
     /\ \A l \in ls : \A i \in l.packages :
          i.scope = p.scope /\ Owners(ls, i.id) \in {{}, {p.id}} => i.version = v

Uncontradicted(p) == \E v \in Versions : Speaks(p, v, {r \in Readable(AllRefs) : Sound(r)})

ClosedUncontradicted == StillClosed(FALSE) => \A p \in Proposals : Uncontradicted(p)
=============================================================================
