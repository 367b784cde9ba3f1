----------------------------- MODULE ReviewInput ----------------------------
(* What a reviewer is sent: the full documents of a stage, or only the        *)
(* sections that a change since an accepted review can touch.                 *)
(* core/review/incremental.py, core/review/scope.py, application/review.py.   *)
(*                                                                           *)
(* A section is a number, in reading order; its text is a record of what the  *)
(* parser finds in it: the ids it defines and mentions, whether the  *)
(* boundary marker is in it, and whether the parser understands it.  A digest is what *)
(* it is the digest of, so a document changed when one of its sections did.   *)
EXTENDS Integers, FiniteSets

CONSTANTS Section,    \* headings of the stage's documents, numbered in reading order
          Outline,    \* Section -> document, enclosing heading, id in the title
          Known,      \* documents whose kind of owner id is known
          External,   \* ids that other stages define
          None

ASSUME OutlineAssumption ==
    /\ IsFiniteSet(Section) /\ Section \subseteq Nat
    /\ \A s \in Section : Outline[s].parent \in {None} \cup {r \in Section : r < s}

Doc(s) == Outline[s].doc
DocsOf(S) == {Doc(s) : s \in S}

-----------------------------------------------------------------------------
(* parse_review_documents: the snapshot of a text in a setting.  An id belongs *)
(* to the first section that defines it; every other id a section mentions is *)
(* a reference.  text[s] is None when the heading is not there.               *)

Read(text, dep) ==
    LET here    == {s \in Section : text[s] # None}
        defines == [s \in here |-> text[s].defines \ UNION {text[r].defines : r \in {q \in here : q < s}}]
    IN [text    |-> text, dep |-> dep,
        defines |-> defines,
        uses    |-> [s \in here |-> text[s].mentions \ defines[s]],
        parsed  |-> \A s \in here : text[s].clear /\ defines[s] = text[s].defines]

Present(p) == DOMAIN p.defines

(* provider -> consumer *)
Edges(p) == {e \in Present(p) \X Present(p) : p.uses[e[2]] \cap p.defines[e[1]] # {}}
Unresolved(p) == {s \in Present(p) :
                    ~ p.uses[s] \subseteq External \cup UNION {p.defines[r] : r \in Present(p)}}

(* The queue that starts as S and takes in all that R leads to: the smallest  *)
(* set with S that no step of R leaves.                                      *)
Closure(S, R) ==
    {s \in Section : \A T \in SUBSET Section :
        S \subseteq T /\ (\A e \in R : e[1] \in T => e[2] \in T) => s \in T}

-----------------------------------------------------------------------------
(* plan_incremental_review: schema 1. *)

Altered(p, q) == {s \in Present(q) : p.text[s] # q.text[s]}
Changed(p, q) == {s \in Present(q) : \/ p.text[s] # q.text[s]
                                     \/ p.defines[s] # q.defines[s]
                                     \/ p.uses[s] # q.uses[s]}

NoBaseline(p, q) ==
    \/ ~p.parsed \/ ~q.parsed
    \/ p.dep # q.dep
    \/ Present(p) # Present(q)
    \/ Changed(p, q) # {} /\ Altered(p, q) = {}
    \/ Unresolved(p) # {} \/ Unresolved(q) # {}

(* A change pulls in the other documents of the group, and both snapshots say *)
(* who depends on whom.                                                      *)
OtherDocuments(p, q) ==
    IF Changed(p, q) = {} THEN {}
    ELSE {s \in Present(q) : Doc(s) \notin DocsOf(Changed(p, q))}
Neighbours(p, q) == LET E == Edges(p) \cup Edges(q) IN E \cup {<<e[2], e[1]>> : e \in E}

Impact(p, q) == Closure(Changed(p, q) \cup OtherDocuments(p, q), Neighbours(p, q))

-----------------------------------------------------------------------------
(* _full_boundary_evidence and scoped_sections: schema 2. *)

(* The owner of a section: the id its heading declares, when that is all it   *)
(* defines, or else the owner of the heading above.                          *)
Owners(p) ==
    LET own[s \in Section] ==
          IF s \notin Present(p) THEN None
          ELSE IF /\ Doc(s) \in Known /\ Outline[s].title # None
                  /\ p.defines[s] = {Outline[s].title} THEN Outline[s].title
          ELSE IF Outline[s].parent = None THEN None ELSE own[Outline[s].parent]
    IN [s \in Present(p) |-> own[s]]

InDoc(S, d) == {s \in S : Doc(s) = d}
Markers(p, S) == Cardinality({s \in S : p.text[s].marked})
Evidence(p) == [markers |-> [d \in DocsOf(Section) |-> Markers(p, InDoc(Present(p), d))],
                owner   |-> Owners(p), edges |-> Edges(p), upstream |-> p.dep]

Globals(ev) == {s \in DOMAIN ev.owner : ev.owner[s] = None}

(* Mutant: the other sections of an owner are left out. *)
GroupAlone(ev, S) == S
(* Sections of one owner go together; what uses a section, what it uses.      *)
Group(ev, S) == S \cup {s \in DOMAIN ev.owner \ Globals(ev) : \E r \in S : ev.owner[r] = ev.owner[s]}
Downstream(ev) == UNION {{e[1]} \X Group(ev, {e[2]}) : e \in ev.edges}
Upstream(ev)   == UNION {{e[2]} \X Group(ev, {e[1]}) : e \in ev.edges}

Seeds(p, q, open) == Altered(p, q) \cup open
(* Mutant: what uses a changed contract is not reviewed again. *)
TargetsChanged(p, q, ev, open) == Group(ev, Seeds(p, q, open))
Targets(p, q, ev, open) == Closure(Group(ev, Seeds(p, q, open)), Downstream(ev))
References(p, q, ev, open) ==
    LET targets == Targets(p, q, ev, open)
    IN (Globals(ev) \cup Closure(targets, Upstream(ev))) \ targets

NoScope(p, q, ev, open) ==
    \/ ~p.parsed \/ ~q.parsed
    \/ p.dep # q.dep
    \/ ~ DocsOf(Section) \subseteq Known
    \/ \E d \in DocsOf(Section) : \/ ev.markers[d] # 1
                                  \/ Markers(q, InDoc(Globals(ev), d)) # 1
    \/ p.defines # q.defines \/ p.uses # q.uses
    \/ Altered(p, q) \cap Globals(ev) # {}
    \/ ~ open \subseteq Present(q)
    \/ Unresolved(q) # {}
    \/ Targets(p, q, ev, open) \cap Globals(ev) # {}

-----------------------------------------------------------------------------
(* Requests.  keys[i] is where a pending issue is known to be, {} if unknown. *)

Full(v, q, bound) ==
    [version |-> v, mode |-> "full", snap |-> q, targets |-> Present(q),
     references |-> {}, prior |-> None, bound |-> bound]

(* plan_review over the baseline on disk, of either version. *)
Plan1(base, q) ==
    IF base = None \/ base.version = 2 \/ NoBaseline(base.snap, q) THEN Full(1, q, <<>>)
    ELSE [Full(1, q, <<>>) EXCEPT !.mode = "incremental", !.prior = base.snap,
                                  !.targets = Impact(base.snap, q)]

Located(bound) == UNION {bound[i].keys : i \in DOMAIN bound}
Unlocated(bound) == {i \in DOMAIN bound : bound[i].keys = {}}

(* plan_review_v2; it refuses when there is nothing to review. *)
Full2(q, bound) == Full(2, q, bound)
Falls(base, q, ev, bound) ==
    \/ base = None \/ base.version = 1
    \/ NoScope(base.snap, q, ev, Located(bound))
    \/ base.evidence # ev
    \/ Unlocated(bound) # {}
Plan2(base, q, bound) ==
    LET ev == Evidence(q)
    IN IF Falls(base, q, ev, bound) THEN Full2(q, bound)
       ELSE [Full2(q, bound) EXCEPT !.mode = "incremental", !.prior = base.snap,
                 !.targets = Targets(base.snap, q, ev, Located(bound)),
                 !.references = References(base.snap, q, ev, Located(bound))]
Nothing(base, q, bound) == /\ ~Falls(base, q, Evidence(q), bound)
                           /\ Seeds(base.snap, q, Located(bound)) = {}

(* _validate_v2_request: what is checked before a request is written, and     *)
(* whenever it is read again.                                                *)
WellFormed(r) ==
    r.version = 2 =>
      /\ r.targets \cap r.references = {}
      /\ r.mode = "incremental" => /\ r.targets # {} /\ r.prior # None
                                   /\ Unlocated(r.bound) = {}
      /\ Located(r.bound) \subseteq r.targets

(* A full request sends whole documents: every section is shown. *)
Shown(r) == r.targets \cup r.references

(* review_progress_digest: what the next request would be about. *)
Progress(q, bound, claims) ==
    LET ev      == Evidence(q)
        open    == Located(bound)
        related == IF Unlocated(bound) # {} \/ NoScope(q, q, ev, open) THEN Present(q)
                   ELSE Targets(q, q, ev, open) \cup References(q, q, ev, open)
    IN [dep |-> q.dep, rows |-> [s \in related |-> q.text[s]], bound |-> bound, claims |-> claims]
=============================================================================
