-------------------------- MODULE ReviewScopeProofs --------------------------
(* Reviews of parts add up, for any documents, ids, references, issues and    *)
(* bounds: what an incremental request leaves out is, with all it depends on,  *)
(* as it was when the whole was reviewed.                                     *)
EXTENDS ReviewScope, TLAPS

-----------------------------------------------------------------------------
(* What the operators select.                                                 *)

(* The queue ends with its start, closed, and with nothing more than that.    *)
LEMMA ClosureIs ==
  ASSUME NEW S \in SUBSET Section, NEW R
  PROVE  /\ Closure(S, R) \subseteq Section /\ S \subseteq Closure(S, R)
         /\ \A e \in R : e[1] \in Closure(S, R) /\ e[2] \in Section => e[2] \in Closure(S, R)
         /\ \A T \in SUBSET Section :
               S \subseteq T /\ (\A e \in R : e[1] \in T => e[2] \in T) => Closure(S, R) \subseteq T
<1> USE DEF Closure
<1>1. Closure(S, R) \subseteq Section OBVIOUS
<1>2. S \subseteq Closure(S, R) OBVIOUS
<1>3. ASSUME NEW e \in R, e[1] \in Closure(S, R), e[2] \in Section PROVE e[2] \in Closure(S, R)
  <2> SUFFICES ASSUME NEW T \in SUBSET Section, S \subseteq T,
                      \A d \in R : d[1] \in T => d[2] \in T
               PROVE  e[2] \in T
    BY <1>3
  <2>1. e[1] \in T BY <1>3
  <2> QED BY <2>1
<1>4. ASSUME NEW T \in SUBSET Section, S \subseteq T, \A e \in R : e[1] \in T => e[2] \in T
      PROVE  Closure(S, R) \subseteq T
  BY <1>4
<1> QED BY <1>1, <1>2, <1>3, <1>4

(* A reference leads from a section that is there to a section that is there. *)
LEMMA EdgesArePairs ==
  ASSUME NEW q, NEW e \in Edges(q)
  PROVE  e[1] \in Present(q) /\ e[2] \in Present(q) /\ e = <<e[1], e[2]>>
BY DEF Edges

(* Schema 1: a section is sent with everything it uses, or nothing of it and   *)
(* of what it uses has changed.                                              *)
LEMMA ImpactCovers ==
  ASSUME NEW p, NEW q, Present(q) \subseteq Section, ~NoBaseline(p, q), NEW s \in Present(q),
         NEW t \in Context(1, q, s)
  PROVE  /\ t \in Present(q) /\ Present(p) = Present(q)
         /\ IF s \in Impact(p, q) THEN t \in Impact(p, q) ELSE p.text[t] = q.text[t]
<1> DEFINE S == Changed(p, q) \cup OtherDocuments(p, q)
           N == Neighbours(p, q)
<1>1. Present(p) = Present(q) BY DEF NoBaseline
<1>2. S \in SUBSET Section BY DEF Changed, OtherDocuments
<1>3. t = s \/ (t \in Present(q) /\ <<t, s>> \in Edges(q)) BY DEF Context
<1>4. t = s \/ (<<t, s>> \in N /\ <<s, t>> \in N)
  <2> SUFFICES ASSUME <<t, s>> \in Edges(q) PROVE <<t, s>> \in N /\ <<s, t>> \in N BY <1>3
  <2>1. <<t, s>> \in N BY DEF Neighbours
  <2>2. \E e \in Edges(p) \cup Edges(q) : <<s, t>> = <<e[2], e[1]>>
    <3>1. <<s, t>> = << <<t, s>>[2], <<t, s>>[1] >> OBVIOUS
    <3> QED BY <3>1
  <2> QED BY <2>1, <2>2 DEF Neighbours
<1>5. Impact(p, q) = Closure(S, N) BY DEF Impact
<1>6. s \in Closure(S, N) <=> t \in Closure(S, N)
  <2> HIDE DEF S, N
  <2>1. s \in Section /\ t \in Section BY <1>3
  <2>2. \A e \in N : e[1] \in Closure(S, N) /\ e[2] \in Section => e[2] \in Closure(S, N)
    BY <1>2, ClosureIs
  <2> QED BY <1>4, <2>1, <2>2
<1>7. t \notin Closure(S, N) => p.text[t] = q.text[t]
  <2>1. S \subseteq Closure(S, N) BY <1>2, ClosureIs
  <2> QED BY <1>3, <2>1 DEF Changed
<1> QED BY <1>1, <1>3, <1>5, <1>6, <1>7

LEMMA GroupIs ==
  ASSUME NEW ev, NEW S, NEW t
  PROVE  t \in Group(ev, S) <=>
           t \in S \/ (/\ t \in DOMAIN ev.owner /\ ev.owner[t] # None
                       /\ \E r \in S : ev.owner[r] = ev.owner[t])
BY DEF Group, Globals

(* What owns the seeds and all that they lead to goes together. *)
LEMMA TargetsAreGrouped ==
  ASSUME NEW p, NEW q, NEW open \in SUBSET Present(q), Present(q) \subseteq Section,
         NEW s \in Targets(p, q, Evidence(q), open), NEW t \in Group(Evidence(q), {s})
  PROVE  t \in Targets(p, q, Evidence(q), open)
<1> DEFINE ev == Evidence(q)
           seeds == Seeds(p, q, open)
           S == Group(ev, seeds)
           D == Downstream(ev)
           T == Targets(p, q, ev, open)
           U == {x \in T : Group(ev, {x}) \subseteq T}
<1>1. T = Closure(S, D) BY DEF Targets
<1>2. DOMAIN ev.owner = Present(q) /\ ev.edges = Edges(q) BY DEF Evidence, Owners
<1>3. seeds \subseteq Present(q) BY DEF Seeds, Altered
<1> HIDE DEF ev, seeds
<1>4. S \in SUBSET Section BY <1>2, <1>3, GroupIs
<1>5. T \subseteq Section /\ S \subseteq T
      /\ \A e \in D : e[1] \in T /\ e[2] \in Section => e[2] \in T
  <2> HIDE DEF S, D, T
  <2> QED BY <1>1, <1>4, ClosureIs
<1>6. S \subseteq U
  <2> SUFFICES ASSUME NEW x \in S, NEW y \in Group(ev, {x}) PROVE y \in S BY <1>5
  <2> HIDE DEF S
  <2>1. x \in seeds \/ (ev.owner[x] # None /\ \E r \in seeds : ev.owner[r] = ev.owner[x])
    BY GroupIs DEF S
  <2>2. y = x \/ (/\ y \in DOMAIN ev.owner /\ ev.owner[y] # None /\ ev.owner[x] = ev.owner[y])
    BY GroupIs
  <2>3. y = x \/ (/\ y \in DOMAIN ev.owner /\ ev.owner[y] # None
                  /\ \E r \in seeds : ev.owner[r] = ev.owner[y])
    BY <2>1, <2>2
  <2> QED BY <2>3, GroupIs DEF S
<1>7. ASSUME NEW e \in D, e[1] \in U PROVE e[2] \in U
  <2>1. PICK d \in ev.edges : e \in {d[1]} \X Group(ev, {d[2]}) BY DEF Downstream
  <2>2. e[1] = d[1] /\ e[2] \in Group(ev, {d[2]}) BY <2>1
  <2>3. d[2] \in Present(q) BY <1>2, EdgesArePairs
  <2>4. ASSUME NEW y \in Group(ev, {d[2]}) PROVE y \in T
    <3>1. <<d[1], y>> \in D
      <4>1. <<d[1], y>> \in {d[1]} \X Group(ev, {d[2]}) OBVIOUS
      <4> QED BY <4>1 DEF Downstream
    <3>2. y \in Section BY <1>2, <2>3, GroupIs
    <3>3. d[1] \in T BY <1>7, <2>2
    <3> HIDE DEF D, T
    <3>4. <<d[1], y>>[1] = d[1] /\ <<d[1], y>>[2] = y OBVIOUS
    <3> QED BY <1>5, <3>1, <3>2, <3>3, <3>4
  <2>5. ASSUME NEW y \in Group(ev, {e[2]}) PROVE y \in Group(ev, {d[2]})
    <3>1. e[2] = d[2] \/ (ev.owner[e[2]] # None /\ ev.owner[d[2]] = ev.owner[e[2]])
      BY <2>2, GroupIs
    <3>2. y = e[2] \/ (/\ y \in DOMAIN ev.owner /\ ev.owner[y] # None
                       /\ ev.owner[e[2]] = ev.owner[y])
      BY GroupIs
    <3> QED BY <2>2, <3>1, <3>2, GroupIs
  <2> QED BY <2>2, <2>4, <2>5
<1>8. T \subseteq U
  <2>1. U \in SUBSET Section BY <1>5
  <2> HIDE DEF S, D, T, U
  <2> QED BY <1>1, <1>4, <1>6, <1>7, <2>1, ClosureIs
<1> QED BY <1>8 DEF ev

(* Schema 2: a section is sent with everything it is judged by, or nothing of  *)
(* it and of that has changed.                                               *)
LEMMA ScopeCovers ==
  ASSUME NEW p, NEW q, NEW open, Present(q) \subseteq Section,
         ~NoScope(p, q, Evidence(q), open), NEW s \in Present(q), NEW t \in Context(2, q, s)
  PROVE  /\ t \in Present(q) /\ Present(p) = Present(q)
         /\ IF s \in Targets(p, q, Evidence(q), open)
            THEN t \in Targets(p, q, Evidence(q), open) \cup References(p, q, Evidence(q), open)
            ELSE p.text[t] = q.text[t]
<1> DEFINE ev == Evidence(q)
           seeds == Seeds(p, q, open)
           S == Group(ev, seeds)
           D == Downstream(ev)
           V == Upstream(ev)
           T == Targets(p, q, ev, open)
           F == References(p, q, ev, open)
<1>1. DOMAIN ev.owner = Present(q) /\ ev.edges = Edges(q) BY DEF Evidence, Owners
<1>2. /\ Present(p) = Present(q) /\ open \in SUBSET Present(q)
      /\ Altered(p, q) \cap Globals(ev) = {} /\ T \cap Globals(ev) = {}
  BY DEF NoScope, Present
<1>3. seeds \subseteq Present(q) /\ Altered(p, q) \subseteq seeds BY <1>2 DEF Seeds, Altered
<1>4. T = Closure(S, D) /\ F = (Globals(ev) \cup Closure(T, V)) \ T BY DEF Targets, References
<1>5. ASSUME NEW x \in T, NEW y \in Group(ev, {x}) PROVE y \in T BY <1>2, TargetsAreGrouped
<1>6. t = s \/ <<t, s>> \in Edges(q) \/ t \in Group(ev, {s}) \/ t \in Globals(ev)
  BY DEF Context
<1> HIDE DEF ev, seeds
<1>7. t \in Present(q) /\ s \in Section /\ t \in Section
  BY <1>1, <1>6, GroupIs, EdgesArePairs DEF Globals
<1>8. S \in SUBSET Section BY <1>1, <1>3, GroupIs
<1>9. /\ T \in SUBSET Section /\ S \subseteq T
      /\ \A e \in D : e[1] \in T /\ e[2] \in Section => e[2] \in T
  <2> HIDE DEF S, D, T
  <2> QED BY <1>4, <1>8, ClosureIs
<1>10. /\ T \subseteq Closure(T, V)
       /\ \A e \in V : e[1] \in Closure(T, V) /\ e[2] \in Section => e[2] \in Closure(T, V)
  <2> HIDE DEF T, V
  <2> QED BY <1>9, ClosureIs
<1>11. t \notin T => p.text[t] = q.text[t]
  <2>1. seeds \subseteq S BY GroupIs
  <2> HIDE DEF S, T
  <2> QED BY <1>3, <1>7, <1>9, <2>1 DEF Altered
<1>12. CASE t = s BY <1>2, <1>7, <1>11, <1>12 DEF ev
<1>13. CASE <<t, s>> \in Edges(q)
  <2>1. <<t, s>> \in ev.edges /\ <<t, s>>[1] = t /\ <<t, s>>[2] = s BY <1>1, <1>13
  <2>2. s \in Group(ev, {<<t, s>>[2]}) /\ t \in Group(ev, {<<t, s>>[1]}) BY <2>1, GroupIs
  <2>3. <<t, s>> \in {<<t, s>>[1]} \X Group(ev, {<<t, s>>[2]}) BY <2>1, <2>2
  <2>4. <<s, t>> \in {<<t, s>>[2]} \X Group(ev, {<<t, s>>[1]}) BY <2>1, <2>2
  <2>5. <<t, s>> \in D BY <2>1, <2>3 DEF Downstream
  <2>6. <<s, t>> \in V BY <2>1, <2>4 DEF Upstream
  <2> HIDE DEF D, V, T, F
  <2>7. t \in T => s \in T BY <1>7, <1>9, <2>1, <2>5
  <2>8. s \in T => t \in Closure(T, V)
    <3>1. <<s, t>>[1] = s /\ <<s, t>>[2] = t OBVIOUS
    <3> QED BY <1>7, <1>10, <2>6, <3>1
  <2> QED BY <1>2, <1>4, <1>7, <1>11, <2>7, <2>8 DEF ev, T, F
<1>14. CASE t \in Group(ev, {s}) /\ t # s
  <2>1. s \in Group(ev, {t})
    <3>1. ev.owner[t] # None /\ ev.owner[s] = ev.owner[t] BY <1>14, GroupIs
    <3> QED BY <1>1, <3>1, GroupIs
  <2>2. s \in T <=> t \in T BY <1>5, <1>14, <2>1
  <2> QED BY <1>2, <1>7, <1>11, <2>2 DEF ev
<1>15. CASE t \in Globals(ev)
  <2>1. t \in F BY <1>2, <1>4, <1>15
  <2>2. t \notin T BY <1>2, <1>15
  <2> QED BY <1>2, <1>7, <1>11, <2>1, <2>2 DEF ev
<1> QED BY <1>6, <1>12, <1>13, <1>14, <1>15

-----------------------------------------------------------------------------
(* The invariant: what a baseline, a request and a command in flight stand on. *)

(* Somebody reviewed the whole of a snapshot, in the text it has. *)
OfAll(rs, p) ==
    \E k \in DOMAIN rs : /\ rs[k].text = p.text
                         /\ Present(p) \subseteq rs[k].targets
                         /\ Present(p) \subseteq rs[k].shown

(* What an incremental request sends, and why that is enough. *)
Scoped(r) ==
    \/ /\ r.version = 1 /\ ~NoBaseline(r.prior, r.snap)
       /\ r.targets = Impact(r.prior, r.snap)
    \/ /\ r.version = 2
       /\ ~NoScope(r.prior, r.snap, Evidence(r.snap), Located(r.bound))
       /\ r.targets = Targets(r.prior, r.snap, Evidence(r.snap), Located(r.bound))
       /\ r.references = References(r.prior, r.snap, Evidence(r.snap), Located(r.bound))

(* A request that is not incremental asks for everything. *)
ReqForm == req # None =>
    /\ req.version \in {1, 2}
    /\ req.mode = "incremental" \/ (req.mode = "full" /\ req.targets = Present(req.snap))

(* A baseline was reviewed as a whole. *)
BaseReviewed == base # None => OfAll(reviews, base.snap)

(* A command that has validated a review is about the documents it reviewed,  *)
(* and an incremental one about a baseline that was reviewed as a whole.      *)
Latest == reviews[Len(reviews)]
InFlight == at \in {"commit", "publish"} =>
    /\ req # None /\ cur = req.snap /\ req.snap = Read(text, req.snap.dep)
    /\ Len(reviews) \in DOMAIN reviews
    /\ Latest.text = text /\ Latest.targets = req.targets /\ Latest.shown = Shown(req)
    /\ req.mode = "incremental" => OfAll(reviews, req.prior) /\ Scoped(req)
    /\ at = "publish" => req.mode = "full"

IsSequence == \E R : reviews \in Seq(R)
ScopeInv == IsSequence /\ ReqForm /\ BaseReviewed /\ InFlight /\ CoherentPass

(* CoherentPass, of any reviews and any request. *)
AddUp(rs, r) ==
    \A s \in Present(r.snap) : \E k \in DOMAIN rs :
       /\ s \in rs[k].targets
       /\ \A t \in Context(r.version, r.snap, s) :
             t \in rs[k].shown /\ rs[k].text[t] = r.snap.text[t]

Grown(rs, ss) == \A k \in DOMAIN rs : k \in DOMAIN ss /\ ss[k] = rs[k]

LEMMA CoherentIs == CoherentPass <=> (gate.status = "PASS" => AddUp(reviews, gate.req))
BY DEF CoherentPass, AddUp

(* Reviews are only ever added, and take nothing from what was reviewed. *)
LEMMA StaysReviewed ==
  ASSUME NEW rs, NEW ss, Grown(rs, ss)
  PROVE  /\ \A p : OfAll(rs, p) => OfAll(ss, p)
         /\ \A r : AddUp(rs, r) => AddUp(ss, r)
<1>1. ASSUME NEW p, OfAll(rs, p) PROVE OfAll(ss, p)
  <2>1. PICK k \in DOMAIN rs : /\ rs[k].text = p.text
                               /\ Present(p) \subseteq rs[k].targets
                               /\ Present(p) \subseteq rs[k].shown
    BY <1>1 DEF OfAll
  <2>2. k \in DOMAIN ss /\ ss[k] = rs[k] BY DEF Grown
  <2> QED BY <2>1, <2>2 DEF OfAll
<1>2. ASSUME NEW r, AddUp(rs, r) PROVE AddUp(ss, r)
  <2> SUFFICES ASSUME NEW s \in Present(r.snap)
               PROVE  \E k \in DOMAIN ss :
                        /\ s \in ss[k].targets
                        /\ \A t \in Context(r.version, r.snap, s) :
                              t \in ss[k].shown /\ ss[k].text[t] = r.snap.text[t]
    BY DEF AddUp
  <2>1. PICK k \in DOMAIN rs :
          /\ s \in rs[k].targets
          /\ \A t \in Context(r.version, r.snap, s) :
                t \in rs[k].shown /\ rs[k].text[t] = r.snap.text[t]
    BY <1>2 DEF AddUp
  <2>2. k \in DOMAIN ss /\ ss[k] = rs[k] BY DEF Grown
  <2> QED BY <2>1, <2>2
<1> QED BY <1>1, <1>2

LEMMA Appended ==
  ASSUME IsSequence, NEW x
  PROVE  /\ Grown(reviews, Append(reviews, x))
         /\ \E R : Append(reviews, x) \in Seq(R)
         /\ Len(Append(reviews, x)) \in DOMAIN Append(reviews, x)
         /\ Append(reviews, x)[Len(Append(reviews, x))] = x
<1>1. PICK R : reviews \in Seq(R) BY DEF IsSequence
<1>2. reviews \in Seq(R \cup {x})
  <2>1. reviews \in [1..Len(reviews) -> R] /\ Len(reviews) \in Nat BY <1>1
  <2>2. reviews \in [1..Len(reviews) -> R \cup {x}] BY <2>1
  <2> QED BY <2>1, <2>2
<1> DEFINE ss == Append(reviews, x)
<1>3. ss \in Seq(R \cup {x}) /\ Len(ss) = Len(reviews) + 1 /\ Len(reviews) \in Nat BY <1>2
<1>4. DOMAIN ss = 1..Len(ss) /\ DOMAIN reviews = 1..Len(reviews) BY <1>2, <1>3
<1>5. \A k \in 1..Len(reviews) : ss[k] = reviews[k] BY <1>2
<1>6. ss[Len(reviews) + 1] = x BY <1>2
<1> HIDE DEF ss
<1>7. Grown(reviews, ss) BY <1>3, <1>4, <1>5 DEF Grown
<1> QED BY <1>3, <1>4, <1>6, <1>7 DEF ss

(* What is there in the text that is read. *)
LEMMA PresentIs ==
  ASSUME NEW x, NEW d
  PROVE  /\ Present(Read(x, d)) = {s \in Section : x[s] # None}
         /\ Read(x, d).text = x /\ Read(x, d).dep = d
BY DEF Present, Read

(* A section is judged by sections of the same documents. *)
LEMMA ContextIsThere ==
  ASSUME NEW v, NEW q, NEW s \in Present(q), NEW t \in Context(v, q, s)
  PROVE  t \in Present(q)
<1>1. DOMAIN Evidence(q).owner = Present(q) BY DEF Evidence, Owners
<1> QED BY <1>1, GroupIs DEF Context, Globals

-----------------------------------------------------------------------------
(* What was reviewed last and what the baseline stands for make up the whole. *)
LEMMA ReviewsAddUp ==
  ASSUME ReqForm, InFlight, at = "commit"
  PROVE  AddUp(reviews, req)
<1> DEFINE q == req.snap
           p == req.prior
           v == req.version
           n == Len(reviews)
<1>1. /\ v \in {1, 2} /\ q = Read(text, q.dep) /\ n \in DOMAIN reviews
      /\ reviews[n].text = text /\ reviews[n].targets = req.targets
      /\ reviews[n].shown = req.targets \cup req.references
      /\ req.mode = "incremental" \/ (req.mode = "full" /\ req.targets = Present(q))
      /\ req.mode = "incremental" => OfAll(reviews, p) /\ Scoped(req)
  BY DEF ReqForm, InFlight, Latest, Shown
<1>2. q.text = text /\ Present(q) \subseteq Section
  <2>1. PICK d : d = q.dep OBVIOUS
  <2>2. q = Read(text, d) BY <1>1, <2>1
  <2>3. Read(text, d).text = text /\ Present(Read(text, d)) \subseteq Section BY PresentIs
  <2> QED BY <2>2, <2>3
<1> SUFFICES ASSUME NEW s \in Present(q)
             PROVE  \E k \in DOMAIN reviews :
                      /\ s \in reviews[k].targets
                      /\ \A t \in Context(v, q, s) :
                            t \in reviews[k].shown /\ reviews[k].text[t] = q.text[t]
  BY DEF AddUp
<1>3. CASE req.mode = "full"
  <2>1. req.targets = Present(q) BY <1>1, <1>3
  <2>2. \A t \in Context(v, q, s) : t \in Present(q) BY ContextIsThere
  <2> HIDE DEF q, v, n
  <2> QED BY <1>1, <1>2, <2>1, <2>2
<1>4. CASE req.mode = "incremental"
  <2>1. PICK m \in DOMAIN reviews : /\ reviews[m].text = p.text
                                    /\ Present(p) \subseteq reviews[m].targets
                                    /\ Present(p) \subseteq reviews[m].shown
    BY <1>1, <1>4 DEF OfAll
  (* It goes with the baseline, or with what was sent. *)
  <2>2. Present(p) = Present(q)
        /\ \A t \in Context(v, q, s) :
             /\ t \in Present(q)
             /\ IF s \in req.targets THEN t \in req.targets \cup req.references
                                     ELSE p.text[t] = q.text[t]
    <3>1. CASE v = 1
      <4>1. ~NoBaseline(p, q) /\ req.targets = Impact(p, q) BY <1>1, <1>4, <3>1 DEF Scoped
      <4>2. \A t \in Context(1, q, s) :
               /\ t \in Present(q) /\ Present(p) = Present(q)
               /\ IF s \in Impact(p, q) THEN t \in Impact(p, q) ELSE p.text[t] = q.text[t]
        <5> HIDE DEF p, q
        <5> QED BY <1>2, <4>1, ImpactCovers
      <4>3. s \in Context(1, q, s) BY DEF Context
      <4> HIDE DEF p, q, v
      <4> QED BY <3>1, <4>1, <4>2, <4>3
    <3>2. CASE v = 2
      <4> DEFINE open == Located(req.bound)
      <4>1. /\ ~NoScope(p, q, Evidence(q), open)
            /\ req.targets = Targets(p, q, Evidence(q), open)
            /\ req.references = References(p, q, Evidence(q), open)
        BY <1>1, <1>4, <3>2 DEF Scoped
      <4>2. \A t \in Context(2, q, s) :
               /\ t \in Present(q) /\ Present(p) = Present(q)
               /\ IF s \in Targets(p, q, Evidence(q), open)
                  THEN t \in Targets(p, q, Evidence(q), open) \cup References(p, q, Evidence(q), open)
                  ELSE p.text[t] = q.text[t]
        <5> HIDE DEF p, q, open
        <5> QED BY <1>2, <4>1, ScopeCovers
      <4>3. s \in Context(2, q, s) BY DEF Context
      <4> HIDE DEF p, q, v, open
      <4> QED BY <3>2, <4>1, <4>2, <4>3
    <3> QED BY <1>1, <3>1, <3>2
  <2> HIDE DEF p, q, v, n
  <2>3. CASE s \in req.targets BY <1>1, <1>2, <2>2, <2>3
  <2>4. CASE s \notin req.targets
    <3>1. s \in reviews[m].targets BY <2>1, <2>2
    <3>2. \A t \in Context(v, q, s) : t \in reviews[m].shown /\ reviews[m].text[t] = q.text[t]
      BY <2>1, <2>2, <2>4
    <3> QED BY <3>1, <3>2
  <2> QED BY <2>3, <2>4
<1> QED BY <1>1, <1>3, <1>4

(* What review-input asks for. *)
Asked(r, v, q) ==
    /\ r.version = v /\ r.snap = q
    /\ r.mode = "incremental" \/ (r.mode = "full" /\ r.targets = Present(r.snap))
    /\ r.mode = "incremental" => base # None /\ r.prior = base.snap /\ Scoped(r)

LEMMA PlanIs ==
  ASSUME NEW v \in {1, 2}, NEW q
  PROVE  Asked(Plan(v, q), v, q)
<1> DEFINE r == Plan(v, q)
<1>1. CASE v = 1
  <2>1. r = Plan1(base, q) BY <1>1 DEF Plan
  <2>2. CASE base = None \/ base.version = 2 \/ NoBaseline(base.snap, q)
    <3>1. r = Full(1, q, <<>>) BY <2>1, <2>2 DEF Plan1
    <3>2. r.version = 1 /\ r.snap = q /\ r.mode = "full" /\ r.targets = Present(q) BY <3>1 DEF Full
    <3>3. Asked(r, v, q)
      <4> HIDE DEF r
      <4> QED BY <1>1, <3>2 DEF Asked
    <3> QED BY <3>3
  <2>3. CASE ~(base = None \/ base.version = 2 \/ NoBaseline(base.snap, q))
    <3>1. r = [Full(1, q, <<>>) EXCEPT !.mode = "incremental", !.prior = base.snap,
                                       !.targets = Impact(base.snap, q)]
      BY <2>1, <2>3 DEF Plan1
    <3>2. /\ r.version = 1 /\ r.snap = q /\ r.mode = "incremental"
          /\ r.prior = base.snap /\ r.targets = Impact(base.snap, q)
      BY <3>1 DEF Full
    <3>3. Asked(r, v, q)
      <4> HIDE DEF r
      <4> QED BY <1>1, <2>3, <3>2 DEF Asked, Scoped
    <3> QED BY <3>3
  <2> QED BY <2>2, <2>3
<1>2. CASE v = 2
  <2> DEFINE b == Bound(lc, q, FALSE)
             ev == Evidence(q)
  <2>1. r = Plan2(base, q, b) BY <1>2 DEF Plan
  <2> HIDE DEF b
  <2>2. CASE Falls(base, q, ev, b)
    <3>1. r = Full2(q, b) BY <2>1, <2>2 DEF Plan2
    <3>2. r.version = 2 /\ r.snap = q /\ r.mode = "full" /\ r.targets = Present(q)
      BY <3>1 DEF Full2, Full
    <3>3. Asked(r, v, q)
      <4> HIDE DEF r
      <4> QED BY <1>2, <3>2 DEF Asked
    <3> QED BY <3>3
  <2>3. CASE ~Falls(base, q, ev, b)
    <3>1. r = [Full2(q, b) EXCEPT !.mode = "incremental", !.prior = base.snap,
                 !.targets = Targets(base.snap, q, ev, Located(b)),
                 !.references = References(base.snap, q, ev, Located(b))]
      BY <2>1, <2>3 DEF Plan2
    <3>2. /\ r.version = 2 /\ r.snap = q /\ r.mode = "incremental" /\ r.bound = b
          /\ r.prior = base.snap /\ r.targets = Targets(base.snap, q, ev, Located(b))
          /\ r.references = References(base.snap, q, ev, Located(b))
      BY <3>1 DEF Full2, Full
    <3>3. base # None /\ ~NoScope(base.snap, q, ev, Located(b)) BY <2>3 DEF Falls
    <3>4. Asked(r, v, q)
      <4> HIDE DEF r
      <4> QED BY <1>2, <3>2, <3>3 DEF Asked, Scoped
    <3> QED BY <3>4
  <2> QED BY <2>2, <2>3
<1> QED BY <1>1, <1>2

-----------------------------------------------------------------------------
(* The steps.                                                                 *)

LEMMA ScopeInit == Init => ScopeInv
<1> SUFFICES ASSUME Init PROVE ScopeInv OBVIOUS
<1>1. IsSequence
  <2>1. reviews \in Seq({}) BY DEF Init
  <2> QED BY <2>1 DEF IsSequence
<1>2. ReqForm BY DEF Init, ReqForm
<1>3. BaseReviewed BY DEF Init, BaseReviewed
<1>4. InFlight BY DEF Init, InFlight
<1>5. CoherentPass BY DEF Init, CoherentPass
<1> QED BY <1>1, <1>2, <1>3, <1>4, <1>5 DEF ScopeInv

(* Between commands, only what is on disk is told apart. *)
LEMMA IdleStep ==
  ASSUME ScopeInv, UNCHANGED <<base, req, gate, reviews>>, at' \notin {"commit", "publish"}
  PROVE  ScopeInv'
<1>1. IsSequence' BY DEF ScopeInv, IsSequence
<1>2. ReqForm' BY DEF ScopeInv, ReqForm
<1>3. BaseReviewed' BY DEF ScopeInv, BaseReviewed, OfAll
<1>4. InFlight' BY DEF InFlight
<1>5. CoherentPass' BY DEF ScopeInv, CoherentPass
<1> QED BY <1>1, <1>2, <1>3, <1>4, <1>5 DEF ScopeInv

LEMMA RequestStep ==
  ASSUME ScopeInv, NEW v \in Versions, Request(v)
  PROVE  ScopeInv'
<1>1. v \in {1, 2} BY VersionAssumption
<1>2. UNCHANGED <<base, gate, reviews>> /\ req' = Plan(v, Snap(v)) /\ at' = "current"
  BY DEF Request
<1>3. IsSequence' BY <1>2 DEF ScopeInv, IsSequence
<1>4. ReqForm'
  <2>1. Asked(req', v, Snap(v)) BY <1>1, <1>2, PlanIs
  <2> QED BY <1>1, <2>1 DEF Asked, ReqForm
<1>5. BaseReviewed' BY <1>2 DEF ScopeInv, BaseReviewed, OfAll
<1>6. InFlight' BY <1>2 DEF InFlight
<1>7. CoherentPass' BY <1>2 DEF ScopeInv, CoherentPass
<1> QED BY <1>3, <1>4, <1>5, <1>6, <1>7 DEF ScopeInv

LEMMA ValidateStep ==
  ASSUME ScopeInv, Validate
  PROVE  ScopeInv'
<1> DEFINE x == [version |-> req.version, text |-> text, targets |-> req.targets,
                 shown |-> Shown(req), reports |-> answer.reports]
<1>1. /\ reviews' = Append(reviews, x) /\ at' = "commit"
      /\ base' = IF req.version = 1 THEN Baseline1 ELSE base
      /\ UNCHANGED <<req, cur, gate, text>>
  BY DEF Validate, people
<1>2. /\ req # None /\ cur = req.snap /\ req.snap = Snap(req.version)
      /\ req.mode = "incremental" => req = Plan(req.version, req.snap)
  BY DEF Validate, ValidReview
<1>3. /\ req.version \in {1, 2}
      /\ req.mode = "incremental" \/ (req.mode = "full" /\ req.targets = Present(req.snap))
  BY <1>2 DEF ScopeInv, ReqForm
<1>4. /\ Grown(reviews, reviews') /\ IsSequence'
      /\ Len(reviews') \in DOMAIN reviews' /\ reviews'[Len(reviews')] = x
  <2> HIDE DEF x
  <2> QED BY <1>1, Appended DEF ScopeInv, IsSequence
<1>5. /\ x.text = text /\ x.targets = req.targets /\ x.shown = Shown(req) OBVIOUS
<1> HIDE DEF x
<1>6. req.snap = Read(text, <<req.version, dep>>) BY <1>2 DEF Snap
<1>7. req.snap.text = text /\ req.snap.dep = <<req.version, dep>>
  <2>1. PICK e : e = <<req.version, dep>> OBVIOUS
  <2> QED BY <1>6, <2>1, PresentIs
<1>8. ReqForm' BY <1>1, <1>3 DEF ReqForm
<1>9. BaseReviewed'
  <2>1. CASE base' = base
    <3>1. base # None => OfAll(reviews', base.snap)
      BY <1>4, StaysReviewed DEF ScopeInv, BaseReviewed
    <3> QED BY <2>1, <3>1 DEF BaseReviewed
  <2>2. CASE base' = None BY <2>2 DEF BaseReviewed
  <2>3. CASE req.mode = "full" /\ base' = [version |-> 1, snap |-> cur]
    <3>1. base'.snap = req.snap BY <1>2, <2>3
    <3>2. Present(req.snap) \subseteq x.shown BY <1>3, <1>5, <2>3 DEF Shown
    <3>3. Present(req.snap) = x.targets
      <4>1. req.mode # "incremental" BY <2>3
      <4> QED BY <1>3, <1>5, <4>1
    <3>4. OfAll(reviews', req.snap) BY <1>4, <1>5, <1>7, <3>2, <3>3 DEF OfAll
    <3> QED BY <3>1, <3>4 DEF BaseReviewed
  <2> QED BY <1>1, <2>1, <2>2, <2>3 DEF Baseline1
<1>10. InFlight'
  <2>1. req.mode = "incremental" => OfAll(reviews', req.prior) /\ Scoped(req)
    <3> SUFFICES ASSUME req.mode = "incremental" PROVE OfAll(reviews', req.prior) /\ Scoped(req)
      OBVIOUS
    <3>1. Asked(req, req.version, req.snap) BY <1>2, <1>3, PlanIs
    <3>2. base # None /\ req.prior = base.snap /\ Scoped(req) BY <3>1 DEF Asked
    <3>3. OfAll(reviews, base.snap) BY <3>2 DEF ScopeInv, BaseReviewed
    <3> QED BY <1>4, <3>2, <3>3, StaysReviewed
  <2>2. Latest' = x BY <1>4 DEF Latest
  <2>3. req.snap = Read(text, req.snap.dep) BY <1>6, <1>7
  <2>4. (Scoped(req))' = Scoped(req) BY <1>1 DEF Scoped
  <2>5. (OfAll(reviews, req.prior))' = OfAll(reviews', req.prior) BY <1>1 DEF OfAll
  <2>6. Shown(req)' = Shown(req) BY <1>1 DEF Shown
  <2>7. (Read(text, req.snap.dep))' = Read(text, req.snap.dep) BY <1>1 DEF Read
  <2> QED BY <1>1, <1>2, <1>4, <1>5, <2>1, <2>2, <2>3, <2>4, <2>5, <2>6, <2>7 DEF InFlight
<1>11. CoherentPass'
  <2>1. gate.status = "PASS" => AddUp(reviews, gate.req) BY CoherentIs DEF ScopeInv
  <2>2. gate.status = "PASS" => AddUp(reviews', gate.req) BY <1>4, <2>1, StaysReviewed
  <2>3. (CoherentPass <=> (gate.status = "PASS" => AddUp(reviews, gate.req)))' BY CoherentIs, PTL
  <2>4. (AddUp(reviews, gate.req))' = AddUp(reviews', gate.req) BY <1>1 DEF AddUp
  <2> QED BY <1>1, <2>2, <2>3, <2>4
<1> QED BY <1>4, <1>8, <1>9, <1>10, <1>11 DEF ScopeInv

LEMMA CommitStep ==
  ASSUME ScopeInv, Commit
  PROVE  ScopeInv'
<1>1. /\ at = "commit" /\ UNCHANGED <<base, req, cur, text, reviews>>
      /\ at' = IF req.version = 2 /\ req.mode = "full" THEN "publish" ELSE "idle"
  BY DEF Commit, people
<1>2. gate'.req = req BY DEF Commit
<1>3. IsSequence' BY <1>1 DEF ScopeInv, IsSequence
<1>4. ReqForm' BY <1>1 DEF ScopeInv, ReqForm
<1>5. BaseReviewed' BY <1>1 DEF ScopeInv, BaseReviewed, OfAll
<1>6. InFlight'
  <2>1. CASE at' = "publish"
    <3>1. req.mode = "full" BY <1>1, <2>1
    <3> QED BY <1>1, <2>1, <3>1 DEF ScopeInv, InFlight, Latest, Shown, Read
  <2>2. CASE at' = "idle" BY <2>2 DEF InFlight
  <2> QED BY <1>1, <2>1, <2>2
<1>7. CoherentPass'
  <2>1. AddUp(reviews, req) BY <1>1, ReviewsAddUp DEF ScopeInv
  <2>2. AddUp(reviews', gate'.req) BY <1>1, <1>2, <2>1
  <2>3. (CoherentPass <=> (gate.status = "PASS" => AddUp(reviews, gate.req)))' BY CoherentIs, PTL
  <2>4. (AddUp(reviews, gate.req))' = AddUp(reviews', gate'.req) BY DEF AddUp
  <2> QED BY <2>2, <2>3, <2>4
<1> QED BY <1>3, <1>4, <1>5, <1>6, <1>7 DEF ScopeInv

LEMMA PublishStep ==
  ASSUME ScopeInv, Publish
  PROVE  ScopeInv'
<1>1. at = "publish" /\ at' = "idle" /\ base'.snap = cur /\ UNCHANGED <<req, gate, reviews>>
  BY DEF Publish
<1>2. IsSequence' BY <1>1 DEF ScopeInv, IsSequence
<1>3. ReqForm' BY <1>1 DEF ScopeInv, ReqForm
<1>4. BaseReviewed'
  <2>1. /\ cur = req.snap /\ req.snap = Read(text, req.snap.dep) /\ Len(reviews) \in DOMAIN reviews
        /\ Latest.text = text /\ Latest.targets = req.targets /\ Latest.shown = Shown(req)
        /\ req # None /\ req.mode = "full"
    BY <1>1 DEF ScopeInv, InFlight
  <2>2. req.targets = Present(req.snap)
    <3>1. req.mode # "incremental" BY <2>1
    <3> QED BY <2>1, <3>1 DEF ScopeInv, ReqForm
  <2>3. cur.text = text
    <3>1. PICK d : d = req.snap.dep OBVIOUS
    <3> QED BY <2>1, <3>1, PresentIs
  <2>4. OfAll(reviews, cur) BY <2>1, <2>2, <2>3 DEF OfAll, Latest, Shown
  <2>5. OfAll(reviews', base'.snap) BY <1>1, <2>4
  <2> QED BY <2>5 DEF BaseReviewed, OfAll
<1>5. InFlight' BY <1>1 DEF InFlight
<1>6. CoherentPass' BY <1>1 DEF ScopeInv, CoherentPass
<1> QED BY <1>2, <1>3, <1>4, <1>5, <1>6 DEF ScopeInv

(* A command that has a review keeps the documents it reviewed: no one but it  *)
(* moves before it ends.                                                      *)
LEMMA ScopeStep == ScopeInv /\ [Next]_vars => ScopeInv'
<1> SUFFICES ASSUME ScopeInv, [Next]_vars PROVE ScopeInv' OBVIOUS
<1>1. ASSUME NEW s \in Section, NEW t \in Texts[s], Edit(s, t) PROVE ScopeInv'
  BY <1>1, IdleStep DEF Edit, files
<1>2. ASSUME NEW d \in Deps, Upstreamed(d) PROVE ScopeInv'
  BY <1>2, IdleStep DEF Upstreamed, files
<1>3. ASSUME NEW S \in SUBSET Issue, Claim(S) PROVE ScopeInv'
  BY <1>3, IdleStep DEF Claim, files
<1>4. CASE Unclaim BY <1>4, IdleStep DEF Unclaim, files
<1>5. ASSUME NEW R \in SUBSET Issue, NEW L \in SUBSET Issue, Answer(R, L) PROVE ScopeInv'
  BY <1>5, IdleStep DEF Answer, files
<1>6. ASSUME NEW v \in Versions, Request(v) PROVE ScopeInv' BY <1>6, RequestStep
<1>7. CASE Hand BY <1>7, IdleStep DEF Hand
<1>8. CASE Validate BY <1>8, ValidateStep
<1>9. CASE Commit BY <1>9, CommitStep
<1>10. CASE Publish BY <1>10, PublishStep
<1>11. CASE Abort BY <1>11, IdleStep DEF Abort, files
<1>12. CASE UNCHANGED vars
  <2>1. UNCHANGED <<base, req, cur, gate, reviews, at, text>> BY <1>12 DEF vars, files, people
  <2>2. IsSequence' BY <2>1 DEF ScopeInv, IsSequence
  <2>3. ReqForm' BY <2>1 DEF ScopeInv, ReqForm
  <2>4. BaseReviewed' BY <2>1 DEF ScopeInv, BaseReviewed, OfAll
  <2>5. InFlight' BY <2>1 DEF ScopeInv, InFlight, Latest, Shown, Read, OfAll, Scoped
  <2>6. CoherentPass' BY <2>1 DEF ScopeInv, CoherentPass
  <2> QED BY <2>2, <2>3, <2>4, <2>5, <2>6 DEF ScopeInv
<1> QED BY <1>1, <1>2, <1>3, <1>4, <1>5, <1>6, <1>7, <1>8, <1>9, <1>10, <1>11, <1>12 DEF Next

(* A stage whose reviewer was only sent parts passes on reviews that together *)
(* covered all of it: every section was judged in its present text beside the *)
(* present text of all that it depends on, in whichever schema, however the   *)
(* documents, the plan, the claims and the baseline moved in between and      *)
(* wherever a command was killed.                                            *)
THEOREM PartsAddUp == Spec => []CoherentPass
<1>1. Spec => []ScopeInv BY ScopeInit, ScopeStep, PTL DEF Spec
<1>2. ScopeInv => CoherentPass BY DEF ScopeInv
<1> QED BY <1>1, <1>2, PTL

-----------------------------------------------------------------------------
(* What a verification stands on. *)

(* Who owns a section follows from the documents, not from where they are.    *)
LEMMA OwnersAre ==
  ASSUME NEW p, NEW q, p.defines = q.defines
  PROVE  Owners(p) = Owners(q)
BY DEF Owners, Present

(* Somebody reviewed the whole of a snapshot, in the text it has, and from    *)
(* then on the reviews of schema 1 reported nothing but R.                    *)
OfAllClean(rs, p, R) ==
    \E k \in DOMAIN rs :
       /\ rs[k].text = p.text /\ Present(p) \subseteq rs[k].targets
       /\ \A m \in k..Len(rs) : rs[m].version = 1 => rs[m].reports \subseteq R

(* A baseline of schema 1 is thrown away by the first report. *)
BaseClean == base # None /\ base.version # 2 => OfAllClean(reviews, base.snap, {})

(* A command about to give its verdict is about the review it has validated.  *)
FlightClean == at = "commit" =>
    /\ Latest.version = req.version /\ Latest.reports = answer.reports
    /\ req.version = 1 /\ req.mode = "incremental" =>
          OfAllClean(reviews, req.prior, answer.reports)

ShownInv == ScopeInv /\ text \in Documents /\ BaseClean /\ FlightClean

LEMMA AppendedClean ==
  ASSUME IsSequence, NEW x, NEW p, NEW R, NEW Q, R \subseteq Q, x.version = 1 => x.reports \subseteq Q,
         OfAllClean(reviews, p, R)
  PROVE  OfAllClean(Append(reviews, x), p, Q)
<1> DEFINE ss == Append(reviews, x)
<1>1. PICK S : reviews \in Seq(S) BY DEF IsSequence
<1>2. /\ Len(reviews) \in Nat /\ Len(ss) = Len(reviews) + 1
      /\ DOMAIN reviews = 1..Len(reviews) /\ ss[Len(ss)] = x
      /\ Grown(reviews, ss) /\ Len(ss) \in DOMAIN ss
  <2>1. Len(reviews) \in Nat /\ DOMAIN reviews = 1..Len(reviews) BY <1>1
  <2>2. Len(ss) = Len(reviews) + 1
    <3>1. reviews \in [1..Len(reviews) -> S] BY <1>1, <2>1
    <3>2. reviews \in Seq(S \cup {x}) BY <2>1, <3>1
    <3> QED BY <3>2
  <2> HIDE DEF ss
  <2>3. ss[Len(ss)] = x /\ Grown(reviews, ss) /\ Len(ss) \in DOMAIN ss
    BY Appended DEF ss
  <2> QED BY <2>1, <2>2, <2>3
<1> HIDE DEF ss
<1>3. PICK k \in DOMAIN reviews :
        /\ reviews[k].text = p.text /\ Present(p) \subseteq reviews[k].targets
        /\ \A m \in k..Len(reviews) : reviews[m].version = 1 => reviews[m].reports \subseteq R
  BY DEF OfAllClean
<1>4. k \in DOMAIN ss /\ ss[k] = reviews[k] /\ k \in 1..Len(reviews) BY <1>2 DEF Grown
<1>5. ASSUME NEW m \in k..Len(ss), ss[m].version = 1 PROVE ss[m].reports \subseteq Q
  <2>1. m = Len(ss) \/ m \in k..Len(reviews) BY <1>2, <1>4
  <2>2. CASE m = Len(ss) BY <1>2, <1>5, <2>2
  <2>3. CASE m \in k..Len(reviews)
    <3>1. m \in DOMAIN reviews BY <1>2, <1>4, <2>3
    <3>2. ss[m] = reviews[m] BY <1>2, <3>1 DEF Grown
    <3> QED BY <1>3, <1>5, <2>3, <3>2
  <2> QED BY <2>1, <2>2, <2>3
<1>6. OfAllClean(ss, p, Q) BY <1>3, <1>4, <1>5 DEF OfAllClean
<1> QED BY <1>6 DEF ss

LEMMA ShownInit == Init => ShownInv
<1> SUFFICES ASSUME Init PROVE ShownInv OBVIOUS
<1>1. ScopeInv BY ScopeInit
<1>2. text \in Documents BY TextAssumption DEF Init
<1>3. BaseClean BY DEF Init, BaseClean
<1>4. FlightClean BY DEF Init, FlightClean
<1> QED BY <1>1, <1>2, <1>3, <1>4 DEF ShownInv

(* Only an edit changes a text, to one its author may write. *)
LEMMA EditStays ==
  ASSUME text \in Documents, NEW s \in Section, NEW t \in Texts[s]
  PROVE  [text EXCEPT ![s] = t] \in Documents
BY DEF Documents

LEMMA ValidateShown ==
  ASSUME ShownInv, Validate
  PROVE  ShownInv'
<1> DEFINE x == [version |-> req.version, text |-> text, targets |-> req.targets,
                 shown |-> Shown(req), reports |-> answer.reports]
<1>1. ScopeInv' BY ValidateStep DEF ShownInv
<1>2. /\ reviews' = Append(reviews, x) /\ at' = "commit"
      /\ base' = IF req.version = 1 THEN Baseline1 ELSE base
      /\ UNCHANGED <<req, cur, text, answer>>
  BY DEF Validate, people
<1>3. /\ req # None /\ cur = req.snap /\ req.snap = Snap(req.version)
      /\ req.mode = "incremental" => req = Plan(req.version, req.snap)
  BY DEF Validate, ValidReview
<1>4. IsSequence /\ ReqForm BY DEF ShownInv, ScopeInv
<1>5. /\ Len(reviews') \in DOMAIN reviews' /\ reviews'[Len(reviews')] = x
      /\ \E R : reviews' \in Seq(R)
  <2> HIDE DEF x
  <2> QED BY <1>2, <1>4, Appended
<1>6. /\ x.version = req.version /\ x.reports = answer.reports
      /\ x.text = text /\ x.targets = req.targets
  OBVIOUS
<1> HIDE DEF x
<1>7. (text \in Documents)' BY <1>2 DEF ShownInv, Documents
<1>8. BaseClean'
  <2>1. CASE base' = base /\ (req.version = 1 => answer.reports = {})
    <3> SUFFICES ASSUME base # None, base.version # 2 PROVE OfAllClean(reviews', base.snap, {})
      BY <2>1 DEF BaseClean, OfAllClean
    <3>1. OfAllClean(reviews, base.snap, {}) BY DEF ShownInv, BaseClean
    <3>2. x.version = 1 => x.reports \subseteq {} BY <1>6, <2>1
    <3> QED BY <1>2, <1>4, <3>1, <3>2, AppendedClean
  <2>2. CASE base' = None BY <2>2 DEF BaseClean
  <2>3. CASE /\ req.mode = "full" /\ base' = [version |-> 1, snap |-> cur]
             /\ answer.reports = {}
    <3>1. base'.snap = req.snap BY <1>3, <2>3
    <3>2. req.targets = Present(req.snap)
      <4>1. req.mode # "incremental" BY <2>3
      <4> QED BY <1>3, <1>4, <4>1 DEF ReqForm
    <3>3. req.snap.text = text
      <4>1. PICK e : e = <<req.version, dep>> OBVIOUS
      <4>2. req.snap = Read(text, e) BY <1>3, <4>1 DEF Snap
      <4> QED BY <4>2, PresentIs
    <3>4. ASSUME NEW m \in Len(reviews')..Len(reviews') PROVE reviews'[m].reports \subseteq {}
      <4>1. Len(reviews') \in Nat BY <1>5
      <4>2. m = Len(reviews') BY <4>1
      <4> QED BY <1>5, <1>6, <2>3, <4>2
    <3>5. OfAllClean(reviews', req.snap, {})
      BY <1>5, <1>6, <3>2, <3>3, <3>4 DEF OfAllClean
    <3> QED BY <3>1, <3>5 DEF BaseClean, OfAllClean
  <2> QED BY <1>2, <2>1, <2>2, <2>3 DEF Baseline1
<1>9. FlightClean'
  <2>1. ASSUME req.version = 1, req.mode = "incremental"
        PROVE  OfAllClean(reviews', req.prior, answer.reports)
    <3>1. req = Plan1(base, req.snap) BY <1>3, <2>1 DEF Plan
    <3>2. base # None /\ base.version # 2 /\ req.prior = base.snap
      <4>1. CASE base = None \/ base.version = 2 \/ NoBaseline(base.snap, req.snap)
        <5>1. req = Full(1, req.snap, <<>>) BY <3>1, <4>1 DEF Plan1
        <5>2. req.mode = "full" BY <5>1 DEF Full
        <5> QED BY <2>1, <5>2
      <4>2. CASE ~(base = None \/ base.version = 2 \/ NoBaseline(base.snap, req.snap))
        <5>1. req = [Full(1, req.snap, <<>>) EXCEPT !.mode = "incremental", !.prior = base.snap,
                                 !.targets = Impact(base.snap, req.snap)]
          BY <3>1, <4>2 DEF Plan1
        <5>2. req.prior = base.snap BY <5>1 DEF Full
        <5> QED BY <4>2, <5>2
      <4> QED BY <4>1, <4>2
    <3>3. OfAllClean(reviews, base.snap, {}) BY <3>2 DEF ShownInv, BaseClean
    <3>4. x.version = 1 => x.reports \subseteq answer.reports BY <1>6
    <3>5. OfAllClean(Append(reviews, x), base.snap, answer.reports)
      BY <1>4, <3>3, <3>4, AppendedClean
    <3> QED BY <1>2, <3>2, <3>5
  <2>2. Latest' = x BY <1>5 DEF Latest
  <2>3. (OfAllClean(reviews, req.prior, answer.reports))' = OfAllClean(reviews', req.prior, answer.reports)
    BY <1>2 DEF OfAllClean
  <2> QED BY <1>2, <1>6, <2>1, <2>2, <2>3 DEF FlightClean
<1> QED BY <1>1, <1>7, <1>8, <1>9 DEF ShownInv

LEMMA ShownStep == ShownInv /\ [Next]_vars => ShownInv'
<1> SUFFICES ASSUME ShownInv, [Next]_vars PROVE ShownInv' OBVIOUS
<1>1. ScopeInv' BY ScopeStep DEF ShownInv
(* Between commands, and when one is killed. *)
<1>2. ASSUME UNCHANGED <<base, reviews>>, at' # "commit", (text \in Documents)' PROVE ShownInv'
  <2>1. BaseClean' BY <1>2 DEF ShownInv, BaseClean, OfAllClean
  <2>2. FlightClean' BY <1>2 DEF FlightClean
  <2> QED BY <1>1, <1>2, <2>1, <2>2 DEF ShownInv
<1>3. ASSUME UNCHANGED text PROVE (text \in Documents)' BY <1>3 DEF ShownInv, Documents
<1>4. ASSUME NEW s \in Section, NEW t \in Texts[s], Edit(s, t) PROVE ShownInv'
  <2>1. UNCHANGED <<base, reviews>> /\ at' # "commit" /\ text' = [text EXCEPT ![s] = t]
    BY <1>4 DEF Edit, files
  <2>2. [text EXCEPT ![s] = t] \in Documents BY EditStays DEF ShownInv
  <2>3. (text \in Documents)' BY <2>1, <2>2 DEF Documents
  <2> QED BY <1>2, <2>1, <2>3
<1>5. ASSUME NEW d \in Deps, Upstreamed(d) PROVE ShownInv'
  BY <1>2, <1>3, <1>5 DEF Upstreamed, files
<1>6. ASSUME NEW S \in SUBSET Issue, Claim(S) PROVE ShownInv'
  BY <1>2, <1>3, <1>6 DEF Claim, files
<1>7. CASE Unclaim BY <1>2, <1>3, <1>7 DEF Unclaim, files
<1>8. ASSUME NEW R \in SUBSET Issue, NEW L \in SUBSET Issue, Answer(R, L) PROVE ShownInv'
  BY <1>2, <1>3, <1>8 DEF Answer, files
<1>9. ASSUME NEW v \in Versions, Request(v) PROVE ShownInv'
  BY <1>2, <1>3, <1>9 DEF Request, people
<1>10. CASE Hand BY <1>2, <1>3, <1>10 DEF Hand
<1>11. CASE Validate BY <1>11, ValidateShown
<1>12. CASE Commit
  <2>1. UNCHANGED <<base, reviews, text>> BY <1>12 DEF Commit, people
  <2>2. at' # "commit" BY <1>12 DEF Commit
  <2> QED BY <1>2, <1>3, <2>1, <2>2
<1>13. CASE Publish
  <2>1. at' = "idle" /\ base'.version = 2 /\ UNCHANGED <<reviews, text>>
    BY <1>13 DEF Publish, people
  <2>2. BaseClean' BY <2>1 DEF BaseClean
  <2>3. FlightClean' BY <2>1 DEF FlightClean
  <2> QED BY <1>1, <1>3, <2>1, <2>2, <2>3 DEF ShownInv
<1>14. CASE Abort BY <1>2, <1>3, <1>14 DEF Abort, files, people
<1>15. CASE UNCHANGED vars
  <2>1. UNCHANGED <<base, req, at, text, answer, reviews>> BY <1>15 DEF vars, files, people
  <2>2. BaseClean' BY <2>1 DEF ShownInv, BaseClean, OfAllClean
  <2>3. FlightClean' BY <2>1 DEF ShownInv, FlightClean, Latest, OfAllClean
  <2> QED BY <1>1, <1>3, <2>1, <2>2, <2>3 DEF ShownInv
<1> QED BY <1>4, <1>5, <1>6, <1>7, <1>8, <1>9, <1>10, <1>11, <1>12, <1>13, <1>14, <1>15 DEF Next

(* To settle an issue takes a claim, a review that keeps silent about it, and  *)
(* that it was asked about.                                                   *)
LEMMA SettledIs ==
  ASSUME Commit, NEW i \in Issue, lc.state[i] \in Unsettled, lc'.state[i] \in {"VERIFIED", "CLOSED"}
  PROVE  i \notin answer.reports /\ i \in Covered
<1>1. PICK c : c = IF i \in Pending(lc) THEN "FIXED" ELSE lc.state[i] OBVIOUS
<1>2. c \in Unsettled BY <1>1 DEF Unsettled
<1>3. Prepared.state[i] = Reviewed(i) BY DEF Prepared
<1>4. Reviewed(i) \in {"VERIFIED", "CLOSED"}
  <2>1. lc' = Prepared \/ lc' = Closed(Prepared) BY DEF Commit
  <2>2. Closed(Prepared).state[i] = IF Prepared.state[i] = "VERIFIED" THEN "CLOSED" ELSE Prepared.state[i]
    BY DEF Closed, Prepared
  <2>3. lc'.state[i] = Prepared.state[i] \/ Prepared.state[i] = "VERIFIED"
    <3> HIDE DEF Prepared
    <3>1. CASE lc' = Prepared BY <3>1
    <3>2. CASE lc' = Closed(Prepared) BY <2>2, <3>2
    <3> QED BY <2>1, <3>1, <3>2
  <2> QED BY <1>3, <2>3
<1>5. Reviewed(i) = IF i \in answer.reports
                    THEN IF c = "none" THEN "OPEN"
                         ELSE IF c \in {"FIXED", "VERIFIED", "CLOSED"} THEN "REOPENED" ELSE c
                    ELSE IF c = "FIXED" /\ i \in Covered THEN "VERIFIED" ELSE c
  BY <1>1 DEF Reviewed
<1> HIDE DEF Covered
<1> QED BY <1>2, <1>4, <1>5 DEF Unsettled

(* Schema 2: all the sections of an issue are among those that were sent. *)
LEMMA CoveredIsSent ==
  ASSUME ReportsNameOwners, ShownInv, at = "commit", req.version = 2, NEW i \in Issue, i \in Covered,
         NEW s \in At[i], text[s] # None
  PROVE  s \in req.targets
<1> DEFINE q == req.snap
           bound == Bound(lc, q, TRUE)
           keys == IF bound[i].keys = {} /\ i \in answer.locates THEN At[i] ELSE bound[i].keys
<1>1. /\ req # None /\ q = Read(text, q.dep)
      /\ req.mode = "incremental" => Scoped(req)
      /\ req.mode = "incremental" \/ (req.mode = "full" /\ req.targets = Present(q))
  BY DEF ShownInv, ScopeInv, InFlight, ReqForm
<1>2. s \in Section BY PlaceAssumption
<1>3. PICK d : d = q.dep OBVIOUS
<1>4. q = Read(text, d) BY <1>1, <1>3
<1>5. Present(q) = {r \in Section : text[r] # None}
  <2> HIDE DEF q
  <2> QED BY <1>4, PresentIs
<1>6. s \in Present(q) BY <1>2, <1>5
<1>7. i \in DOMAIN bound /\ keys # {} /\ keys \subseteq req.targets
  <2>1. Covered = {j \in DOMAIN bound :
                     LET of == IF bound[j].keys = {} /\ j \in answer.locates
                               THEN At[j] ELSE bound[j].keys
                     IN of # {} /\ of \subseteq req.targets}
    <3>1. req.version # 1 OBVIOUS
    <3> QED BY <3>1, Zenon DEF Covered
  <2> HIDE DEF bound
  <2> QED BY <2>1
<1>8. bound[i].keys = At[i] \/ bound[i].keys = Named(q, i)
  <2>1. DOMAIN bound = Raised(lc, TRUE) BY DEF Bound
  <2>2. i \in Raised(lc, TRUE) BY <1>7, <2>1
  <2> HIDE DEF q
  <2> QED BY <2>2 DEF Bound
<1> HIDE DEF bound
<1>9. keys = At[i] \/ (keys = Where[i] /\ Where[i] \subseteq Present(q)) BY <1>7, <1>8 DEF Named
<1> HIDE DEF keys
<1>10. CASE keys = At[i] BY <1>7, <1>10
<1>11. CASE keys = Where[i] /\ Where[i] \subseteq Present(q)
  (* A section that it names goes together with this one. *)
  <2>1. PICK r \in Where[i] :
          r = s \/ (Owners(q)[s] # None /\ Owners(q)[r] = Owners(q)[s])
    <3> DEFINE own == Owners(Read(text, FirstDep))
    <3>1. Read(text, FirstDep).defines = q.defines
      <4> HIDE DEF q
      <4> QED BY <1>4 DEF Read
    <3>2. own = Owners(q)
      <4> HIDE DEF q
      <4> QED BY <3>1, OwnersAre
    <3>3. DOMAIN own = Present(q) BY <3>2 DEF Owners
    <3>4. text \in Documents BY DEF ShownInv
    <3>5. Where[i] # {} /\ Where[i] \subseteq DOMAIN own => \A t \in At[i] \cap DOMAIN own :
             \E r \in Where[i] : r = t \/ (own[t] # None /\ own[r] = own[t])
      BY <3>4 DEF ReportsNameOwners
    <3> HIDE DEF own, q
    <3>6. Where[i] # {} /\ Where[i] \subseteq DOMAIN own BY <1>7, <1>11, <3>3
    <3>7. s \in At[i] \cap DOMAIN own BY <1>6, <3>3
    <3> QED BY <3>2, <3>5, <3>6, <3>7
  <2>2. Present(q) \subseteq Section /\ r \in req.targets BY <1>5, <1>7, <1>11
  <2>3. CASE req.mode = "full"
    <3>1. req.mode # "incremental" BY <2>3
    <3> QED BY <1>1, <1>6, <3>1
  <2>4. CASE req.mode = "incremental"
    <3> DEFINE p == req.prior
               open == Located(req.bound)
               ev == Evidence(q)
    <3>1. req.version # 1 OBVIOUS
    <3>2. ~NoScope(p, q, ev, open) /\ req.targets = Targets(p, q, ev, open)
      BY <1>1, <2>4, <3>1 DEF Scoped
    <3>3. open \in SUBSET Present(q) BY <3>2 DEF NoScope
    <3>4. s \in Group(ev, {r})
      <4>1. ev.owner = Owners(q) BY DEF Evidence
      <4>2. DOMAIN ev.owner = Present(q) BY <4>1 DEF Owners
      <4> HIDE DEF ev, q
      <4> QED BY <1>6, <2>1, <4>1, <4>2, GroupIs
    <3>5. r \in Targets(p, q, ev, open) BY <2>2, <3>2
    <3> HIDE DEF p, q, open
    <3>6. s \in Targets(p, q, ev, open)
      BY <2>2, <3>3, <3>4, <3>5, TargetsAreGrouped DEF ev
    <3> QED BY <3>2, <3>6
  <2> QED BY <1>1, <2>3, <2>4
<1> QED BY <1>9, <1>10, <1>11

(* The review a section was last sent in, for the issue that is settled now.  *)
LEMMA SettledWasShown ==
  ASSUME ReportsNameOwners, ShownInv, Commit, NEW i \in Issue, i \notin answer.reports, i \in Covered,
         NEW s \in At[i], text[s] # None
  PROVE  \E k \in DOMAIN reviews : ShownSince(k, i, s, req.version)
<1> DEFINE n == Len(reviews)
           q == req.snap
           p == req.prior
<1>1. at = "commit" BY DEF Commit
<1>2. /\ n \in DOMAIN reviews /\ reviews[n].text = text /\ reviews[n].targets = req.targets
      /\ reviews[n].reports = answer.reports /\ q = Read(text, q.dep) /\ req # None
      /\ req.mode = "incremental" => Scoped(req)
      /\ req.version \in {1, 2}
      /\ req.mode = "incremental" \/ (req.mode = "full" /\ req.targets = Present(q))
  BY <1>1 DEF ShownInv, ScopeInv, InFlight, FlightClean, Latest, ReqForm
<1>3. Present(q) = {r \in Section : text[r] # None} /\ q.text = text
  <2>1. PICK d : d = q.dep OBVIOUS
  <2>2. q = Read(text, d) BY <1>2, <2>1
  <2> HIDE DEF q
  <2> QED BY <2>2, PresentIs
<1>4. s \in Present(q) /\ Present(q) \subseteq Section BY <1>3, PlaceAssumption
<1>5. n \in Nat
  <2>1. PICK R : reviews \in Seq(R) BY DEF ShownInv, ScopeInv, IsSequence
  <2> QED BY <2>1
(* Sent in the review that verifies. *)
<1>6. ASSUME s \in req.targets PROVE \E k \in DOMAIN reviews : ShownSince(k, i, s, req.version)
  <2>1. ASSUME NEW m \in n..n PROVE i \notin reviews[m].reports
    <3>1. m = n BY <1>5
    <3> QED BY <1>2, <3>1
  <2>2. ShownSince(n, i, s, req.version) BY <1>2, <1>6, <2>1 DEF ShownSince
  <2> QED BY <1>2, <2>2
<1>7. CASE req.mode = "full"
  <2>1. req.mode # "incremental" BY <1>7
  <2> QED BY <1>2, <1>4, <1>6, <2>1
<1>8. CASE req.version = 2 BY <1>1, <1>6, <1>8, CoveredIsSent
<1>9. CASE req.version = 1 /\ req.mode = "incremental"
  <2>1. ~NoBaseline(p, q) /\ req.targets = Impact(p, q) BY <1>2, <1>9 DEF Scoped
  <2>2. s \in Context(1, q, s) BY DEF Context
  <2>3. Present(p) = Present(q) /\ (s \in Impact(p, q) \/ p.text[s] = q.text[s])
    <3> HIDE DEF p, q
    <3> QED BY <1>4, <2>1, <2>2, ImpactCovers
  <2>4. CASE s \in Impact(p, q) BY <1>6, <2>1, <2>4
  <2>5. CASE p.text[s] = q.text[s]
    <3>1. OfAllClean(reviews, p, answer.reports) BY <1>1, <1>9 DEF ShownInv, FlightClean
    <3>2. PICK k \in DOMAIN reviews :
            /\ reviews[k].text = p.text /\ Present(p) \subseteq reviews[k].targets
            /\ \A m \in k..Len(reviews) : reviews[m].version = 1 =>
                  reviews[m].reports \subseteq answer.reports
      BY <3>1 DEF OfAllClean
    <3>3. s \in reviews[k].targets /\ reviews[k].text[s] = text[s]
      BY <1>3, <1>4, <2>3, <2>5, <3>2
    <3>4. ASSUME NEW m \in k..Len(reviews), i \in reviews[m].reports
          PROVE  reviews[m].version # req.version
      BY <1>9, <3>2, <3>4
    <3>5. ShownSince(k, i, s, req.version) BY <1>9, <3>3, <3>4 DEF ShownSince
    <3> QED BY <3>5
  <2> QED BY <2>3, <2>4, <2>5
<1> QED BY <1>2, <1>7, <1>8, <1>9

(* Only a verdict settles. *)
LEMMA OnlyCommitSettles ==
  ASSUME [Next]_vars
  PROVE  Commit \/ UNCHANGED lc
<1>1. UNCHANGED files => UNCHANGED lc BY DEF files
<1> QED BY <1>1 DEF Next, vars, files, Edit, Upstreamed, Claim, Unclaim, Answer, Request, Hand,
           Validate, Publish, Abort

LEMMA SettlesShown ==
  ReportsNameOwners /\ ShownInv /\ [Next]_vars =>
    [\A i \in Issue :
       lc.state[i] \in Unsettled /\ lc'.state[i] \in {"VERIFIED", "CLOSED"} =>
         \A s \in At[i] : text[s] # None =>
            \E k \in DOMAIN reviews : ShownSince(k, i, s, gate'.req.version)]_vars
<1> SUFFICES ASSUME ReportsNameOwners, ShownInv, [Next]_vars, NEW i \in Issue,
                    lc.state[i] \in Unsettled, lc'.state[i] \in {"VERIFIED", "CLOSED"},
                    NEW s \in At[i], text[s] # None
             PROVE  \E k \in DOMAIN reviews : ShownSince(k, i, s, gate'.req.version)
  OBVIOUS
<1>1. Commit
  <2>1. lc' # lc BY DEF Unsettled
  <2> QED BY <2>1, OnlyCommitSettles
<1>2. i \notin answer.reports /\ i \in Covered BY <1>1, SettledIs
<1>3. gate'.req = req BY <1>1 DEF Commit
<1>4. \E k \in DOMAIN reviews : ShownSince(k, i, s, req.version)
  BY <1>1, <1>2, SettledWasShown
<1> QED BY <1>3, <1>4

(* No silence about something that was not asked verifies a fix: whatever was  *)
(* edited, answered late, baselined or killed in between, every section an    *)
(* issue is about was sent in the text it has, and schema 2 sends them all in *)
(* the very review that verifies, when a report names a section of every      *)
(* owner it is about.                                                        *)
THEOREM SilenceIsAsked ==
  ASSUME ReportsNameOwners
  PROVE  Spec => VerifiedWasShown
<1>1. Spec => []ShownInv BY ShownInit, ShownStep, PTL DEF Spec
<1>2. ShownInv /\ [Next]_vars =>
        [\A i \in Issue :
           lc.state[i] \in Unsettled /\ lc'.state[i] \in {"VERIFIED", "CLOSED"} =>
             \A s \in At[i] : text[s] # None =>
                \E k \in DOMAIN reviews : ShownSince(k, i, s, gate'.req.version)]_vars
  BY SettlesShown
<1> QED BY <1>1, <1>2, PTL DEF Spec, VerifiedWasShown
=============================================================================
