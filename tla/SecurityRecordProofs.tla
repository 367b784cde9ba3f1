------------------------ MODULE SecurityRecordProofs ------------------------
(***************************************************************************)
(* The security record for any findings, evidence, reviewers, leases and   *)
(* bounds: types, that a proof is for one revision, that the record only   *)
(* grows, that what is called closed is proved, and that a closing that    *)
(* lapsed stays lapsed.                                                    *)
(***************************************************************************)
EXTENDS SecurityRecord, WellFoundedInduction, TLAPS

(***************************************************************************)
(* What holds of every revision, committed or about to be written          *)
(***************************************************************************)
\* A decision is on the revision it was given for, and no author's.
Justified(r) ==
  \A i \in DOMAIN r.events : \A h \in r.events[i].by :
    h.rev = i /\ (h.kind = "review" => h.actor # Author /\ r.events[i].on \subseteq h.findings)

\* One review lets a reverification in.
Attested(r) ==
  \A i \in DOMAIN r.events : r.events[i].op = "reverify" => \E h : r.events[i].by = {h}

Shown(life) == life \in {"VERIFIED", "CLOSED"}

\* The gap is closed once everything is verified, and no gate comes before.
GapClosed(r) ==
  /\ ~r.gap => \A f \in Findings : Shown(r.life[f])
  /\ r.gate # {} => ~r.gap

EventOn(e, op, f) == e.op = op /\ f \in e.on

\* What a finding is said to be has its events.
Traced(r) ==
  \A f \in Findings :
    /\ r.life[f] # "OPEN" => \E j \in DOMAIN r.events : EventOn(r.events[j], "claim-fixed", f)
    /\ Shown(r.life[f]) =>
         \E i \in DOMAIN r.events : \E j \in 1 .. i - 1 :
           EventOn(r.events[i], "reverify", f) /\ EventOn(r.events[j], "claim-fixed", f)

Sound(r) ==
  /\ r \in Records
  /\ Len(r.events) <= MaxEvents
  /\ Sealed(r) /\ Justified(r) /\ Attested(r) /\ GapClosed(r) /\ Traced(r)

\* A draft is no later than the next revision, and if it is the next it was
\* built on the present one.
Fitting(r) ==
  /\ Rev(r) <= Rev(record) + 1
  /\ Rev(r) = Rev(record) + 1 /\ record.gate # {} => r.gate # {} /\ r.life = record.life

Surroundings ==
  /\ receipts \subseteq Receipt
  /\ revoked \subseteq receipts
  /\ index \subseteq receipts \cap Source
  /\ handles \subseteq receipts
  /\ workers \subseteq Registration
  /\ now \in 0 .. Horizon
  /\ until \in Times
  /\ identity \in Codes

Drafts ==
  /\ draft \in [Parties -> SUBSET Records]
  /\ \A w \in Parties : \A r \in draft[w] : Sound(r) /\ Fitting(r)

IInv == Surroundings /\ Sound(record) /\ Drafts

(***************************************************************************)
(* One more event                                                          *)
(***************************************************************************)
LEMMA AppendedEvents ==
  ASSUME NEW s \in Seq(Event), NEW e \in Event
  PROVE  LET t == Append(s, e) IN
         /\ t \in Seq(Event) /\ Len(t) = Len(s) + 1
         /\ DOMAIN t = 1 .. Len(s) + 1 /\ DOMAIN s = 1 .. Len(s)
         /\ \A i \in 1 .. Len(s) : t[i] = s[i]
         /\ t[Len(s) + 1] = e
         /\ SubSeq(t, 1, Len(s)) = s
OBVIOUS

\* r is b with one more event than the record has.
Continues(r, b, e) ==
  /\ r \in Records
  /\ r.life = b.life /\ r.gap = b.gap /\ r.gate = b.gate
  /\ Rev(record) \in Nat /\ Rev(r) = Rev(record) + 1
  /\ DOMAIN record.events = 1 .. Rev(record) - 1
  /\ \A i \in DOMAIN record.events : i \in DOMAIN r.events /\ r.events[i] = record.events[i]
  /\ Rev(record) \in DOMAIN r.events
  /\ r.events[Rev(record)] = e

\* The next revision is as sound as the present one, if its event is.
LEMMA NextRevision ==
  ASSUME IInv, NEW b \in Records, b.events = record.events,
         NEW op \in {"claim-fixed", "reverify", "resolve", "close"},
         NEW on \in SUBSET Findings, NEW by \in SUBSET Receipt,
         \A h \in by : /\ h.rev = Rev(record)
                       /\ h.kind = "review" => h.actor # Author /\ on \subseteq h.findings,
         op = "reverify" => \E h : by = {h}
  PROVE  LET r == Logged(b, op, on, by) IN
         /\ Continues(r, b, [op |-> op, on |-> on, by |-> by])
         /\ Justified(r) /\ Attested(r)
<1> DEFINE r == Logged(b, op, on, by)
           e == [op |-> op, on |-> on, by |-> by]
<1>1. e \in Event /\ record.events \in Seq(Event)
  BY DEF Event, IInv, Sound, Records
<1>2. r.events = Append(record.events, e) /\ r \in Records
      /\ r.life = b.life /\ r.gap = b.gap /\ r.gate = b.gate
  <2>1. Append(record.events, e) \in Seq(Event)
    BY <1>1, AppendedEvents
  <2> QED BY <2>1 DEF Logged, Records
<1>3. /\ Len(r.events) = Len(record.events) + 1
      /\ DOMAIN r.events = 1 .. Len(record.events) + 1
      /\ DOMAIN record.events = 1 .. Len(record.events)
      /\ \A i \in 1 .. Len(record.events) : r.events[i] = record.events[i]
      /\ r.events[Len(record.events) + 1] = e
      /\ Len(record.events) \in Nat
  BY <1>1, <1>2, AppendedEvents
<1>4. Rev(record) = Len(record.events) + 1 /\ Rev(r) = Rev(record) + 1
  BY <1>3 DEF Rev
<1>5. Justified(record) /\ Attested(record)
  BY DEF IInv, Sound
<1>6. \A i \in DOMAIN r.events : i \in DOMAIN record.events \/ i = Rev(record)
  BY <1>3, <1>4
<1>7. /\ \A i \in DOMAIN record.events : r.events[i] = record.events[i]
      /\ r.events[Rev(record)].op = op
      /\ r.events[Rev(record)].on = on
      /\ r.events[Rev(record)].by = by
  BY <1>3, <1>4
<1> HIDE DEF r, e
<1>8. Justified(r)
  BY <1>5, <1>6, <1>7 DEF Justified
<1>9. Attested(r)
  <2> SUFFICES ASSUME NEW i \in DOMAIN r.events, r.events[i].op = "reverify"
               PROVE  \E h : r.events[i].by = {h}
    BY DEF Attested
  <2>1. CASE i \in DOMAIN record.events
    BY <2>1, <1>7, <1>5 DEF Attested
  <2>2. CASE i = Rev(record)
    <3>1. op = "reverify" /\ r.events[i].by = by
      BY <2>2, <1>7
    <3> QED BY <3>1
  <2> QED BY <2>1, <2>2, <1>6
<1> QED BY <1>2, <1>3, <1>4, <1>8, <1>9 DEF r, e, Continues

LEMMA Present ==
  ASSUME IInv
  PROVE  /\ record \in Records
         /\ record.life \in Lives /\ record.gap \in BOOLEAN /\ record.res \in SUBSET Resolution
         /\ record.gate \in SUBSET Gate
         /\ Rev(record) \in Nat /\ Rev(record) <= MaxEvents + 1 /\ Rev(record) >= 1
         /\ record.events \in Seq(Event)
BY SRAssumption DEF IInv, Sound, Records, Rev

\* Two sealed revisions under one gate have one lifecycle.
LEMMA SealedTogether ==
  ASSUME NEW r, NEW s, Sealed(r), Sealed(s), r.gate = s.gate, r.gate # {}
  PROVE  r.life = s.life
BY DEF Sealed

LEMMA ProjectedTwice ==
  ASSUME NEW life \in Lives
  PROVE  Projected(life) \in Lives /\ Projected(Projected(life)) = Projected(life)
BY DEF Projected, Lives, LifeStates

\* What the record's events say, those of the next revision say too.
LEMMA TracesKept ==
  ASSUME IInv, NEW r, NEW b, NEW e, Continues(r, b, e), NEW f \in Findings
  PROVE  /\ record.life[f] # "OPEN" =>
              \E j \in DOMAIN r.events : j < Rev(record) /\ EventOn(r.events[j], "claim-fixed", f)
         /\ Shown(record.life[f]) =>
              \E i \in DOMAIN r.events : \E j \in 1 .. i - 1 :
                EventOn(r.events[i], "reverify", f) /\ EventOn(r.events[j], "claim-fixed", f)
<1>1. Traced(record)
  BY DEF IInv, Sound
<1>2. /\ Rev(record) \in Nat
      /\ DOMAIN record.events = 1 .. Rev(record) - 1
      /\ \A i \in DOMAIN record.events : i \in DOMAIN r.events /\ r.events[i] = record.events[i]
  BY DEF Continues
<1>3. ASSUME record.life[f] # "OPEN"
      PROVE  \E j \in DOMAIN r.events : j < Rev(record) /\ EventOn(r.events[j], "claim-fixed", f)
  <2>1. PICK j \in DOMAIN record.events : EventOn(record.events[j], "claim-fixed", f)
    BY <1>1, <1>3 DEF Traced
  <2> QED BY <2>1, <1>2
<1>4. ASSUME Shown(record.life[f])
      PROVE  \E i \in DOMAIN r.events : \E j \in 1 .. i - 1 :
               EventOn(r.events[i], "reverify", f) /\ EventOn(r.events[j], "claim-fixed", f)
  <2>1. PICK i \in DOMAIN record.events : \E j \in 1 .. i - 1 :
          EventOn(record.events[i], "reverify", f) /\ EventOn(record.events[j], "claim-fixed", f)
    BY <1>1, <1>4 DEF Traced
  <2>2. PICK j \in 1 .. i - 1 :
          EventOn(record.events[i], "reverify", f) /\ EventOn(record.events[j], "claim-fixed", f)
    BY <2>1
  <2>3. j \in DOMAIN record.events
    BY <1>2, <2>2
  <2>4. r.events[i] = record.events[i] /\ r.events[j] = record.events[j] /\ i \in DOMAIN r.events
    BY <1>2, <2>3
  <2> QED BY <2>2, <2>4
<1> QED BY <1>3, <1>4

(***************************************************************************)
(* A draft that is written keeps the invariant                             *)
(***************************************************************************)
LEMMA WrittenFits ==
  ASSUME IInv, NEW w \in Parties, NEW r, Write(w, r), UNCHANGED record,
         r \in Records, Justified(r), Attested(r), GapClosed(r), Traced(r),
         Rev(r) = Rev(record) + 1,
         record.gate # {} => r.gate # {} /\ r.life = record.life
  PROVE  Drafts'
<1>1. Sound(r)
  BY DEF Sound, Write
<1>2. Fitting(r)'
  BY SRAssumption, Present DEF Fitting, Rev
<1>3. draft' = [draft EXCEPT ![w] = {r}] /\ draft \in [Parties -> SUBSET Records]
  BY DEF Write, IInv, Drafts
<1>4. draft' \in [Parties -> SUBSET Records]
  BY <1>3
<1>5. ASSUME NEW v \in Parties, NEW x \in draft'[v]
      PROVE  Sound(x) /\ Fitting(x)'
  <2>1. CASE v = w
    BY <1>1, <1>2, <1>3, <2>1
  <2>2. CASE v # w
    <3>1. x \in draft[v]
      BY <1>3, <2>2
    <3>2. Sound(x) /\ Fitting(x)
      BY <3>1 DEF IInv, Drafts
    <3> QED BY <3>2 DEF Fitting, Rev
  <2> QED BY <2>1, <2>2
<1> QED BY <1>4, <1>5 DEF Drafts, Sound, Sealed, Justified, Attested, GapClosed, Traced

LEMMA SoundUntouched ==
  ASSUME UNCHANGED record, Sound(record)
  PROVE  Sound(record)'
<1>1. (record \in Records)' /\ (Len(record.events) <= MaxEvents)'
  BY DEF Sound
<1>2. Sealed(record)'
  BY DEF Sound, Sealed, Projected
<1>3. Justified(record)'
  BY DEF Sound, Justified
<1>4. Attested(record)'
  BY DEF Sound, Attested
<1>5. GapClosed(record)'
  BY DEF Sound, GapClosed, Shown
<1>6. Traced(record)'
  BY DEF Sound, Traced, Shown, EventOn
<1> QED BY <1>1, <1>2, <1>3, <1>4, <1>5, <1>6 DEF Sound

LEMMA DraftsUntouched ==
  ASSUME Drafts, UNCHANGED <<record, draft>>
  PROVE  Drafts'
BY DEF Drafts, Fitting, Rev
(***************************************************************************)
(* The operations, one by one                                              *)
(***************************************************************************)
LEMMA ClaimKeeps ==
  ASSUME IInv, NEW f \in Findings, ClaimFixed(f)
  PROVE  IInv'
<1> DEFINE b == [record EXCEPT !.life[f] = "FIXED"]
           r == Logged(b, "claim-fixed", {f}, {})
           e == [op |-> "claim-fixed", on |-> {f}, by |-> {}]
<1>1. /\ Write("author", r) /\ UNCHANGED <<record, host, session, clock>>
      /\ record.life[f] = "OPEN" /\ "author" \in Parties
  BY DEF ClaimFixed, Parties
<1>2. /\ b \in Records /\ b.events = record.events
      /\ b.life = [record.life EXCEPT ![f] = "FIXED"] /\ b.gap = record.gap /\ b.gate = record.gate
  BY Present DEF Records, Lives, LifeStates
<1>3. Continues(r, b, e) /\ Justified(r) /\ Attested(r)
  <2> HIDE DEF b
  <2> QED BY <1>2, NextRevision
<1>4. Sealed(r) /\ Sealed(record) /\ GapClosed(record)
  BY <1>1 DEF Write, IInv, Sound
<1>5. r.life = b.life /\ r.gap = record.gap /\ r.gate = record.gate /\ r \in Records
      /\ Rev(r) = Rev(record) + 1 /\ Rev(record) \in DOMAIN r.events /\ r.events[Rev(record)] = e
  BY <1>2, <1>3 DEF Continues
<1>6. record.gate = {}
  <2>1. r.life # record.life
    BY <1>1, <1>2, <1>5, Present DEF Lives
  <2> QED BY <2>1, <1>4, <1>5, SealedTogether
<1>7. \A g \in Findings : record.life[g] = b.life[g] \/ g = f
  BY <1>2, Present DEF Lives
<1>8. GapClosed(r)
  <2>1. record.gap
    BY <1>1, <1>4, Present DEF GapClosed, Shown
  <2> QED BY <2>1, <1>5, <1>6 DEF GapClosed
<1>9. Traced(r)
  <2> SUFFICES ASSUME NEW g \in Findings
               PROVE  /\ r.life[g] # "OPEN" =>
                           \E j \in DOMAIN r.events : EventOn(r.events[j], "claim-fixed", g)
                      /\ Shown(r.life[g]) =>
                           \E i \in DOMAIN r.events : \E j \in 1 .. i - 1 :
                             EventOn(r.events[i], "reverify", g) /\ EventOn(r.events[j], "claim-fixed", g)
    BY DEF Traced
  <2>1. CASE g = f
    <3>1. r.life[g] = "FIXED"
      BY <2>1, <1>2, <1>5, Present DEF Lives
    <3>2. EventOn(r.events[Rev(record)], "claim-fixed", g)
      BY <2>1, <1>5 DEF EventOn
    <3> QED BY <3>1, <3>2, <1>5 DEF Shown
  <2>2. CASE g # f
    <3>1. r.life[g] = record.life[g]
      BY <2>2, <1>5, <1>7
    <3> QED BY <3>1, <1>3, TracesKept
  <2> QED BY <2>1, <2>2
<1>10. Drafts'
  <2> HIDE DEF r
  <2> QED BY <1>1, <1>3, <1>5, <1>6, <1>8, <1>9, WrittenFits
<1>11. Sound(record)'
  BY <1>1, SoundUntouched DEF IInv
<1>12. Surroundings'
  BY <1>1 DEF IInv, Surroundings, host, session, clock
<1> QED BY <1>10, <1>11, <1>12 DEF IInv

LEMMA HandleKinds ==
  ASSUME IInv, NEW h \in handles
  PROVE  /\ h \in Receipt
         /\ h.kind = "review" => h \in Review
         /\ h.kind = "consent" => h \in Consent
<1>1. h \in Receipt
  BY DEF IInv, Surroundings
<1>2. /\ \A x \in Review : x.kind = "review"
      /\ \A x \in Consent : x.kind = "consent"
      /\ \A x \in Source : x.kind = "source"
      /\ \A x \in Gate : x.kind = "gate"
  BY DEF Review, Consent, Source, Gate
<1> QED BY <1>1, <1>2 DEF Receipt

LEMMA ReverifyKeeps ==
  ASSUME IInv, NEW h \in handles, NEW f \in Findings, Reverify(h, f)
  PROVE  IInv'
<1> DEFINE life == [record.life EXCEPT ![f] = "VERIFIED"]
           all == \A g \in Findings : life[g] = "VERIFIED"
           b == [record EXCEPT !.life = life, !.gap = @ /\ ~all]
           r == Logged(b, "reverify", {f}, {h})
           e == [op |-> "reverify", on |-> {f}, by |-> {h}]
<1>1. /\ Write("control", r) /\ UNCHANGED <<record, host, session, clock>>
      /\ record.life[f] = "FIXED" /\ "control" \in Parties
      /\ h.kind = "review" /\ h.actor # Author /\ h.rev = Rev(record) /\ f \in h.findings
  BY DEF Reverify, Parties, ReviewCaller
<1>2. life \in Lives
  BY Present DEF Lives, LifeStates
<1>3. /\ b \in Records /\ b.events = record.events
      /\ b.life = life /\ b.gap = (record.gap /\ ~all) /\ b.gate = record.gate
  <2> HIDE DEF life, all
  <2> QED BY <1>2, Present DEF Records
<1>4. Continues(r, b, e) /\ Justified(r) /\ Attested(r)
  <2>1. h \in Receipt
    BY HandleKinds
  <2> HIDE DEF b
  <2> QED BY <1>1, <1>3, <2>1, NextRevision
<1>5. Sealed(r) /\ Sealed(record) /\ GapClosed(record)
  BY <1>1 DEF Write, IInv, Sound
<1>6. r.life = life /\ r.gap = (record.gap /\ ~all) /\ r.gate = record.gate /\ r \in Records
      /\ Rev(r) = Rev(record) + 1 /\ Rev(record) \in DOMAIN r.events /\ r.events[Rev(record)] = e
      /\ Rev(record) \in Nat
  <2> HIDE DEF life, all, b, r
  <2> QED BY <1>3, <1>4 DEF Continues
<1>7. \A g \in Findings : life[g] = IF g = f THEN "VERIFIED" ELSE record.life[g]
  BY Present DEF Lives
<1> HIDE DEF life, b, r
<1>8. record.gate = {}
  <2>1. r.life # record.life
    BY <1>1, <1>6, <1>7
  <2> QED BY <2>1, <1>5, <1>6, SealedTogether
<1>9. GapClosed(r)
  <2>1. CASE all
    BY <2>1, <1>6, <1>8 DEF GapClosed, Shown
  <2>2. CASE ~record.gap
    BY <2>2, <1>5, <1>6, <1>7, <1>8 DEF GapClosed, Shown
  <2> QED BY <2>1, <2>2, <1>6, <1>8 DEF GapClosed
<1>10. Traced(r)
  <2> SUFFICES ASSUME NEW g \in Findings
               PROVE  /\ r.life[g] # "OPEN" =>
                           \E j \in DOMAIN r.events : EventOn(r.events[j], "claim-fixed", g)
                      /\ Shown(r.life[g]) =>
                           \E i \in DOMAIN r.events : \E j \in 1 .. i - 1 :
                             EventOn(r.events[i], "reverify", g) /\ EventOn(r.events[j], "claim-fixed", g)
    BY DEF Traced
  <2>1. CASE g = f
    <3>1. PICK j \in DOMAIN r.events : j < Rev(record) /\ EventOn(r.events[j], "claim-fixed", f)
      BY <1>1, <1>4, TracesKept
    <3>2. EventOn(r.events[Rev(record)], "reverify", g)
      BY <2>1, <1>6 DEF EventOn
    <3>3. j \in 1 .. Rev(record) - 1
      <4>1. r.events \in Seq(Event)
        BY <1>6 DEF Records
      <4> QED BY <4>1, <3>1, <1>6
    <3> QED BY <2>1, <3>1, <3>2, <3>3, <1>6
  <2>2. CASE g # f
    <3>1. r.life[g] = record.life[g]
      BY <2>2, <1>6, <1>7
    <3> QED BY <3>1, <1>4, TracesKept
  <2> QED BY <2>1, <2>2
<1>11. Drafts'
  BY <1>1, <1>4, <1>6, <1>8, <1>9, <1>10, WrittenFits
<1>12. Sound(record)'
  BY <1>1, SoundUntouched DEF IInv
<1>13. Surroundings'
  BY <1>1 DEF IInv, Surroundings, host, session, clock
<1> QED BY <1>11, <1>12, <1>13 DEF IInv

\* A resolution changes no finding's lifecycle, whatever it rests on.
LEMMA ResolutionKeeps ==
  ASSUME IInv, NEW h \in handles, NEW f \in Findings, NEW proof \in SUBSET Sources,
         h \in Review \cup Consent, h.rev = Rev(record),
         h.kind = "review" => h.actor # Author /\ f \in h.findings,
         Write("control", Logged(Settled(f, h, proof), "resolve", {f}, {h})),
         UNCHANGED <<record, host, session, clock>>
  PROVE  IInv'
<1> DEFINE b == Settled(f, h, proof)
           r == Logged(b, "resolve", {f}, {h})
           e == [op |-> "resolve", on |-> {f}, by |-> {h}]
<1>1. /\ b \in Records /\ b.events = record.events
      /\ b.life = record.life /\ b.gap = record.gap /\ b.gate = record.gate
  <2>1. [finding |-> f, by |-> h, proof |-> proof] \in Resolution
    BY DEF Resolution
  <2>2. {x \in record.res : x.finding # f} \cup {[finding |-> f, by |-> h, proof |-> proof]}
          \in SUBSET Resolution
    BY <2>1, Present
  <2> QED BY <2>2, Present DEF Records, Settled
<1> HIDE DEF b
<1>2. Continues(r, b, e) /\ Justified(r) /\ Attested(r)
  <2>1. h \in Receipt
    BY HandleKinds
  <2> QED BY <1>1, <2>1, NextRevision
<1>3. r.life = record.life /\ r.gap = record.gap /\ r.gate = record.gate /\ r \in Records
      /\ Rev(r) = Rev(record) + 1
  BY <1>1, <1>2 DEF Continues
<1>4. Write("control", r) /\ "control" \in Parties
  BY DEF Parties, b
<1> HIDE DEF r
<1>5. GapClosed(r)
  BY <1>3 DEF IInv, Sound, GapClosed
<1>6. Traced(r)
  BY <1>2, <1>3, TracesKept DEF Traced
<1>7. Drafts'
  BY <1>2, <1>3, <1>4, <1>5, <1>6, WrittenFits
<1>8. Sound(record)'
  BY SoundUntouched DEF IInv
<1>9. Surroundings'
  BY DEF IInv, Surroundings, host, session, clock
<1> QED BY <1>7, <1>8, <1>9 DEF IInv

LEMMA AcceptRiskKeeps ==
  ASSUME IInv, NEW h \in handles, AcceptRisk(h)
  PROVE  IInv'
<1>1. h.kind = "consent" /\ h \in Consent /\ h.rev = Rev(record)
  BY HandleKinds DEF AcceptRisk
<1>2. h.finding \in Findings
  BY <1>1 DEF Consent
<1> QED BY <1>1, <1>2, ResolutionKeeps DEF AcceptRisk

LEMMA FalsePositiveKeeps ==
  ASSUME IInv, NEW h \in handles, NEW f \in Findings, FalsePositive(h, f)
  PROVE  IInv'
<1>1. h.kind = "review" /\ h \in Review /\ h.rev = Rev(record) /\ h.actor # Author /\ f \in h.findings
  BY HandleKinds DEF FalsePositive, ReviewCaller
<1>2. PICK s \in h.refs : Write("control", Logged(Settled(f, h, {s}), "resolve", {f}, {h}))
  BY DEF FalsePositive
<1>3. {s} \in SUBSET Sources
  BY <1>1 DEF Review
<1> QED BY <1>1, <1>2, <1>3, ResolutionKeeps DEF FalsePositive

LEMMA ComposedIsGate ==
  ASSUME IInv, NEW cites \in {{}} \cup {q.refs : q \in Requests}
  PROVE  Composed(cites) \in Gate
<1>1. cites \in SUBSET Sources
  BY SRAssumption
<1>2. Rev(record) \in Revisions
  BY SRAssumption, Present DEF Revisions
<1>3. identity \in Codes /\ until \in Times
  BY DEF IInv, Surroundings
<1> QED BY <1>1, <1>2, <1>3, Present DEF Gate, Composed

LEMMA GateKeeps ==
  ASSUME IInv, NEW cites \in {{}} \cup {q.refs : q \in Requests}, GateComposed(cites)
  PROVE  IInv'
<1> DEFINE g == Composed(cites)
           b == [record EXCEPT !.life = Projected(@), !.gate = {g}]
           r == Logged(b, "close", {}, {g})
           e == [op |-> "close", on |-> {}, by |-> {g}]
<1>1. /\ Write("control", r) /\ UNCHANGED <<record, revoked, index, workers, clock>>
      /\ receipts' = receipts \cup {g} /\ handles' = handles \cup {g}
      /\ ~record.gap /\ "control" \in Parties
  BY DEF GateComposed, Parties, Closable, Minted
<1>2. g \in Gate /\ g.kind = "gate" /\ g.rev = Rev(record)
  BY ComposedIsGate DEF Composed
<1> HIDE DEF g
<1>3. /\ b \in Records /\ b.events = record.events
      /\ b.life = Projected(record.life) /\ b.gap = record.gap /\ b.gate = {g}
  BY <1>2, Present, ProjectedTwice DEF Records
<1>4. Continues(r, b, e) /\ Justified(r) /\ Attested(r)
  <2>1. g \in Receipt
    BY <1>2 DEF Receipt
  <2> HIDE DEF b
  <2> QED BY <1>2, <1>3, <2>1, NextRevision
<1>5. r.life = Projected(record.life) /\ r.gap = record.gap /\ r.gate = {g} /\ r \in Records
      /\ Rev(r) = Rev(record) + 1
  BY <1>3, <1>4 DEF Continues
<1> HIDE DEF b, r
<1>6. Sealed(record) /\ GapClosed(record)
  BY DEF IInv, Sound
<1>7. record.gate # {} => r.life = record.life
  <2> SUFFICES ASSUME record.gate # {} PROVE r.life = record.life
    OBVIOUS
  <2>1. PICK old \in record.gate : record.life = Projected(old.before)
    BY <1>6 DEF Sealed
  <2>2. old.before \in Lives
    BY Present DEF Gate
  <2> QED BY <2>1, <2>2, <1>5, ProjectedTwice
<1>8. \A f \in Findings : /\ r.life[f] # "OPEN" => record.life[f] # "OPEN"
                          /\ Shown(r.life[f]) <=> Shown(record.life[f])
  BY <1>5 DEF Projected, Shown
<1>9. GapClosed(r)
  BY <1>1, <1>5, <1>6, <1>8 DEF GapClosed
<1>10. Traced(r)
  BY <1>4, <1>8, TracesKept DEF Traced
<1>11. Drafts'
  BY <1>1, <1>4, <1>5, <1>7, <1>9, <1>10, WrittenFits
<1>12. Sound(record)'
  BY <1>1, SoundUntouched DEF IInv
<1>13. Surroundings'
  BY <1>1, <1>2 DEF IInv, Surroundings, clock, Receipt
<1> QED BY <1>11, <1>12, <1>13 DEF IInv

\* The store takes a draft only if it is the next one; the others fall behind.
LEMMA CommitKeeps ==
  ASSUME IInv, NEW w \in Parties, Commit(w)
  PROVE  IInv'
<1>1. PICK r \in draft[w] : record' = IF Follows(r) THEN r ELSE record
  BY DEF Commit
<1>2. draft' = [draft EXCEPT ![w] = {}] /\ UNCHANGED <<host, session, clock>>
  BY DEF Commit
<1>3. Sound(r) /\ draft \in [Parties -> SUBSET Records] /\ Sound(record)
  BY DEF IInv, Drafts
<1>4. CASE ~Follows(r)
  <2>1. record' = record
    BY <1>1, <1>4
  <2>2. Drafts'
    BY <2>1, <1>2 DEF IInv, Drafts, Fitting, Rev
  <2>3. Sound(record)'
    BY <2>1, <1>3, SoundUntouched
  <2>4. Surroundings'
    BY <1>2 DEF IInv, Surroundings, host, session, clock
  <2> QED BY <2>2, <2>3, <2>4 DEF IInv
<1>5. CASE Follows(r)
  <2>1. record' = r /\ Rev(r) = Rev(record) + 1
    BY <1>1, <1>5 DEF Follows
  <2>2. Sound(record)'
    <3>1. (record \in Records)' /\ (Len(record.events) <= MaxEvents)'
      BY <2>1, <1>3 DEF Sound
    <3>2. Sealed(record)'
      BY <2>1, <1>3 DEF Sound, Sealed, Projected
    <3>3. Justified(record)' /\ Attested(record)'
      BY <2>1, <1>3 DEF Sound, Justified, Attested
    <3>4. GapClosed(record)'
      BY <2>1, <1>3 DEF Sound, GapClosed, Shown
    <3>5. Traced(record)'
      BY <2>1, <1>3 DEF Sound, Traced, Shown, EventOn
    <3> QED BY <3>1, <3>2, <3>3, <3>4, <3>5 DEF Sound
  <2>3. ASSUME NEW v \in Parties, NEW x \in draft'[v]
        PROVE  Sound(x) /\ Fitting(x)'
    <3>1. x \in draft[v]
      BY <1>2, <1>3
    <3>2. Sound(x) /\ Rev(x) <= Rev(record) + 1 /\ x \in Records
      BY <3>1 DEF IInv, Drafts, Fitting, Sound
    <3>3. Len(x.events) \in Nat /\ Len(r.events) \in Nat /\ Len(record.events) \in Nat
      BY <3>2, <1>3 DEF Sound, Records
    <3> QED BY <2>1, <3>2, <3>3 DEF Fitting, Rev
  <2>4. Drafts'
    <3>1. draft' \in [Parties -> SUBSET Records]
      BY <1>2, <1>3
    <3> QED BY <3>1, <2>3 DEF Drafts, Sound, Sealed, Justified, Attested, GapClosed, Traced
  <2>5. Surroundings'
    BY <1>2 DEF IInv, Surroundings, host, session, clock
  <2> QED BY <2>2, <2>4, <2>5 DEF IInv
<1> QED BY <1>4, <1>5

\* Everything else leaves the record and, but for a session that ends, the
\* drafts alone.
LEMMA HostKeeps ==
  ASSUME IInv,
         \/ \E s \in Sources, e \in Expiries : RegisterSource(s, e)
         \/ \E q \in Requests, w \in Reviewers : RegisterReview(q, w)
         \/ \E w \in workers, e \in Expiries : ReviewCompleted(w, e)
         \/ \E f \in Findings, risk, e \in Expiries : UserConfirms(f, risk, e)
         \/ Tick
         \/ \E r \in receipts \ revoked : Revoke(r)
  PROVE  IInv'
<1> USE DEF IInv
<1>1. /\ \A e \in Expiries : e \in Times
      /\ identity \in Codes /\ Rev(record) \in Revisions
  <2>1. until \in Times /\ now \in Nat /\ identity \in Codes
    BY SRAssumption DEF Surroundings
  <2> QED BY <2>1, SRAssumption, Present DEF Expiries, Times, Revisions
<1>2. UNCHANGED <<record, draft>>
  BY DEF RegisterSource, RegisterReview, ReviewCompleted, UserConfirms, Minted, Tick, Revoke,
         host, session, clock
<1>3. Surroundings'
  <2>1. ASSUME NEW s \in Sources, NEW e \in Expiries, RegisterSource(s, e)
        PROVE  Surroundings'
    <3> DEFINE r == [kind |-> "source", ref |-> s, identity |-> identity, expires |-> e]
    <3>1. r \in Source
      BY <1>1 DEF Source
    <3> QED BY <2>1, <3>1 DEF RegisterSource, Minted, Surroundings, clock, Receipt
  <2>2. ASSUME NEW q \in Requests, NEW w \in Reviewers, RegisterReview(q, w)
        PROVE  Surroundings'
    <3>1. [op |-> q.op, worker |-> w, rev |-> Rev(record),
           findings |-> q.findings, refs |-> q.refs] \in Registration
      BY <1>1, SRAssumption DEF Registration
    <3> QED BY <2>2, <3>1 DEF RegisterReview, Surroundings, host, clock
  <2>3. ASSUME NEW w \in workers, NEW e \in Expiries, ReviewCompleted(w, e)
        PROVE  Surroundings'
    <3> DEFINE r == [kind |-> "review", op |-> w.op, actor |-> w.worker, rev |-> w.rev,
                     findings |-> w.findings, refs |-> w.refs, identity |-> identity, expires |-> e]
    <3>1. r \in Review
      BY <1>1 DEF Review, Registration, Surroundings
    <3> QED BY <2>3, <3>1 DEF ReviewCompleted, Minted, Surroundings, clock, Receipt
  <2>4. ASSUME NEW f \in Findings, NEW risk \in Expiries, NEW e \in Expiries, UserConfirms(f, risk, e)
        PROVE  Surroundings'
    <3>1. Consented(f, risk, e) \in Consent
      BY <1>1 DEF Consented, Consent
    <3> QED BY <2>4, <3>1 DEF UserConfirms, Minted, Surroundings, clock, Receipt
  <2>5. CASE Tick
    BY <2>5, SRAssumption DEF Tick, Surroundings, host, session
  <2>6. ASSUME NEW r \in receipts \ revoked, Revoke(r)
        PROVE  Surroundings'
    BY <2>6 DEF Revoke, Surroundings, session, clock
  <2> QED BY <2>1, <2>2, <2>3, <2>4, <2>5, <2>6
<1> QED BY <1>2, <1>3, SoundUntouched, DraftsUntouched

LEMMA ReopenKeeps ==
  ASSUME IInv, NEW i \in Codes, Reopen(i)
  PROVE  IInv'
<1>1. Surroundings'
  BY SRAssumption DEF IInv, Surroundings, Reopen, host, Times
<1>2. Sound(record)'
  BY SoundUntouched DEF IInv, Reopen
<1>3. Drafts'
  BY DEF IInv, Reopen, Drafts, Fitting, Rev
<1> QED BY <1>1, <1>2, <1>3 DEF IInv

(***************************************************************************)
(* The theorems                                                            *)
(***************************************************************************)
LEMMA InitSound == Init => IInv
<1> SUFFICES ASSUME Init PROVE IInv
  OBVIOUS
<1>1. NewRecord \in Records /\ NewRecord.events = <<>>
  BY DEF NewRecord, Records, Lives, LifeStates
<1>2. Sound(NewRecord)
  BY <1>1, SRAssumption DEF Sound, Sealed, Justified, Attested, GapClosed, Traced, Shown, NewRecord
<1>3. Surroundings
  BY SRAssumption DEF Init, Surroundings, Times, Codes
<1>4. Drafts
  BY DEF Init, Drafts
<1> QED BY <1>2, <1>3, <1>4 DEF IInv, Init

LEMMA StepSound == IInv /\ [Next]_vars => IInv'
<1> SUFFICES ASSUME IInv, [Next]_vars PROVE IInv'
  OBVIOUS
<1>1. CASE UNCHANGED vars
  <2>1. Surroundings'
    BY <1>1 DEF IInv, Surroundings, vars
  <2> QED BY <1>1, <2>1, SoundUntouched, DraftsUntouched DEF IInv, vars
<1>2. CASE Next
  BY <1>2, CommitKeeps, ClaimKeeps, ReverifyKeeps, FalsePositiveKeeps, AcceptRiskKeeps, GateKeeps,
     HostKeeps, ReopenKeeps DEF Next
<1> QED BY <1>1, <1>2

\* Every state of the model is of the shape the code reads and writes:
\* receipts, handles and evidence are known to the host, and no writer builds
\* a revision beyond the bound.
THEOREM TypeCorrect == Spec => []TypeOK
<1>1. IInv => TypeOK
  BY DEF IInv, Surroundings, Sound, Drafts, TypeOK
<1> QED BY <1>1, InitSound, StepSound, PTL DEF Spec

\* A decision let in an event of the very revision it was given for, and no
\* review is its author's, whoever writes in between: an authority is not used
\* after the record moved.
THEOREM OneProof == Spec => []OneProofOneRevision
<1>1. IInv => OneProofOneRevision
  BY DEF IInv, Sound, Justified, OneProofOneRevision
<1> QED BY <1>1, InitSound, StepSound, PTL DEF Spec

\* Two writers with revisions in flight lose no event of each other, and what
\* a gate closed no claim or review in flight reopens.
THEOREM Grows == Spec => RecordGrows
<1> DEFINE Growth == /\ Rev(record') = Rev(record) + 1
                     /\ SubSeq(record'.events, 1, Len(record.events)) = record.events
                     /\ record.gate # {} => record'.gate # {} /\ record'.life = record.life
<1>1. ASSUME IInv, [Next]_vars
      PROVE  [Growth]_record
  <2> SUFFICES ASSUME record' # record PROVE Growth
    OBVIOUS
  <2>1. PICK w \in Parties : Commit(w)
    BY <1>1 DEF Next, vars, ClaimFixed, RegisterSource, RegisterReview, ReviewCompleted,
                UserConfirms, Reverify, FalsePositive, AcceptRisk, GateComposed, Tick, Revoke, Reopen
  <2>2. PICK r \in draft[w] : record' = r /\ Follows(r)
    BY <2>1 DEF Commit
  <2>3. Fitting(r)
    BY <1>1, <2>2 DEF IInv, Drafts
  <2> QED BY <2>2, <2>3 DEF Fitting, Follows
<1> QED BY <1>1, InitSound, StepSound, PTL DEF Spec, RecordGrows

LEMMA LastExists ==
  ASSUME NEW n \in Nat, NEW S \in SUBSET (1 .. n), S # {}
  PROVE  \E i \in S : \A j \in S : j <= i
<1> DEFINE T == {n - i : i \in S}
<1>1. \A i \in S : i \in Nat /\ i <= n /\ n - i \in Nat
  OBVIOUS
<1>2. T \subseteq Nat
  BY <1>1
<1>3. T # {}
  OBVIOUS
<1>4. PICK x \in T : \A y \in T : ~ (<<y, x>> \in OpToRel(<, Nat))
  <2> HIDE DEF T
  <2> QED BY <1>2, <1>3, NatLessThanWellFounded, WFMin
<1>5. ASSUME NEW y \in T PROVE x <= y
  <2>1. x \in Nat /\ y \in Nat
    BY <1>2
  <2>2. y < x => <<y, x>> \in OpToRel(<, Nat)
    BY <2>1 DEF OpToRel
  <2>3. ~ (y < x)
    BY <1>4, <2>2
  <2> QED BY <2>1, <2>3
<1>6. PICK i \in S : x = n - i
  OBVIOUS
<1>7. ASSUME NEW j \in S PROVE j <= i
  <2>1. n - j \in T
    OBVIOUS
  <2>2. n - i <= n - j
    BY <1>5, <1>6, <2>1
  <2> QED BY <2>2, <1>1
<1> QED BY <1>7

\* What recover calls closed has for every finding a claimed fix, a later
\* verification, and somebody else's review that stands now, with evidence
\* that shows the repair now.
THEOREM Closed == Spec => []ClosedIsProved
<1>1. ASSUME IInv, ClosedValid
      PROVE  \A f \in Findings :
        /\ \E i \in DOMAIN record.events : \E j \in 1 .. i - 1 :
             /\ record.events[i].op = "reverify" /\ f \in record.events[i].on
             /\ record.events[j].op = "claim-fixed" /\ f \in record.events[j].on
        /\ \E i \in DOMAIN record.events : \E h \in record.events[i].by :
             /\ h.kind = "review" /\ Live(h) /\ h.actor # Author /\ f \in h.findings
             /\ EvidenceHolds(h.refs) /\ RepairShown(h.refs, f)
  <2> TAKE f \in Findings
  <2>1. Shown(record.life[f]) /\ StillVerified(record)
    BY <1>1 DEF ClosedValid, IInv, Sound, GapClosed
  <2>2. \E i \in DOMAIN record.events : \E j \in 1 .. i - 1 :
             /\ record.events[i].op = "reverify" /\ f \in record.events[i].on
             /\ record.events[j].op = "claim-fixed" /\ f \in record.events[j].on
    BY <1>1, <2>1 DEF IInv, Sound, Traced, EventOn
  <2>3. /\ Matching(record, f) # {}
        /\ EvidenceHolds(LastProof(record, f)) /\ RepairShown(LastProof(record, f), f)
    BY <2>1 DEF StillVerified, Shown
  <2>4. \E i \in Matching(record, f) : \A j \in Matching(record, f) : j <= i
    <3>1. DOMAIN record.events = 1 .. Len(record.events) /\ Len(record.events) \in Nat
      BY <1>1, Present
    <3>2. Matching(record, f) \in SUBSET (1 .. Len(record.events))
      BY <3>1 DEF Matching
    <3> QED BY <2>3, <3>1, <3>2, LastExists
  <2> DEFINE i == CHOOSE i \in Matching(record, f) : \A j \in Matching(record, f) : j <= i
  <2>5. i \in Matching(record, f)
    BY <2>4
  <2>6. LastProof(record, f) = UNION {v.refs : v \in record.events[i].by}
    BY DEF LastProof
  <2> HIDE DEF i
  <2>7. /\ i \in DOMAIN record.events /\ record.events[i].op = "reverify"
        /\ \E v \in record.events[i].by :
             Live(v) /\ v.kind = "review" /\ v.actor # Author /\ f \in v.findings
    BY <2>5 DEF Matching
  <2>8. PICK h \in record.events[i].by :
          Live(h) /\ h.kind = "review" /\ h.actor # Author /\ f \in h.findings
    BY <2>7
  <2>9. record.events[i].by = {h}
    BY <1>1, <2>7, <2>8 DEF IInv, Sound, Attested
  <2>10. LastProof(record, f) = h.refs
    BY <2>6, <2>9
  <2> QED BY <2>2, <2>3, <2>7, <2>8, <2>10
<1>2. IInv => ClosedIsProved
  BY <1>1 DEF ClosedIsProved
<1> QED BY <1>2, InitSound, StepSound, PTL DEF Spec

(***************************************************************************)
(* What lapsed stays lapsed                                                *)
(***************************************************************************)
\* The host reported every decision in the record, and the gate.
Received(r) == /\ \A i \in DOMAIN r.events : r.events[i].by \subseteq receipts
               /\ r.gate \subseteq receipts

\* No review verifies a finding after the gate: there is nothing FIXED left.
NoLateReview(r) == r.gate # {} => r.events[Len(r.events)].op # "reverify"

\* What a receipt relies on was registered before it.
Grounded(x) == /\ x.kind = "review" => Known(x.refs)
               /\ x.kind = "gate" => Known(x.cites)

Founded ==
  /\ \A x \in receipts : Grounded(x)
  /\ \A w \in workers : Known(w.refs)
  /\ Received(record)
  /\ \A w \in Parties : \A r \in draft[w] : Received(r) /\ NoLateReview(r)

LEMMA KnownStays ==
  ASSUME index \subseteq index', NEW refs, Known(refs) PROVE Known(refs)'
BY DEF Known

\* A draft with one more event: e.
LEMMA WrittenFounded ==
  ASSUME IInv, Founded, NEW w \in Parties, NEW r, NEW e \in Event, Write(w, r),
         r.events = Append(record.events, e), e.by \subseteq receipts', r.gate \subseteq receipts',
         r.gate # {} => e.op # "reverify",
         UNCHANGED <<record, workers, index>>, receipts \subseteq receipts',
         \A x \in receipts' \ receipts : Grounded(x)
  PROVE  Founded'
<1>1. \A x \in receipts' : Grounded(x)
  BY DEF Founded
<1>2. \A x : Grounded(x) => Grounded(x)'
  BY DEF Grounded, Known
<1>3. \A v \in workers' : Known(v.refs)'
  BY DEF Founded, Known
<1>4. Received(record)'
  BY DEF Founded, Received
<1>5. record.events \in Seq(Event)
  BY Present
<1>6. /\ Len(r.events) = Len(record.events) + 1
      /\ DOMAIN r.events = 1 .. Len(record.events) + 1
      /\ DOMAIN record.events = 1 .. Len(record.events)
      /\ \A i \in 1 .. Len(record.events) : r.events[i] = record.events[i]
      /\ r.events[Len(record.events) + 1] = e
      /\ Len(record.events) \in Nat
  BY <1>5, AppendedEvents
<1>7. Received(r)'
  <2>1. \A i \in DOMAIN r.events : i \in DOMAIN record.events \/ r.events[i] = e
    BY <1>6
  <2>2. \A i \in DOMAIN record.events : r.events[i] = record.events[i]
    BY <1>6
  <2> QED BY <2>1, <2>2 DEF Founded, Received
<1>8. NoLateReview(r)
  BY <1>6 DEF NoLateReview
<1>9. \A v \in Parties : \A x \in draft'[v] : Received(x)' /\ NoLateReview(x)
  <2>1. draft' = [draft EXCEPT ![w] = {r}] /\ draft \in [Parties -> SUBSET Records]
    BY DEF Write, IInv, Drafts
  <2> SUFFICES ASSUME NEW v \in Parties, NEW x \in draft'[v] PROVE Received(x)' /\ NoLateReview(x)
    OBVIOUS
  <2>2. CASE x = r
    BY <1>7, <1>8, <2>2
  <2>3. CASE x \in draft[v]
    BY <2>3 DEF Founded, Received
  <2> QED BY <2>1, <2>2, <2>3
<1> QED BY <1>1, <1>2, <1>3, <1>4, <1>9 DEF Founded, NoLateReview

\* Nothing is written: what was known is known still.
LEMMA HostFounded ==
  ASSUME IInv, Founded, UNCHANGED record, \A w \in Parties : draft'[w] \subseteq draft[w],
         receipts \subseteq receipts', index \subseteq index',
         \A x \in receipts' \ receipts : Grounded(x)',
         \A w \in workers' \ workers : Known(w.refs)
  PROVE  Founded'
<1>1. \A x : Grounded(x) => Grounded(x)'
  BY KnownStays DEF Grounded
<1>2. \A x \in receipts' : Grounded(x)'
  BY <1>1 DEF Founded
<1>3. \A w \in workers' : Known(w.refs)'
  BY KnownStays DEF Founded
<1>4. Received(record)'
  BY DEF Founded, Received
<1>5. \A w \in Parties : \A r \in draft'[w] : Received(r)' /\ NoLateReview(r)'
  BY DEF Founded, Received, NoLateReview
<1> QED BY <1>2, <1>3, <1>4, <1>5 DEF Founded

LEMMA ClaimFounded ==
  ASSUME IInv, Founded, NEW f \in Findings, ClaimFixed(f) PROVE Founded'
<1> DEFINE b == [record EXCEPT !.life[f] = "FIXED"]
           e == [op |-> "claim-fixed", on |-> {f}, by |-> {}]
           r == Logged(b, "claim-fixed", {f}, {})
<1>1. e \in Event
  BY DEF Event
<1>2. r.events = Append(record.events, e) /\ r.gate = record.gate
  BY Present DEF Logged, Records
<1>3. Write("author", r) /\ UNCHANGED <<record, receipts, index, workers>> /\ "author" \in Parties
  BY DEF ClaimFixed, Parties, host, session
<1>4. r.gate \subseteq receipts
  BY <1>2 DEF Founded, Received
<1>5. e.op # "reverify" /\ e.by = {}
  OBVIOUS
<1> HIDE DEF r, e
<1> QED BY <1>1, <1>2, <1>3, <1>4, <1>5, WrittenFounded

LEMMA ReverifyFounded ==
  ASSUME IInv, Founded, NEW h \in handles, NEW f \in Findings, Reverify(h, f) PROVE Founded'
<1> DEFINE life == [record.life EXCEPT ![f] = "VERIFIED"]
           all == \A g \in Findings : life[g] = "VERIFIED"
           b == [record EXCEPT !.life = life, !.gap = @ /\ ~all]
           e == [op |-> "reverify", on |-> {f}, by |-> {h}]
           r == Logged(b, "reverify", {f}, {h})
<1>1. e \in Event /\ h \in receipts
  BY HandleKinds DEF Event, IInv, Surroundings
<1>2. r.events = Append(record.events, e) /\ r.gate = record.gate /\ r.life = life
  <2> HIDE DEF all, life
  <2> QED BY Present DEF Logged, Records
<1>3. Write("control", r) /\ UNCHANGED <<record, receipts, index, workers>> /\ "control" \in Parties
      /\ record.life[f] = "FIXED"
  BY DEF Reverify, Parties, host, session
<1>4. r.gate = {}
  <2>1. life[f] # record.life[f]
    BY <1>3, Present DEF Lives
  <2>2. Sealed(r) /\ Sealed(record)
    BY <1>3 DEF Write, IInv, Sound
  <2> HIDE DEF r, life
  <2> QED BY <1>2, <2>1, <2>2, SealedTogether
<1>5. e.by \subseteq receipts
  BY <1>1
<1> HIDE DEF r, e
<1> QED BY <1>1, <1>2, <1>3, <1>4, <1>5, WrittenFounded

LEMMA ResolutionFounded ==
  ASSUME IInv, Founded, NEW h \in handles, NEW f \in Findings, NEW proof,
         Write("control", Logged(Settled(f, h, proof), "resolve", {f}, {h})),
         UNCHANGED <<record, host, session>>
  PROVE  Founded'
<1> DEFINE e == [op |-> "resolve", on |-> {f}, by |-> {h}]
           r == Logged(Settled(f, h, proof), "resolve", {f}, {h})
<1>1. e \in Event /\ h \in receipts
  BY HandleKinds DEF Event, IInv, Surroundings
<1>2. r.events = Append(record.events, e) /\ r.gate = record.gate
  BY Present DEF Logged, Settled, Records
<1>3. Write("control", r) /\ UNCHANGED <<record, receipts, index, workers>> /\ "control" \in Parties
  BY DEF Parties, host, session
<1>4. r.gate \subseteq receipts
  BY <1>2 DEF Founded, Received
<1>5. e.by \subseteq receipts /\ e.op # "reverify"
  BY <1>1
<1> HIDE DEF r, e
<1> QED BY <1>1, <1>2, <1>3, <1>4, <1>5, WrittenFounded

LEMMA GateFounded ==
  ASSUME IInv, Founded, NEW cites \in {{}} \cup {q.refs : q \in Requests}, GateComposed(cites)
  PROVE  Founded'
<1> DEFINE g == Composed(cites)
           b == [record EXCEPT !.life = Projected(@), !.gate = {g}]
           e == [op |-> "close", on |-> {}, by |-> {g}]
           r == Logged(b, "close", {}, {g})
<1>1. /\ Write("control", r) /\ UNCHANGED <<record, index, workers>>
      /\ receipts' = receipts \cup {g} /\ "control" \in Parties
  BY DEF GateComposed, Parties, Minted, clock
<1>2. g.kind = "gate" /\ g.cites = cites
  BY DEF Composed
<1>3. Known(cites)
  <2>1. cites # {} => EvidenceHolds(cites)
    BY DEF GateComposed, CitationsHold
  <2> QED BY <2>1 DEF EvidenceHolds, Verified, Known
<1>4. Grounded(g)
  BY <1>2, <1>3 DEF Grounded
<1> HIDE DEF g
<1>5. r.events = Append(record.events, e) /\ r.gate = {g}
  BY Present DEF Logged, Records
<1>6. e \in Event
  BY ComposedIsGate DEF Event, Receipt, g
<1>7. e.by \subseteq receipts' /\ e.op # "reverify"
  BY <1>1
<1> HIDE DEF r, e
<1> QED BY <1>1, <1>4, <1>5, <1>6, <1>7, WrittenFounded

LEMMA CommitFounded ==
  ASSUME IInv, Founded, NEW w \in Parties, Commit(w) PROVE Founded'
<1>1. PICK r \in draft[w] : record' = IF Follows(r) THEN r ELSE record
  BY DEF Commit
<1>2. /\ draft' = [draft EXCEPT ![w] = {}] /\ UNCHANGED <<receipts, index, workers>>
      /\ draft \in [Parties -> SUBSET Records]
  BY DEF Commit, host, session, IInv, Drafts
<1>3. Received(record)'
  BY <1>1, <1>2 DEF Founded, Received
<1>4. \A v \in Parties : \A x \in draft'[v] : Received(x)' /\ NoLateReview(x)'
  BY <1>2 DEF Founded, Received, NoLateReview
<1>5. \A x \in receipts' : Grounded(x)'
  BY <1>2 DEF Founded, Grounded, Known
<1>6. \A v \in workers' : Known(v.refs)'
  BY <1>2 DEF Founded, Known
<1> QED BY <1>3, <1>4, <1>5, <1>6 DEF Founded

LEMMA StepFounded == IInv /\ Founded /\ [Next]_vars => Founded'
<1> SUFFICES ASSUME IInv, Founded, [Next]_vars PROVE Founded'
  OBVIOUS
<1>1. CASE UNCHANGED vars
  BY <1>1, HostFounded DEF vars
<1>2. ASSUME NEW s \in Sources, NEW e \in Expiries, RegisterSource(s, e) PROVE Founded'
  <2> DEFINE r == [kind |-> "source", ref |-> s, identity |-> identity, expires |-> e]
  <2>1. receipts' = receipts \cup {r} /\ index' = index \cup {r}
        /\ UNCHANGED <<record, workers, draft>> /\ r.kind = "source"
    BY <1>2 DEF RegisterSource, Minted
  <2> HIDE DEF r
  <2> QED BY <2>1, HostFounded DEF Grounded
<1>3. ASSUME NEW q \in Requests, NEW w \in Reviewers, RegisterReview(q, w) PROVE Founded'
  <2>1. \A v \in workers' \ workers : v.refs = q.refs
    BY <1>3 DEF RegisterReview
  <2>2. Known(q.refs) /\ UNCHANGED <<record, receipts, index, draft>>
    BY <1>3 DEF RegisterReview, host
  <2> QED BY <2>1, <2>2, HostFounded
<1>4. ASSUME NEW w \in workers, NEW e \in Expiries, ReviewCompleted(w, e) PROVE Founded'
  <2>1. /\ UNCHANGED <<record, index, workers, draft>> /\ receipts \subseteq receipts'
        /\ \A x \in receipts' \ receipts : x.kind = "review" /\ x.refs = w.refs
    BY <1>4 DEF ReviewCompleted, Minted, clock
  <2>2. \A x \in receipts' \ receipts : Grounded(x)'
    BY <2>1, KnownStays DEF Founded, Grounded
  <2> QED BY <2>1, <2>2, HostFounded
<1>5. ASSUME NEW f \in Findings, NEW risk \in Expiries, NEW e \in Expiries, UserConfirms(f, risk, e)
      PROVE  Founded'
  <2>1. /\ UNCHANGED <<record, index, workers, draft>> /\ receipts \subseteq receipts'
        /\ \A x \in receipts' \ receipts : x.kind = "consent"
    BY <1>5 DEF UserConfirms, Minted, clock, Consented
  <2> QED BY <2>1, HostFounded DEF Grounded
<1>6. CASE Tick
  BY <1>6, HostFounded DEF Tick, host, session
<1>7. ASSUME NEW r \in receipts \ revoked, Revoke(r) PROVE Founded'
  BY <1>7, HostFounded DEF Revoke, session
<1>8. ASSUME NEW i \in Codes, Reopen(i) PROVE Founded'
  <2>1. \A w \in Parties : draft'[w] \subseteq draft[w]
    BY <1>8 DEF Reopen, IInv, Drafts
  <2> QED BY <1>8, <2>1, HostFounded DEF Reopen, host
<1>9. ASSUME NEW h \in handles, AcceptRisk(h) PROVE Founded'
  <2>1. h.finding \in Findings
    BY <1>9, HandleKinds DEF AcceptRisk, Consent
  <2> QED BY <1>9, <2>1, ResolutionFounded DEF AcceptRisk
<1>10. ASSUME NEW h \in handles, NEW f \in Findings, FalsePositive(h, f) PROVE Founded'
  BY <1>10, ResolutionFounded DEF FalsePositive
<1> QED BY <1>1, <1>2, <1>3, <1>4, <1>5, <1>6, <1>7, <1>8, <1>9, <1>10, CommitFounded, ClaimFounded,
        ReverifyFounded, GateFounded DEF Next

LEMMA InitFounded == Init => Founded
BY DEF Init, Founded, Received, NewRecord

\* A receipt the host had reported before stands after a step only if it stood
\* before it: time and withdrawals go one way.
LEMMA LiveBefore ==
  ASSUME IInv, [Next]_vars, identity' = identity, NEW r \in receipts, Live(r)'
  PROVE  Live(r)
<1>1. revoked \subseteq revoked'
  BY DEF Next, vars, Commit, ClaimFixed, RegisterSource, RegisterReview, ReviewCompleted, UserConfirms,
         Reverify, FalsePositive, AcceptRisk, GateComposed, Tick, Revoke, Reopen, host
<1>2. now' = now \/ now' = now + 1
  BY DEF Next, vars, Commit, ClaimFixed, RegisterSource, RegisterReview,
         ReviewCompleted, UserConfirms, Reverify, FalsePositive, AcceptRisk, GateComposed, Tick, Revoke,
         Reopen, clock
<1>3. r.expires \in Nat
  BY SRAssumption DEF IInv, Surroundings, Receipt, Review, Consent, Source, Gate, Times
<1>4. now \in Nat
  BY SRAssumption DEF IInv, Surroundings
<1> QED BY <1>1, <1>2, <1>3, <1>4 DEF Live

\* Evidence registered before stands after a step only if it stood before it:
\* a registered reference keeps its receipt.
LEMMA EvidenceBefore ==
  ASSUME IInv, [Next]_vars, identity' = identity, NEW refs, Known(refs), EvidenceHolds(refs)'
  PROVE  EvidenceHolds(refs)
<1> SUFFICES ASSUME NEW s \in refs PROVE Verified(s)
  BY DEF EvidenceHolds
<1>1. PICK r \in index' : r.ref = s /\ Live(r)'
  BY DEF EvidenceHolds, Verified
<1>2. r \in index
  <2>1. PICK old \in index : old.ref = s
    BY DEF Known
  <2>2. CASE index' = index
    BY <1>1, <2>2
  <2>3. ASSUME NEW t \in Sources, NEW e \in Expiries, RegisterSource(t, e) PROVE r \in index
    BY <1>1, <2>1, <2>3 DEF RegisterSource, Unregistered
  <2> QED BY <2>2, <2>3 DEF Next, vars, Commit, ClaimFixed, RegisterReview, ReviewCompleted, UserConfirms,
         Reverify, FalsePositive, AcceptRisk, GateComposed, Tick, Revoke, Reopen, host
<1>3. r \in receipts
  BY <1>2 DEF IInv, Surroundings
<1> QED BY <1>1, <1>2, <1>3, LiveBefore DEF Verified

\* Under one gate the lifecycle stays and no review is added.
LEMMA GatedStep ==
  ASSUME IInv, Founded, [Next]_vars, record.gate # {}, record'.gate = record.gate
  PROVE  /\ record'.life = record.life
         /\ \A i \in DOMAIN record.events :
              i \in DOMAIN record'.events /\ record'.events[i] = record.events[i]
         /\ \A i \in DOMAIN record'.events \ DOMAIN record.events :
              record'.events[i].op # "reverify"
<1>1. CASE record' = record
  BY <1>1
<1>2. CASE record' # record
  <2>1. PICK w \in Parties : Commit(w)
    BY <1>2 DEF Next, vars, ClaimFixed, RegisterSource, RegisterReview, ReviewCompleted,
                UserConfirms, Reverify, FalsePositive, AcceptRisk, GateComposed, Tick, Revoke, Reopen
  <2>2. PICK r \in draft[w] : record' = r /\ Follows(r)
    BY <1>2, <2>1 DEF Commit
  <2>3. r.life = record.life /\ r.events \in Seq(Event) /\ NoLateReview(r)
    BY <2>2 DEF IInv, Drafts, Fitting, Follows, Sound, Records, Founded
  <2>4. /\ Len(r.events) = Len(record.events) + 1
        /\ SubSeq(r.events, 1, Len(record.events)) = record.events
        /\ record.events \in Seq(Event) /\ Len(record.events) \in Nat
    BY <2>2, <2>3, Present DEF Follows, Rev
  <2>5. /\ DOMAIN record.events = 1 .. Len(record.events)
        /\ DOMAIN r.events = 1 .. Len(record.events) + 1
        /\ \A i \in 1 .. Len(record.events) : r.events[i] = record.events[i]
    BY <2>3, <2>4
  <2>6. r.events[Len(record.events) + 1].op # "reverify"
    BY <2>2, <2>3, <2>4 DEF NoLateReview
  <2>7. \A i \in DOMAIN r.events \ DOMAIN record.events : i = Len(record.events) + 1
    BY <2>4, <2>5
  <2> QED BY <2>2, <2>3, <2>4, <2>5, <2>6, <2>7
<1> QED BY <1>1, <1>2

LEMMA LastMatching ==
  ASSUME IInv, NEW f \in Findings, Matching(record, f) # {}
  PROVE  \E i \in Matching(record, f) : /\ \A j \in Matching(record, f) : j <= i
                                        /\ LastProof(record, f) = UNION {v.refs : v \in record.events[i].by}
<1>1. \E i \in Matching(record, f) : \A j \in Matching(record, f) : j <= i
  <2>1. DOMAIN record.events = 1 .. Len(record.events) /\ Len(record.events) \in Nat
    BY Present
  <2>2. Matching(record, f) \in SUBSET (1 .. Len(record.events))
    BY <2>1 DEF Matching
  <2> QED BY <2>1, <2>2, LastExists
<1> DEFINE i == CHOOSE i \in Matching(record, f) : \A j \in Matching(record, f) : j <= i
<1>2. i \in Matching(record, f) /\ \A j \in Matching(record, f) : j <= i
  BY <1>1
<1>3. LastProof(record, f) = UNION {v.refs : v \in record.events[i].by}
  BY DEF LastProof
<1> HIDE DEF i
<1> QED BY <1>2, <1>3

\* The last review of a finding is one receipt of the host.
LEMMA LastIsReceipt ==
  ASSUME IInv, Founded, NEW f \in Findings, Matching(record, f) # {}
  PROVE  Known(LastProof(record, f))
<1>1. PICK i \in Matching(record, f) : LastProof(record, f) = UNION {v.refs : v \in record.events[i].by}
  BY LastMatching
<1>2. i \in DOMAIN record.events /\ record.events[i].op = "reverify"
      /\ \E v \in record.events[i].by : v.kind = "review"
  BY <1>1 DEF Matching
<1>3. PICK h : record.events[i].by = {h}
  BY <1>2 DEF IInv, Sound, Attested
<1>4. h.kind = "review" /\ h \in receipts
  BY <1>2, <1>3 DEF Founded, Received
<1>5. LastProof(record, f) = h.refs
  BY <1>1, <1>3
<1> QED BY <1>4, <1>5 DEF Founded, Grounded

\* If no finding yields, the last reviews are the same before and after.
LEMMA SameLast ==
  ASSUME IInv, Founded, [Next]_vars, identity' = identity,
         record.gate # {}, record'.gate = record.gate,
         NEW f \in Findings, ~Yields(f), Matching(record, f)' # {}
  PROVE  /\ Matching(record, f) # {}
         /\ LastProof(record, f)' = LastProof(record, f)
<1> DEFINE Speaks(v) == v.kind = "review" /\ v.op = "reverify" /\ v.actor # Author /\ f \in v.findings
<1>1. \A i : i \in Matching(record, f)' <=>
             /\ i \in DOMAIN record'.events /\ record'.events[i].op = "reverify"
             /\ \E v \in record'.events[i].by : Live(v)' /\ Speaks(v)
  BY DEF Matching
<1>2. \A i : i \in Matching(record, f) <=>
             /\ i \in DOMAIN record.events /\ record.events[i].op = "reverify"
             /\ \E v \in record.events[i].by : Live(v) /\ Speaks(v)
  BY DEF Matching
<1>3. ASSUME NEW i \in Matching(record, f)' PROVE i \in Matching(record, f)
  <2>1. i \in DOMAIN record.events /\ record'.events[i] = record.events[i]
    BY <1>1, <1>3, GatedStep
  <2>2. PICK v \in record.events[i].by : Live(v)' /\ Speaks(v)
    BY <1>1, <1>3, <2>1
  <2>3. v \in receipts
    BY <2>1 DEF Founded, Received
  <2>4. Live(v)
    BY <2>2, <2>3, LiveBefore
  <2> QED BY <1>1, <1>2, <1>3, <2>1, <2>2, <2>4
<1>4. Matching(record, f)' = Matching(record, f)
  BY <1>3 DEF Yields
<1>5. Matching(record, f) # {}
  BY <1>4
<1> DEFINE M == Matching(record, f)
           i == CHOOSE i \in M : \A j \in M : j <= i
<1>6. i \in M
  BY <1>5, LastMatching
<1>7. i \in DOMAIN record.events
  BY <1>2, <1>6
<1>8. record'.events[i] = record.events[i]
  BY <1>7, GatedStep
<1>9. LastProof(record, f) = UNION {v.refs : v \in record.events[i].by}
  BY DEF LastProof
<1>10. LastProof(record, f)' = UNION {v.refs : v \in record'.events[i].by}
  BY <1>4 DEF LastProof
<1> QED BY <1>5, <1>8, <1>9, <1>10

LEMMA StillVerifiedBefore ==
  ASSUME IInv, Founded, [Next]_vars, identity' = identity,
         record.gate # {}, record'.gate = record.gate,
         \A f \in Findings : ~Yields(f), StillVerified(record)'
  PROVE  StillVerified(record)
<1> SUFFICES ASSUME NEW f \in Findings, record.life[f] \in {"VERIFIED", "CLOSED"}
             PROVE  /\ Matching(record, f) # {}
                    /\ EvidenceHolds(LastProof(record, f))
                    /\ RepairShown(LastProof(record, f), f)
  BY DEF StillVerified
<1>1. record'.life[f] \in {"VERIFIED", "CLOSED"}
  BY GatedStep
<1>2. /\ Matching(record, f)' # {}
      /\ EvidenceHolds(LastProof(record, f))'
      /\ RepairShown(LastProof(record, f), f)'
  BY <1>1 DEF StillVerified
<1>3. Matching(record, f) # {} /\ LastProof(record, f)' = LastProof(record, f)
  BY <1>2, SameLast
<1>4. Known(LastProof(record, f))
  BY <1>3, LastIsReceipt
<1>5. RepairShown(LastProof(record, f), f)
  BY <1>2, <1>3 DEF RepairShown
<1>6. PICK refs : refs = LastProof(record, f)
  OBVIOUS
<1>7. EvidenceHolds(refs)'
  BY <1>2, <1>3, <1>6 DEF EvidenceHolds, Verified
<1>8. EvidenceHolds(refs)
  BY <1>4, <1>6, <1>7, EvidenceBefore
<1> QED BY <1>3, <1>5, <1>6, <1>8

LEMMA CitationsBefore ==
  ASSUME IInv, Founded, [Next]_vars, identity' = identity,
         record.gate # {}, record'.gate = record.gate,
         \A f \in Findings : ~Yields(f), NEW cites, Known(cites), CitationsHold(record, cites)'
  PROVE  CitationsHold(record, cites)
<1> SUFFICES ASSUME cites # {}
             PROVE  /\ StillVerified(record)
                    /\ \A i \in DOMAIN record.events : record.events[i].op = "reverify" =>
                         \A v \in record.events[i].by : v.refs \subseteq cites
                    /\ \E s \in cites : Proves[s] # {}
                    /\ EvidenceHolds(cites)
  BY DEF CitationsHold
<1>1. /\ StillVerified(record)'
      /\ \A i \in DOMAIN record'.events : record'.events[i].op = "reverify" =>
           \A v \in record'.events[i].by : v.refs \subseteq cites
      /\ \E s \in cites : Proves[s] # {}
      /\ EvidenceHolds(cites)'
  BY DEF CitationsHold
<1>2. \A i \in DOMAIN record.events : record.events[i].op = "reverify" =>
           \A v \in record.events[i].by : v.refs \subseteq cites
  BY <1>1, GatedStep
<1> QED BY <1>1, <1>2, StillVerifiedBefore, EvidenceBefore

\* A closing that lapsed stays lapsed: nothing but a new gate, or a review
\* that outlives a later one, makes recover accept it again.
THEOREM Lapsed == Spec => LapsedForGood
<1> DEFINE Stays == record.gate # {} /\ Current /\ ~ClosedValid /\ record'.gate = record.gate
                      => ~ClosedValid' \/ \E f \in Findings : Yields(f)
<1>1. ASSUME IInv, Founded, [Next]_vars PROVE Stays
  <2> SUFFICES ASSUME record.gate # {}, Current, record'.gate = record.gate, ClosedValid',
                      \A f \in Findings : ~Yields(f)
               PROVE  ClosedValid
    OBVIOUS
  <2>1. identity' = identity
    BY DEF ClosedValid, Current
  <2>2. record'.life = record.life
    BY <1>1, GatedStep
  <2>3. ASSUME NEW g \in record.gate
        PROVE  Live(g) /\ CitationsHold(record, g.cites) /\ record.life = Projected(g.before)
    <3>1. Live(g)' /\ CitationsHold(record, g.cites)' /\ record'.life = Projected(g.before)
      BY DEF ClosedValid, Projected
    <3>2. g \in receipts /\ g.kind = "gate"
      BY <1>1, Present DEF Founded, Received, Gate
    <3>3. Known(g.cites)
      BY <1>1, <3>2 DEF Founded, Grounded
    <3> QED BY <1>1, <2>1, <2>2, <3>1, <3>2, <3>3, LiveBefore, CitationsBefore
  <2>4. StillVerified(record)
    BY <1>1, <2>1, StillVerifiedBefore DEF ClosedValid
  <2> QED BY <2>3, <2>4 DEF ClosedValid
<1>2. IInv /\ Founded /\ [Next]_vars => [Stays]_vars
  BY <1>1
<1> QED BY <1>2, InitSound, StepSound, InitFounded, StepFounded, PTL DEF Spec, LapsedForGood
=============================================================================
