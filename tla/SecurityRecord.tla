--------------------------- MODULE SecurityRecord ---------------------------
(***************************************************************************)
(* The security record of one review and the authority that lets it move:  *)
(* src/aek/application/security_workflow.py over security_authority.py,    *)
(* security_evidence.py and core/security/record.py.                       *)
(*                                                                         *)
(* Two writers share the record file.  The author claims fixes; the        *)
(* control session does everything that needs proof.  What needs proof     *)
(* rests on receipts of host events: they expire, the host may stop        *)
(* confirming them, and the handles minted with them live only as long as  *)
(* the control session.  An operation reads the record, checks, builds the *)
(* next revision and writes it by compare-and-swap: time passes, receipts  *)
(* lapse and the other writer commits between the two.                     *)
(***************************************************************************)
EXTENDS Naturals, Sequences, FiniteSets

CONSTANTS
  Findings,   \* the findings of the record
  Sources,    \* references under which evidence may be registered
  Proves,     \* [Sources -> SUBSET Findings]: negative test and regression passed
  Refutes,    \* [Sources -> SUBSET Findings]: counterevidence
  Requests,   \* the reviews the control session asks for: operation, findings, evidence
  Reviewers,  \* worker ids a host may report, the author's among them
  Author,     \* the author of the change
  Horizon,    \* bound: the last instant
  Lease,      \* how long a control session may act, and its receipts last
  MaxEvents,  \* bound: writes to the record
  MaxReceipts,\* bound: events the host reports
  MaxRevoked  \* bound: receipts the host withdraws

ASSUME SRAssumption ==
  /\ Proves \in [Sources -> SUBSET Findings]
  /\ Refutes \in [Sources -> SUBSET Findings]
  /\ Requests \subseteq [op: {"reverify", "false-positive"},
                          findings: (SUBSET Findings) \ {{}}, refs: SUBSET Sources]
  /\ Author \in Reviewers
  /\ Horizon \in Nat
  /\ Lease \in Nat \ {0}
  /\ {MaxEvents, MaxReceipts, MaxRevoked} \subseteq Nat

VARIABLES
  record,    \* the durable record
  receipts,  \* the durable receipts of host events
  revoked,   \* receipts the host no longer confirms
  index,     \* the receipts under which evidence is registered
  handles,   \* the receipts this control session holds a handle of
  workers,   \* reviews registered in this control session
  draft,     \* the revision a writer is about to write
  now,       \* the clock
  until,     \* when this control session ends
  identity   \* whether the code is the code the record was made for

vars == <<record, receipts, revoked, index, handles, workers, draft, now, until, identity>>
session == <<handles, workers>>
host == <<receipts, revoked, index>>
clock == <<now, until, identity>>

Parties == {"author", "control"}
Codes == {"recorded", "other"}
LifeStates == {"OPEN", "FIXED", "VERIFIED", "CLOSED"}
Lives == [Findings -> LifeStates]
Times == 0 .. Horizon + Lease
Revisions == 1 .. MaxEvents + 1

Review == [kind: {"review"}, op: {"reverify", "false-positive"}, actor: Reviewers,
           rev: Revisions, findings: SUBSET Findings, refs: SUBSET Sources,
           identity: Codes, expires: Times]
Consent == [kind: {"consent"}, finding: Findings, risk: Times, rev: Revisions,
            identity: Codes, expires: Times]
Source == [kind: {"source"}, ref: Sources, identity: Codes, expires: Times]
Gate == [kind: {"gate"}, rev: Revisions, before: Lives, cites: SUBSET Sources,
         identity: Codes, expires: Times]
Receipt == Review \cup Consent \cup Source \cup Gate

Registration == [op: {"reverify", "false-positive"}, worker: Reviewers, rev: Revisions,
                 findings: SUBSET Findings, refs: SUBSET Sources]
Resolution == [finding: Findings, by: Review \cup Consent, proof: SUBSET Sources]
Event == [op: {"claim-fixed", "reverify", "resolve", "close"}, on: SUBSET Findings,
          by: SUBSET Receipt]
Records == [life: Lives, res: SUBSET Resolution, gap: BOOLEAN, gate: SUBSET Gate,
            events: Seq(Event)]

TypeOK ==
  /\ record \in Records
  /\ receipts \subseteq Receipt
  /\ revoked \subseteq receipts
  /\ index \subseteq receipts \cap Source
  /\ handles \subseteq receipts
  /\ workers \subseteq Registration
  /\ draft \in [Parties -> SUBSET Records]
  /\ now \in 0 .. Horizon
  /\ until \in Times
  /\ identity \in Codes

(***************************************************************************)
(* The record                                                              *)
(***************************************************************************)
\* Every write appends one event and raises the revision by one.
Rev(r) == Len(r.events) + 1

NewRecord == [life |-> [f \in Findings |-> "OPEN"], res |-> {}, gap |-> TRUE,
              gate |-> {}, events |-> <<>>]

Logged(r, op, on, by) ==
  [r EXCEPT !.events = Append(@, [op |-> op, on |-> on, by |-> by])]

\* The gate closes what was verified and leaves the rest alone.
Projected(life) == [f \in Findings |-> IF life[f] = "VERIFIED" THEN "CLOSED" ELSE life[f]]

\* A record without a gate closes nothing; one with a gate has exactly the
\* lifecycle the gate leads to.
Sealed(r) ==
  IF r.gate = {} THEN \A f \in Findings : r.life[f] # "CLOSED"
                 ELSE \A g \in r.gate : r.life = Projected(g.before)

(***************************************************************************)
(* Provenance                                                              *)
(***************************************************************************)
\* A receipt counts while its event is unexpired, of this identity, and
\* confirmed by the host.
LiveInSession(r) == r \in receipts \ revoked /\ now < until /\ r.identity = identity

Live(r) == /\ r \in receipts \ revoked
           /\ r.expires > now
           /\ r.identity = identity

Active == now < until
Usable(h) == Active /\ h \in handles /\ Live(h)

Known(refs) == \A s \in refs : \E r \in index : r.ref = s
Verified(s) == \E r \in index : r.ref = s /\ Live(r)
EvidenceHolds(refs) == \A s \in refs : Verified(s)
RepairShown(refs, f) == \E s \in refs : f \in Proves[s]

Current == identity = "recorded"

Expiries == now + 1 .. until

\* The host reports an event: its receipt is stored and a handle handed out.
MintedUnstored(r) == receipts' = receipts /\ handles' = handles \cup {r}
Minted(r) == /\ Cardinality(receipts) < MaxReceipts
             /\ receipts' = receipts \cup {r}
             /\ handles' = handles \cup {r}

(***************************************************************************)
(* Whether what the record says still stands                               *)
(***************************************************************************)
\* A risk is accepted up to its own date, whatever its receipt allows.
ConsentHolds(c) == Live(c) /\ c.risk > now

ValidResolution(r) ==
  /\ r.by.identity = identity
  /\ Live(r.by)
  /\ IF r.by.kind = "consent"
       THEN ConsentHolds(r.by)
       ELSE /\ r.by.op = "false-positive" /\ r.by.actor # Author
            /\ r.finding \in r.by.findings
            /\ EvidenceHolds(r.proof)

\* The events whose live, independent review covers the finding.
Matching(r, f) ==
  {i \in DOMAIN r.events :
     /\ r.events[i].op = "reverify"
     /\ \E v \in r.events[i].by :
          Live(v) /\ v.kind = "review" /\ v.op = "reverify" /\ v.actor # Author /\ f \in v.findings}

\* The last of them speaks for the finding.
LastProof(r, f) ==
  LET i == CHOOSE i \in Matching(r, f) : \A j \in Matching(r, f) : j <= i
  IN UNION {v.refs : v \in r.events[i].by}

StillVerifiedOnce(r) ==
  \A f \in {f \in Findings : r.life[f] \in {"VERIFIED", "CLOSED"}} : Matching(r, f) # {}

StillVerified(r) ==
  \A f \in {f \in Findings : r.life[f] \in {"VERIFIED", "CLOSED"}} :
    /\ Matching(r, f) # {}
    /\ EvidenceHolds(LastProof(r, f))
    /\ RepairShown(LastProof(r, f), f)

\* What a gate cites for the security review: the evidence of every
\* reverification, all of it valid.  A gate not asked for it cites nothing.
CitationsHold(r, cites) ==
  cites # {} =>
    /\ StillVerified(r)
    /\ \A i \in DOMAIN r.events : r.events[i].op = "reverify" =>
         \A v \in r.events[i].by : v.refs \subseteq cites
    /\ \E s \in cites : Proves[s] # {}
    /\ EvidenceHolds(cites)

\* recover: closed only while the gate, its citations and every review stand.
ClosedValid ==
  /\ Current
  /\ record.gate # {}
  /\ \A g \in record.gate : /\ Live(g)
                            /\ CitationsHold(record, g.cites)
                            /\ record.life = Projected(g.before)
  /\ StillVerified(record)

(***************************************************************************)
(* Actions                                                                 *)
(***************************************************************************)
Init ==
  /\ record = NewRecord
  /\ receipts = {} /\ revoked = {} /\ index = {} /\ handles = {} /\ workers = {}
  /\ draft = [w \in Parties |-> {}]
  /\ now = 0 /\ until = Lease /\ identity = "recorded"

\* A writer has built the next revision and is about to write it.
Write(w, r) ==
  /\ draft[w] = {}
  /\ Len(r.events) <= MaxEvents
  /\ Sealed(r)
  /\ draft' = [draft EXCEPT ![w] = {r}]

\* The store takes only the revision that follows the current one and keeps
\* its events; anything else is refused.
FollowsAnything(r) == TRUE
Follows(r) == Rev(r) = Rev(record) + 1 /\ SubSeq(r.events, 1, Len(record.events)) = record.events

Commit(w) ==
  /\ \E r \in draft[w] : record' = IF Follows(r) THEN r ELSE record
  /\ draft' = [draft EXCEPT ![w] = {}]
  /\ UNCHANGED <<host, session, clock>>

\* The author may claim a fix, and nothing else.
ClaimFixed(f) ==
  /\ Current /\ Active
  /\ record.life[f] = "OPEN"
  /\ Write("author", Logged([record EXCEPT !.life[f] = "FIXED"], "claim-fixed", {f}, {}))
  /\ UNCHANGED <<record, host, session, clock>>

\* A tool that is not the author reports evidence.  A reference, once
\* registered, keeps the receipt it was registered with.
Unregistered(s) == \A r \in index : r.ref # s

RegisterSource(s, e) ==
  LET r == [kind |-> "source", ref |-> s, identity |-> identity, expires |-> e] IN
  /\ Active
  /\ Unregistered(s)
  /\ Minted(r) /\ index' = index \cup {r}
  /\ UNCHANGED <<record, revoked, workers, draft, clock>>

\* A review is registered for the record as it is, before it is done.
Free(worker) == worker # Author /\ \A w \in workers : w.worker # worker

RegisterReview(q, worker) ==
  /\ Current /\ Active
  /\ Free(worker)
  /\ Known(q.refs)
  /\ workers' = workers \cup {[op |-> q.op, worker |-> worker, rev |-> Rev(record),
                               findings |-> q.findings, refs |-> q.refs]}
  /\ UNCHANGED <<record, host, handles, draft, clock>>

\* The host reports the registered worker's completed review, without issues.
OfThisRecord(w) == Current /\ w.rev = Rev(record)

ReviewCompleted(w, e) ==
  /\ OfThisRecord(w) /\ Active
  /\ Minted([kind |-> "review", op |-> w.op, actor |-> w.worker, rev |-> w.rev,
             findings |-> w.findings, refs |-> w.refs, identity |-> identity, expires |-> e])
  /\ UNCHANGED <<record, revoked, index, workers, draft, clock>>

\* The user accepts the risk of a finding, up to a date, for the record as it is.
Consented(f, risk, e) ==
  [kind |-> "consent", finding |-> f, risk |-> risk, rev |-> Rev(record),
   identity |-> identity, expires |-> e]

UserConfirms(f, risk, e) ==
  /\ Current /\ Active
  /\ risk <= e
  /\ Minted(Consented(f, risk, e))
  /\ UNCHANGED <<record, revoked, index, workers, draft, clock>>

\* A review counts for the record it was made for, on the findings it names.
ReviewCallerAnyRevision(h, op, f) ==
  h.kind = "review" /\ Usable(h) /\ h.op = op /\ h.actor # Author /\ f \in h.findings

ReviewCaller(h, op, f) ==
  /\ h.kind = "review" /\ Usable(h)
  /\ h.op = op /\ h.actor # Author
  /\ h.rev = Rev(record)
  /\ f \in h.findings

Reverify(h, f) ==
  LET life == [record.life EXCEPT ![f] = "VERIFIED"]
      all == \A g \in Findings : life[g] = "VERIFIED" IN
  /\ Current
  /\ ReviewCaller(h, "reverify", f)
  /\ record.life[f] = "FIXED"
  /\ EvidenceHolds(h.refs) /\ RepairShown(h.refs, f)
  /\ Write("control", Logged([record EXCEPT !.life = life, !.gap = @ /\ ~all],
                             "reverify", {f}, {h}))
  /\ UNCHANGED <<record, host, session, clock>>

Settled(f, h, proof) ==
  [record EXCEPT !.res = {r \in @ : r.finding # f} \cup {[finding |-> f, by |-> h, proof |-> proof]}]

AcceptRisk(h) ==
  /\ Current
  /\ h.kind = "consent" /\ Usable(h)
  /\ h.rev = Rev(record) /\ h.risk > now
  /\ Write("control", Logged(Settled(h.finding, h, {}), "resolve", {h.finding}, {h}))
  /\ UNCHANGED <<record, host, session, clock>>

FalsePositive(h, f) ==
  /\ Current
  /\ ReviewCaller(h, "false-positive", f)
  /\ EvidenceHolds(h.refs)
  /\ \E s \in h.refs :
       /\ f \in Refutes[s]
       /\ Write("control", Logged(Settled(f, h, {s}), "resolve", {f}, {h}))
  /\ UNCHANGED <<record, host, session, clock>>

\* The composer said READY on these citations.  Its receipt is durable before
\* the record is written.
Closable(r) ==
  /\ ~r.gap
  /\ \A f \in Findings : \/ r.life[f] = "VERIFIED"
                         \/ \E x \in r.res : x.finding = f /\ ValidResolution(x)

Composed(cites) ==
  [kind |-> "gate", rev |-> Rev(record), before |-> record.life, cites |-> cites,
   identity |-> identity, expires |-> until]

GateComposed(cites) ==
  LET g == Composed(cites) IN
  /\ Current /\ Active
  /\ Closable(record)
  /\ CitationsHold(record, cites)
  /\ Minted(g)
  /\ Write("control", Logged([record EXCEPT !.life = Projected(@), !.gate = {g}],
                             "close", {}, {g}))
  /\ UNCHANGED <<record, revoked, index, workers, clock>>

Tick == /\ now < Horizon /\ now' = now + 1
        /\ UNCHANGED <<record, host, session, draft, until, identity>>

Revoke(r) == /\ Cardinality(revoked) < MaxRevoked
             /\ revoked' = revoked \cup {r}
             /\ UNCHANGED <<record, receipts, index, session, draft, clock>>

\* The control session stops, a write in flight with it, and another one is
\* opened over the code as it then is.
Reopen(i) ==
  /\ handles' = {} /\ workers' = {}
  /\ draft' = [draft EXCEPT !["control"] = {}]
  /\ until' = now + Lease /\ identity' = i
  /\ UNCHANGED <<record, host, now>>

Next ==
  \/ \E w \in Parties : Commit(w)
  \/ \E f \in Findings : ClaimFixed(f)
  \/ \E s \in Sources, e \in Expiries : RegisterSource(s, e)
  \/ \E q \in Requests, w \in Reviewers : RegisterReview(q, w)
  \/ \E w \in workers, e \in Expiries : ReviewCompleted(w, e)
  \/ \E f \in Findings, risk, e \in Expiries : UserConfirms(f, risk, e)
  \/ \E h \in handles, f \in Findings : Reverify(h, f) \/ FalsePositive(h, f)
  \/ \E h \in handles : AcceptRisk(h)
  \/ \E cites \in {{}} \cup {q.refs : q \in Requests} : GateComposed(cites)
  \/ Tick
  \/ \E r \in receipts \ revoked : Revoke(r)
  \/ \E i \in Codes : Reopen(i)

Spec == Init /\ [][Next]_vars

(***************************************************************************)
(* Properties                                                              *)
(***************************************************************************)
\* A handle carries one decision on one revision: the event a review, a
\* consent or a gate let in follows the very revision it was given for, and no
\* review is the author's.
OneProofOneRevision ==
  \A i \in DOMAIN record.events : \A h \in record.events[i].by :
    h.rev = i /\ (h.kind = "review" => h.actor # Author /\ record.events[i].on \subseteq h.findings)

\* No committed event is ever lost, the record takes one at a time, and after
\* a gate no finding moves again and the record stays gated, whatever writers
\* were in flight (a later gate may take the place of the first).
RecordGrows ==
  [][/\ Rev(record') = Rev(record) + 1
     /\ SubSeq(record'.events, 1, Len(record.events)) = record.events
     /\ record.gate # {} => record'.gate # {} /\ record'.life = record.life]_record

\* recover calls a record closed only if every finding in it was claimed
\* fixed, then verified, and is covered by a review of somebody other than the
\* author that still stands, with evidence that still shows the repair.  (The
\* review that stands need not be the one that verified the finding: any
\* review that covered it speaks for it, one made before the fix was claimed
\* too; _verify_historical_reverification.)
ClosedIsProved ==
  ClosedValid => \A f \in Findings :
    /\ \E i \in DOMAIN record.events : \E j \in 1 .. i - 1 :
         /\ record.events[i].op = "reverify" /\ f \in record.events[i].on
         /\ record.events[j].op = "claim-fixed" /\ f \in record.events[j].on
    /\ \E i \in DOMAIN record.events : \E h \in record.events[i].by :
         /\ h.kind = "review" /\ Live(h) /\ h.actor # Author /\ f \in h.findings
         /\ EvidenceHolds(h.refs) /\ RepairShown(h.refs, f)

\* A closing that lapsed, because a receipt expired or the host withdrew it,
\* does not come back to life for the same code, unless it is closed anew, or
\* a finding's last review lapses too and an earlier one speaks for it again.
Yields(f) == Matching(record, f)' # {} /\ ~(Matching(record, f) \subseteq Matching(record, f)')
LapsedForGood ==
  [][(record.gate # {} /\ Current /\ ~ClosedValid /\ record'.gate = record.gate)
       => ~ClosedValid' \/ \E f \in Findings : Yields(f)]_vars
=============================================================================
