----------------------------- MODULE ReviewGate -----------------------------
(* The review gate of one document stage: doc-gate gate and review-input over *)
(* <stage>.issue-lifecycle.json, <stage>.gate.json and <stage>.gate.log.      *)
(*                                                                           *)
(* A gate run holds the plan lock, so one runs at a time; it may be killed    *)
(* between any two durable writes.  The author edits the document and writes  *)
(* claims, and the reviewer delivers observations, at any moment, without it. *)
(* A digest is modelled by what it is the digest of.  The event list of a     *)
(* snapshot is its length and the claims it records: nothing else in it is    *)
(* ever read, except a closing suffix, which Close and Projects represent.    *)
(* Required-review stages; BLOCKED issues have no writer and are left out.    *)
EXTENDS Integers, FiniteSets

CONSTANTS Issue,          \* fingerprints
          Tolerated,      \* issues whose severity stays within the policy
          Docs,           \* contents of the stage's documents
          Observation,    \* review outputs: a request and the bytes returned
          MaxIterations,  \* policy: failed rounds before BLOCKED
          None,
          MaxGates,       \* bound: gate records
          MaxClaims,      \* bound: claim files
          MaxEdits,       \* bound: edits of the document
          MaxCrashes      \* bound: killed commands

ASSUME IssueAssumption == IsFiniteSet(Issue) /\ Tolerated \subseteq Issue
ASSUME ObservationAssumption ==
    \A o \in Observation : /\ o.doc \in Docs /\ o.upstream \in BOOLEAN
                           /\ o.reports \subseteq Issue /\ o.covers \subseteq Issue
ASSUME PolicyAssumption == MaxIterations \in Nat \ {0}
ASSUME BoundAssumption == /\ MaxGates \in Nat /\ MaxClaims \in Nat
                          /\ MaxEdits \in Nat /\ MaxCrashes \in Nat

States     == {"none", "OPEN", "FIXED", "VERIFIED", "CLOSED", "REOPENED"}
Unresolved == {"OPEN", "FIXED", "REOPENED"}
Blocking   == Issue \ Tolerated

Snapshot == [doc : Docs, iteration : 1..MaxIterations, state : [Issue -> States],
             gate : [Issue -> 0..MaxGates], seen : [Issue -> SUBSET Observation],
             claimed : SUBSET (Issue \X (1..MaxClaims)), events : Nat]
Gate     == [id : 1..MaxGates, status : {"PASS", "NEEDS_REVISION", "BLOCKED"},
             doc : Docs, bound : Snapshot \cup {None}]
Claims   == [id : 1..MaxClaims, base : Snapshot, doc : Docs, issues : SUBSET Issue]

ASSUME NoneAssumption == None \notin Snapshot \cup Gate \cup Claims \cup Observation

VARIABLES doc,      \* the documents of the stage
          review,   \* issues.json with its request and receipt
          claims,   \* issue-claims.json
          lc,       \* issue-lifecycle.json
          gate,     \* gate.json
          log,      \* gate.log: failed rounds since a PASS, and was the last BLOCKED
          me,       \* the running command
          edits, crashes

inputs  == <<doc, review, claims, edits>>
results == <<lc, gate, log>>
vars    == <<inputs, results, me, crashes>>

(* The command: what it validated, what it read, and what it will publish. *)
Command == [at : {"idle", "hash", "recover", "prepare", "judge", "lifecycle", "gate",
                  "close", "log"},
            cmd : {"none", "gate", "input"}, hard : BOOLEAN,
            obs : Observation \cup {None}, hits : SUBSET Issue, upstream : BOOLEAN,
            doc : Docs \cup {None}, new : Snapshot \cup {None},
            status : {"none", "PASS", "NEEDS_REVISION", "BLOCKED"}]
Idle == [at |-> "idle", cmd |-> "none", hard |-> FALSE, obs |-> None,
         hits |-> {}, upstream |-> FALSE, doc |-> None, new |-> None, status |-> "none"]

At(place)   == me.at = place
Goto(place) == me' = [me EXCEPT !.at = place]
Refuse      == me' = Idle /\ UNCHANGED <<inputs, results, crashes>>

Init == /\ doc \in Docs
        /\ review = None /\ claims = None
        /\ lc = None /\ gate = None
        /\ log = [fails |-> 0, blocked |-> FALSE]
        /\ me = Idle
        /\ edits = 0 /\ crashes = 0

-----------------------------------------------------------------------------
(* Pure rules of the lifecycle. *)

(* A PASS gate closes what is VERIFIED. *)
Verified(s) == {i \in Issue : s.state[i] = "VERIFIED"}
Close(s, g) ==
    [s EXCEPT !.state  = [i \in Issue |-> IF i \in Verified(s) THEN "CLOSED" ELSE @[i]],
              !.gate   = [i \in Issue |-> IF i \in Verified(s) THEN g ELSE @[i]],
              !.events = @ + Cardinality(Verified(s))]

(* Mutant: a bound gate is taken without comparing what it is bound to. *)
ProjectsAny(s, g) == g.bound # None

(* project_pass_gate accepts the bound snapshot, or exactly what closing it   *)
(* gives: undoing the last closings of this gate leads back to the snapshot.  *)
Projects(s, g) == g.bound # None /\ s \in {g.bound, Close(g.bound, g.id)}

Projectable == lc # None /\ gate # None /\ gate.status = "PASS" /\ Projects(lc, gate)

(* ingest_review_occurrences: an observation counts once per issue. *)
Hit(s, i) == i \in me.hits /\ me.obs \notin s.seen[i]
(* Mutants: a reopened issue keeps its gate; a closed one stays closed. *)
IngestKeepsGate(s) ==
    [s EXCEPT
       !.state = [i \in Issue |->
                     IF ~Hit(s, i) THEN @[i]
                     ELSE IF @[i] = "none" THEN "OPEN"
                     ELSE IF @[i] \in {"FIXED", "VERIFIED", "CLOSED"} THEN "REOPENED"
                     ELSE @[i]],
       !.seen = [i \in Issue |-> IF Hit(s, i) THEN @[i] \cup {me.obs} ELSE @[i]],
       !.events = @ + Cardinality({i \in Issue : /\ Hit(s, i)
                                                 /\ s.state[i] \in {"FIXED", "VERIFIED", "CLOSED"}})]

IngestForgives(s) ==
    [s EXCEPT
       !.state = [i \in Issue |->
                     IF ~Hit(s, i) THEN @[i]
                     ELSE IF @[i] = "none" THEN "OPEN"
                     ELSE IF @[i] \in {"FIXED", "VERIFIED"} THEN "REOPENED"
                     ELSE @[i]],
       !.gate = [i \in Issue |-> IF Hit(s, i) THEN 0 ELSE @[i]],
       !.seen = [i \in Issue |-> IF Hit(s, i) THEN @[i] \cup {me.obs} ELSE @[i]],
       !.events = @ + Cardinality({i \in Issue : /\ Hit(s, i)
                                                 /\ s.state[i] \in {"FIXED", "VERIFIED", "CLOSED"}})]

Ingest(s) ==
    [s EXCEPT
       !.state = [i \in Issue |->
                     IF ~Hit(s, i) THEN @[i]
                     ELSE IF @[i] = "none" THEN "OPEN"
                     ELSE IF @[i] \in {"FIXED", "VERIFIED", "CLOSED"} THEN "REOPENED"
                     ELSE @[i]],
       !.gate = [i \in Issue |-> IF Hit(s, i) THEN 0 ELSE @[i]],
       !.seen = [i \in Issue |-> IF Hit(s, i) THEN @[i] \cup {me.obs} ELSE @[i]],
       !.events = @ + Cardinality({i \in Issue : /\ Hit(s, i)
                                                 /\ s.state[i] \in {"FIXED", "VERIFIED", "CLOSED"}})]

(* Claims of the author not recorded yet; what makes the whole file refused.  *)
Unapplied(s) == {i \in claims.issues : <<i, claims.id>> \notin s.claimed}
ClaimsRefused(s) ==
    \/ claims.doc # me.doc
    \/ \E i \in claims.issues : s.state[i] = "none"
    \/ Unapplied(s) # {} /\ claims.base # s
    \/ \E i \in Unapplied(s) : s.state[i] \notin {"OPEN", "REOPENED"}

Claimed(s) ==
    IF claims = None THEN s
    ELSE [s EXCEPT !.state = [i \in Issue |-> IF i \in Unapplied(s) THEN "FIXED" ELSE @[i]],
                   !.claimed = @ \cup {<<i, claims.id>> : i \in Unapplied(s)},
                   !.events = @ + Cardinality(Unapplied(s))]

(* A fix is verified when the observation covers it and never reported it. *)
Cleared(s) == {i \in Issue : /\ s.state[i] = "FIXED"
                             /\ me.obs \notin s.seen[i] /\ i \in me.obs.covers}
Verify(s) == [s EXCEPT !.state  = [i \in Issue |-> IF i \in Cleared(s) THEN "VERIFIED" ELSE @[i]],
                       !.events = @ + Cardinality(Cleared(s))]

Larger(a, b)  == IF a > b THEN a ELSE b
Smaller(a, b) == IF a < b THEN a ELSE b
(* Mutant: the policy does not cap the iteration. *)
IterationUncapped == Larger(log.fails + 1, IF lc = None THEN 1 ELSE lc.iteration)
Iteration == Smaller(Larger(log.fails + 1, IF lc = None THEN 1 ELSE lc.iteration), MaxIterations)

Initialized ==
    [doc |-> me.doc, iteration |-> Iteration,
     state |-> [i \in Issue |-> IF i \in me.hits THEN "OPEN" ELSE "none"],
     gate |-> [i \in Issue |-> 0],
     seen |-> [i \in Issue |-> IF i \in me.hits THEN {me.obs} ELSE {}],
     claimed |-> {}, events |-> 0]

Prepared == IF lc = None THEN Initialized
            ELSE Verify([Ingest(Claimed(lc)) EXCEPT !.doc = me.doc, !.iteration = Iteration])

(* judge_gate *)
Pending(s)  == IF s = None THEN {} ELSE {i \in Blocking : s.state[i] \in Unresolved}
Verdict(s) ==
    IF ~me.hard /\ Pending(s) = {} THEN IF me.upstream THEN "BLOCKED" ELSE "PASS"
    ELSE IF log.blocked \/ log.fails + 1 >= MaxIterations THEN "BLOCKED"
    ELSE "NEEDS_REVISION"

-----------------------------------------------------------------------------
(* Author and reviewer, at any time and without the lock. *)

Edit(d) == /\ edits < MaxEdits /\ d # doc
           /\ doc' = d /\ edits' = edits + 1
           /\ UNCHANGED <<review, claims, results, me, crashes>>

Deliver(o) == /\ o.doc = doc /\ review # o
              /\ review' = o
              /\ UNCHANGED <<doc, claims, edits, results, me, crashes>>

(* Fixes are claimed against the lifecycle and the documents as they are; a   *)
(* claim of the same two has the same digest.                                *)
ClaimId == IF claims = None THEN 1
           ELSE IF claims.base = lc /\ claims.doc = doc THEN claims.id ELSE claims.id + 1
Claim(S) == /\ lc # None /\ S # {} /\ ClaimId <= MaxClaims
            /\ claims' = [id |-> ClaimId, base |-> lc, doc |-> doc, issues |-> S]
            /\ claims' # claims
            /\ UNCHANGED <<doc, review, edits, results, me, crashes>>

-----------------------------------------------------------------------------
(* doc-gate gate, under the lock.  The hard checks, the validation of the     *)
(* review and the hashing of the documents each read the documents anew.      *)

NextGate == IF gate = None THEN 1 ELSE gate.id + 1

(* A review of other bytes is refused, except that with failing hard checks   *)
(* the run goes on as if it had reported nothing.                            *)
Valid == review # None /\ review.doc = doc
Start(hard) ==
    /\ At("idle") /\ NextGate <= MaxGates
    /\ Valid \/ hard
    /\ me' = [Idle EXCEPT !.at = "hash", !.cmd = "gate", !.hard = hard, !.obs = review,
                          !.hits = IF Valid THEN review.reports ELSE {},
                          !.upstream = Valid /\ review.upstream]
    /\ UNCHANGED <<inputs, results, crashes>>

Hash == /\ At("hash")
        /\ me' = [me EXCEPT !.doc = doc,
                            !.at = IF me.obs = None /\ lc = None THEN "judge" ELSE "recover"]
        /\ UNCHANGED <<inputs, results, crashes>>

(* review-input recovers the lifecycle too. *)
ReviewInput == /\ At("idle")
               /\ me' = [Idle EXCEPT !.at = "recover", !.cmd = "input"]
               /\ UNCHANGED <<inputs, results, crashes>>

(* Mutant: a closing that was interrupted is left alone. *)
RecoverNothing == /\ At("recover")
                  /\ me' = IF me.cmd = "gate" THEN [me EXCEPT !.at = "prepare"] ELSE Idle
                  /\ UNCHANGED <<inputs, results, crashes>>

(* LifecycleGateStore.recover: finish the closing of the gate on disk. *)
Recover == /\ At("recover")
           /\ lc' = IF Projectable THEN Close(gate.bound, gate.id) ELSE lc
           /\ me' = IF me.cmd = "gate" THEN [me EXCEPT !.at = "prepare"] ELSE Idle
           /\ UNCHANGED <<inputs, gate, log, crashes>>

(* Claims without a lifecycle, claims that do not fit, a missing review. *)
Refused == \/ me.obs = None
           \/ claims # None /\ (lc = None \/ ClaimsRefused(lc))

PrepareRefused == At("prepare") /\ Refused /\ Refuse

(* prepare_lifecycle and judge_gate *)
Prepare == /\ At("prepare") /\ ~Refused
           /\ me' = [me EXCEPT !.at = "lifecycle", !.new = Prepared, !.status = Verdict(Prepared)]
           /\ UNCHANGED <<inputs, results, crashes>>

(* Failing hard checks before any review: a verdict without a lifecycle. *)
Judge == /\ At("judge")
         /\ me' = [me EXCEPT !.at = "gate", !.status = Verdict(None)]
         /\ UNCHANGED <<inputs, results, crashes>>

(* publish_pass_gate and publish_non_pass_gate: lifecycle, gate, closing. *)
(* The lock makes the compare-and-swap succeed.                              *)
WriteLifecycle == /\ At("lifecycle")
                  /\ lc' = me.new
                  /\ Goto("gate")
                  /\ UNCHANGED <<inputs, gate, log, crashes>>

WriteGate == /\ At("gate")
             /\ gate' = [id |-> NextGate, status |-> me.status, doc |-> me.doc,
                         bound |-> me.new]
             /\ Goto(IF me.status = "PASS" THEN "close" ELSE "log")
             /\ UNCHANGED <<inputs, lc, log, crashes>>

WriteClosed == /\ At("close")
               /\ lc' = Close(me.new, gate.id)
               /\ Goto("log")
               /\ UNCHANGED <<inputs, gate, log, crashes>>

AppendLog == /\ At("log")
             /\ log' = IF me.status = "PASS" THEN [fails |-> 0, blocked |-> FALSE]
                       ELSE [fails |-> log.fails + 1, blocked |-> me.status = "BLOCKED"]
             /\ me' = Idle
             /\ UNCHANGED <<inputs, lc, gate, crashes>>

Abort == /\ ~At("idle") /\ crashes < MaxCrashes
         /\ crashes' = crashes + 1 /\ me' = Idle
         /\ UNCHANGED <<inputs, results>>

Proceed == \/ Hash \/ Recover \/ PrepareRefused \/ Prepare \/ Judge
           \/ WriteLifecycle \/ WriteGate \/ WriteClosed \/ AppendLog

Next == \/ \E d \in Docs : Edit(d)
        \/ \E o \in Observation : Deliver(o)
        \/ \E S \in SUBSET Issue : Claim(S)
        \/ \E hard \in BOOLEAN : Start(hard)
        \/ ReviewInput \/ Proceed \/ Abort

Spec == Init /\ [][Next]_vars

-----------------------------------------------------------------------------
(* Properties. *)

TypeOK ==
    /\ doc \in Docs /\ review \in Observation \cup {None}
    /\ claims \in Claims \cup {None}
    /\ lc \in Snapshot \cup {None} /\ gate \in Gate \cup {None}
    /\ log \in [fails : Nat, blocked : BOOLEAN]
    /\ me \in Command
    /\ edits \in Nat /\ crashes \in Nat

(* What every reader of the stage decides: accepted, whatever was interrupted. *)
Accepted == Projectable

(* The states a reader is entitled to: a gate that passed has closed its      *)
(* issues even when the command that wrote it died before it could say so.    *)
IssueStates == IF lc = None THEN [i \in Issue |-> "none"]
               ELSE IF Accepted THEN Close(gate.bound, gate.id).state ELSE lc.state

(* The three files and the log, written one by one and interrupted anywhere,  *)
(* behave like one verdict that changes in one step.                         *)
Verdicts == INSTANCE ReviewVerdict WITH state <- IssueStates, accepted <- Accepted
VerdictSpec == Verdicts!VSpec

(* No crash lets an older PASS speak for a newer lifecycle: a stage that      *)
(* readers take for accepted has no unresolved issue above the policy on disk. *)
AcceptedIsResolved == Accepted => \A i \in Blocking : lc.state[i] \notin Unresolved

(* CLOSED names the gate that closed it: never one that is yet to be written, *)
(* and while that gate is on disk it is a PASS bound to a snapshot in which   *)
(* the issue was VERIFIED.                                                   *)
ClosedByAGate ==
    lc # None => \A i \in Issue :
        /\ (lc.state[i] = "CLOSED") <=> (lc.gate[i] # 0)
        /\ lc.state[i] = "CLOSED" =>
              /\ gate # None /\ lc.gate[i] <= gate.id
              /\ lc.gate[i] = gate.id =>
                    gate.status = "PASS" /\ gate.bound.state[i] = "VERIFIED"

(* A run about to publish a PASS has met no blocking issue for the first time *)
(* in this observation, whatever was claimed, fixed or closed before.        *)
FreshHitsBlock ==
    At("lifecycle") /\ me.status = "PASS"
        => \A i \in me.hits \cap Blocking : lc # None /\ me.obs \in lc.seen[i]

(* "An old review never freezes a new version": a PASS is for the documents   *)
(* the review was validated against.                                         *)
OldReviewNeverFreezes ==
    [][gate' # gate /\ gate'.status = "PASS" => gate'.doc = me.obs.doc]_vars
=============================================================================
