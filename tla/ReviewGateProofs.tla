-------------------------- MODULE ReviewGateProofs --------------------------
(* The review gate for any issues, documents, observations, policies and      *)
(* bounds: types, what acceptance, closing and a PASS rest on, and that its   *)
(* files, written one by one and interrupted anywhere, implement one verdict. *)
EXTENDS ReviewGate, FiniteSetTheorems, TLAPS

(* A closed issue names a gate, before the bound given.                       *)
ClosedBefore(s, bound) ==
    \A i \in Issue : /\ (s.state[i] = "CLOSED") <=> (s.gate[i] # 0)
                     /\ s.gate[i] < bound

(* A PASS is bound to a snapshot without unresolved issues above the policy,  *)
(* and every bound snapshot was closed by earlier gates only.                 *)
SoundGate ==
    gate # None => /\ gate.status = "PASS" => gate.bound # None /\ Pending(gate.bound) = {}
                   /\ gate.bound # None => ClosedBefore(gate.bound, gate.id)

(* The lifecycle is the snapshot of the last PASS until that one is closed,   *)
(* and has left it behind for good from then on.                              *)
Left == lc.events >= Close(gate.bound, gate.id).events
Behind == gate # None /\ gate.status = "PASS" => lc # None /\ (lc = gate.bound \/ Left)
Settled == gate # None /\ gate.status = "PASS" => lc # None /\ Left

(* The lifecycle the command is about to write, over the one on disk.         *)
StateOf(s) == IF s = None THEN [i \in Issue |-> "none"] ELSE s.state
Follows(new, old) ==
    /\ \A i \in Issue : /\ new.state[i] \in Verdicts!Moves[StateOf(old)[i]]
                        /\ new.state[i] = "CLOSED" =>
                              old # None /\ old.state[i] = "CLOSED" /\ new.gate[i] = old.gate[i]
    /\ old # None => new.events >= old.events

MayPass(s) == me.status = "PASS" => s # None /\ Pending(s) = {}

(* What the command knows at each place, because it holds the lock.           *)
CommandKnows ==
    /\ me.at \in {"hash", "judge", "prepare", "lifecycle", "gate", "close", "log"} => me.cmd = "gate"
    /\ me.at = "recover" => me.cmd \in {"gate", "input"}
    /\ me.cmd = "gate" /\ me.at \notin {"close", "log"} => NextGate <= MaxGates
    /\ me.cmd = "gate" /\ me.at # "hash" => me.doc \in Docs
    /\ me.at = "hash" => (me.obs = None => me.hard)
    /\ me.at = "judge" => me.hard /\ lc = None
    /\ me.at \in {"hash", "judge"} => me.new = None
    /\ me.at \in {"prepare", "lifecycle", "gate"} => Settled
    /\ me.at = "lifecycle" => /\ me.new \in Snapshot /\ Follows(me.new, lc)
                              /\ ClosedBefore(me.new, NextGate)
    /\ me.at = "gate" => me.new = lc /\ me.status # "none"
    /\ me.at = "close" => /\ me.new = lc /\ lc # None
                          /\ gate # None /\ gate.status = "PASS" /\ gate.bound = lc
    /\ me.at \in {"lifecycle", "gate"} => MayPass(me.new) /\ me.status # "none"

IInv == /\ TypeOK /\ SoundGate /\ Behind /\ CommandKnows
        /\ ClosedByAGate /\ FreshHitsBlock

-----------------------------------------------------------------------------
(* The rules of the lifecycle.                                                *)

LEMMA Counting ==
    ASSUME NEW S \in SUBSET Issue
    PROVE  Cardinality(S) \in Nat /\ (Cardinality(S) = 0 => S = {})
<1>1. IsFiniteSet(S)
  BY IssueAssumption, FS_Subset
<1> QED BY <1>1, FS_CardinalityType, FS_EmptySet

LEMMA MovesAre ==
    /\ DOMAIN Verdicts!Moves = States
    /\ Verdicts!Moves["none"] = {"none", "OPEN"}
    /\ Verdicts!Moves["OPEN"] = {"OPEN", "FIXED", "VERIFIED", "REOPENED"}
    /\ Verdicts!Moves["REOPENED"] = {"REOPENED", "FIXED", "VERIFIED"}
    /\ Verdicts!Moves["FIXED"] = {"FIXED", "VERIFIED", "REOPENED"}
    /\ Verdicts!Moves["VERIFIED"] = {"VERIFIED", "REOPENED"}
    /\ Verdicts!Moves["CLOSED"] = {"CLOSED", "REOPENED"}
BY DEF Verdicts!Moves, States

(* The fields of a snapshot by name, so that a step sees only their types.    *)
StateMap == [Issue -> States]
GateMap  == [Issue -> 0..MaxGates]
SeenMap  == [Issue -> SUBSET Observation]
ClaimLog == SUBSET (Issue \X (1..MaxClaims))
Round    == 1..MaxIterations

LEMMA SnapshotIs ==
    Snapshot = [doc : Docs, iteration : Round, state : StateMap, gate : GateMap,
                seen : SeenMap, claimed : ClaimLog, events : Nat]
BY DEF Snapshot, StateMap, GateMap, SeenMap, ClaimLog, Round

(* The fields of a command likewise.                                          *)
Place    == {"idle", "hash", "recover", "prepare", "judge", "lifecycle", "gate", "close", "log"}
Verb     == {"none", "gate", "input"}
Outcome  == {"none", "PASS", "NEEDS_REVISION", "BLOCKED"}
Seen     == Observation \cup {None}
Hashed   == Docs \cup {None}
Recorded == Snapshot \cup {None}

LEMMA CommandIs ==
    Command = [at : Place, cmd : Verb, hard : BOOLEAN, obs : Seen, hits : SUBSET Issue,
               upstream : BOOLEAN, doc : Hashed, new : Recorded, status : Outcome]
BY DEF Command, Place, Verb, Outcome, Seen, Hashed, Recorded

LEMMA IdleIs == Idle \in Command
<1>1. "idle" \in Place /\ "none" \in Verb /\ "none" \in Outcome /\ None \in Seen
      /\ None \in Hashed /\ None \in Recorded /\ {} \in SUBSET Issue
  BY DEF Place, Verb, Outcome, Seen, Hashed, Recorded
<1> QED BY <1>1, CommandIs DEF Idle

LEMMA MeIs ==
    ASSUME TypeOK
    PROVE  /\ me \in Command /\ me.at \in Place /\ me.cmd \in Verb /\ me.hard \in BOOLEAN
           /\ me.obs \in Observation \cup {None} /\ me.hits \subseteq Issue
           /\ me.doc \in Docs \cup {None} /\ me.new \in Snapshot \cup {None}
           /\ me.status \in Outcome
BY DEF TypeOK, Command, Place, Verb, Outcome

LEMMA CloseIs ==
    ASSUME NEW s \in Snapshot, NEW g \in 0..MaxGates
    PROVE  LET t == Close(s, g) IN
           /\ t \in Snapshot
           /\ \A i \in Issue : /\ t.state[i] = IF s.state[i] = "VERIFIED" THEN "CLOSED" ELSE s.state[i]
                               /\ t.gate[i] = IF s.state[i] = "VERIFIED" THEN g ELSE s.gate[i]
           /\ t.seen = s.seen
           /\ t.events >= s.events
           /\ s.events >= t.events => t.state = s.state
<1> DEFINE st == [i \in Issue |-> IF i \in Verified(s) THEN "CLOSED" ELSE s.state[i]]
           ga == [i \in Issue |-> IF i \in Verified(s) THEN g ELSE s.gate[i]]
           n == s.events + Cardinality(Verified(s))
<1>1. Cardinality(Verified(s)) \in Nat /\ (Cardinality(Verified(s)) = 0 => Verified(s) = {})
  BY Counting DEF Verified
<1>2. s.state \in [Issue -> States] /\ s.gate \in [Issue -> 0..MaxGates] /\ s.events \in Nat
  BY DEF Snapshot
<1>3. st \in StateMap /\ n \in Nat /\ n >= s.events
      /\ (s.events >= n => Verified(s) = {})
  BY <1>1, <1>2 DEF StateMap, States
<1>4. ga \in GateMap
  BY <1>2 DEF GateMap
<1>5. Verified(s) = {} => st = s.state
  BY <1>2
<1>6. \A i \in Issue : /\ st[i] = IF s.state[i] = "VERIFIED" THEN "CLOSED" ELSE s.state[i]
                       /\ ga[i] = IF s.state[i] = "VERIFIED" THEN g ELSE s.gate[i]
  BY DEF Verified
<1>7. Close(s, g) = [s EXCEPT !.state = st, !.gate = ga, !.events = n]
  BY <1>2 DEF Close
<1> HIDE DEF st, ga, n
<1>8. Close(s, g) \in Snapshot /\ Close(s, g).state = st /\ Close(s, g).gate = ga
      /\ Close(s, g).seen = s.seen /\ Close(s, g).events = n
  BY <1>3, <1>4, <1>7, SnapshotIs
<1> QED BY <1>3, <1>5, <1>6, <1>8

(* One round of claims, observations and verifications, step by step.         *)
LEMMA ClaimedIs ==
    ASSUME TypeOK, NEW s \in Snapshot, claims # None => ~ClaimsRefused(s)
    PROVE  LET t == Claimed(s) IN
           /\ t \in Snapshot
           /\ t.gate = s.gate /\ t.seen = s.seen /\ t.events >= s.events
           /\ \A i \in Issue : \/ t.state[i] = s.state[i]
                               \/ t.state[i] = "FIXED" /\ s.state[i] \in {"OPEN", "REOPENED"}
<1>1. CASE claims = None
  <2>1. s.events >= s.events
    BY DEF Snapshot
  <2>2. Claimed(s) = s
    BY <1>1 DEF Claimed
  <2> QED BY <2>1, <2>2
<1>2. CASE claims # None
  <2> DEFINE st == [i \in Issue |-> IF i \in Unapplied(s) THEN "FIXED" ELSE s.state[i]]
             cl == s.claimed \cup {<<i, claims.id>> : i \in Unapplied(s)}
             n == s.events + Cardinality(Unapplied(s))
  <2>1. claims \in Claims /\ claims.issues \subseteq Issue /\ claims.id \in 1..MaxClaims
    BY <1>2 DEF TypeOK, Claims
  <2>2. Unapplied(s) \subseteq Issue /\ Cardinality(Unapplied(s)) \in Nat
    BY <2>1, Counting DEF Unapplied
  <2>3. s.state \in [Issue -> States] /\ s.events \in Nat
        /\ s.claimed \in SUBSET (Issue \X (1..MaxClaims))
    BY DEF Snapshot
  <2>4. st \in StateMap /\ n \in Nat /\ n >= s.events
    BY <2>2, <2>3 DEF StateMap, States
  <2>5. cl \in ClaimLog
    BY <2>1, <2>2, <2>3 DEF ClaimLog
  <2>6. Claimed(s) = [s EXCEPT !.state = st, !.claimed = cl, !.events = n]
    BY <1>2 DEF Claimed
  <2>7. \A i \in Unapplied(s) : s.state[i] \in {"OPEN", "REOPENED"}
    BY <1>2 DEF ClaimsRefused
  <2>8. \A i \in Issue : st[i] = IF i \in Unapplied(s) THEN "FIXED" ELSE s.state[i]
    OBVIOUS
  <2> HIDE DEF st, cl, n
  <2>9. /\ Claimed(s) \in Snapshot /\ Claimed(s).state = st /\ Claimed(s).gate = s.gate
        /\ Claimed(s).seen = s.seen /\ Claimed(s).events = n
    BY <2>4, <2>5, <2>6, SnapshotIs
  <2>10. \A i \in Issue : \/ st[i] = s.state[i]
                          \/ st[i] = "FIXED" /\ s.state[i] \in {"OPEN", "REOPENED"}
    BY <2>7, <2>8
  <2> QED BY <2>4, <2>9, <2>10
<1> QED BY <1>1, <1>2

LEMMA IngestIs ==
    ASSUME TypeOK, me.obs # None, NEW s \in Snapshot
    PROVE  LET t == Ingest(s) IN
           /\ t \in Snapshot /\ t.events >= s.events
           /\ \A i \in Issue :
                /\ ~Hit(s, i) => /\ t.state[i] = s.state[i] /\ t.gate[i] = s.gate[i]
                                 /\ t.seen[i] = s.seen[i]
                /\ Hit(s, i) => /\ t.gate[i] = 0 /\ me.obs \in t.seen[i]
                                /\ s.state[i] = "none" => t.state[i] = "OPEN"
                                /\ s.state[i] \in {"FIXED", "VERIFIED", "CLOSED"} => t.state[i] = "REOPENED"
                                /\ s.state[i] \in {"OPEN", "REOPENED"} => t.state[i] = s.state[i]
<1> DEFINE R == {i \in Issue : Hit(s, i) /\ s.state[i] \in {"FIXED", "VERIFIED", "CLOSED"}}
           n == s.events + Cardinality(R)
           st == [i \in Issue |-> IF ~Hit(s, i) THEN s.state[i]
                                  ELSE IF s.state[i] = "none" THEN "OPEN"
                                  ELSE IF s.state[i] \in {"FIXED", "VERIFIED", "CLOSED"} THEN "REOPENED"
                                  ELSE s.state[i]]
           ga == [i \in Issue |-> IF Hit(s, i) THEN 0 ELSE s.gate[i]]
           se == [i \in Issue |-> IF Hit(s, i) THEN s.seen[i] \cup {me.obs} ELSE s.seen[i]]
<1>1. s.state \in [Issue -> States] /\ s.gate \in [Issue -> 0..MaxGates]
      /\ s.seen \in [Issue -> SUBSET Observation] /\ s.events \in Nat
  BY DEF Snapshot
<1>2. n \in Nat /\ n >= s.events
  BY <1>1, Counting
<1>3. me.obs \in Observation
  BY MeIs
<1>4. st \in StateMap /\ se \in SeenMap
  BY <1>1, <1>3 DEF StateMap, SeenMap, States
<1>5. ga \in GateMap
  BY <1>1, BoundAssumption DEF GateMap
<1>6. \A i \in Issue :
         /\ st[i] = IF ~Hit(s, i) THEN s.state[i]
                    ELSE IF s.state[i] = "none" THEN "OPEN"
                    ELSE IF s.state[i] \in {"FIXED", "VERIFIED", "CLOSED"} THEN "REOPENED"
                    ELSE s.state[i]
         /\ ga[i] = IF Hit(s, i) THEN 0 ELSE s.gate[i]
         /\ se[i] = IF Hit(s, i) THEN s.seen[i] \cup {me.obs} ELSE s.seen[i]
  OBVIOUS
<1>7. Ingest(s) = [s EXCEPT !.state = st, !.gate = ga, !.seen = se, !.events = n]
  BY DEF Ingest
<1> HIDE DEF st, ga, se, n
<1>8. Ingest(s) \in Snapshot /\ Ingest(s).events = n
      /\ Ingest(s).state = st /\ Ingest(s).gate = ga /\ Ingest(s).seen = se
  BY <1>2, <1>4, <1>5, <1>7, SnapshotIs
<1> QED BY <1>2, <1>6, <1>8

LEMMA VerifyIs ==
    ASSUME NEW s \in Snapshot
    PROVE  LET t == Verify(s) IN
           /\ t \in Snapshot
           /\ t.gate = s.gate /\ t.seen = s.seen /\ t.events >= s.events
           /\ \A i \in Issue : \/ t.state[i] = s.state[i]
                               \/ /\ t.state[i] = "VERIFIED" /\ s.state[i] = "FIXED"
                                  /\ me.obs \notin s.seen[i]
<1> DEFINE st == [i \in Issue |-> IF i \in Cleared(s) THEN "VERIFIED" ELSE s.state[i]]
           n == s.events + Cardinality(Cleared(s))
<1>1. s.state \in [Issue -> States] /\ s.events \in Nat
  BY DEF Snapshot
<1>2. Cardinality(Cleared(s)) \in Nat
  BY Counting DEF Cleared
<1>3. st \in StateMap /\ n \in Nat /\ n >= s.events
  BY <1>1, <1>2 DEF StateMap, States
<1>4. \A i \in Issue : st[i] = IF i \in Cleared(s) THEN "VERIFIED" ELSE s.state[i]
  OBVIOUS
<1>5. Verify(s) = [s EXCEPT !.state = st, !.events = n]
  BY DEF Verify
<1> HIDE DEF st, n
<1>6. Verify(s) \in Snapshot /\ Verify(s).state = st /\ Verify(s).events = n
      /\ Verify(s).gate = s.gate /\ Verify(s).seen = s.seen
  BY <1>3, <1>5, SnapshotIs
<1> QED BY <1>3, <1>4, <1>6 DEF Cleared

(* What prepare_lifecycle makes of the lifecycle on disk.                     *)
LEMMA NextGateIs ==
    ASSUME TypeOK
    PROVE  /\ NextGate \in Nat /\ NextGate >= 1
           /\ gate # None => gate.id < NextGate /\ gate.id \in 1..MaxGates
BY BoundAssumption DEF TypeOK, NextGate, Gate

LEMMA IterationIs ==
    ASSUME TypeOK
    PROVE  Iteration \in Round
<1>1. log.fails \in Nat /\ (lc # None => lc.iteration \in 1..MaxIterations)
  BY DEF TypeOK, Snapshot
<1> QED BY <1>1, PolicyAssumption DEF Iteration, Larger, Smaller, Round

LEMMA InitializedIs ==
    ASSUME IInv, At("prepare"), me.obs # None
    PROVE  LET t == Initialized IN
           /\ t \in Snapshot
           /\ \A i \in Issue : /\ t.state[i] = IF i \in me.hits THEN "OPEN" ELSE "none"
                               /\ t.gate[i] = 0
<1> DEFINE st == [i \in Issue |-> IF i \in me.hits THEN "OPEN" ELSE "none"]
           ga == [i \in Issue |-> 0]
           se == [i \in Issue |-> IF i \in me.hits THEN {me.obs} ELSE {}]
<1>1. me.doc \in Docs /\ me.obs \in Observation
  BY MeIs DEF IInv, CommandKnows, At
<1>2. st \in StateMap /\ ga \in GateMap /\ se \in SeenMap /\ {} \in ClaimLog
  BY <1>1, BoundAssumption DEF StateMap, GateMap, SeenMap, ClaimLog, States
<1>3. \A i \in Issue : st[i] = (IF i \in me.hits THEN "OPEN" ELSE "none") /\ ga[i] = 0
  OBVIOUS
<1>4. Initialized = [doc |-> me.doc, iteration |-> Iteration, state |-> st, gate |-> ga,
                     seen |-> se, claimed |-> {}, events |-> 0]
  BY DEF Initialized
<1>5. Iteration \in Round
  BY IterationIs DEF IInv
<1> HIDE DEF st, ga, se
<1>6. Initialized \in Snapshot /\ Initialized.state = st /\ Initialized.gate = ga
  BY <1>1, <1>2, <1>4, <1>5, SnapshotIs
<1> QED BY <1>3, <1>6

LEMMA UpdatedIs ==
    ASSUME IInv, At("prepare"), ~Refused, lc # None
    PROVE  LET t == Prepared IN
           /\ t \in Snapshot /\ t.events >= lc.events
           /\ \A i \in Issue :
                /\ t.state[i] \in Verdicts!Moves[lc.state[i]]
                /\ t.state[i] = "CLOSED" => lc.state[i] = "CLOSED" /\ t.gate[i] = lc.gate[i]
                /\ t.state[i] # "CLOSED" => t.gate[i] = 0
                /\ i \in me.hits /\ me.obs \notin lc.seen[i] => t.state[i] \in Unresolved
<1> DEFINE c == Claimed(lc)
           g == Ingest(c)
           r == [g EXCEPT !.doc = me.doc, !.iteration = Iteration]
           v == Verify(r)
<1>1. lc \in Snapshot /\ TypeOK /\ me.obs # None /\ (claims # None => ~ClaimsRefused(lc))
  BY DEF IInv, TypeOK, Refused
<1>2. /\ c \in Snapshot /\ c.gate = lc.gate /\ c.seen = lc.seen /\ c.events >= lc.events
      /\ \A i \in Issue : \/ c.state[i] = lc.state[i]
                          \/ c.state[i] = "FIXED" /\ lc.state[i] \in {"OPEN", "REOPENED"}
  BY <1>1, ClaimedIs
<1> HIDE DEF c
<1>3. /\ g \in Snapshot /\ g.events >= c.events
      /\ \A i \in Issue :
           /\ ~Hit(c, i) => g.state[i] = c.state[i] /\ g.gate[i] = c.gate[i]
           /\ Hit(c, i) => /\ g.gate[i] = 0 /\ me.obs \in g.seen[i]
                           /\ c.state[i] = "none" => g.state[i] = "OPEN"
                           /\ c.state[i] \in {"FIXED", "VERIFIED", "CLOSED"} => g.state[i] = "REOPENED"
                           /\ c.state[i] \in {"OPEN", "REOPENED"} => g.state[i] = c.state[i]
  BY <1>1, <1>2, IngestIs
<1> HIDE DEF g
<1>4. me.doc \in Docs /\ Iteration \in Round
  BY IterationIs DEF IInv, CommandKnows, At
<1>5. /\ r \in Snapshot /\ r.state = g.state /\ r.gate = g.gate /\ r.seen = g.seen
      /\ r.events = g.events
  BY <1>3, <1>4, SnapshotIs
<1> HIDE DEF r
<1>6. /\ v \in Snapshot /\ v.gate = r.gate /\ v.events >= r.events
      /\ \A i \in Issue : \/ v.state[i] = r.state[i]
                          \/ /\ v.state[i] = "VERIFIED" /\ r.state[i] = "FIXED"
                             /\ me.obs \notin r.seen[i]
  BY <1>5, VerifyIs
<1>7. Prepared = v
  BY DEF Prepared, c, g, r
<1> HIDE DEF v
<1>8. v.events >= lc.events
  <2>1. lc.events \in Nat /\ c.events \in Nat /\ g.events \in Nat /\ v.events \in Nat
    BY <1>1, <1>2, <1>3, <1>6 DEF Snapshot
  <2> QED BY <2>1, <1>2, <1>3, <1>5, <1>6
<1>9. ASSUME NEW i \in Issue
      PROVE  /\ v.state[i] \in Verdicts!Moves[lc.state[i]]
             /\ v.state[i] = "CLOSED" => lc.state[i] = "CLOSED" /\ v.gate[i] = lc.gate[i]
             /\ v.state[i] # "CLOSED" => v.gate[i] = 0
             /\ i \in me.hits /\ me.obs \notin lc.seen[i] => v.state[i] \in Unresolved
  <2>1. lc.state[i] \in States
    BY <1>1 DEF Snapshot
  <2>2. lc.state[i] = "CLOSED" <=> lc.gate[i] # 0
    BY DEF IInv, ClosedByAGate
  <2>3. i \in me.hits /\ me.obs \notin lc.seen[i] <=> Hit(c, i)
    BY <1>2 DEF Hit
  <2>4. CASE Hit(c, i)
    <3>1. v.state[i] = g.state[i] /\ v.gate[i] = 0 /\ g.state[i] \in {"OPEN", "REOPENED"}
      BY <1>2, <1>3, <1>5, <1>6, <2>1, <2>4 DEF States
    <3>2. g.state[i] \in Verdicts!Moves[lc.state[i]]
      BY <1>2, <1>3, <2>1, <2>4, MovesAre DEF States
    <3> QED BY <3>1, <3>2 DEF Unresolved
  <2>5. CASE ~Hit(c, i)
    <3>1. g.state[i] = c.state[i] /\ v.gate[i] = lc.gate[i]
      BY <1>2, <1>3, <1>5, <1>6, <2>5
    <3>2. v.state[i] = c.state[i] \/ (v.state[i] = "VERIFIED" /\ c.state[i] = "FIXED")
      BY <1>5, <1>6, <3>1
    <3>3. v.state[i] \in Verdicts!Moves[lc.state[i]]
      BY <1>2, <3>2, <2>1, MovesAre DEF States
    <3> QED BY <1>2, <2>1, <2>2, <2>3, <2>5, <3>1, <3>2, <3>3 DEF States
  <2> QED BY <2>4, <2>5
<1> QED BY <1>6, <1>7, <1>8, <1>9

LEMMA PreparedIs ==
    ASSUME IInv, At("prepare"), ~Refused
    PROVE  /\ Prepared \in Snapshot /\ Follows(Prepared, lc) /\ ClosedBefore(Prepared, NextGate)
           /\ Verdict(Prepared) = "PASS" =>
                /\ Pending(Prepared) = {}
                /\ \A i \in me.hits \cap Blocking : lc # None /\ me.obs \in lc.seen[i]
           /\ Verdict(Prepared) \in {"PASS", "NEEDS_REVISION", "BLOCKED"}
<1>1. NextGate \in Nat /\ NextGate >= 1 /\ (gate # None => gate.id < NextGate /\ gate.id \in Nat)
  BY NextGateIs DEF IInv
<1>2. Verdict(Prepared) = "PASS" => Pending(Prepared) = {}
  BY DEF Verdict
<1>3. Verdict(Prepared) \in {"PASS", "NEEDS_REVISION", "BLOCKED"}
  BY DEF Verdict
<1>4. me.obs # None /\ me.hits \subseteq Issue
  BY MeIs DEF IInv, Refused
<1>5. CASE lc = None
  <2>1. Prepared = Initialized
    BY <1>5 DEF Prepared
  <2>2. /\ Prepared \in Snapshot
        /\ \A i \in Issue : /\ Prepared.state[i] = IF i \in me.hits THEN "OPEN" ELSE "none"
                            /\ Prepared.gate[i] = 0
    BY <1>4, <2>1, InitializedIs
  <2>3. Follows(Prepared, lc)
    BY <1>5, <2>2, MovesAre DEF Follows, StateOf
  <2>4. ClosedBefore(Prepared, NextGate)
    BY <1>1, <2>2 DEF ClosedBefore
  <2>5. Pending(Prepared) = {} => me.hits \cap Blocking = {}
    BY <2>2, NoneAssumption DEF Pending, Unresolved, Blocking
  <2> QED BY <1>2, <1>3, <2>2, <2>3, <2>4, <2>5
<1>6. CASE lc # None
  <2>1. /\ Prepared \in Snapshot /\ Prepared.events >= lc.events
        /\ \A i \in Issue :
             /\ Prepared.state[i] \in Verdicts!Moves[lc.state[i]]
             /\ Prepared.state[i] = "CLOSED" => lc.state[i] = "CLOSED" /\ Prepared.gate[i] = lc.gate[i]
             /\ Prepared.state[i] # "CLOSED" => Prepared.gate[i] = 0
             /\ i \in me.hits /\ me.obs \notin lc.seen[i] => Prepared.state[i] \in Unresolved
    BY <1>6, UpdatedIs
  <2>2. Follows(Prepared, lc)
    BY <1>6, <2>1 DEF Follows, StateOf
  <2>3. ASSUME NEW i \in Issue
        PROVE  /\ (Prepared.state[i] = "CLOSED") <=> (Prepared.gate[i] # 0)
               /\ Prepared.gate[i] < NextGate
    <3>1. /\ (lc.state[i] = "CLOSED") <=> (lc.gate[i] # 0)
          /\ lc.state[i] = "CLOSED" => gate # None /\ lc.gate[i] <= gate.id
      BY <1>6 DEF IInv, ClosedByAGate
    <3>2. lc.gate[i] \in Nat
      BY <1>6, BoundAssumption DEF IInv, TypeOK, Snapshot
    <3> QED BY <1>1, <2>1, <3>1, <3>2
  <2>4. Pending(Prepared) = {} => \A i \in me.hits \cap Blocking : me.obs \in lc.seen[i]
    BY <2>1, <1>4, NoneAssumption DEF Pending, Blocking
  <2> QED BY <1>2, <1>3, <1>6, <2>1, <2>2, <2>3, <2>4 DEF ClosedBefore
<1> QED BY <1>5, <1>6

-----------------------------------------------------------------------------
(* The invariant, step by step.                                               *)

(* The closing of the gate on disk closes its own issues and no other.        *)
LEMMA ClosingIs ==
    ASSUME IInv, gate # None, gate.status = "PASS"
    PROVE  LET t == Close(gate.bound, gate.id) IN
           /\ gate.bound \in Snapshot /\ t \in Snapshot
           /\ \A i \in Issue :
                /\ (t.state[i] = "CLOSED") <=> (t.gate[i] # 0)
                /\ t.gate[i] <= gate.id
                /\ t.gate[i] = gate.id => gate.bound.state[i] = "VERIFIED"
<1> DEFINE t == Close(gate.bound, gate.id)
<1>1. gate.bound \in Snapshot /\ gate.id \in 1..MaxGates /\ gate.id \in 0..MaxGates
      /\ ClosedBefore(gate.bound, gate.id)
  BY BoundAssumption DEF IInv, TypeOK, SoundGate, Gate
<1>2. /\ t \in Snapshot
      /\ \A i \in Issue :
           /\ t.state[i] = IF gate.bound.state[i] = "VERIFIED" THEN "CLOSED" ELSE gate.bound.state[i]
           /\ t.gate[i] = IF gate.bound.state[i] = "VERIFIED" THEN gate.id ELSE gate.bound.gate[i]
  BY <1>1, CloseIs
<1> HIDE DEF t
<1>3. ASSUME NEW i \in Issue
      PROVE  /\ (t.state[i] = "CLOSED") <=> (t.gate[i] # 0)
             /\ t.gate[i] <= gate.id
             /\ t.gate[i] = gate.id => gate.bound.state[i] = "VERIFIED"
  <2>1. gate.bound.gate[i] \in 0..MaxGates
    BY <1>1 DEF Snapshot
  <2>2. /\ (gate.bound.state[i] = "CLOSED") <=> (gate.bound.gate[i] # 0)
        /\ gate.bound.gate[i] < gate.id
    BY <1>1 DEF ClosedBefore
  <2> QED BY <1>1, <1>2, <2>1, <2>2, BoundAssumption
<1> QED BY <1>1, <1>2, <1>3 DEF t

LEMMA SameFiles ==
    ASSUME IInv, UNCHANGED <<lc, gate>>
    PROVE  /\ SoundGate' /\ Behind' /\ ClosedByAGate' /\ NextGate' = NextGate
           /\ Settled' <=> Settled
BY DEF IInv, SoundGate, Behind, ClosedByAGate, NextGate, Settled, Left, ClosedBefore, Pending

LEMMA SameCommand ==
    ASSUME IInv, UNCHANGED <<lc, gate, me>>
    PROVE  SoundGate' /\ Behind' /\ CommandKnows' /\ ClosedByAGate' /\ FreshHitsBlock'
<1>1. SoundGate' /\ Behind' /\ ClosedByAGate' /\ NextGate' = NextGate /\ (Settled' <=> Settled)
  BY SameFiles
<1>2. CommandKnows'
  BY <1>1 DEF IInv, CommandKnows, Follows, StateOf, ClosedBefore, MayPass, Pending
<1>3. FreshHitsBlock'
  BY DEF IInv, FreshHitsBlock, At
<1> QED BY <1>1, <1>2, <1>3

LEMMA CommandEnded ==
    ASSUME IInv, UNCHANGED <<lc, gate>>, me' = Idle
    PROVE  SoundGate' /\ Behind' /\ CommandKnows' /\ ClosedByAGate' /\ FreshHitsBlock'
<1>1. SoundGate' /\ Behind' /\ ClosedByAGate'
  BY SameFiles
<1>2. CommandKnows' /\ FreshHitsBlock'
  BY DEF CommandKnows, FreshHitsBlock, At, Idle
<1> QED BY <1>1, <1>2

(* Author and reviewer touch nothing the invariant speaks of but the types.   *)
LEMMA EditKeeps ==
    ASSUME IInv, NEW d \in Docs, Edit(d)
    PROVE  IInv'
<1>1. TypeOK'
  BY DEF IInv, TypeOK, Edit, results
<1> QED BY <1>1, SameCommand DEF IInv, Edit, results

LEMMA DeliverKeeps ==
    ASSUME IInv, NEW o \in Observation, Deliver(o)
    PROVE  IInv'
<1>1. TypeOK'
  BY DEF IInv, TypeOK, Deliver, results
<1> QED BY <1>1, SameCommand DEF IInv, Deliver, results

LEMMA ClaimKeeps ==
    ASSUME IInv, NEW S \in SUBSET Issue, Claim(S)
    PROVE  IInv'
<1>1. claims # None => claims.id \in Nat /\ claims.id >= 1
  BY BoundAssumption DEF IInv, TypeOK, Claims
<1>2. ClaimId \in 1..MaxClaims
  BY <1>1, BoundAssumption DEF Claim, ClaimId
<1>3. lc \in Snapshot /\ doc \in Docs
  BY DEF IInv, TypeOK, Claim
<1>4. claims' \in Claims
  BY <1>2, <1>3 DEF Claim, Claims
<1>5. TypeOK'
  BY <1>4 DEF IInv, TypeOK, Claim, results
<1> QED BY <1>5, SameCommand DEF IInv, Claim, results

LEMMA StartKeeps ==
    ASSUME IInv, NEW hard \in BOOLEAN, Start(hard)
    PROVE  IInv'
<1> DEFINE hits == IF Valid THEN review.reports ELSE {}
           upstream == Valid /\ review.upstream
<1>1. me' = [at |-> "hash", cmd |-> "gate", hard |-> hard, obs |-> review, hits |-> hits,
             upstream |-> upstream, doc |-> None, new |-> None, status |-> "none"]
  BY DEF Start, Idle
<1>2. review \in Observation \cup {None} /\ (Valid => review \in Observation)
  BY DEF IInv, TypeOK, Valid
<1>3. hits \in SUBSET Issue /\ upstream \in BOOLEAN
  BY <1>2, ObservationAssumption
<1> HIDE DEF hits, upstream
<1>4. me' \in Command
  <2>1. "hash" \in Place /\ "gate" \in Verb /\ "none" \in Outcome /\ review \in Seen
        /\ None \in Hashed /\ None \in Recorded
    BY <1>2 DEF Place, Verb, Outcome, Seen, Hashed, Recorded
  <2> QED BY <1>1, <1>3, <2>1, CommandIs
<1>5. TypeOK'
  BY <1>4 DEF IInv, TypeOK, Start, inputs, results
<1>6. SoundGate' /\ Behind' /\ ClosedByAGate' /\ NextGate' = NextGate
  BY SameFiles DEF Start, results
<1>7. review = None => hard
  BY DEF Start, Valid
<1>8. CommandKnows' /\ FreshHitsBlock'
  <2>1. /\ me'.at = "hash" /\ me'.cmd = "gate" /\ me'.hard = hard /\ me'.obs = review
        /\ me'.new = None
    BY <1>1
  <2>2. NextGate <= MaxGates
    BY DEF Start
  <2> QED BY <1>6, <1>7, <2>1, <2>2 DEF CommandKnows, FreshHitsBlock, At
<1> QED BY <1>5, <1>6, <1>8 DEF IInv

LEMMA HashKeeps ==
    ASSUME IInv, Hash
    PROVE  IInv'
<1>1. me' = [me EXCEPT !.doc = doc,
                       !.at = IF me.obs = None /\ lc = None THEN "judge" ELSE "recover"]
  BY DEF Hash
<1>2. me.cmd = "gate" /\ (me.obs = None => me.hard) /\ me.new = None /\ NextGate <= MaxGates
  BY DEF IInv, CommandKnows, Hash, At
<1>3. me \in Command /\ doc \in Docs
  BY MeIs DEF IInv, TypeOK
<1>4. /\ me'.at = (IF me.obs = None /\ lc = None THEN "judge" ELSE "recover")
      /\ me'.cmd = "gate" /\ me'.doc \in Docs /\ me'.new = None /\ me'.hard = me.hard
      /\ me' \in Command
  <2>1. "judge" \in Place /\ "recover" \in Place /\ doc \in Hashed
    BY <1>3 DEF Place, Hashed
  <2> QED BY <1>1, <1>2, <1>3, <2>1, CommandIs
<1>5. TypeOK'
  BY <1>4 DEF IInv, TypeOK, Hash, inputs, results
<1>6. SoundGate' /\ Behind' /\ ClosedByAGate' /\ NextGate' = NextGate
  BY SameFiles DEF Hash, results
<1>7. CommandKnows'
  BY <1>2, <1>4, <1>6 DEF CommandKnows, Hash, results
<1>8. FreshHitsBlock'
  BY <1>4 DEF FreshHitsBlock, At
<1> QED BY <1>5, <1>6, <1>7, <1>8 DEF IInv

LEMMA ReviewInputKeeps ==
    ASSUME IInv, ReviewInput
    PROVE  IInv'
<1>1. me' = [at |-> "recover", cmd |-> "input", hard |-> FALSE, obs |-> None, hits |-> {},
             upstream |-> FALSE, doc |-> None, new |-> None, status |-> "none"]
  BY DEF ReviewInput, Idle
<1>2. me' \in Command
  <2>1. "recover" \in Place /\ "input" \in Verb /\ "none" \in Outcome /\ None \in Seen
        /\ None \in Hashed /\ None \in Recorded /\ {} \in SUBSET Issue
    BY DEF Place, Verb, Outcome, Seen, Hashed, Recorded
  <2> QED BY <1>1, <2>1, CommandIs
<1>3. TypeOK'
  BY <1>2 DEF IInv, TypeOK, ReviewInput, inputs, results
<1>4. SoundGate' /\ Behind' /\ ClosedByAGate'
  BY SameFiles DEF ReviewInput, results
<1>5. CommandKnows' /\ FreshHitsBlock'
  BY <1>1 DEF CommandKnows, FreshHitsBlock, At
<1> QED BY <1>3, <1>4, <1>5 DEF IInv

LEMMA EndKeeps ==
    ASSUME IInv, me' = Idle, UNCHANGED <<inputs, lc, gate>>,
           log' \in [fails : Nat, blocked : BOOLEAN], crashes' \in Nat
    PROVE  IInv'
<1>1. TypeOK'
  BY IdleIs DEF IInv, TypeOK, inputs
<1> QED BY <1>1, CommandEnded DEF IInv

(* The closing is written: by the command that passed, or by the next one.    *)
LEMMA ClosingKeeps ==
    ASSUME IInv, gate # None, gate.status = "PASS",
           lc' = Close(gate.bound, gate.id), UNCHANGED gate
    PROVE  /\ SoundGate' /\ Behind' /\ Settled' /\ ClosedByAGate' /\ NextGate' = NextGate
           /\ lc' \in Snapshot
<1> DEFINE t == Close(gate.bound, gate.id)
<1>1. /\ t \in Snapshot /\ t \notin {None}
      /\ \A i \in Issue : /\ (t.state[i] = "CLOSED") <=> (t.gate[i] # 0)
                          /\ t.gate[i] <= gate.id
                          /\ t.gate[i] = gate.id => gate.bound.state[i] = "VERIFIED"
  BY ClosingIs, NoneAssumption
<1>2. ClosedByAGate'
  BY <1>1 DEF ClosedByAGate
<1>3. t.events >= t.events
  BY <1>1 DEF Snapshot
<1>4. Settled' /\ Behind'
  BY <1>1, <1>3 DEF Settled, Behind, Left
<1>5. SoundGate' /\ NextGate' = NextGate
  BY DEF IInv, SoundGate, NextGate, ClosedBefore, Pending
<1> QED BY <1>1, <1>2, <1>4, <1>5

LEMMA RecoverKeeps ==
    ASSUME IInv, Recover
    PROVE  IInv'
<1>1. /\ SoundGate' /\ Behind' /\ Settled' /\ ClosedByAGate' /\ NextGate' = NextGate
      /\ lc' \in Snapshot \cup {None}
  <2>1. CASE Projectable
    <3>1. gate # None /\ gate.status = "PASS" /\ lc' = Close(gate.bound, gate.id) /\ gate' = gate
      BY <2>1 DEF Recover, Projectable
    <3> QED BY <3>1, ClosingKeeps
  <2>2. CASE ~Projectable
    <3>1. UNCHANGED <<lc, gate>>
      BY <2>2 DEF Recover
    <3>2. gate # None /\ gate.status = "PASS" => lc # None /\ lc # gate.bound
      BY <2>2 DEF IInv, Behind, SoundGate, Projectable, Projects
    <3>3. Settled
      BY <3>2 DEF IInv, Behind, Settled
    <3> QED BY <3>1, <3>3, SameFiles DEF IInv, TypeOK
  <2> QED BY <2>1, <2>2
<1>2. CASE me.cmd = "gate"
  <2>1. me' = [me EXCEPT !.at = "prepare"]
    BY <1>2 DEF Recover
  <2>2. me \in Command /\ me.doc \in Docs /\ NextGate <= MaxGates
    BY <1>2, MeIs DEF IInv, CommandKnows, Recover, At
  <2>3. me' \in Command /\ me'.at = "prepare" /\ me'.cmd = "gate" /\ me'.doc = me.doc
    <3>1. "prepare" \in Place
      BY DEF Place
    <3> QED BY <1>2, <2>1, <2>2, <3>1, CommandIs
  <2>4. TypeOK'
    BY <1>1, <2>3 DEF IInv, TypeOK, Recover, inputs
  <2>5. CommandKnows' /\ FreshHitsBlock'
    BY <1>1, <2>2, <2>3 DEF CommandKnows, FreshHitsBlock, At
  <2> QED BY <1>1, <2>4, <2>5 DEF IInv
<1>3. CASE me.cmd # "gate"
  <2>1. me' = Idle
    BY <1>3 DEF Recover
  <2>2. TypeOK'
    BY <1>1, <2>1, IdleIs DEF IInv, TypeOK, Recover, inputs
  <2>3. CommandKnows' /\ FreshHitsBlock'
    BY <2>1 DEF CommandKnows, FreshHitsBlock, At, Idle
  <2> QED BY <1>1, <2>2, <2>3 DEF IInv
<1> QED BY <1>2, <1>3

LEMMA PrepareKeeps ==
    ASSUME IInv, Prepare
    PROVE  IInv'
<1>1. /\ Prepared \in Snapshot /\ Follows(Prepared, lc) /\ ClosedBefore(Prepared, NextGate)
      /\ Verdict(Prepared) = "PASS" =>
           /\ Pending(Prepared) = {}
           /\ \A i \in me.hits \cap Blocking : lc # None /\ me.obs \in lc.seen[i]
      /\ Verdict(Prepared) \in {"PASS", "NEEDS_REVISION", "BLOCKED"}
  BY PreparedIs DEF Prepare
<1> DEFINE p == Prepared
           v == Verdict(Prepared)
<1>2. me' = [me EXCEPT !.at = "lifecycle", !.new = p, !.status = v]
  BY DEF Prepare
<1>3. me \in Command /\ me.cmd = "gate" /\ me.doc \in Docs /\ NextGate <= MaxGates /\ Settled
  BY MeIs DEF IInv, CommandKnows, Prepare, At
<1>4. p # None /\ p \in Recorded /\ v \in Outcome /\ v # "none" /\ "lifecycle" \in Place
  BY <1>1, NoneAssumption DEF Recorded, Outcome, Place
<1> HIDE DEF p, v
<1>5. /\ me' \in Command /\ me'.at = "lifecycle" /\ me'.new = p /\ me'.status = v
      /\ me'.cmd = "gate" /\ me'.doc \in Docs /\ me'.obs = me.obs /\ me'.hits = me.hits
  BY <1>2, <1>3, <1>4, CommandIs
<1>6. TypeOK'
  BY <1>5 DEF IInv, TypeOK, Prepare, inputs, results
<1>7. lc' = lc /\ gate' = gate
  BY DEF Prepare, results
<1>8. SoundGate' /\ Behind' /\ ClosedByAGate' /\ NextGate' = NextGate /\ Settled'
  BY <1>3, <1>7, SameFiles
<1>9. p \in Snapshot /\ Follows(p, lc) /\ ClosedBefore(p, NextGate)
      /\ (v = "PASS" => Pending(p) = {})
      /\ (v = "PASS" => \A i \in me.hits \cap Blocking : lc # None /\ me.obs \in lc.seen[i])
  BY <1>1 DEF p, v
<1>10. CommandKnows'
  <2>1. Follows(me.new, lc)' /\ ClosedBefore(me.new, NextGate)'
    BY <1>5, <1>7, <1>8, <1>9 DEF Follows, StateOf, ClosedBefore
  <2>2. MayPass(me.new)'
    BY <1>4, <1>5, <1>9 DEF MayPass, Pending
  <2> QED BY <1>3, <1>4, <1>5, <1>8, <1>9, <2>1, <2>2 DEF CommandKnows
<1>11. FreshHitsBlock'
  BY <1>5, <1>7, <1>9 DEF FreshHitsBlock, At
<1> QED BY <1>6, <1>8, <1>10, <1>11 DEF IInv

LEMMA JudgeKeeps ==
    ASSUME IInv, Judge
    PROVE  IInv'
<1> DEFINE v == Verdict(None)
<1>1. me' = [me EXCEPT !.at = "gate", !.status = v]
  BY DEF Judge
<1>2. /\ me \in Command /\ me.cmd = "gate" /\ me.doc \in Docs /\ NextGate <= MaxGates
      /\ me.hard /\ lc = None /\ me.new = None
  BY MeIs DEF IInv, CommandKnows, Judge, At
<1>3. v \in Outcome /\ v # "none" /\ v # "PASS" /\ "gate" \in Place
  BY <1>2 DEF Verdict, Outcome, Place
<1> HIDE DEF v
<1>4. /\ me' \in Command /\ me'.at = "gate" /\ me'.new = None /\ me'.status = v
      /\ me'.cmd = "gate" /\ me'.doc \in Docs
  BY <1>1, <1>2, <1>3, CommandIs
<1>5. TypeOK'
  BY <1>4 DEF IInv, TypeOK, Judge, inputs, results
<1>6. lc' = lc /\ gate' = gate
  BY DEF Judge, results
<1>7. Settled
  BY <1>2 DEF IInv, Behind, Settled
<1>8. SoundGate' /\ Behind' /\ ClosedByAGate' /\ NextGate' = NextGate /\ Settled'
  BY <1>6, <1>7, SameFiles
<1>9. MayPass(me.new)'
  BY <1>3, <1>4 DEF MayPass
<1>10. CommandKnows'
  BY <1>2, <1>3, <1>4, <1>6, <1>8, <1>9 DEF CommandKnows
<1>11. FreshHitsBlock'
  BY <1>4 DEF FreshHitsBlock, At
<1> QED BY <1>5, <1>8, <1>10, <1>11 DEF IInv

LEMMA WriteLifecycleKeeps ==
    ASSUME IInv, WriteLifecycle
    PROVE  IInv'
<1>1. me' = [me EXCEPT !.at = "gate"] /\ lc' = me.new /\ gate' = gate
  BY DEF WriteLifecycle, Goto
<1>2. /\ me \in Command /\ me.cmd = "gate" /\ me.doc \in Docs /\ NextGate <= MaxGates
      /\ me.new \in Snapshot /\ Follows(me.new, lc) /\ ClosedBefore(me.new, NextGate)
      /\ MayPass(me.new) /\ me.status # "none" /\ Settled
  BY MeIs DEF IInv, CommandKnows, WriteLifecycle, At
<1>3. /\ me' \in Command /\ me'.at = "gate" /\ me'.new = me.new /\ me'.status = me.status
      /\ me'.cmd = "gate" /\ me'.doc = me.doc
  <2>1. "gate" \in Place
    BY DEF Place
  <2> QED BY <1>1, <1>2, <2>1, CommandIs
<1>4. TypeOK'
  BY <1>1, <1>2, <1>3 DEF IInv, TypeOK, WriteLifecycle, inputs
<1>5. NextGate' = NextGate /\ SoundGate'
  BY <1>1 DEF IInv, SoundGate, NextGate, ClosedBefore, Pending
<1>6. Settled' /\ Behind'
  <2>1. CASE gate # None /\ gate.status = "PASS"
    <3>1. Close(gate.bound, gate.id) \in Snapshot /\ lc # None /\ Left
      BY <1>2, <2>1, ClosingIs DEF Settled
    <3>2. me.new.events >= lc.events
      BY <1>2, <3>1 DEF Follows
    <3>3. me.new.events >= Close(gate.bound, gate.id).events
      <4>1. lc.events \in Nat /\ me.new.events \in Nat /\ Close(gate.bound, gate.id).events \in Nat
        BY <1>2, <3>1 DEF IInv, TypeOK, Snapshot
      <4> QED BY <3>1, <3>2, <4>1 DEF Left
    <3> QED BY <1>1, <1>2, <3>3, NoneAssumption DEF Settled, Behind, Left
  <2>2. CASE ~(gate # None /\ gate.status = "PASS")
    BY <1>1, <2>2 DEF Settled, Behind
  <2> QED BY <2>1, <2>2
<1>7. ClosedByAGate'
  <2>1. ASSUME NEW i \in Issue
        PROVE  /\ (me.new.state[i] = "CLOSED") <=> (me.new.gate[i] # 0)
               /\ me.new.state[i] = "CLOSED" =>
                     /\ gate # None /\ me.new.gate[i] <= gate.id
                     /\ me.new.gate[i] = gate.id =>
                           gate.status = "PASS" /\ gate.bound.state[i] = "VERIFIED"
    <3>1. /\ (me.new.state[i] = "CLOSED") <=> (me.new.gate[i] # 0)
      BY <1>2 DEF ClosedBefore
    <3>2. me.new.state[i] = "CLOSED" =>
            lc # None /\ lc.state[i] = "CLOSED" /\ me.new.gate[i] = lc.gate[i]
      BY <1>2 DEF Follows
    <3> QED BY <3>1, <3>2 DEF IInv, ClosedByAGate
  <2> QED BY <1>1, <2>1 DEF ClosedByAGate
<1>8. CommandKnows'
  <2>1. MayPass(me.new)'
    BY <1>2, <1>3 DEF MayPass, Pending
  <2> QED BY <1>1, <1>2, <1>3, <1>5, <1>6, <2>1 DEF CommandKnows
<1>9. FreshHitsBlock'
  BY <1>3 DEF FreshHitsBlock, At
<1> QED BY <1>4, <1>5, <1>6, <1>7, <1>8, <1>9 DEF IInv

LEMMA WriteGateKeeps ==
    ASSUME IInv, WriteGate
    PROVE  IInv'
<1> DEFINE place == IF me.status = "PASS" THEN "close" ELSE "log"
<1>1. me' = [me EXCEPT !.at = place] /\ lc' = lc
      /\ gate' = [id |-> NextGate, status |-> me.status, doc |-> me.doc, bound |-> me.new]
  BY DEF WriteGate, Goto
<1>2. /\ me \in Command /\ me.cmd = "gate" /\ me.doc \in Docs /\ NextGate <= MaxGates
      /\ me.new = lc /\ MayPass(me.new) /\ me.status # "none" /\ me.status \in Outcome
  BY MeIs DEF IInv, CommandKnows, WriteGate, At
<1>3. place \in Place /\ (me.status = "PASS" => place = "close")
      /\ (me.status # "PASS" => place = "log")
  BY DEF Place
<1> HIDE DEF place
<1>4. /\ me' \in Command /\ me'.at = place /\ me'.new = me.new /\ me'.status = me.status
      /\ me'.cmd = "gate" /\ me'.doc = me.doc
  BY <1>1, <1>2, <1>3, CommandIs
<1>5. /\ NextGate \in 1..MaxGates
      /\ gate # None => gate.id \in Nat /\ gate.id < NextGate
  BY <1>2, NextGateIs, BoundAssumption DEF IInv
<1>6. lc \in Snapshot \cup {None}
  BY DEF IInv, TypeOK
<1>7. /\ gate' \in Gate /\ gate' # None /\ gate'.id = NextGate
      /\ gate'.status = me.status /\ gate'.bound = lc
  <2>1. gate' \in Gate
    BY <1>1, <1>2, <1>5, <1>6 DEF Gate, Outcome
  <2> QED BY <1>1, <1>2, <2>1, NoneAssumption
<1>8. TypeOK'
  BY <1>1, <1>4, <1>7 DEF IInv, TypeOK, WriteGate, inputs
<1>9. ClosedBefore(lc, NextGate) \/ lc = None
  <2>1. ASSUME lc # None, NEW i \in Issue
        PROVE  (lc.state[i] = "CLOSED" <=> lc.gate[i] # 0) /\ lc.gate[i] < NextGate
    <3>1. lc.gate[i] \in Nat
      BY <1>6, <2>1, BoundAssumption DEF Snapshot
    <3> QED BY <1>5, <2>1, <3>1 DEF IInv, ClosedByAGate
  <2> QED BY <2>1 DEF ClosedBefore
<1>10. SoundGate'
  BY <1>2, <1>7, <1>9 DEF SoundGate, MayPass, ClosedBefore, Pending
<1>11. Behind'
  BY <1>1, <1>2, <1>7 DEF Behind, MayPass
<1>12. ClosedByAGate'
  <2>1. ASSUME lc # None, NEW i \in Issue, lc.state[i] = "CLOSED"
        PROVE  lc.gate[i] < NextGate /\ lc.gate[i] \in Nat
    <3>1. lc.gate[i] \in Nat
      BY <1>6, <2>1, BoundAssumption DEF Snapshot
    <3> QED BY <1>9, <2>1, <3>1 DEF ClosedBefore
  <2>2. lc # None => \A i \in Issue : (lc.state[i] = "CLOSED") <=> (lc.gate[i] # 0)
    BY DEF IInv, ClosedByAGate
  <2> QED BY <1>1, <1>5, <1>7, <2>1, <2>2 DEF ClosedByAGate
<1>13. CommandKnows'
  BY <1>1, <1>2, <1>3, <1>4, <1>7 DEF CommandKnows, MayPass
<1>14. FreshHitsBlock'
  BY <1>3, <1>4 DEF FreshHitsBlock, At
<1> QED BY <1>8, <1>10, <1>11, <1>12, <1>13, <1>14 DEF IInv

LEMMA WriteClosedKeeps ==
    ASSUME IInv, WriteClosed
    PROVE  IInv'
<1>1. /\ me' = [me EXCEPT !.at = "log"] /\ gate' = gate
      /\ lc' = Close(me.new, gate.id)
  BY DEF WriteClosed, Goto
<1>2. /\ me \in Command /\ me.cmd = "gate" /\ me.doc \in Docs
      /\ gate # None /\ gate.status = "PASS" /\ gate.bound = me.new
  BY MeIs DEF IInv, CommandKnows, WriteClosed, At
<1>3. SoundGate' /\ Behind' /\ ClosedByAGate' /\ lc' \in Snapshot
  BY <1>1, <1>2, ClosingKeeps
<1>4. /\ me' \in Command /\ me'.at = "log" /\ me'.status = me.status
      /\ me'.cmd = "gate" /\ me'.doc = me.doc
  <2>1. "log" \in Place
    BY DEF Place
  <2> QED BY <1>1, <1>2, <2>1, CommandIs
<1>5. TypeOK'
  BY <1>1, <1>3, <1>4 DEF IInv, TypeOK, WriteClosed, inputs
<1>6. CommandKnows' /\ FreshHitsBlock'
  BY <1>2, <1>4 DEF CommandKnows, FreshHitsBlock, At
<1> QED BY <1>3, <1>5, <1>6 DEF IInv

LEMMA AppendLogKeeps ==
    ASSUME IInv, AppendLog
    PROVE  IInv'
<1>1. log' \in [fails : Nat, blocked : BOOLEAN]
  <2>1. log.fails + 1 \in Nat
    BY DEF IInv, TypeOK
  <2>2. (me.status = "BLOCKED") \in BOOLEAN
    OBVIOUS
  <2>3. log' = IF me.status = "PASS" THEN [fails |-> 0, blocked |-> FALSE]
               ELSE [fails |-> log.fails + 1, blocked |-> me.status = "BLOCKED"]
    BY DEF AppendLog
  <2> QED BY <2>1, <2>2, <2>3
<1> QED BY <1>1, EndKeeps DEF AppendLog, IInv, TypeOK

LEMMA Inductive == IInv /\ [Next]_vars => IInv'
<1> SUFFICES ASSUME IInv, [Next]_vars PROVE IInv'
  OBVIOUS
<1>1. CASE PrepareRefused
  BY <1>1, EndKeeps DEF PrepareRefused, Refuse, results, IInv, TypeOK
<1>2. CASE Abort
  BY <1>2, EndKeeps DEF Abort, results, IInv, TypeOK
<1>3. CASE Proceed
  BY <1>1, <1>3, HashKeeps, RecoverKeeps, PrepareKeeps, JudgeKeeps, WriteLifecycleKeeps,
     WriteGateKeeps, WriteClosedKeeps, AppendLogKeeps DEF Proceed
<1>4. CASE UNCHANGED vars
  <2>1. TypeOK'
    BY <1>4 DEF IInv, TypeOK, vars, inputs, results
  <2> QED BY <1>4, <2>1, SameCommand DEF IInv, vars, inputs, results
<1> QED BY <1>2, <1>3, <1>4, EditKeeps, DeliverKeeps, ClaimKeeps, StartKeeps, ReviewInputKeeps
        DEF Next

LEMMA Initially == Init => IInv
<1> SUFFICES ASSUME Init PROVE IInv
  OBVIOUS
<1>1. TypeOK
  BY IdleIs DEF Init, TypeOK
<1> QED BY <1>1 DEF Init, IInv, SoundGate, Behind, CommandKnows, ClosedByAGate, FreshHitsBlock,
               At, Idle

(* Whatever the issues, documents, observations and policy, the invariant     *)
(* holds in every state the gate commands and their crashes can reach.        *)
THEOREM Invariant == Spec => []IInv
BY Initially, Inductive, PTL DEF Spec

(* The files of a stage always hold a lifecycle, a gate and a log that each   *)
(* reader can parse, and the command what it read of them.                    *)
THEOREM GateTypeCorrect == Spec => []TypeOK
BY Invariant, PTL DEF IInv

(* CLOSED names the PASS gate that closed it, also between the writes of a    *)
(* PASS, after a crash between them and after recovery.                       *)
THEOREM ClosingsAreOwned == Spec => []ClosedByAGate
BY Invariant, PTL DEF IInv

(* A PASS is never published over a blocking issue this observation reports   *)
(* for the first time.                                                        *)
THEOREM FreshHitsStop == Spec => []FreshHitsBlock
BY Invariant, PTL DEF IInv

LEMMA AcceptedResolved == IInv => AcceptedIsResolved
<1> SUFFICES ASSUME IInv, Accepted, NEW i \in Blocking PROVE lc.state[i] \notin Unresolved
  BY DEF AcceptedIsResolved
<1>1. /\ lc \in {gate.bound, Close(gate.bound, gate.id)} /\ gate.bound # None
      /\ gate # None /\ gate.status = "PASS"
  BY DEF Accepted, Projectable, Projects
<1>2. gate.bound.state[i] \notin Unresolved
  BY <1>1 DEF IInv, SoundGate, Pending
<1>3. gate.bound \in Snapshot /\ gate.id \in 0..MaxGates /\ i \in Issue
  BY <1>1, ClosingIs, BoundAssumption DEF IInv, TypeOK, Gate, Blocking
<1>4. Close(gate.bound, gate.id).state[i] =
        IF gate.bound.state[i] = "VERIFIED" THEN "CLOSED" ELSE gate.bound.state[i]
  BY <1>3, CloseIs
<1> QED BY <1>1, <1>2, <1>4 DEF Unresolved

(* Whatever was interrupted, a stage that reads as accepted has no unresolved *)
(* issue above the policy.                                                    *)
THEOREM AcceptanceHolds == Spec => []AcceptedIsResolved
BY Invariant, AcceptedResolved, PTL

-----------------------------------------------------------------------------
(* The refinement: the files implement one verdict that changes in one step.  *)

(* A lifecycle that already holds all events of the closing is its own        *)
(* projection.                                                                *)
LEMMA ProjectionIs ==
    ASSUME NEW s \in Snapshot, NEW b \in Snapshot, NEW g \in 0..MaxGates,
           s \in {b, Close(b, g)}, s.events >= Close(b, g).events
    PROVE  Close(b, g).state = s.state
BY CloseIs

LEMMA GateIs ==
    ASSUME IInv, gate # None, gate.status = "PASS"
    PROVE  gate.bound \in Snapshot /\ gate.id \in 0..MaxGates
BY ClosingIs, BoundAssumption DEF IInv, TypeOK, Gate

LEMMA SettledStates ==
    ASSUME IInv, Settled
    PROVE  IssueStates = StateOf(lc)
<1>1. CASE Accepted
  <2>1. gate # None /\ gate.status = "PASS" /\ lc \in {gate.bound, Close(gate.bound, gate.id)}
    BY <1>1 DEF Accepted, Projectable, Projects
  <2>2. lc \in Snapshot /\ Left /\ lc # None
    BY <2>1 DEF Settled, IInv, TypeOK
  <2>3. Close(gate.bound, gate.id).state = lc.state
    BY <2>1, <2>2, GateIs, ProjectionIs DEF Left
  <2> QED BY <1>1, <2>2, <2>3 DEF IssueStates, StateOf
<1>2. CASE ~Accepted
  BY <1>2 DEF IssueStates, StateOf
<1> QED BY <1>1, <1>2

LEMMA SameVerdict ==
    ASSUME UNCHANGED <<lc, gate>>
    PROVE  UNCHANGED <<IssueStates, Accepted>>
BY DEF IssueStates, Accepted, Projectable, Projects

(* Writing the closing of an accepted stage changes nothing a reader sees.    *)
LEMMA ClosingIsSeen ==
    ASSUME IInv, Accepted, lc' = Close(gate.bound, gate.id), gate' = gate
    PROVE  UNCHANGED <<IssueStates, Accepted>>
<1>1. gate # None /\ gate.status = "PASS" /\ gate.bound # None /\ lc # None
  BY DEF Accepted, Projectable, Projects
<1>2. lc' # None
  BY <1>1, ClosingIs, NoneAssumption
<1>3. Accepted'
  BY <1>1, <1>2 DEF Accepted, Projectable, Projects
<1> QED BY <1>1, <1>2, <1>3 DEF IssueStates

LEMMA RoundRecorded ==
    ASSUME IInv, IInv', WriteLifecycle
    PROVE  Verdicts!Record
<1>1. lc' = me.new /\ gate' = gate /\ me.new \in Snapshot /\ me.new # None /\ Follows(me.new, lc)
      /\ Settled
  BY NoneAssumption DEF WriteLifecycle, IInv, CommandKnows, At
<1>2. IssueStates = StateOf(lc)
  BY <1>1, SettledStates
<1>3. Settled'
  <2>1. me'.at = "gate"
    BY MeIs DEF IInv, WriteLifecycle, Goto, Command
  <2> QED BY <2>1 DEF IInv, CommandKnows
<1>4. IssueStates' = lc'.state
  <2>1. CASE Accepted'
    <3>1. gate # None /\ gate.status = "PASS" /\ lc' \in {gate.bound, Close(gate.bound, gate.id)}
      BY <1>1, <2>1 DEF Accepted, Projectable, Projects
    <3>2. lc'.events >= Close(gate.bound, gate.id).events
      BY <1>1, <1>3, <3>1 DEF Settled, Left
    <3>3. Close(gate.bound, gate.id).state = lc'.state
      BY <1>1, <3>1, <3>2, GateIs, ProjectionIs
    <3> QED BY <1>1, <2>1, <3>3 DEF IssueStates
  <2>2. CASE ~Accepted'
    BY <1>1, <2>2 DEF IssueStates
  <2> QED BY <2>1, <2>2
<1>5. lc'.state \in [Issue -> States]
  BY <1>1 DEF Snapshot
<1>6. \A i \in Issue : lc'.state[i] \in Verdicts!Moves[StateOf(lc)[i]]
  BY <1>1 DEF Follows
<1>7. Accepted' \in BOOLEAN
  BY DEF Accepted, Projectable
<1>8. Accepted' => \A i \in Blocking : lc'.state[i] \notin Unresolved
  <2>1. (IInv => AcceptedIsResolved)'
    BY AcceptedResolved, PTL
  <2> QED BY <2>1 DEF AcceptedIsResolved
<1> QED BY <1>2, <1>4, <1>5, <1>6, <1>7, <1>8, MovesAre
        DEF Verdicts!Record, Verdicts!Resolved, Verdicts!Unresolved, Unresolved

LEMMA VerdictGiven ==
    ASSUME IInv, WriteGate
    PROVE  Verdicts!Pass \/ Verdicts!Reject
<1>1. lc' = lc /\ gate'.id = NextGate /\ gate'.status = me.status /\ gate'.bound = lc
      /\ me.new = lc /\ Settled /\ MayPass(lc) /\ NextGate <= MaxGates
  BY DEF WriteGate, IInv, CommandKnows, At
<1>2. IssueStates = StateOf(lc)
  BY <1>1, SettledStates
<1>3. NextGate \in 0..MaxGates /\ gate' # None
  <2>1. NextGate \in 1..MaxGates
    BY <1>1, NextGateIs, BoundAssumption DEF IInv
  <2>2. gate' \in Gate
    BY MeIs, <2>1 DEF WriteGate, Gate, IInv, TypeOK, CommandKnows, At, Outcome
  <2> QED BY <2>1, <2>2, NoneAssumption
<1>4. CASE me.status = "PASS"
  <2>1. lc \in Snapshot /\ lc # None /\ Pending(lc) = {}
    BY <1>1, <1>4 DEF MayPass, IInv, TypeOK
  <2>2. Accepted'
    BY <1>1, <1>3, <1>4, <2>1 DEF Accepted, Projectable, Projects
  <2>3. IssueStates' = Close(lc, NextGate).state
    BY <1>1, <2>1, <2>2 DEF IssueStates
  <2>4. Close(lc, NextGate).state =
          [i \in Issue |-> IF lc.state[i] = "VERIFIED" THEN "CLOSED" ELSE lc.state[i]]
    <3>1. Close(lc, NextGate).state \in [Issue -> States]
      BY <1>3, <2>1, CloseIs DEF Snapshot
    <3> QED BY <1>3, <2>1, <3>1, CloseIs
  <2>5. Verdicts!Resolved(lc.state)
    BY <2>1 DEF Verdicts!Resolved, Verdicts!Unresolved, Pending, Unresolved
  <2> QED BY <1>2, <2>1, <2>2, <2>3, <2>4, <2>5 DEF Verdicts!Pass, StateOf
<1>5. CASE me.status # "PASS"
  <2>1. ~Accepted'
    BY <1>1, <1>3, <1>5 DEF Accepted, Projectable
  <2>2. IssueStates' = StateOf(lc)
    BY <1>1, <2>1 DEF IssueStates, StateOf
  <2> QED BY <1>2, <2>1, <2>2 DEF Verdicts!Reject
<1> QED BY <1>4, <1>5

(* Lifecycle, gate and closing, written one by one, interrupted anywhere and  *)
(* recovered by the next command, behave like one verdict: the states and     *)
(* the acceptance a reader sees change together in one step.                  *)
THEOREM ImplementsVerdict == Spec => VerdictSpec
<1>1. Init => Verdicts!VInit
  BY DEF Init, Verdicts!VInit, IssueStates, Accepted, Projectable
<1>2. IInv /\ IInv' /\ [Next]_vars => [Verdicts!VNext]_<<IssueStates, Accepted>>
  <2> SUFFICES ASSUME IInv, IInv', [Next]_vars
               PROVE  [Verdicts!VNext]_<<IssueStates, Accepted>>
    OBVIOUS
  <2>1. CASE Recover \/ WriteClosed
    <3>1. CASE UNCHANGED <<lc, gate>>
      BY <3>1, SameVerdict
    <3>2. CASE Recover /\ Projectable
      BY <3>2, ClosingIsSeen DEF Recover, Accepted
    <3>3. CASE WriteClosed
      <4>1. Accepted /\ lc' = Close(gate.bound, gate.id) /\ gate' = gate
        BY <3>3 DEF WriteClosed, IInv, CommandKnows, At, Accepted, Projectable, Projects
      <4> QED BY <4>1, ClosingIsSeen
    <3> QED BY <2>1, <3>1, <3>2, <3>3 DEF Recover
  <2>2. CASE WriteLifecycle
    BY <2>2, RoundRecorded DEF Verdicts!VNext
  <2>3. CASE WriteGate
    BY <2>3, VerdictGiven DEF Verdicts!VNext
  <2>4. CASE ~(Recover \/ WriteClosed \/ WriteLifecycle \/ WriteGate)
    <3>1. UNCHANGED <<lc, gate>>
      BY <2>4 DEF Next, Edit, Deliver, Claim, Start, ReviewInput, Proceed, Hash, PrepareRefused,
                  Refuse, Prepare, Judge, AppendLog, Abort, vars, results
    <3> QED BY <3>1, SameVerdict
  <2> QED BY <2>1, <2>2, <2>3, <2>4
<1> QED BY <1>1, <1>2, Invariant, PTL DEF Spec, VerdictSpec, Verdicts!VSpec

=============================================================================
