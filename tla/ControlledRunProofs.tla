------------------------- MODULE ControlledRunProofs -------------------------
(* Controlled execution for any sessions, steps, plans, writers and bounds:   *)
(* its files are written in one order, it does to the work unit only what the *)
(* unit allows, and it implements one outcome per step.  The first part is    *)
(* about the work unit by itself, with any callers: its type, and the safety  *)
(* of what a resumed step is offered.                                        *)
EXTENDS ControlledRun, TLAPS

-----------------------------------------------------------------------------
(* The work unit by itself.                                                   *)

(* Why no step is offered twice: the receipt a step was begun under stays with *)
(* it, because a transition without one keeps the one it finds.              *)
ReceiptKept == unit # NoUnit => \A st \in begun : unit.receipt[st] # NoReceipt

HeldInv == begun = {} \/ unit # NoUnit

WInv == WTypeOK /\ ReceiptKept /\ HeldInv

LEMMA Advanced ==
    ASSUME WInv, NEW st \in Step, NEW to \in States, NEW e \in Events,
           NEW ref \in Receipts \cup {NoReceipt}, Advance(st, to, e, ref)
    PROVE  /\ unit' \in Units
           /\ begun' \subseteq Step
           /\ \A x \in begun' : unit'.receipt[x] # NoReceipt
<1> DEFINE new == Moved(unit, st, to, e, ref)
<1>1. unit \in Units /\ begun \subseteq Step
  BY DEF Advance, WInv, WTypeOK
<1>2. EffectiveReceipt(unit, st, ref) \in Receipts \cup {NoReceipt}
  BY <1>1 DEF EffectiveReceipt, Units
<1>3. new \in Units
  BY <1>1, <1>2 DEF Moved, Units
<1>4. unit' = new
  BY DEF Advance, Swap
<1>5. begun' = begun \cup {x \in Step : new.state[x] = "IN_PROGRESS" /\ new.receipt[x] # NoReceipt}
  BY DEF Advance, Swap
<1>6. ASSUME NEW x \in begun PROVE new.receipt[x] # NoReceipt
  <2>1. unit.receipt[x] # NoReceipt
    BY <1>6 DEF Advance, WInv, ReceiptKept
  <2>2. EffectiveReceipt(unit, x, ref) # NoReceipt
    BY <2>1 DEF EffectiveReceipt
  <2> QED BY <1>1, <2>1, <2>2 DEF Moved, Units
<1> QED BY <1>1, <1>3, <1>4, <1>5, <1>6

LEMMA Opened ==
    ASSUME WInv, NEW w \in Writers, NEW i \in Identities, NEW idem \in [Step -> BOOLEAN],
           Open(w, i, idem)
    PROVE  unit' \in Units /\ begun' = {}
<1>1. unit' \in Units
  BY UnitAssumption DEF Open, Swap, Units, States
<1>2. begun = {}
  BY DEF Open, WInv, HeldInv
<1>3. \A st \in Step : unit'.receipt[st] = NoReceipt
  BY DEF Open, Swap
<1> QED BY <1>1, <1>2, <1>3 DEF Open, Swap

LEMMA TakenOver ==
    ASSUME WInv, NEW w \in Writers, Takeover(w)
    PROVE  /\ unit' \in Units
           /\ begun' \subseteq Step
           /\ \A x \in begun' : unit'.receipt[x] # NoReceipt
<1>1. unit \in Units /\ begun \subseteq Step /\ \A x \in begun : unit.receipt[x] # NoReceipt
  BY DEF Takeover, WInv, WTypeOK, ReceiptKept
<1>2. unit' = [unit EXCEPT !.writer = w, !.epoch = unit.epoch + 1]
  BY DEF Takeover, Swap
<1>3. unit' \in Units
  <2>1. unit.epoch \in 1..MaxEpoch /\ unit.epoch < MaxEpoch
    BY <1>1 DEF Takeover, Units
  <2>2. unit.epoch + 1 \in 1..MaxEpoch
    BY <2>1, UnitAssumption
  <2> QED BY <1>1, <1>2, <2>2 DEF Units
<1>4. begun' = begun \cup {x \in Step : unit'.state[x] = "IN_PROGRESS" /\ unit'.receipt[x] # NoReceipt}
  BY <1>2 DEF Takeover, Swap
<1>5. unit'.receipt = unit.receipt
  BY <1>1, <1>2 DEF Units
<1> QED BY <1>1, <1>3, <1>4, <1>5

LEMMA WStep == WInv /\ [WNext]_wvars => WInv'
<1> SUFFICES ASSUME WInv, [WNext]_wvars PROVE WInv'
  OBVIOUS
<1>1. CASE UNCHANGED wvars
  BY <1>1 DEF WInv, WTypeOK, ReceiptKept, HeldInv, wvars
<1>2. ASSUME unit' \in Units, begun' \subseteq Step,
             \A x \in begun' : unit'.receipt[x] # NoReceipt
      PROVE  WInv'
  BY <1>2, UnitAssumption DEF WInv, WTypeOK, ReceiptKept, HeldInv
<1>3. ASSUME NEW w \in Writers, NEW i \in Identities, NEW idem \in [Step -> BOOLEAN],
             Open(w, i, idem)
      PROVE  WInv'
  BY <1>2, <1>3, Opened
<1>4. ASSUME NEW w \in Writers, Takeover(w) PROVE WInv'
  BY <1>2, <1>4, TakenOver
<1>5. ASSUME NEW st \in Step, NEW to \in States, NEW e \in Events,
             NEW ref \in Receipts \cup {NoReceipt}, Advance(st, to, e, ref)
      PROVE  WInv'
  BY <1>2, <1>5, Advanced
<1> QED BY <1>1, <1>3, <1>4, <1>5 DEF WNext

LEMMA WInvariant == WSpec => []WInv
<1>1. WInit => WInv
  BY DEF WInit, WInv, WTypeOK, ReceiptKept, HeldInv
<1> QED BY <1>1, WStep, PTL DEF WSpec

(* A work unit is always well typed, however its callers order their calls.   *)
THEOREM UnitTypeCorrect == WSpec => []WTypeOK
<1>1. WInv => WTypeOK
  BY DEF WInv
<1> QED BY <1>1, WInvariant, PTL

(* For any number of steps, writers, receipts and transitions: resume never   *)
(* offers a non-idempotent step again that was begun under a receipt, and     *)
(* lets its outcome be reused only on proof for the same identity.           *)
THEOREM NoSecondRun == WSpec => []BegunNeedsProof
<1>1. WInv => BegunNeedsProof
  <2> SUFFICES ASSUME WInv, unit # NoUnit, NEW st \in begun, NEW now \in Identities,
                      NEW known \in ReceiptStates, ~unit.idempotent[st]
               PROVE  /\ Decide(unit, st, now, known) # "recompute"
                      /\ Decide(unit, st, now, known) = "reuse"
                             => known = "COMMITTED" /\ now = unit.identity
    BY DEF BegunNeedsProof
  <2>1. PossiblyDone(unit, st)
    BY DEF PossiblyDone, WInv, ReceiptKept
  <2> QED BY <2>1 DEF Decide
<1> QED BY <1>1, WInvariant, PTL

-----------------------------------------------------------------------------
(* Controlled execution on top of it.                                         *)

Answers == Results \cup {Blocked}
Runs == [step : Step, plan : Plans, result : Answers]

XType ==
    /\ runRecord \in [revision : Nat, runs : SUBSET Runs]
    /\ sources \in [{Ref(j) : j \in Job} -> Answers \cup {None}]
    /\ attempts \in [Step -> Nat]
    /\ pc \in [Sessions -> Places]
    /\ DOMAIN job = Sessions /\ DOMAIN work = Sessions /\ DOMAIN seen = Sessions
    /\ DOMAIN result = Sessions /\ DOMAIN told = Sessions
    /\ \A s \in Sessions : pc[s] # "idle" => job[s] \in Job /\ work[s] \in Units

(* Once begun, a step is never again as if nobody had touched it.             *)
Begun(st) == unit # NoUnit /\ unit.state[st] # "NOT_STARTED"

Footprint ==
    /\ unit # NoUnit => \A j \in Job : Started(j) \in unit.events => Begun(j.step)
    /\ \A st \in Step :
        /\ attempts[st] # 0 \/ RunsOf(st) # {} => Begun(st)
        /\ \A x, y \in RunsOf(st) : x = y

(* The session that began a step owns it, until it answers or dies.           *)
Owning == {"started", "running", "observed", "recorded"}

OneOwner ==
    \A s, t \in Sessions :
        pc[s] \in Owning /\ pc[t] \in Owning /\ job[s].step = job[t].step => s = t

OwnerKnows(s) ==
    /\ pc[s] = "fresh" => NeverStarted(work[s], job[s].step)
    /\ pc[s] = "resume" => seen[s].runs \subseteq runRecord.runs
    /\ pc[s] \in Owning => /\ unit # NoUnit
                           /\ Started(job[s]) \in unit.events
                           /\ Committed(job[s]) \notin unit.events
    /\ pc[s] = "started" => attempts[job[s].step] = 0
    /\ pc[s] = "running" => attempts[job[s].step] = 1
    /\ pc[s] \in Owning \ {"recorded"} => RunsOf(job[s].step) = {}
    /\ pc[s] \in {"observed", "recorded"} =>
           result[s] \in Answers /\ sources[Ref(job[s])] = result[s]
    /\ pc[s] = "observed" /\ result[s] # Blocked => attempts[job[s].step] = 1
    /\ pc[s] = "recorded" => Run(job[s], result[s]) \in runRecord.runs

RInv == /\ WInv /\ XType /\ Footprint /\ OneOwner /\ DurableInOrder
        /\ \A s \in Sessions : OwnerKnows(s)

-----------------------------------------------------------------------------
(* Names.                                                                     *)

LEMMA Distinct ==
    ASSUME NEW i \in Job, NEW j \in Job
    PROVE  /\ Started(i) = Started(j) => i = j
           /\ Committed(i) = Committed(j) => i = j
           /\ Started(i) # Committed(j)
           /\ Ref(i) = Ref(j) => i = j
           /\ \A r, q \in Answers : Run(i, r) = Run(j, q) => i = j /\ r = q
           /\ i.step \in Step
           /\ \A r \in Answers : Run(i, r) \in Runs /\ Run(i, r).step = i.step
<1>1. i = [step |-> i.step, plan |-> i.plan] /\ j = [step |-> j.step, plan |-> j.plan]
      /\ i.step \in Step /\ i.plan \in Plans
  BY DEF Job
<1>2. i.step = j.step /\ i.plan = j.plan => i = j
  BY <1>1
<1> QED BY <1>1, <1>2 DEF Started, Committed, Ref, Run, Runs

-----------------------------------------------------------------------------
(* The unit.                                                                  *)

LEMMA NeverBack == \A from \in States : "NOT_STARTED" \notin Legal[from]
BY DEF States, Legal

LEMMA AdvanceEvolves ==
    ASSUME WInv, NEW st \in Step, NEW to \in States, NEW e \in Events,
           NEW ref \in Receipts \cup {NoReceipt}, Advance(st, to, e, ref)
    PROVE  /\ unit # NoUnit /\ unit' # NoUnit
           /\ unit'.events = unit.events \cup {e}
           /\ Begun(st)'
           /\ \A x \in Step : Begun(x) => Begun(x)'
<1>1. unit \in Units /\ unit' \in Units
  BY Advanced DEF Advance, WInv, WTypeOK
<1>2. /\ unit' = [unit EXCEPT !.state[st] = to, !.receipt[st] = EffectiveReceipt(unit, st, ref),
                              !.events = @ \cup {e}]
  BY DEF Advance, Swap, Moved
<1>3. to # "NOT_STARTED"
  <2>1. unit.state[st] \in States
    BY <1>1 DEF Units
  <2> QED BY <2>1, NeverBack DEF Advance, MayMove
<1>4. unit'.events = unit.events \cup {e} /\ unit'.state = [unit.state EXCEPT ![st] = to]
  BY <1>1, <1>2 DEF Units
<1>5. unit.state \in [Step -> States]
  BY <1>1 DEF Units
<1> QED BY <1>1, <1>3, <1>4, <1>5, UnitAssumption DEF Begun

(* What callers other than an execution do to the unit.                       *)
Undisturbed ==
    /\ unit' # NoUnit
    /\ unit # NoUnit => unit.events \subseteq unit'.events
    /\ \A st \in Step : Begun(st) => Begun(st)'
    /\ \A j \in Job : /\ Started(j) \in unit'.events => unit # NoUnit /\ Started(j) \in unit.events
                      /\ Committed(j) \in unit'.events => unit # NoUnit /\ Committed(j) \in unit.events

LEMMA OthersDoNotDisturb ==
    ASSUME WInv, Others
    PROVE  Undisturbed
<1>1. ASSUME NEW w \in Writers, NEW i \in Identities, NEW idem \in [Step -> BOOLEAN], Open(w, i, idem)
      PROVE  Undisturbed
  <2>1. unit' # NoUnit
    BY <1>1, Opened, UnitAssumption
  <2>2. unit = NoUnit /\ unit'.events = {}
    BY <1>1 DEF Open, Swap
  <2> QED BY <2>1, <2>2 DEF Undisturbed, Begun
<1>2. ASSUME NEW w \in Writers, Takeover(w)
      PROVE  Undisturbed
  <2>1. unit' # NoUnit /\ unit # NoUnit /\ unit \in Units
    BY <1>2, TakenOver, UnitAssumption DEF Takeover, WInv, WTypeOK
  <2>2. unit'.events = unit.events /\ unit'.state = unit.state
    BY <1>2, <2>1 DEF Takeover, Swap, Units
  <2> QED BY <2>1, <2>2 DEF Undisturbed, Begun
<1>3. ASSUME NEW st \in Step, NEW to \in States, NEW e \in ForeignEvents,
             NEW ref \in Receipts \cup {NoReceipt}, Advance(st, to, e, ref)
      PROVE  Undisturbed
  <2>1. e \in Events /\ \A j \in Job : e # Started(j) /\ e # Committed(j)
    BY DEF ForeignEvents
  <2>2. /\ unit # NoUnit /\ unit' # NoUnit /\ unit'.events = unit.events \cup {e}
        /\ \A x \in Step : Begun(x) => Begun(x)'
    BY <1>3, <2>1, AdvanceEvolves
  <2> QED BY <2>1, <2>2 DEF Undisturbed
<1> QED BY <1>1, <1>2, <1>3 DEF Others

LEMMA OthersAllowed == Others => WNext
<1>1. ForeignEvents \subseteq Events
  BY DEF ForeignEvents
<1> QED BY <1>1 DEF Others, WNext

-----------------------------------------------------------------------------
(* Steps that concern one session alone.                                      *)

Alone(s) ==
    /\ UNCHANGED <<wvars, runRecord, sources, attempts>>
    /\ \A t \in Sessions \ {s} :
          /\ pc'[t] = pc[t] /\ job'[t] = job[t] /\ work'[t] = work[t]
          /\ seen'[t] = seen[t] /\ result'[t] = result[t]

LEMMA AloneKeeps ==
    ASSUME RInv, NEW s \in Sessions, Alone(s), XType', pc'[s] \notin Owning, OwnerKnows(s)'
    PROVE  RInv'
<1>1. WInv'
  BY WStep DEF RInv, Alone, wvars
<1>2. Footprint'
  BY DEF RInv, Alone, Footprint, Begun, RunsOf, wvars
<1>3. OneOwner'
  BY DEF RInv, Alone, OneOwner
<1>4. DurableInOrder'
  BY DEF RInv, Alone, DurableInOrder, wvars
<1>5. ASSUME NEW t \in Sessions, t # s PROVE OwnerKnows(t)'
  <2>1. OwnerKnows(t)
    BY DEF RInv
  <2>2. /\ pc'[t] = pc[t] /\ job'[t] = job[t] /\ work'[t] = work[t]
        /\ seen'[t] = seen[t] /\ result'[t] = result[t]
        /\ unit' = unit /\ runRecord' = runRecord /\ sources' = sources /\ attempts' = attempts
    BY <1>5 DEF Alone, wvars
  <2> QED BY <2>1, <2>2 DEF OwnerKnows, RunsOf, NeverStarted
<1> QED BY <1>1, <1>2, <1>3, <1>4, <1>5 DEF RInv

LEMMA DoneAlone ==
    ASSUME RInv, NEW s \in Sessions, NEW answer, Done(s, answer),
           UNCHANGED <<wvars, runRecord, sources, attempts>>
    PROVE  RInv'
<1>1. XType
  BY DEF RInv
<1>2. XType' /\ pc'[s] = "idle"
  BY <1>1 DEF XType, Done, Goto, Places
<1>3. Alone(s)
  BY <1>1 DEF XType, Done, Goto, Alone
<1>4. OwnerKnows(s)'
  BY <1>2 DEF OwnerKnows, Owning
<1> QED BY <1>2, <1>3, <1>4, AloneKeeps DEF Owning

LEMMA LoadWorkKeeps ==
    ASSUME RInv, NEW s \in Sessions, NEW j \in Job, LoadWork(s, j)
    PROVE  RInv'
<1>1. XType /\ unit \in Units
  BY DEF RInv, LoadWork, WInv, WTypeOK
<1>2. XType' /\ pc'[s] = "loaded"
  BY <1>1 DEF XType, LoadWork, Goto, Places
<1>3. Alone(s)
  BY <1>1 DEF XType, LoadWork, Goto, Alone
<1>4. OwnerKnows(s)'
  BY <1>2 DEF OwnerKnows, Owning
<1> QED BY <1>2, <1>3, <1>4, AloneKeeps DEF Owning

LEMMA LoadRecordKeeps ==
    ASSUME RInv, NEW s \in Sessions, LoadRecord(s)
    PROVE  RInv'
<1>1. XType
  BY DEF RInv
<1>2. XType' /\ pc'[s] \in {"fresh", "resume"}
  BY <1>1 DEF XType, LoadRecord, Goto, Places
<1>3. Alone(s)
  BY <1>1 DEF XType, LoadRecord, Goto, Alone
<1>4. /\ pc'[s] = "fresh" => NeverStarted(work[s], job[s].step)
      /\ seen'[s] = runRecord
  BY <1>1 DEF XType, LoadRecord, Goto
<1>5. OwnerKnows(s)'
  BY <1>2, <1>4 DEF OwnerKnows, Owning, LoadRecord, NeverStarted
<1> QED BY <1>2, <1>3, <1>5, AloneKeeps DEF Owning

-----------------------------------------------------------------------------
(* The steps of an owner.                                                     *)

LEMMA StartAllowed ==
    ASSUME RInv, NEW s \in Sessions, Start(s)
    PROVE  /\ job[s] \in Job /\ job[s].step \in Step
           /\ ~Begun(job[s].step) /\ unit \in Units
           /\ Advance(job[s].step, "IN_PROGRESS", Started(job[s]), Ref(job[s]))
           /\ work'[s] \in Units
<1> DEFINE st == job[s].step
<1>1. pc[s] = "fresh" /\ job[s] \in Job /\ work[s] \in Units /\ NeverStarted(work[s], st)
  BY DEF Start, RInv, XType, OwnerKnows
<1>2. st \in Step
  BY <1>1 DEF Job
<1>3. unit = work[s] /\ unit # NoUnit
  BY <1>1, UnitAssumption DEF Start, Swap
<1>4. unit.state[st] = "NOT_STARTED" /\ ~Begun(st)
  BY <1>1, <1>3 DEF NeverStarted, Begun
<1>5. Started(job[s]) \notin unit.events
  BY <1>1, <1>3, <1>4 DEF RInv, Footprint
<1>6. MayMove(unit, st, "IN_PROGRESS", Ref(job[s]))
  BY <1>4 DEF MayMove, Legal
<1>7. Advance(st, "IN_PROGRESS", Started(job[s]), Ref(job[s]))
  BY <1>3, <1>5, <1>6 DEF Advance, Start
<1>8. unit' \in Units /\ work'[s] = unit'
  <2>1. Started(job[s]) \in Events /\ Ref(job[s]) \in Receipts /\ "IN_PROGRESS" \in States
    BY <1>1, RunAssumption DEF States
  <2>2. unit' \in Units
    BY <1>2, <1>7, <2>1, Advanced DEF RInv
  <2> QED BY <2>2 DEF Start, Swap, RInv, XType
<1> QED BY <1>1, <1>2, <1>3, <1>4, <1>7, <1>8

LEMMA StartKeeps ==
    ASSUME RInv, NEW s \in Sessions, Start(s)
    PROVE  RInv' /\ WNext
<1>0. PICK k \in Job : k = job[s]
  BY StartAllowed
<1> DEFINE st == k.step
<1>1. /\ k \in Job /\ st \in Step /\ ~Begun(st) /\ unit \in Units
      /\ Advance(st, "IN_PROGRESS", Started(k), Ref(k))
      /\ work'[s] \in Units
  BY <1>0, StartAllowed
<1>2. Started(k) \in Events /\ Ref(k) \in Receipts /\ "IN_PROGRESS" \in States
  BY <1>1, RunAssumption DEF States
<1>3. WNext
  BY <1>1, <1>2 DEF WNext
<1>4. /\ unit # NoUnit /\ unit' # NoUnit
      /\ unit'.events = unit.events \cup {Started(k)}
      /\ Begun(st)'
      /\ \A x \in Step : Begun(x) => Begun(x)'
  <2>1. WInv /\ Ref(k) \in Receipts \cup {NoReceipt}
    BY <1>2 DEF RInv
  <2> HIDE DEF st
  <2> QED BY <1>1, <1>2, <2>1, AdvanceEvolves
<1>5. XType /\ Footprint /\ OneOwner /\ DurableInOrder /\ WInv
  BY DEF RInv
<1>6. /\ UNCHANGED <<runRecord, sources, attempts, job, seen, result, told>>
      /\ pc' = [pc EXCEPT ![s] = "started"] /\ DOMAIN work' = Sessions
      /\ \A t \in Sessions \ {s} : work'[t] = work[t]
      /\ pc[s] = "fresh"
  BY <1>5 DEF Start, Goto, XType
<1>7. WInv'
  BY <1>3, <1>5, WStep
<1>8. XType'
  BY <1>1, <1>5, <1>6 DEF XType, Places
<1>9. Footprint'
  <2>1. ASSUME NEW j \in Job, Started(j) \in unit'.events PROVE Begun(j.step)'
    <3>1. CASE j = k
      BY <3>1, <1>4
    <3>2. CASE j # k
      <4>1. Started(j) \in unit.events /\ j.step \in Step
        BY <3>2, <2>1, <1>1, <1>4, Distinct
      <4> QED BY <4>1, <1>4, <1>5 DEF Footprint
    <3> QED BY <3>1, <3>2
  <2>2. ASSUME NEW x \in Step
        PROVE  /\ attempts'[x] # 0 \/ RunsOf(x)' # {} => Begun(x)'
               /\ \A y, z \in RunsOf(x)' : y = z
    BY <1>4, <1>5, <1>6 DEF Footprint, RunsOf
  <2> QED BY <2>1, <2>2 DEF Footprint
<1>10. ASSUME NEW t \in Sessions, pc[t] \in Owning PROVE job[t].step # st /\ job[t] \in Job /\ t # s
  <2>1. Started(job[t]) \in unit.events /\ job[t] \in Job
    BY <1>10, <1>5 DEF RInv, OwnerKnows, XType, Owning
  <2>2. Begun(job[t].step)
    BY <2>1, <1>4, <1>5 DEF Footprint
  <2> QED BY <2>1, <2>2, <1>1, <1>6, <1>10 DEF Owning
<1>11. OneOwner'
  <2> SUFFICES ASSUME NEW t \in Sessions, NEW u \in Sessions, pc'[t] \in Owning, pc'[u] \in Owning,
                      job'[t].step = job'[u].step
               PROVE  t = u
    BY DEF OneOwner
  <2>1. (t = s \/ pc[t] \in Owning) /\ (u = s \/ pc[u] \in Owning)
    BY <1>5, <1>6 DEF XType
  <2> QED BY <2>1, <1>0, <1>5, <1>6, <1>10 DEF OneOwner
<1>12. DurableInOrder'
  <2>1. \A j \in Job : Committed(j) \in unit'.events => Committed(j) \in unit.events
    BY <1>1, <1>4, Distinct
  <2>2. \A j \in Job : Started(j) \in unit.events => Started(j) \in unit'.events
    BY <1>4
  <2> QED BY <2>1, <2>2, <1>4, <1>5, <1>6 DEF DurableInOrder
<1>13. OwnerKnows(s)'
  <2>1. attempts[st] = 0 /\ RunsOf(st) = {}
    BY <1>1, <1>5 DEF Footprint
  <2>2. Committed(k) \notin unit.events
    <3>1. SUFFICES ASSUME Committed(k) \in unit.events PROVE FALSE
      OBVIOUS
    <3>2. Run(k, sources[Ref(k)]) \in runRecord.runs
      BY <3>1, <1>1, <1>4, <1>5 DEF DurableInOrder
    <3>3. Run(k, sources[Ref(k)]).step = st
      BY DEF Run
    <3> QED BY <3>2, <3>3, <2>1 DEF RunsOf
  <2>3. Committed(k) \notin unit'.events /\ Started(k) \in unit'.events
    BY <2>2, <1>1, <1>4, Distinct
  <2>4. pc'[s] = "started" /\ job'[s] = k /\ attempts' = attempts /\ runRecord' = runRecord
    BY <1>0, <1>5, <1>6 DEF XType
  <2>5. RunsOf(st)' = {}
    BY <2>1, <2>4 DEF RunsOf
  <2> QED BY <2>1, <2>3, <2>4, <2>5, <1>4 DEF OwnerKnows, Owning
<1>14. ASSUME NEW t \in Sessions, t # s PROVE OwnerKnows(t)'
  <2>1. OwnerKnows(t)
    BY DEF RInv
  <2>2. pc'[t] = pc[t] /\ work'[t] = work[t] /\ job' = job /\ seen' = seen /\ result' = result
        /\ runRecord' = runRecord /\ sources' = sources /\ attempts' = attempts
    BY <1>5, <1>6, <1>14 DEF XType
  <2>3. pc[t] \in Owning => Started(job[t]) \in unit'.events /\ Committed(job[t]) \notin unit'.events
    BY <2>1, <1>1, <1>4, <1>10, Distinct DEF OwnerKnows
  <2> QED BY <2>1, <2>2, <2>3, <1>4 DEF OwnerKnows, RunsOf, NeverStarted
<1> QED BY <1>3, <1>7, <1>8, <1>9, <1>11, <1>12, <1>13, <1>14 DEF RInv

(* An owner's step away from the unit: nobody else owns the same step.        *)
LEMMA OwnerAlone ==
    ASSUME RInv, NEW s \in Sessions, pc[s] \in Owning, NEW t \in Sessions, t # s
    PROVE  /\ job[s] \in Job
           /\ pc[t] \in Owning => job[t] \in Job /\ job[t].step # job[s].step
BY DEF RInv, XType, OneOwner, Owning

LEMMA LaunchKeeps ==
    ASSUME RInv, NEW s \in Sessions, Launch(s)
    PROVE  RInv'
<1> DEFINE st == job[s].step
<1>1. XType /\ Footprint /\ OneOwner /\ DurableInOrder /\ WInv /\ OwnerKnows(s)
  BY DEF RInv
<1>2. /\ pc[s] = "started" /\ pc' = [pc EXCEPT ![s] = "running"]
      /\ attempts' = [attempts EXCEPT ![st] = @ + 1]
      /\ UNCHANGED <<wvars, runRecord, sources, job, work, seen, result, told>>
      /\ unit' = unit
  BY DEF Launch, Goto, wvars
<1>3. job[s] \in Job /\ st \in Step /\ attempts[st] = 0 /\ unit # NoUnit /\ Started(job[s]) \in unit.events
  BY <1>1, <1>2 DEF XType, OwnerKnows, Owning, Job
<1>4. Begun(st)
  BY <1>1, <1>3 DEF Footprint
<1>5. attempts'[st] = 1 /\ \A x \in Step \ {st} : attempts'[x] = attempts[x]
  BY <1>1, <1>2, <1>3 DEF XType
<1>6. WInv'
  BY <1>1, <1>2, WStep
<1>7. XType'
  BY <1>1, <1>2, <1>3 DEF XType, Places
<1>8. Footprint'
  BY <1>1, <1>2, <1>4, <1>5 DEF Footprint, Begun, RunsOf
<1>9. OneOwner'
  BY <1>1, <1>2 DEF OneOwner, XType, Owning
<1>10. DurableInOrder'
  BY <1>1, <1>2 DEF DurableInOrder
<1>11. OwnerKnows(s)'
  <2>1. pc'[s] = "running"
    BY <1>1, <1>2 DEF XType
  <2> QED BY <2>1, <1>1, <1>2, <1>5 DEF OwnerKnows, Owning, RunsOf
<1>12. ASSUME NEW t \in Sessions, t # s PROVE OwnerKnows(t)'
  <2>1. OwnerKnows(t) /\ (pc[t] \in Owning => job[t] \in Job /\ job[t].step # st)
    BY <1>2, <1>12, OwnerAlone DEF RInv, Owning
  <2>2. pc[t] \in Owning => attempts'[job[t].step] = attempts[job[t].step]
    BY <2>1, <1>5 DEF Job
  <2>3. pc'[t] = pc[t]
    BY <1>1, <1>2, <1>12 DEF XType
  <2> QED BY <2>1, <2>2, <2>3, <1>2 DEF OwnerKnows, RunsOf, Owning, NeverStarted
<1> QED BY <1>6, <1>7, <1>8, <1>9, <1>10, <1>11, <1>12 DEF RInv

LEMMA ObserveKeeps ==
    ASSUME RInv, NEW s \in Sessions, NEW r \in Answers, Observe(s, r)
    PROVE  RInv'
<1> DEFINE st == job[s].step
           ref == Ref(job[s])
<1>1. XType /\ Footprint /\ OneOwner /\ DurableInOrder /\ WInv /\ OwnerKnows(s)
  BY DEF RInv
<1>2. /\ pc[s] = "running" \/ (pc[s] = "started" /\ r = Blocked)
      /\ pc' = [pc EXCEPT ![s] = "observed"]
      /\ sources[ref] = None /\ sources' = [sources EXCEPT ![ref] = r]
      /\ result' = [result EXCEPT ![s] = r]
      /\ UNCHANGED <<wvars, runRecord, attempts, job, work, seen, told>> /\ unit' = unit
  BY DEF Observe, Goto, wvars
<1>3. /\ job[s] \in Job /\ st \in Step /\ unit # NoUnit /\ Started(job[s]) \in unit.events
      /\ Committed(job[s]) \notin unit.events /\ RunsOf(st) = {} /\ pc[s] \in Owning
      /\ ref \in {Ref(j) : j \in Job}
  BY <1>1, <1>2 DEF XType, OwnerKnows, Owning, Job
<1>4. /\ sources'[ref] = r /\ r # None /\ None \notin Answers
      /\ \A j \in Job \ {job[s]} : sources'[Ref(j)] = sources[Ref(j)]
  <2>1. r # None /\ None \notin Answers
    BY RunAssumption DEF Answers
  <2>2. \A j \in Job \ {job[s]} : Ref(j) # ref
    BY <1>3, Distinct
  <2> QED BY <2>1, <2>2, <1>1, <1>2, <1>3 DEF XType
<1>5. WInv'
  BY <1>1, <1>2, WStep
<1>6. XType'
  <2>1. sources' \in [{Ref(j) : j \in Job} -> Answers \cup {None}]
    BY <1>1, <1>2, <1>3 DEF XType
  <2>2. pc' \in [Sessions -> Places] /\ DOMAIN result' = Sessions
        /\ \A t \in Sessions : pc'[t] # "idle" => pc[t] # "idle"
    BY <1>1, <1>2 DEF XType, Places
  <2> QED BY <2>1, <2>2, <1>1, <1>2 DEF XType
<1>7. Footprint'
  BY <1>1, <1>2 DEF Footprint, Begun, RunsOf
<1>8. OneOwner'
  BY <1>1, <1>2 DEF OneOwner, XType, Owning
<1>9. DurableInOrder'
  <2>1. \A q \in Answers : Run(job[s], q) \notin runRecord.runs
    BY <1>3 DEF RunsOf, Run
  <2>2. ASSUME NEW j \in Job
        PROVE  /\ Committed(j) \in unit.events
                    => sources'[Ref(j)] # None /\ Run(j, sources'[Ref(j)]) \in runRecord.runs
               /\ \A q \in Answers : Run(j, q) \in runRecord.runs => sources'[Ref(j)] = q
               /\ sources'[Ref(j)] # None => Started(j) \in unit.events
    <3>1. CASE j = job[s]
      BY <3>1, <2>1, <1>3
    <3>2. CASE j # job[s]
      BY <3>2, <1>1, <1>3, <1>4 DEF DurableInOrder, Answers
    <3> QED BY <3>1, <3>2
  <2> QED BY <2>2, <1>2, <1>3 DEF DurableInOrder, Answers
<1>10. OwnerKnows(s)'
  <2>1. pc'[s] = "observed" /\ result'[s] = r
    BY <1>1, <1>2 DEF XType
  <2>2. r # Blocked => attempts[st] = 1
    BY <1>1, <1>2 DEF OwnerKnows
  <2> QED BY <2>1, <2>2, <1>2, <1>3, <1>4 DEF OwnerKnows, Owning, RunsOf
<1>11. ASSUME NEW t \in Sessions, t # s PROVE OwnerKnows(t)'
  <2>1. OwnerKnows(t) /\ (pc[t] \in Owning => job[t] \in Job /\ job[t].step # st)
    BY <1>3, <1>11, OwnerAlone DEF RInv
  <2>2. pc[t] \in Owning => sources'[Ref(job[t])] = sources[Ref(job[t])]
    BY <2>1, <1>4
  <2>3. pc'[t] = pc[t] /\ result'[t] = result[t]
    BY <1>1, <1>2, <1>11 DEF XType
  <2> QED BY <2>1, <2>2, <2>3, <1>2 DEF OwnerKnows, RunsOf, Owning, NeverStarted
<1> QED BY <1>5, <1>6, <1>7, <1>8, <1>9, <1>10, <1>11 DEF RInv

(* The record grows by one run of a step that had none.                       *)
LEMMA AdoptKeeps ==
    ASSUME RInv, NEW s \in Sessions, Adopt(s)
    PROVE  RInv'
<1> DEFINE st == job[s].step
           new == Run(job[s], result[s])
<1>1. XType /\ Footprint /\ OneOwner /\ DurableInOrder /\ WInv /\ OwnerKnows(s)
  BY DEF RInv
<1>2. /\ pc[s] = "observed" /\ pc' = [pc EXCEPT ![s] = "recorded"]
      /\ runRecord'.runs = runRecord.runs \cup {new} /\ runRecord'.revision = runRecord.revision + 1
      /\ runRecord' = [revision |-> runRecord.revision + 1, runs |-> runRecord.runs \cup {new}]
      /\ UNCHANGED <<wvars, sources, attempts, job, work, seen, result, told>> /\ unit' = unit
  BY DEF Adopt, Goto, wvars
<1>3. /\ job[s] \in Job /\ st \in Step /\ unit # NoUnit /\ Started(job[s]) \in unit.events
      /\ Committed(job[s]) \notin unit.events /\ RunsOf(st) = {} /\ pc[s] \in Owning
      /\ result[s] \in Answers /\ sources[Ref(job[s])] = result[s]
  BY <1>1, <1>2 DEF XType, OwnerKnows, Owning, Job
<1>4. new \in Runs /\ new.step = st /\ Begun(st)
  BY <1>1, <1>3, Distinct DEF Footprint
<1>5. RunsOf(st)' = {new} /\ \A x \in Step \ {st} : RunsOf(x)' = RunsOf(x)
  BY <1>2, <1>3, <1>4 DEF RunsOf
<1>6. WInv'
  BY <1>1, <1>2, WStep
<1>7. XType'
  <2>1. runRecord' \in [revision : Nat, runs : SUBSET Runs]
    BY <1>1, <1>2, <1>4 DEF XType
  <2> QED BY <2>1, <1>1, <1>2 DEF XType, Places
<1>8. Footprint'
  <2>1. ASSUME NEW x \in Step
        PROVE  /\ attempts'[x] # 0 \/ RunsOf(x)' # {} => Begun(x)'
               /\ \A y, z \in RunsOf(x)' : y = z
    BY <1>1, <1>2, <1>4, <1>5 DEF Footprint, Begun
  <2> QED BY <2>1, <1>1, <1>2 DEF Footprint, Begun
<1>9. OneOwner'
  BY <1>1, <1>2 DEF OneOwner, XType, Owning
<1>10. DurableInOrder'
  <2>1. ASSUME NEW j \in Job, NEW q \in Answers, Run(j, q) \in runRecord'.runs
        PROVE  sources[Ref(j)] = q
    <3>1. CASE Run(j, q) = new
      <4>1. j = job[s] /\ q = result[s]
        BY <3>1, <1>3, Distinct
      <4> QED BY <4>1, <1>3
    <3>2. CASE Run(j, q) # new
      BY <3>2, <2>1, <1>1, <1>2 DEF DurableInOrder, Answers
    <3> QED BY <3>1, <3>2
  <2> QED BY <2>1, <1>1, <1>2, <1>3 DEF DurableInOrder, Answers
<1>11. OwnerKnows(s)'
  <2>1. pc'[s] = "recorded"
    BY <1>1, <1>2 DEF XType
  <2> QED BY <2>1, <1>2, <1>3 DEF OwnerKnows, Owning
<1>12. ASSUME NEW t \in Sessions, t # s PROVE OwnerKnows(t)'
  <2>1. OwnerKnows(t) /\ (pc[t] \in Owning => job[t] \in Job /\ job[t].step # st)
    BY <1>3, <1>12, OwnerAlone DEF RInv
  <2>2. pc[t] \in Owning => RunsOf(job[t].step)' = RunsOf(job[t].step)
    <3>1. pc[t] \in Owning => job[t].step \in Step \ {st} /\ job' = job
      BY <2>1, <1>2 DEF Job
    <3> QED BY <3>1, <1>5 DEF RunsOf
  <2>3. pc'[t] = pc[t]
    BY <1>1, <1>2, <1>12 DEF XType
  <2> QED BY <2>1, <2>2, <2>3, <1>2 DEF OwnerKnows, Owning, NeverStarted, RunsOf
<1> QED BY <1>6, <1>7, <1>8, <1>9, <1>10, <1>11, <1>12 DEF RInv

LEMMA CompleteKeeps ==
    ASSUME RInv, NEW s \in Sessions, Complete(s)
    PROVE  RInv' /\ WNext
<1>0. PICK k \in Job : k = job[s]
  BY DEF Complete, RInv, XType
<1> DEFINE st == k.step
<1>1. XType /\ Footprint /\ OneOwner /\ DurableInOrder /\ WInv /\ OwnerKnows(s) /\ st \in Step
  BY DEF RInv, Job
<1>2. /\ pc[s] = "recorded" /\ unit # NoUnit /\ Started(k) \in unit.events
      /\ Committed(k) \notin unit.events
      /\ result[s] \in Answers /\ sources[Ref(k)] = result[s] /\ Run(k, result[s]) \in runRecord.runs
  BY <1>0, <1>1 DEF Complete, OwnerKnows, Owning
<1>3. Advance(st, "COMPLETED", Committed(k), Ref(k))
  <2>1. unit = work[s]
    BY DEF Complete, Swap
  <2> QED BY <1>0, <1>2, <2>1 DEF Complete, Advance
<1>4. Committed(k) \in Events /\ Ref(k) \in Receipts \cup {NoReceipt} /\ "COMPLETED" \in States
  BY RunAssumption DEF States
<1>5. WNext
  BY <1>1, <1>3, <1>4 DEF WNext
<1>6. /\ unit # NoUnit /\ unit' # NoUnit
      /\ unit'.events = unit.events \cup {Committed(k)}
      /\ \A x \in Step : Begun(x) => Begun(x)'
  <2> HIDE DEF st
  <2> QED BY <1>1, <1>3, <1>4, AdvanceEvolves
<1>7. /\ UNCHANGED <<runRecord, sources, attempts>>
      /\ pc' = [pc EXCEPT ![s] = "idle"]
      /\ job' = [job EXCEPT ![s] = None] /\ work' = [work EXCEPT ![s] = NoUnit]
      /\ seen' = [seen EXCEPT ![s] = None] /\ result' = [result EXCEPT ![s] = None]
      /\ DOMAIN told' = DOMAIN told
  BY DEF Complete, Done, Goto
<1>8. WInv'
  BY <1>1, <1>5, WStep
<1>9. XType'
  BY <1>1, <1>7 DEF XType, Places
<1>10. Footprint'
  <2>1. ASSUME NEW j \in Job, Started(j) \in unit'.events PROVE Begun(j.step)'
    <3>1. Started(j) \in unit.events /\ j.step \in Step
      BY <2>1, <1>6, Distinct
    <3> QED BY <3>1, <1>1, <1>6 DEF Footprint
  <2>2. ASSUME NEW x \in Step
        PROVE  /\ attempts'[x] # 0 \/ RunsOf(x)' # {} => Begun(x)'
               /\ \A y, z \in RunsOf(x)' : y = z
    BY <1>1, <1>6, <1>7 DEF Footprint, RunsOf
  <2> QED BY <2>1, <2>2 DEF Footprint
<1>11. \A t \in Sessions \ {s} : /\ pc'[t] = pc[t] /\ job'[t] = job[t] /\ work'[t] = work[t]
                                 /\ seen'[t] = seen[t] /\ result'[t] = result[t]
  BY <1>1, <1>7 DEF XType
<1>12. pc'[s] = "idle"
  BY <1>1, <1>7 DEF XType
<1>13. OneOwner'
  BY <1>1, <1>11, <1>12 DEF OneOwner, Owning
<1>14. DurableInOrder'
  <2>1. \A j \in Job : Committed(j) \in unit'.events => j = k \/ Committed(j) \in unit.events
    BY <1>6, Distinct
  <2>2. sources[Ref(k)] # None
    BY <1>2, RunAssumption DEF Answers
  <2> QED BY <2>1, <2>2, <1>1, <1>2, <1>6, <1>7 DEF DurableInOrder
<1>15. OwnerKnows(s)'
  BY <1>12 DEF OwnerKnows, Owning
<1>16. ASSUME NEW t \in Sessions, t # s PROVE OwnerKnows(t)'
  <2>1. OwnerKnows(t) /\ (pc[t] \in Owning => job[t] \in Job /\ job[t] # k)
    BY <1>0, <1>2, <1>16, OwnerAlone DEF RInv, Owning
  <2>2. pc[t] \in Owning => Started(job[t]) \in unit'.events /\ Committed(job[t]) \notin unit'.events
    BY <2>1, <1>6, Distinct DEF OwnerKnows
  <2> QED BY <2>1, <2>2, <1>6, <1>7, <1>11, <1>16 DEF OwnerKnows, RunsOf, NeverStarted
<1> QED BY <1>5, <1>8, <1>9, <1>10, <1>13, <1>14, <1>15, <1>16 DEF RInv

LEMMA ReviseKeeps ==
    ASSUME RInv, Revise
    PROVE  RInv'
<1>1. XType /\ Footprint /\ OneOwner /\ DurableInOrder /\ WInv
  BY DEF RInv
<1>2. /\ runRecord' \in [revision : Nat, runs : SUBSET Runs] /\ runRecord'.runs = runRecord.runs
      /\ UNCHANGED <<wvars, sources, attempts, pc, job, work, seen, result, told>> /\ unit' = unit
  BY <1>1 DEF Revise, XType, wvars
<1>3. \A x : RunsOf(x)' = RunsOf(x)
  BY <1>2 DEF RunsOf
<1>4. WInv'
  BY <1>1, <1>2, WStep
<1>5. XType'
  BY <1>1, <1>2 DEF XType
<1>6. Footprint'
  BY <1>1, <1>2 DEF Footprint, RunsOf, Begun
<1>7. OneOwner' /\ DurableInOrder'
  BY <1>1, <1>2 DEF OneOwner, DurableInOrder
<1>8. ASSUME NEW t \in Sessions PROVE OwnerKnows(t)'
  <2>1. OwnerKnows(t)
    BY DEF RInv
  <2> QED BY <2>1, <1>2 DEF OwnerKnows, RunsOf, NeverStarted
<1> QED BY <1>4, <1>5, <1>6, <1>7, <1>8 DEF RInv

LEMMA OthersKeep ==
    ASSUME RInv, Others
    PROVE  RInv'
<1>1. XType /\ Footprint /\ OneOwner /\ DurableInOrder /\ WInv /\ UNCHANGED xvars
  BY DEF RInv, Others
<1>2. Undisturbed
  BY <1>1, OthersDoNotDisturb
<1>3. WInv'
  BY <1>1, OthersAllowed, WStep
<1>4. XType'
  BY <1>1 DEF XType, xvars
<1>5. Footprint'
  <2>1. ASSUME NEW j \in Job, Started(j) \in unit'.events PROVE Begun(j.step)'
    <3>1. j.step \in Step
      BY DEF Job
    <3> QED BY <3>1, <2>1, <1>1, <1>2 DEF Footprint, Undisturbed
  <2>2. ASSUME NEW x \in Step
        PROVE  /\ attempts'[x] # 0 \/ RunsOf(x)' # {} => Begun(x)'
               /\ \A y, z \in RunsOf(x)' : y = z
    BY <1>1, <1>2 DEF Footprint, RunsOf, Undisturbed, xvars
  <2> QED BY <2>1, <2>2 DEF Footprint
<1>6. OneOwner'
  BY <1>1 DEF OneOwner, xvars
<1>7. DurableInOrder'
  BY <1>1, <1>2 DEF DurableInOrder, Undisturbed, xvars
<1>8. ASSUME NEW t \in Sessions PROVE OwnerKnows(t)'
  <2>1. OwnerKnows(t) /\ (pc[t] \in Owning => job[t] \in Job)
    BY <1>1 DEF RInv, XType, Owning
  <2> QED BY <2>1, <1>1, <1>2 DEF OwnerKnows, RunsOf, NeverStarted, Undisturbed, xvars
<1> QED BY <1>3, <1>4, <1>5, <1>6, <1>7, <1>8 DEF RInv

-----------------------------------------------------------------------------
(* The theorems.                                                              *)

LEMMA ExecutionInit ==
    ASSUME RInit
    PROVE  RInv
<1>1. WInv
  BY DEF RInit, WInit, WInv, WTypeOK, ReceiptKept, HeldInv
<1>2. XType
  BY DEF RInit, XInit, XType, Places
<1>3. runRecord.runs = {} /\ (\A x : RunsOf(x) = {}) /\ unit = NoUnit
  BY DEF RInit, XInit, WInit, RunsOf
<1>4. Footprint
  BY <1>3 DEF Footprint, RInit, XInit
<1>5. OneOwner /\ \A s \in Sessions : OwnerKnows(s)
  BY DEF RInit, XInit, OneOwner, OwnerKnows, Owning
<1>6. DurableInOrder
  BY <1>3 DEF DurableInOrder, RInit, XInit
<1> QED BY <1>1, <1>2, <1>4, <1>5, <1>6 DEF RInv

LEMMA ExecutionStep ==
    ASSUME RInv, [RNext]_rvars
    PROVE  RInv' /\ [WNext]_wvars
<1>1. CASE UNCHANGED rvars
  <2>1. UNCHANGED <<wvars, runRecord, sources, attempts, pc, job, work, seen, result, told>>
        /\ unit' = unit
    BY <1>1 DEF rvars, xvars, wvars
  <2>2. WInv'
    BY <2>1, WStep DEF RInv
  <2>3. XType' /\ Footprint' /\ OneOwner' /\ DurableInOrder'
    BY <2>1 DEF RInv, XType, Footprint, OneOwner, DurableInOrder, RunsOf, Begun
  <2>4. ASSUME NEW t \in Sessions PROVE OwnerKnows(t)'
    <3>1. OwnerKnows(t)
      BY DEF RInv
    <3> QED BY <3>1, <2>1 DEF OwnerKnows, RunsOf, NeverStarted
  <2> QED BY <2>1, <2>2, <2>3, <2>4 DEF RInv
<1>2. CASE Others
  BY <1>2, OthersKeep, OthersAllowed
<1>3. CASE Revise
  BY <1>3, ReviseKeeps DEF Revise
<1>4. ASSUME NEW s \in Sessions, Execute(s) PROVE RInv' /\ [WNext]_wvars
  <2>1. ASSUME NEW j \in Job, LoadWork(s, j) PROVE RInv' /\ [WNext]_wvars
    BY <2>1, LoadWorkKeeps DEF LoadWork
  <2>2. CASE NotTheWriter(s)
    BY <2>2, DoneAlone DEF NotTheWriter
  <2>3. CASE LoadRecord(s)
    BY <2>3, LoadRecordKeeps DEF LoadRecord
  <2>4. CASE Reuse(s)
    BY <2>4, DoneAlone DEF Reuse
  <2>5. CASE Start(s)
    BY <2>5, StartKeeps
  <2>6. CASE Launch(s)
    BY <2>6, LaunchKeeps DEF Launch
  <2>7. ASSUME NEW r \in Results \cup {Blocked}, Observe(s, r) PROVE RInv' /\ [WNext]_wvars
    BY <2>7, ObserveKeeps DEF Observe, Answers
  <2>8. CASE Adopt(s)
    BY <2>8, AdoptKeeps DEF Adopt
  <2>9. CASE Complete(s)
    BY <2>9, CompleteKeeps
  <2>10. CASE GiveUp(s)
    BY <2>10, DoneAlone DEF GiveUp
  <2> QED BY <1>4, <2>1, <2>2, <2>3, <2>4, <2>5, <2>6, <2>7, <2>8, <2>9, <2>10 DEF Execute
<1> QED BY <1>1, <1>2, <1>3, <1>4 DEF RNext

(* Killed, overtaken or taken over at any point, with any number of sessions: *)
(* a unit that says committed has its run in the record, a run in the record  *)
(* has its evidence, evidence has a unit that says started.                  *)
THEOREM ExecutionInOrder == RSpec => []DurableInOrder
<1>1. RInv => DurableInOrder
  BY DEF RInv
<1> QED BY <1>1, ExecutionInit, ExecutionStep, PTL DEF RSpec

(* An execution does to the work unit only what any writer may do, so what is *)
(* proved of the unit holds while scanners run.                              *)
THEOREM ExecutionUsesUnit == RSpec => WSpec
<1>1. RInit => WInit
  BY DEF RInit
<1> QED BY <1>1, ExecutionInit, ExecutionStep, PTL DEF RSpec, WSpec

(* So a step that began without being idempotent is never offered again while *)
(* its outcome is unproved: not even by a scanner run.                       *)
THEOREM ExecutionNeverOffersTwice == RSpec => []BegunNeedsProof
BY ExecutionUsesUnit, NoSecondRun, PTL

-----------------------------------------------------------------------------
(* One outcome.                                                               *)

LEMMA AdoptedIs ==
    ASSUME RInv, NEW x \in runRecord.runs
    PROVE  /\ x.step \in Step
           /\ Adopted[x.step] = [plan |-> x.plan, result |-> x.result]
           /\ Adopted[x.step] # None
<1>1. x \in Runs /\ x \in RunsOf(x.step)
  BY DEF RInv, XType, RunsOf
<1>2. x.step \in Step /\ [plan |-> x.plan, result |-> x.result] \in Outcome
  BY <1>1 DEF Runs, Outcome, Answers
<1>3. \A y \in RunsOf(x.step) : y = x
  BY <1>1, <1>2 DEF RInv, Footprint
<1>4. (CHOOSE y \in RunsOf(x.step) : TRUE) = x
  BY <1>1, <1>3
<1>5. Adopted[x.step] = [plan |-> x.plan, result |-> x.result]
  BY <1>1, <1>2, <1>4 DEF Adopted
<1> QED BY <1>2, <1>5, RunAssumption

LEMMA AdoptedStays ==
    ASSUME runRecord'.runs = runRecord.runs
    PROVE  Adopted' = Adopted
BY DEF Adopted, RunsOf

(* Answering with a run of the record tells the settled outcome.              *)
LEMMA ToldAsAdopted ==
    ASSUME RInv, NEW s \in Sessions, NEW k \in Job, NEW r \in Answers,
           Run(k, r) \in runRecord.runs, UNCHANGED <<runRecord, attempts>>,
           told' = [told EXCEPT ![s] = <<k.step, [plan |-> k.plan, result |-> r]>>]
    PROVE  One!ONext
<1>1. k.step \in Step /\ Adopted[k.step] = [plan |-> k.plan, result |-> r] /\ Adopted[k.step] # None
  BY AdoptedIs DEF Run
<1>2. Adopted' = Adopted
  BY AdoptedStays
<1>3. One!Tell(s, k.step)
  BY <1>1, <1>2 DEF One!Tell
<1> QED BY <1>1, <1>3 DEF One!ONext

LEMMA StepIsOne ==
    ASSUME RInv, [RNext]_rvars
    PROVE  One!ONext \/ UNCHANGED <<attempts, Adopted, told>>
<1>1. ASSUME UNCHANGED <<runRecord, attempts, told>> PROVE UNCHANGED <<attempts, Adopted, told>>
  BY <1>1, AdoptedStays
<1>2. ASSUME NEW s \in Sessions, UNCHANGED <<runRecord, attempts>>, told' = [told EXCEPT ![s] = None]
      PROVE  One!ONext
  <2>1. One!Forget(s)
    BY <1>2, AdoptedStays DEF One!Forget
  <2> QED BY <2>1 DEF One!ONext
<1>3. CASE UNCHANGED rvars
  BY <1>1, <1>3 DEF rvars, xvars
<1>4. CASE Others
  BY <1>1, <1>4 DEF Others, xvars
<1>5. CASE Revise
  <2>1. runRecord'.runs = runRecord.runs /\ UNCHANGED <<attempts, told>>
    BY <1>5 DEF Revise, RInv, XType
  <2> QED BY <2>1, AdoptedStays
<1>6. ASSUME NEW s \in Sessions, Execute(s)
      PROVE  One!ONext \/ UNCHANGED <<attempts, Adopted, told>>
  <2>1. ASSUME NEW j \in Job, LoadWork(s, j) PROVE One!ONext
    BY <2>1, <1>2 DEF LoadWork
  <2>2. CASE NotTheWriter(s)
    BY <2>2, <1>2 DEF NotTheWriter, Done
  <2>3. CASE LoadRecord(s)
    BY <2>3, <1>1 DEF LoadRecord
  <2>4. CASE Reuse(s)
    <3>1. PICK k \in Job : k = job[s]
      BY <2>4 DEF Reuse, RInv, XType
    <3>2. /\ Provable(s, work[s].receipt[k.step]) /\ UNCHANGED <<runRecord, attempts>>
          /\ told' = [told EXCEPT ![s] = <<k.step, [plan |-> k.plan, result |-> sources[Ref(k)]]>>]
          /\ seen[s].runs \subseteq runRecord.runs
      BY <2>4, <3>1 DEF Reuse, Done, RInv, OwnerKnows
    <3>3. Run(k, sources[Ref(k)]) \in runRecord.runs /\ sources[Ref(k)] # None
      BY <3>1, <3>2 DEF Provable
    <3>4. sources[Ref(k)] \in Answers
      BY <3>3 DEF RInv, XType
    <3> QED BY <3>2, <3>3, <3>4, ToldAsAdopted
  <2>5. CASE Start(s)
    BY <2>5, <1>1 DEF Start
  <2>6. CASE Launch(s)
    <3>1. PICK st \in Step : st = job[s].step
      BY <2>6 DEF Launch, RInv, XType, Job
    <3>2. attempts[st] = 0 /\ RunsOf(st) = {} /\ attempts' = [attempts EXCEPT ![st] = @ + 1]
          /\ UNCHANGED <<runRecord, told>>
      BY <2>6, <3>1 DEF Launch, RInv, OwnerKnows, Owning
    <3>3. Adopted[st] = None
      BY <3>2 DEF Adopted
    <3>4. attempts' = [attempts EXCEPT ![st] = 1]
      BY <3>2 DEF RInv, XType
    <3>5. One!Attempt(st)
      BY <3>2, <3>3, <3>4, AdoptedStays DEF One!Attempt
    <3> QED BY <3>5 DEF One!ONext
  <2>7. ASSUME NEW r \in Results \cup {Blocked}, Observe(s, r)
        PROVE  UNCHANGED <<attempts, Adopted, told>>
    BY <2>7, <1>1 DEF Observe
  <2>8. CASE Adopt(s)
    <3>1. PICK k \in Job : k = job[s]
      BY <2>8 DEF Adopt, RInv, XType
    <3>2. PICK r \in Answers : r = result[s]
      BY <2>8 DEF Adopt, RInv, OwnerKnows
    <3>3. /\ RunsOf(k.step) = {} /\ runRecord'.runs = runRecord.runs \cup {Run(k, r)}
          /\ UNCHANGED <<attempts, told>> /\ (r # Blocked => attempts[k.step] = 1)
      BY <2>8, <3>1, <3>2 DEF Adopt, RInv, OwnerKnows, Owning
    <3> DEFINE o == [plan |-> k.plan, result |-> r]
    <3>4. k.step \in Step /\ o \in Outcome /\ o.result = r
      BY DEF Job, Outcome, Answers
    <3>5. Adopted[k.step] = None
      BY <3>3, <3>4 DEF Adopted
    <3>6. Adopted' = [Adopted EXCEPT ![k.step] = o]
      <4>1. RunsOf(k.step)' = {Run(k, r)}
        BY <3>3 DEF RunsOf, Run
      <4>2. (CHOOSE y \in {Run(k, r)} : TRUE) = Run(k, r)
        OBVIOUS
      <4>3. Adopted'[k.step] = o
        BY <3>4, <4>1, <4>2 DEF Adopted, Run
      <4>4. \A x \in Step : x # k.step => RunsOf(x)' = RunsOf(x)
        BY <3>3 DEF RunsOf, Run
      <4>5. \A x \in Step : x # k.step => Adopted'[x] = Adopted[x]
        BY <4>4 DEF Adopted
      <4> QED BY <3>4, <4>3, <4>5 DEF Adopted
    <3>7. One!Settle(k.step, o)
      BY <3>3, <3>4, <3>5, <3>6 DEF One!Settle
    <3> QED BY <3>4, <3>7 DEF One!ONext
  <2>9. CASE Complete(s)
    <3>1. PICK k \in Job : k = job[s]
      BY <2>9 DEF Complete, RInv, XType
    <3>2. /\ Run(k, result[s]) \in runRecord.runs /\ result[s] \in Answers /\ UNCHANGED <<runRecord, attempts>>
          /\ told' = [told EXCEPT ![s] = <<k.step, [plan |-> k.plan, result |-> result[s]]>>]
      BY <2>9, <3>1 DEF Complete, Done, RInv, OwnerKnows
    <3> QED BY <3>2, ToldAsAdopted
  <2>10. CASE GiveUp(s)
    BY <2>10, <1>2 DEF GiveUp, Done
  <2> QED BY <1>6, <2>1, <2>2, <2>3, <2>4, <2>5, <2>6, <2>7, <2>8, <2>9, <2>10 DEF Execute
<1> QED BY <1>3, <1>4, <1>5, <1>6 DEF RNext

(* However sessions, takeovers, other writers, conflicts and kills interleave, *)
(* a step's process is started at most once, the record adopts one outcome of *)
(* it, and every answer is that outcome.                                     *)
THEOREM ImplementsOneOutcome == RSpec => OutcomeSpec
<1>1. RInit => One!OInit
  BY DEF RInit, XInit, One!OInit, Adopted, RunsOf
<1>2. RInv /\ [RNext]_rvars => [One!ONext]_<<attempts, Adopted, told>>
  BY StepIsOne
<1> QED BY <1>1, <1>2, ExecutionInit, ExecutionStep, PTL DEF RSpec, OutcomeSpec, One!OSpec, One!ovars
==============================================================================
