------------------------- MODULE PlanLifecycleProofs -------------------------
(* Theorems about the plan's files.  First about the store alone, for every   *)
(* set of processes, sidecars, gates and contents and any number of crashes   *)
(* and edits.  Then about the plan and gate commands: they use the store in   *)
(* the way its theorems assume, a gate record names the plan in force, and    *)
(* the sidecars stay coherent while no two freezes share a second.            *)
EXTENDS PlanLifecycle, UnlockedEdits, TLAPS

USE DEF work, procVars

-----------------------------------------------------------------------------
(* The store (PlanStore).                                                    *)

(* A change request names mutable sidecars only, whether it is a caller's or  *)
(* the removal rollback_all builds.                                          *)
LEMMA ChangeDomain ==
  ASSUME NEW ch \in Change \cup {NoChange}
  PROVE  /\ DOMAIN ch \subseteq Mutable
         /\ \A n \in DOMAIN ch : ch[n] \in Value
<1>1. CASE ch = NoChange
  BY <1>1 DEF NoChange
<1>2. CASE ch \in Change
  <2>1. PICK N \in (SUBSET Mutable) \ {{}} : ch \in [N -> Value]
    BY <1>2 DEF Change
  <2> QED BY <2>1
<1> QED BY <1>1, <1>2

LEMMA RemovalIsChange ==
  Present # {} => [n \in Present |-> Absent] \in Change
<1> SUFFICES ASSUME Present # {} PROVE [n \in Present |-> Absent] \in Change
  OBVIOUS
<1>1. Present \in (SUBSET Mutable) \ {{}}
  BY DEF Present
<1>2. [n \in Present |-> Absent] \in [Present -> Value]
  BY DEF Value
<1> QED BY <1>1, <1>2 DEF Change

LEMMA OutsideIsView ==
  ASSUME NEW v \in View, NEW N PROVE Outside(v, N) \in View
BY DEF Outside, View, Value

(* Type correctness holds whether or not the files are edited from outside.   *)
LEMMA TypeInit == Init => TypeOK
<1> SUFFICES ASSUME Init PROVE TypeOK
  OBVIOUS
<1>1. /\ disk \in View /\ journal \in Journals \cup {NoJournal}
      /\ orphan \in BOOLEAN /\ lock \in Proc \cup {Nobody}
      /\ crashes \in Nat /\ edits \in Nat
  BY DEF Init
<1>2. /\ pc \in [Proc -> Places] /\ kind \in [Proc -> Calls]
      /\ seen \in [Proc -> View \cup {NoView}]
      /\ want \in [Proc -> Change \cup {NoChange}]
      /\ todo \in [Proc -> SUBSET Mutable]
      /\ draft \in [Proc -> Journals \cup {NoJournal}]
      /\ checked \in [Proc -> SUBSET Mutable]
  BY DEF Init, Places, Calls
<1> QED BY <1>1, <1>2 DEF TypeOK

LEMMA LeaveType ==
  ASSUME TypeOK, NEW p \in Proc, NEW v \in View \cup {NoView}, Leave(p, v)
  PROVE  /\ lock' \in Proc \cup {Nobody}
         /\ pc' \in [Proc -> Places]
         /\ kind' \in [Proc -> Calls]
         /\ seen' \in [Proc -> View \cup {NoView}]
         /\ want' \in [Proc -> Change \cup {NoChange}]
         /\ todo' \in [Proc -> SUBSET Mutable]
         /\ draft' \in [Proc -> Journals \cup {NoJournal}]
         /\ checked' \in [Proc -> SUBSET Mutable]
BY DEF TypeOK, Leave, Places, Calls

(* The lock is held by exactly the process that is between taking it and      *)
(* releasing it.  A process that replays or drops a journal has one, one that *)
(* is about to write a journal has drafted it, and what a commit has chosen   *)
(* to change is part of what it was asked for.                               *)
LockInv == \A p \in Proc : pc[p] \in Holding <=> lock = p

Replaying == {"drop", "redo", "rewrite", "redone", "apply", "write", "applied"}

JournalHeld ==
    \A p \in Proc : /\ pc[p] \in Replaying => journal # NoJournal
                    /\ pc[p] = "noted" => draft[p] # NoJournal
                    /\ pc[p] = "chosen" => todo[p] \subseteq DOMAIN want[p]

Base == TypeOK /\ LockInv /\ JournalHeld

(* The journal that _commit drafts is well formed. *)
LEMMA NoteType ==
  ASSUME TypeOK, JournalHeld, NEW p \in Proc, CommitNote(p)
  PROVE  Drafted(p) \in Journals
<1>1. want[p] \in Change \cup {NoChange} /\ disk \in View
  BY DEF TypeOK
<1>2. todo[p] \in SUBSET Mutable /\ todo[p] \subseteq DOMAIN want[p]
  BY DEF CommitNote, Committing, TypeOK, JournalHeld
<1>3. \A n \in DOMAIN want[p] : want[p][n] \in Value
  BY <1>1, ChangeDomain
<1>4. \A n \in Mutable : disk[n] \in Value
  BY <1>1 DEF View, Consumers
<1>5. Outside(disk, todo[p]) \in View
  BY <1>1, OutsideIsView
<1>6. kind[p] \in {"publish", "rollback-all"}
  BY DEF CommitNote, Committing
<1> DEFINE pre == [n \in Mutable |-> disk[n]]
           new == [n \in Mutable |-> IF n \in todo[p] THEN want[p][n] ELSE disk[n]]
<1>7. pre \in [Mutable -> Value] /\ new \in [Mutable -> Value]
  BY <1>2, <1>3, <1>4
<1>8. Drafted(p) = [op |-> kind[p], phase |-> "PREPARED", names |-> todo[p],
                    pre |-> pre, new |-> new, rest |-> Outside(disk, todo[p])]
  BY DEF Drafted
<1> HIDE DEF pre, new
<1> QED BY <1>2, <1>5, <1>6, <1>7, <1>8 DEF Journals

LEMMA DraftType ==
  ASSUME TypeOK, JournalHeld, NEW p \in Proc, CommitPrepare(p)
  PROVE  journal' \in Journals
BY DEF TypeOK, JournalHeld, CommitPrepare, Committing

LEMMA ReplaceType ==
  ASSUME TypeOK, JournalHeld, NEW p \in Proc, NEW n \in Mutable, ApplyReplace(p, n)
  PROVE  disk' \in View /\ todo' \in [Proc -> SUBSET Mutable]
<1>1. journal \in Journals
  BY DEF ApplyReplace, Replacing, JournalHeld, Replaying, TypeOK
<1>2. journal.new[n] \in Value
  BY <1>1 DEF Journals
<1> QED BY <1>2 DEF ApplyReplace, TypeOK, View

LEMMA MarkType ==
  ASSUME TypeOK, JournalHeld, NEW p \in Proc, MarkCommitted(p)
  PROVE  journal' \in Journals
<1>1. journal \in Journals
  BY DEF MarkCommitted, Applying, JournalHeld, Replaying, TypeOK
<1> QED BY <1>1 DEF MarkCommitted, Journals

LEMMA TypeNext == Base /\ [EditNext]_vars => TypeOK'
<1> SUFFICES ASSUME TypeOK, JournalHeld, [EditNext]_vars PROVE TypeOK'
  BY DEF Base
<1>1. ASSUME NEW p \in Proc, Call(p) PROVE TypeOK'
  <2>1. ASSUME NEW k \in Calls, Read(p, k) PROVE TypeOK'
    BY <2>1 DEF TypeOK, Read, Begin, Places
  <2>2. ASSUME NEW ch \in Change, Publish(p, ch) PROVE TypeOK'
    BY <2>2 DEF TypeOK, Publish, Begin, Places, Calls
  <2>3. ASSUME RollbackAll(p) PROVE TypeOK'
    BY <2>3 DEF TypeOK, RollbackAll, Begin, Places, Calls
  <2> QED BY <1>1, <2>1, <2>2, <2>3 DEF Call
<1>2. ASSUME NEW p \in Proc, Acquire(p) PROVE TypeOK'
  BY <1>2 DEF TypeOK, Acquire, Places, Holding
<1>3. ASSUME NEW p \in Proc, Recovery(p) PROVE TypeOK'
  <2>1. CASE RecoverNone(p)
    BY <2>1 DEF TypeOK, RecoverNone, Goto, Places, Holding
  <2>2. CASE RecoverRefuse(p)
    BY <2>2, LeaveType DEF TypeOK, RecoverRefuse, Refuse
  <2>3. CASE RecoverDrop(p)
    BY <2>3 DEF TypeOK, RecoverDrop, Goto, Places, Holding
  <2>4. CASE RecoverForward(p)
    BY <2>4 DEF TypeOK, RecoverForward, Goto, Places, Holding, Journals
  <2>5. CASE RecoverDone(p)
    BY <2>5 DEF TypeOK, RecoverDone, Goto, Places, Holding
  <2> QED BY <1>3, <2>1, <2>2, <2>3, <2>4, <2>5 DEF Recovery
<1>4. ASSUME NEW p \in Proc, Replay(p) PROVE TypeOK'
  <2>1. ASSUME NEW n \in Mutable, ApplyReplace(p, n) PROVE TypeOK'
    <3>1. disk' \in View /\ todo' \in [Proc -> SUBSET Mutable]
      BY <2>1, ReplaceType
    <3> QED BY <2>1, <3>1 DEF ApplyReplace, Goto, TypeOK, Places, Holding
  <2>2. ASSUME NEW n \in Mutable, ApplyRefuse(p, n) \/ ApplyGone(p, n) PROVE TypeOK'
    BY <2>2, LeaveType DEF TypeOK, ApplyRefuse, ApplyGone, Refuse
  <2>4. ASSUME NEW n \in Mutable, ApplyCheck(p, n) PROVE TypeOK'
    BY <2>4 DEF TypeOK, ApplyCheck, Goto, Places, Holding
  <2>5. ASSUME NEW n \in Mutable, ApplySkip(p, n) PROVE TypeOK'
    BY <2>5 DEF TypeOK, ApplySkip
  <2>3. CASE MarkCommitted(p)
    BY <2>3, MarkType DEF TypeOK, MarkCommitted, Goto, Places, Holding
  <2> QED BY <1>4, <2>1, <2>2, <2>3, <2>4, <2>5 DEF Replay
<1>5. ASSUME NEW p \in Proc, Body(p) PROVE TypeOK'
  <2>1. CASE SnapshotDone(p)
    BY <2>1, LeaveType DEF TypeOK, SnapshotDone
  <2>11. CASE SnapshotRefuse(p)
    BY <2>11, LeaveType DEF TypeOK, SnapshotRefuse, Refuse
  <2>12. CASE SnapshotRead(p)
    BY <2>12 DEF TypeOK, SnapshotRead, Goto, Places, Holding
  <2>2. CASE RecoverOnly(p)
    BY <2>2, LeaveType DEF TypeOK, RecoverOnly, Refuse
  <2>3. CASE MeasureDone(p)
    <3>1. CASE Present = {}
      BY <2>3, <3>1, LeaveType DEF TypeOK, MeasureDone
    <3>2. CASE Present # {}
      BY <2>3, <3>2, RemovalIsChange DEF TypeOK, MeasureDone, Places, Calls
    <3> QED BY <3>1, <3>2
  <2>4. CASE CommitConflict(p)
    BY <2>4, LeaveType DEF TypeOK, CommitConflict, Refuse
  <2>5. CASE CommitNothing(p)
    BY <2>5, LeaveType DEF TypeOK, CommitNothing, Refuse
  <2>6. CASE CommitPrepare(p)
    <3>1. journal' \in Journals
      BY <2>6, DraftType
    <3> QED BY <2>6, <3>1 DEF TypeOK, CommitPrepare, Goto, Places, Holding
  <2>8. CASE CommitCompare(p)
    BY <2>8 DEF TypeOK, CommitCompare, Goto, Places, Holding
  <2>9. CASE CommitChoose(p)
    <3>1. want[p] \in Change \cup {NoChange}
      BY DEF TypeOK
    <3>2. Effective(p) \subseteq Mutable
      BY <3>1, ChangeDomain DEF Effective
    <3> QED BY <2>9, <3>2 DEF TypeOK, CommitChoose, Goto, Places, Holding
  <2>10. CASE CommitNote(p)
    <3>1. Drafted(p) \in Journals
      BY <2>10, NoteType
    <3> QED BY <2>10, <3>1 DEF TypeOK, CommitNote, Goto, Places, Holding
  <2>7. CASE CommitDone(p)
    BY <2>7, LeaveType DEF TypeOK, CommitDone
  <2> QED BY <1>5, <2>1, <2>2, <2>3, <2>4, <2>5, <2>6, <2>7, <2>8, <2>9, <2>10, <2>11, <2>12
          DEF Body
<1>6. ASSUME NEW p \in Proc, GateStep(p) PROVE TypeOK'
  <2>1. CASE GateOpen(p)
    BY <2>1 DEF TypeOK, GateOpen, Places, Holding
  <2>2. CASE GateRefuse(p)
    BY <2>2, LeaveType DEF TypeOK, GateRefuse, Refuse
  <2>3. CASE GateClose(p)
    BY <2>3, LeaveType DEF TypeOK, GateClose, Refuse
  <2>4. ASSUME NEW g \in Gates, NEW v \in Content, GateWrite(p, g, v) PROVE TypeOK'
    <3>1. disk' \in View
      BY <2>4 DEF TypeOK, GateWrite, View, Consumers, Value
    <3> QED BY <2>4, <3>1, LeaveType DEF TypeOK, GateWrite
  <2> QED BY <1>6, <2>1, <2>2, <2>3, <2>4 DEF GateStep
<1>7. ASSUME NEW p \in Proc, Abort(p) PROVE TypeOK'
  <2>1. orphan' \in {orphan, TRUE}
    BY <1>7 DEF Abort
  <2>2. orphan' \in BOOLEAN
    BY <2>1 DEF TypeOK
  <2>3. Leave(p, NoView) /\ crashes' = crashes + 1 /\ UNCHANGED <<disk, journal, edits>>
    BY <1>7 DEF Abort
  <2> QED BY <2>2, <2>3, LeaveType DEF TypeOK
<1>8. CASE Tidy
  BY <1>8 DEF TypeOK, Tidy, procVars
<1>9. ASSUME NEW c \in Consumers, NEW v \in Value, Edit(c, v) PROVE TypeOK'
  BY <1>9 DEF TypeOK, Edit, procVars, View
<1>10. CASE UNCHANGED vars
  BY <1>10 DEF TypeOK, vars
<1> QED BY <1>1, <1>2, <1>3, <1>4, <1>5, <1>6, <1>7, <1>8, <1>9, <1>10
        DEF EditNext, Next, Held

LEMMA LeaveLock ==
  ASSUME Base, NEW p \in Proc, NEW v, lock = p, Leave(p, v),
         journal' = journal \/ journal' = NoJournal
  PROVE  LockInv' /\ JournalHeld'
BY FilesAssumption DEF Base, TypeOK, LockInv, JournalHeld, Leave, Holding, Replaying

LEMMA GotoLock ==
  ASSUME Base, NEW p \in Proc, NEW place \in Holding, lock = p, Goto(p, place),
         place \in Replaying => journal' # NoJournal,
         place = "noted" => draft'[p] # NoJournal,
         place = "chosen" => todo'[p] \subseteq DOMAIN want[p]
  PROVE  LockInv' /\ JournalHeld'
BY FilesAssumption DEF Base, TypeOK, LockInv, JournalHeld, Goto, Holding, Replaying

LEMMA BeginLock ==
  ASSUME Base, NEW p \in Proc, NEW k, NEW ch, Begin(p, k, ch)
  PROVE  LockInv' /\ JournalHeld'
BY FilesAssumption DEF Base, TypeOK, LockInv, JournalHeld, Begin, Holding, Replaying

LEMMA LockNext == Base /\ [EditNext]_vars => LockInv' /\ JournalHeld'
<1> SUFFICES ASSUME Base, [EditNext]_vars PROVE LockInv' /\ JournalHeld'
  OBVIOUS
<1>0. \A p \in Proc : pc[p] \in Holding => lock = p
  BY DEF Base, LockInv
<1>1. ASSUME NEW p \in Proc, Call(p) PROVE LockInv' /\ JournalHeld'
  BY <1>1, BeginLock DEF Call, Read, Publish, RollbackAll
<1>2. ASSUME NEW p \in Proc, Acquire(p) PROVE LockInv' /\ JournalHeld'
  BY <1>2, FilesAssumption
     DEF Base, TypeOK, LockInv, JournalHeld, Acquire, Holding, Replaying
<1>3. ASSUME NEW p \in Proc, Recovery(p) PROVE LockInv' /\ JournalHeld'
  <2>1. lock = p
    BY <1>0, <1>3 DEF Recovery, RecoverNone, RecoverRefuse, RecoverDrop,
       RecoverForward, RecoverDone, Entered, Holding
  <2>2. CASE RecoverNone(p) \/ RecoverDone(p)
    <3>1. Goto(p, "body")
      BY <2>2 DEF RecoverNone, RecoverDone
    <3> QED BY <2>1, <3>1, GotoLock DEF Holding, Replaying
  <2>3. CASE RecoverRefuse(p)
    BY <2>1, <2>3, LeaveLock DEF RecoverRefuse, Refuse
  <2>4. CASE RecoverForward(p)
    BY <2>1, <2>4, GotoLock DEF RecoverForward, Holding, Replaying
  <2>5. CASE RecoverDrop(p)
    BY <2>1, <2>5, GotoLock DEF RecoverDrop, Holding, Replaying
  <2> QED BY <1>3, <2>2, <2>3, <2>4, <2>5 DEF Recovery
<1>4. ASSUME NEW p \in Proc, Replay(p) PROVE LockInv' /\ JournalHeld'
  <2>0. pc[p] \in Replaying /\ journal # NoJournal /\ pc[p] \in Holding
    BY <1>4 DEF Replay, ApplyCheck, ApplySkip, ApplyRefuse, ApplyReplace, ApplyGone,
       MarkCommitted, Applying, Replacing, Replaying, Holding, Base, JournalHeld
  <2>1. lock = p
    BY <1>0, <2>0
  <2>2. ASSUME NEW n \in Mutable, ApplyReplace(p, n) \/ ApplyCheck(p, n)
        PROVE LockInv' /\ JournalHeld'
    <3>1. PICK place \in {"redo", "apply", "rewrite", "write"} : Goto(p, place)
      BY <2>2 DEF ApplyReplace, ApplyCheck
    <3>2. journal' = journal
      BY <2>2 DEF ApplyReplace, ApplyCheck
    <3> QED BY <2>0, <2>1, <3>1, <3>2, GotoLock DEF Holding, Replaying
  <2>3. ASSUME NEW n \in Mutable, ApplyRefuse(p, n) \/ ApplyGone(p, n)
        PROVE LockInv' /\ JournalHeld'
    BY <2>1, <2>3, LeaveLock DEF ApplyRefuse, ApplyGone, Refuse
  <2>5. ASSUME NEW n \in Mutable, ApplySkip(p, n) PROVE LockInv' /\ JournalHeld'
    BY <2>0, <2>5 DEF ApplySkip, Base, TypeOK, LockInv, JournalHeld, Replaying
  <2>4. CASE MarkCommitted(p)
    <3>1. journal' \in Journals
      BY <2>4, MarkType DEF Base
    <3>2. journal' # NoJournal
      BY <3>1, FilesAssumption
    <3>3. Goto(p, "redone") \/ Goto(p, "applied")
      BY <2>4 DEF MarkCommitted
    <3> QED BY <2>1, <3>2, <3>3, GotoLock DEF Holding, Replaying
  <2> QED BY <1>4, <2>2, <2>3, <2>4, <2>5 DEF Replay
<1>5. ASSUME NEW p \in Proc, Body(p) PROVE LockInv' /\ JournalHeld'
  <2>1. lock = p
    BY <1>0, <1>5 DEF Body, SnapshotRefuse, SnapshotRead, SnapshotDone, RecoverOnly, MeasureDone, CommitConflict,
       CommitCompare, CommitNothing, CommitChoose, CommitNote, CommitPrepare, CommitDone,
       InBody, Committing, Holding
  <2>2. CASE SnapshotDone(p)
    BY <2>1, <2>2, LeaveLock DEF SnapshotDone
  <2>3. CASE SnapshotRefuse(p) \/ RecoverOnly(p) \/ CommitConflict(p) \/ CommitNothing(p)
    BY <2>1, <2>3, LeaveLock
       DEF SnapshotRefuse, RecoverOnly, CommitConflict, CommitNothing, Refuse
  <2>10. CASE SnapshotRead(p)
    BY <2>1, <2>10, GotoLock DEF SnapshotRead, Holding, Replaying
  <2>4. CASE MeasureDone(p)
    <3>1. CASE Present = {}
      BY <2>1, <2>4, <3>1, LeaveLock DEF MeasureDone
    <3>2. CASE Present # {}
      BY <2>1, <2>4, <3>2, FilesAssumption DEF MeasureDone, Base, TypeOK, LockInv,
         JournalHeld, Holding, Replaying
    <3> QED BY <3>1, <3>2
  <2>5. CASE CommitPrepare(p)
    <3>1. journal' \in Journals
      BY <2>5, DraftType DEF Base
    <3>2. journal' # NoJournal
      BY <3>1, FilesAssumption
    <3>3. Goto(p, "apply")
      BY <2>5 DEF CommitPrepare
    <3> QED BY <2>1, <3>2, <3>3, GotoLock DEF Holding
  <2>7. CASE CommitCompare(p)
    BY <2>1, <2>7, GotoLock DEF CommitCompare, Holding, Replaying
  <2>8. CASE CommitChoose(p)
    <3>1. todo'[p] \subseteq DOMAIN want[p]
      BY <2>8 DEF CommitChoose, Effective, Base, TypeOK
    <3> QED BY <2>1, <2>8, <3>1, GotoLock DEF CommitChoose, Holding, Replaying
  <2>9. CASE CommitNote(p)
    <3>1. Drafted(p) \in Journals
      BY <2>9, NoteType DEF Base
    <3>2. draft'[p] # NoJournal
      BY <2>9, <3>1, FilesAssumption DEF CommitNote, Base, TypeOK
    <3> QED BY <2>1, <2>9, <3>2, GotoLock DEF CommitNote, Holding, Replaying
  <2>6. CASE CommitDone(p)
    BY <2>1, <2>6, LeaveLock DEF CommitDone
  <2> QED BY <1>5, <2>2, <2>3, <2>4, <2>5, <2>6, <2>7, <2>8, <2>9, <2>10 DEF Body
<1>6. ASSUME NEW p \in Proc, GateStep(p) PROVE LockInv' /\ JournalHeld'
  <2>1. lock = p
    BY <1>0, <1>6 DEF GateStep, GateOpen, GateRefuse, GateClose, GateWrite, Holding
  <2>2. CASE GateOpen(p)
    BY <2>1, <2>2, FilesAssumption DEF GateOpen, Base, TypeOK, LockInv, JournalHeld,
       Holding, Replaying
  <2>3. CASE GateRefuse(p) \/ GateClose(p)
    BY <2>1, <2>3, LeaveLock DEF GateRefuse, GateClose, Refuse
  <2>4. ASSUME NEW g \in Gates, NEW v \in Content, GateWrite(p, g, v)
        PROVE LockInv' /\ JournalHeld'
    BY <2>1, <2>4, LeaveLock DEF GateWrite
  <2> QED BY <1>6, <2>2, <2>3, <2>4 DEF GateStep
<1>7. ASSUME NEW p \in Proc, Abort(p) PROVE LockInv' /\ JournalHeld'
  BY <1>0, <1>7, LeaveLock DEF Abort
<1>8. CASE Tidy \/ \E c \in Consumers : \E v \in Value : Edit(c, v)
  BY <1>8 DEF Tidy, Edit, procVars, Base, LockInv, JournalHeld
<1>9. CASE UNCHANGED vars
  BY <1>9 DEF vars, Base, LockInv, JournalHeld
<1> QED BY <1>1, <1>2, <1>3, <1>4, <1>5, <1>6, <1>7, <1>8, <1>9
        DEF EditNext, Next, Held

LEMMA BaseInit == Init => Base
<1> SUFFICES ASSUME Init PROVE Base
  OBVIOUS
<1>1. TypeOK
  BY TypeInit
<1>2. LockInv /\ JournalHeld
  BY FilesAssumption DEF Init, LockInv, JournalHeld, Holding, Replaying
<1> QED BY <1>1, <1>2 DEF Base

LEMMA BaseInvariant == EditSpec => []Base
<1>1. Base /\ [EditNext]_vars => Base'
  BY TypeNext, LockNext DEF Base
<1> QED BY BaseInit, <1>1, PTL DEF EditSpec

(* Every variable keeps its domain, whoever crashes and whatever is edited    *)
(* behind the tool's back.                                                   *)
THEOREM TypeCorrect == EditSpec => []TypeOK
<1>1. Base => TypeOK
  BY DEF Base
<1> QED BY BaseInvariant, <1>1, PTL

-----------------------------------------------------------------------------
(* The journal is always resolvable while only the tool touches the files.    *)

(* The entries really change something, and outside them nothing moved since *)
(* the journal was written.                                                  *)
JournalShape ==
    journal # NoJournal =>
        /\ journal.names # {}
        /\ \A n \in journal.names : journal.pre[n] # journal.new[n]
        /\ \A n \in journal.names : disk[n] \in {journal.pre[n], journal.new[n]}
        /\ Outside(disk, journal.names) = journal.rest
        /\ journal.phase = "COMMITTED" => Applied = journal.names

(* What the process that holds the lock knows about the journal. *)
HolderKnows ==
    \A p \in Proc :
        /\ pc[p] \in {"redo", "rewrite", "apply", "write"} =>
               /\ journal.phase = "PREPARED"
               /\ todo[p] = journal.names \ Applied
        /\ pc[p] \in {"rewrite", "write"} => checked[p] \subseteq todo[p]
        /\ pc[p] \in {"redo", "rewrite"} => Applied # {}
        /\ pc[p] \in {"redone", "applied"} => journal.phase = "COMMITTED"
        /\ pc[p] = "drop" => Applied = {} \/ Applied = journal.names
        /\ pc[p] \in {"body", "read", "gating", "compared", "chosen", "noted"} =>
               journal = NoJournal
        /\ pc[p] \in {"gating", "compared", "chosen", "noted"} => seen[p] = disk
        /\ pc[p] \in {"chosen", "noted"} => todo[p] = Effective(p) /\ todo[p] # {}
        /\ pc[p] = "noted" => draft[p] = Drafted(p)
        /\ pc[p] \in {"apply", "write"} => seen[p] \in View
        /\ pc[p] \in {"apply", "write"} =>
               \A c \in Consumers :
                   seen[p][c] = IF c \in journal.names THEN journal.pre[c] ELSE disk[c]

IInv == Base /\ JournalShape /\ HolderKnows

(* What a step of another process leaves alone. *)
Kept(q) == /\ pc'[q] = pc[q] /\ kind'[q] = kind[q] /\ seen'[q] = seen[q]
           /\ want'[q] = want[q] /\ todo'[q] = todo[q]
           /\ draft'[q] = draft[q] /\ checked'[q] = checked[q]

(* A step of the tool that is not the holder's own leaves what the holder     *)
(* knows alone.                                                              *)
LEMMA Bystander ==
  ASSUME IInv, UNCHANGED <<disk, journal>>,
         NEW p \in Proc,
         \A q \in Proc \ {p} : Kept(q),
         pc'[p] \in {"idle", "waiting", "locked"}
  PROVE  JournalShape' /\ HolderKnows'
<1>1. JournalShape'
  BY DEF IInv, JournalShape, Applied, Outside
<1>2. Applied' = Applied
  BY DEF Applied
<1>3. ASSUME NEW q \in Proc \ {p} PROVE Effective(q)' = Effective(q) /\ Drafted(q)' = Drafted(q)
  BY <1>3 DEF Effective, Drafted, Outside, Kept
<1>4. HolderKnows'
  BY <1>2, <1>3 DEF IInv, HolderKnows, Kept
<1> QED BY <1>1, <1>4

LEMMA LeaveKnows ==
  ASSUME IInv, NEW p \in Proc, NEW v, Leave(p, v), UNCHANGED <<disk, journal>>
  PROVE  JournalShape' /\ HolderKnows'
BY Bystander DEF IInv, Base, TypeOK, Leave, Kept

(* Only one process at a time is inside the lock. *)
LEMMA OthersOutside ==
  ASSUME IInv, NEW p \in Proc, lock = p
  PROVE  \A q \in Proc \ {p} : pc[q] \notin Holding
BY DEF IInv, Base, LockInv

(* When no journal is left there is nothing to know about it. *)
LEMMA DropKnows ==
  ASSUME IInv, NEW p \in Proc, lock = p, journal' = NoJournal,
         \A q \in Proc \ {p} : pc'[q] = pc[q],
         pc'[p] \in {"idle", "waiting", "locked", "body"}
  PROVE  JournalShape' /\ HolderKnows'
<1>1. JournalShape'
  BY DEF JournalShape
<1>2. HolderKnows'
  BY OthersOutside DEF HolderKnows, Holding
<1> QED BY <1>1, <1>2

LEMMA ReplaceShape ==
  ASSUME IInv, NEW p \in Proc, NEW n \in Mutable, ApplyReplace(p, n)
  PROVE  /\ journal \in Journals
         /\ n \in journal.names \ Applied
         /\ disk[n] = journal.pre[n] /\ disk' = [disk EXCEPT ![n] = journal.new[n]]
         /\ Applied' = Applied \cup {n}
         /\ Outside(disk', journal.names) = Outside(disk, journal.names)
<1>0. journal # NoJournal /\ pc[p] \in {"rewrite", "write"}
  BY DEF ApplyReplace, Replacing, IInv, Base, JournalHeld, Replaying
<1>1. journal \in Journals
  BY <1>0 DEF IInv, Base, TypeOK
<1>2. n \in todo[p] /\ todo[p] = journal.names \ Applied
  BY <1>0 DEF ApplyReplace, IInv, HolderKnows
<1>3. disk' = [disk EXCEPT ![n] = journal.new[n]] /\ journal' = journal
  BY DEF ApplyReplace
<1>4. disk \in View /\ journal.names \subseteq Mutable
  BY <1>1 DEF IInv, Base, TypeOK, Journals
<1>5. Applied' = Applied \cup {n}
  BY <1>2, <1>3, <1>4 DEF Applied, View, Consumers
<1>6. Outside(disk', journal.names) = Outside(disk, journal.names)
  BY <1>2, <1>3, <1>4 DEF Outside, View
<1>7. disk[n] = journal.pre[n]
  BY <1>0, <1>2 DEF IInv, JournalShape, Applied
<1> QED BY <1>1, <1>2, <1>3, <1>5, <1>6, <1>7

(* Without edits no entry deletes what is not there. *)
LEMMA NothingSkipped ==
  ASSUME IInv, NEW p \in Proc, NEW n \in Mutable
  PROVE  ~ApplySkip(p, n)
<1> SUFFICES ASSUME ApplySkip(p, n) PROVE FALSE
  OBVIOUS
<1>1. pc[p] \in {"redo", "apply"} /\ n \in todo[p] /\ journal.pre[n] = journal.new[n]
  BY DEF ApplySkip, Applying, Nothing, FirstOf
<1>2. n \in journal.names /\ journal # NoJournal
  BY <1>1 DEF IInv, HolderKnows, Base, JournalHeld, Replaying
<1> QED BY <1>1, <1>2 DEF IInv, JournalShape

LEMMA PrepareShape ==
  ASSUME IInv, NEW p \in Proc, CommitPrepare(p)
  PROVE  /\ journal' \in Journals /\ journal = NoJournal
         /\ journal'.names = Effective(p) /\ Effective(p) # {}
         /\ Effective(p) \subseteq Mutable
         /\ journal'.phase = "PREPARED"
         /\ \A n \in Effective(p) : /\ journal'.pre[n] = disk[n]
                                     /\ journal'.new[n] # disk[n]
                                     /\ journal'.new[n] = want[p][n]
         /\ journal'.rest = Outside(disk, Effective(p))
         /\ Applied' = {}
         /\ todo' = todo /\ todo[p] = Effective(p)
         /\ disk' = disk /\ seen' = seen /\ seen[p] = disk
<1>0. pc[p] = "noted" /\ journal' = draft[p] /\ todo' = todo /\ disk' = disk /\ seen' = seen
  BY DEF CommitPrepare, Committing, Goto
<1>1. /\ draft[p] = Drafted(p) /\ todo[p] = Effective(p) /\ todo[p] # {}
      /\ seen[p] = disk /\ journal = NoJournal
  BY <1>0 DEF IInv, HolderKnows
<1>2. journal' \in Journals /\ todo[p] \subseteq Mutable
  BY DraftType DEF IInv, Base, TypeOK
<1>3. /\ journal'.names = Effective(p)
      /\ journal'.phase = "PREPARED"
      /\ journal'.pre = [n \in Mutable |-> disk[n]]
      /\ journal'.new = [n \in Mutable |-> IF n \in todo[p] THEN want[p][n] ELSE disk[n]]
      /\ journal'.rest = Outside(disk, Effective(p))
  BY <1>0, <1>1 DEF Drafted
<1>4. \A n \in Effective(p) : /\ journal'.pre[n] = disk[n] /\ journal'.new[n] # disk[n]
                              /\ journal'.new[n] = want[p][n]
  BY <1>1, <1>2, <1>3 DEF Effective
<1>5. Applied' = {}
  BY <1>0, <1>3, <1>4 DEF Applied
<1> QED BY <1>0, <1>1, <1>2, <1>3, <1>4, <1>5

LEMMA BaseNext == Base /\ [EditNext]_vars => Base'
BY TypeNext, LockNext DEF Base

(* The inductive step, action by action. *)
LEMMA IInvNext == IInv /\ [Next]_vars => IInv'
<1> SUFFICES ASSUME IInv, [Next]_vars PROVE JournalShape' /\ HolderKnows'
  BY BaseNext DEF IInv, EditNext
<1>0. \A p \in Proc : pc[p] \in Holding => lock = p
  BY DEF IInv, Base, LockInv
<1>1. ASSUME NEW p \in Proc, Call(p) PROVE JournalShape' /\ HolderKnows'
  BY <1>1, Bystander
     DEF Call, Read, Publish, RollbackAll, Begin, IInv, Base, TypeOK, Kept
<1>2. ASSUME NEW p \in Proc, Acquire(p) PROVE JournalShape' /\ HolderKnows'
  BY <1>2, Bystander DEF Acquire, IInv, Base, TypeOK, Kept
<1>3. ASSUME NEW p \in Proc, Recovery(p) PROVE JournalShape' /\ HolderKnows'
  <2>1. lock = p
    BY <1>0, <1>3 DEF Recovery, RecoverNone, RecoverRefuse, RecoverDrop,
       RecoverForward, RecoverDone, Entered, Holding
  <2>2. CASE RecoverNone(p)
    BY <2>1, <2>2, DropKnows DEF RecoverNone, Goto, IInv, Base, TypeOK
  <2>3. CASE RecoverRefuse(p)
    BY <2>3, LeaveKnows DEF RecoverRefuse, Refuse
  <2>4. CASE RecoverDone(p)
    <3>1. journal' = NoJournal /\ Goto(p, "body")
      BY <2>4 DEF RecoverDone
    <3> QED BY <2>1, <3>1, DropKnows DEF Goto, IInv, Base, TypeOK
  <2>6. CASE RecoverDrop(p)
    <3>1. /\ Applied = {} \/ Applied = journal.names
          /\ pc' = [pc EXCEPT ![p] = "drop"]
          /\ UNCHANGED <<disk, journal>>
      BY <2>6 DEF RecoverDrop, Goto
    <3>2. JournalShape' /\ Applied' = Applied
      BY <3>1 DEF IInv, JournalShape, Applied, Outside
    <3>3. HolderKnows'
      BY <2>1, <3>1, <3>2, OthersOutside DEF IInv, Base, TypeOK, HolderKnows, Holding
    <3> QED BY <3>2, <3>3
  <2>5. CASE RecoverForward(p)
    <3>1. /\ journal.phase = "PREPARED" /\ Applied # {}
          /\ todo' = [todo EXCEPT ![p] = journal.names \ Applied]
          /\ pc' = [pc EXCEPT ![p] = "redo"]
          /\ UNCHANGED <<disk, journal, seen>>
      BY <2>5 DEF RecoverForward, Goto
    <3>2. JournalShape'
      BY <3>1 DEF IInv, JournalShape, Applied, Outside
    <3>3. HolderKnows'
      BY <2>1, <3>1, OthersOutside
         DEF IInv, Base, TypeOK, HolderKnows, Applied, Holding
    <3> QED BY <3>2, <3>3
  <2> QED BY <1>3, <2>2, <2>3, <2>4, <2>5, <2>6 DEF Recovery
<1>4. ASSUME NEW p \in Proc, Replay(p) PROVE JournalShape' /\ HolderKnows'
  <2>1. lock = p
    BY <1>0, <1>4 DEF Replay, ApplyCheck, ApplySkip, ApplyRefuse, ApplyReplace, ApplyGone,
       MarkCommitted, Applying, Replacing, Holding
  <2>2. ASSUME NEW n \in Mutable, ApplyReplace(p, n) PROVE JournalShape' /\ HolderKnows'
    <3>1. /\ journal \in Journals /\ n \in journal.names \ Applied
          /\ disk[n] = journal.pre[n] /\ disk' = [disk EXCEPT ![n] = journal.new[n]]
          /\ Applied' = Applied \cup {n}
          /\ Outside(disk', journal.names) = Outside(disk, journal.names)
      BY <2>2, ReplaceShape
    <3>2. /\ UNCHANGED <<journal, seen>>
          /\ todo' = [todo EXCEPT ![p] = @ \ {n}]
          /\ pc[p] \in {"rewrite", "write"}
          /\ pc' = [pc EXCEPT ![p] = IF pc[p] = "rewrite" THEN "redo" ELSE "apply"]
      BY <2>2 DEF ApplyReplace, Replacing, Goto
    <3>3. disk \in View /\ n \in Consumers /\ todo \in [Proc -> SUBSET Mutable]
      BY DEF IInv, Base, TypeOK, Consumers
    <3>4. journal.phase = "PREPARED" /\ todo[p] = journal.names \ Applied
      BY <3>2 DEF IInv, HolderKnows
    <3>5. JournalShape'
      BY <3>1, <3>2, <3>3, <3>4 DEF IInv, JournalShape, View
    <3>6. \A q \in Proc \ {p} : pc[q] \notin Holding
      BY <2>1, OthersOutside
    <3>7. todo'[p] = journal.names \ Applied'
      BY <3>1, <3>2, <3>3, <3>4
    <3>8. pc[p] = "write" =>
             /\ seen[p] \in View
             /\ \A c \in Consumers :
                   seen[p][c] = IF c \in journal.names THEN journal.pre[c] ELSE disk'[c]
      BY <3>1, <3>3 DEF IInv, HolderKnows, View
    <3>10. pc \in [Proc -> Places]
      BY DEF IInv, Base, TypeOK
    <3>11. /\ pc'[p] \in {"redo", "apply"} /\ (pc'[p] = "apply" => pc[p] = "write")
           /\ \A q \in Proc \ {p} : pc'[q] = pc[q]
      BY <3>2, <3>10
    <3>9. HolderKnows'
      BY <3>1, <3>2, <3>4, <3>6, <3>7, <3>8, <3>11 DEF HolderKnows, Holding
    <3> QED BY <3>5, <3>9
  <2>3. ASSUME NEW n \in Mutable, ApplyRefuse(p, n) \/ ApplyGone(p, n)
        PROVE JournalShape' /\ HolderKnows'
    BY <2>3, LeaveKnows DEF ApplyRefuse, ApplyGone, Refuse
  <2>5. ASSUME NEW n \in Mutable, ApplyCheck(p, n) PROVE JournalShape' /\ HolderKnows'
    <3>1. /\ pc[p] \in {"redo", "apply"} /\ n \in todo[p]
          /\ pc'[p] = IF pc[p] = "redo" THEN "rewrite" ELSE "write"
          /\ checked'[p] = {n}
          /\ UNCHANGED <<disk, journal, seen, todo>>
          /\ \A q \in Proc \ {p} : pc'[q] = pc[q]
      BY <2>5 DEF ApplyCheck, Applying, FirstOf, Goto, IInv, Base, TypeOK
    <3>2. JournalShape' /\ Applied' = Applied
      BY <3>1 DEF IInv, JournalShape, Applied, Outside
    <3>3. HolderKnows'
      BY <2>1, <3>1, <3>2, OthersOutside DEF IInv, HolderKnows, Holding
    <3> QED BY <3>2, <3>3
  <2>4. CASE MarkCommitted(p)
    <3>1. /\ pc[p] \in {"redo", "apply"} /\ todo[p] = {}
          /\ journal' = [journal EXCEPT !.phase = "COMMITTED"]
          /\ UNCHANGED <<disk, seen, todo>>
          /\ pc'[p] \in {"redone", "applied"}
          /\ \A q \in Proc \ {p} : pc'[q] = pc[q]
      BY <2>4 DEF MarkCommitted, Applying, Goto, IInv, Base, TypeOK
    <3>2. journal \in Journals
      BY <3>1 DEF IInv, Base, JournalHeld, Replaying, TypeOK
    <3>3. /\ journal'.names = journal.names /\ journal'.pre = journal.pre
          /\ journal'.new = journal.new /\ journal'.rest = journal.rest
          /\ journal'.phase = "COMMITTED"
      BY <3>1, <3>2 DEF Journals
    <3>4. Applied = journal.names
      BY <3>1 DEF IInv, HolderKnows, Applied
    <3>5. Applied' = Applied
      BY <3>1, <3>3 DEF Applied
    <3>6. journal # NoJournal
      BY <3>2, FilesAssumption
    <3>7. JournalShape'
      BY <3>1, <3>3, <3>4, <3>5, <3>6 DEF IInv, JournalShape, Outside
    <3>8. HolderKnows'
      BY <2>1, <3>1, <3>3, OthersOutside DEF HolderKnows, Holding
    <3> QED BY <3>7, <3>8
  <2> QED BY <1>4, <2>2, <2>3, <2>4, <2>5, NothingSkipped DEF Replay
<1>5. ASSUME NEW p \in Proc, Body(p) PROVE JournalShape' /\ HolderKnows'
  <2>1. lock = p
    BY <1>0, <1>5 DEF Body, SnapshotRefuse, SnapshotRead, SnapshotDone, RecoverOnly, MeasureDone, CommitConflict,
       CommitCompare, CommitNothing, CommitChoose, CommitNote, CommitPrepare, CommitDone,
       InBody, Committing, Holding
  <2>2. CASE SnapshotDone(p)
    BY <2>2, LeaveKnows DEF SnapshotDone
  <2>3. CASE SnapshotRefuse(p) \/ RecoverOnly(p) \/ CommitConflict(p) \/ CommitNothing(p)
    BY <2>3, LeaveKnows DEF SnapshotRefuse, RecoverOnly, CommitConflict, CommitNothing, Refuse
  <2>10. CASE SnapshotRead(p)
    <3>1. /\ journal' = NoJournal /\ pc'[p] = "read"
          /\ \A q \in Proc \ {p} : pc'[q] = pc[q]
      BY <2>10 DEF SnapshotRead, InBody, Goto, IInv, HolderKnows, Base, TypeOK
    <3> QED BY <2>1, <3>1, OthersOutside DEF JournalShape, HolderKnows, Holding
  <2>4. CASE MeasureDone(p)
    <3>1. CASE Present = {}
      BY <2>4, <3>1, LeaveKnows DEF MeasureDone
    <3>2. CASE Present # {}
      BY <2>4, <3>2, Bystander DEF MeasureDone, IInv, Base, TypeOK, Kept
    <3> QED BY <3>1, <3>2
  <2>5. CASE CommitPrepare(p)
    <3> DEFINE e == Effective(p)
    <3>1. /\ journal' \in Journals /\ journal'.names = e /\ e # {}
          /\ e \subseteq Mutable
          /\ journal'.phase = "PREPARED"
          /\ \A n \in e : journal'.pre[n] = disk[n] /\ journal'.new[n] # disk[n]
          /\ journal'.rest = Outside(disk, e)
          /\ Applied' = {} /\ todo' = todo /\ todo[p] = e
          /\ disk' = disk /\ seen' = seen /\ seen[p] = disk
      BY <2>5, PrepareShape
    <3>2. pc' = [pc EXCEPT ![p] = "apply"]
      BY <2>5 DEF CommitPrepare, Goto
    <3>3. \A q \in Proc \ {p} : pc[q] \notin Holding
      BY <2>1, OthersOutside
    <3>4. pc \in [Proc -> Places] /\ todo \in [Proc -> SUBSET Mutable] /\ disk \in View
      BY DEF IInv, Base, TypeOK
    <3> HIDE DEF e
    <3>5. JournalShape'
      BY <3>1 DEF JournalShape, Outside
    <3>6. seen'[p] \in View /\ pc'[p] = "apply" /\ todo'[p] = journal'.names \ Applied'
      BY <3>1, <3>2, <3>4
    <3>7. \A c \in Consumers :
             seen'[p][c] = IF c \in journal'.names THEN journal'.pre[c] ELSE disk'[c]
      BY <3>1
    <3>8. \A q \in Proc \ {p} : pc'[q] \notin Holding
      BY <3>2, <3>3, <3>4
    <3>9. HolderKnows'
      BY <3>1, <3>6, <3>7, <3>8 DEF HolderKnows, Holding
    <3> QED BY <3>5, <3>9
  <2>6. CASE CommitDone(p)
    BY <2>1, <2>6, DropKnows DEF CommitDone, Leave, IInv, Base, TypeOK
  <2>7. CASE CommitCompare(p)
    <3>1. /\ journal' = NoJournal /\ UNCHANGED <<disk, seen>> /\ seen[p] = disk
          /\ pc'[p] = "compared" /\ \A q \in Proc \ {p} : pc'[q] = pc[q]
      BY <2>7 DEF CommitCompare, Committing, Goto, IInv, HolderKnows, Base, TypeOK
    <3> QED BY <2>1, <3>1, OthersOutside DEF JournalShape, HolderKnows, Holding
  <2>8. CASE CommitChoose(p)
    <3>1. /\ journal' = NoJournal /\ UNCHANGED <<disk, seen, want>> /\ seen[p] = disk
          /\ todo'[p] = Effective(p) /\ Effective(p) # {}
          /\ pc'[p] = "chosen" /\ \A q \in Proc \ {p} : pc'[q] = pc[q]
      BY <2>8 DEF CommitChoose, Committing, Goto, IInv, HolderKnows, Base, TypeOK
    <3>2. Effective(p)' = Effective(p)
      BY <3>1 DEF Effective
    <3> QED BY <2>1, <3>1, <3>2, OthersOutside DEF JournalShape, HolderKnows, Holding
  <2>9. CASE CommitNote(p)
    <3>1. /\ journal' = NoJournal /\ UNCHANGED <<disk, seen, want, kind, todo>> /\ seen[p] = disk
          /\ todo[p] = Effective(p) /\ todo[p] # {}
          /\ pc'[p] = "noted" /\ \A q \in Proc \ {p} : pc'[q] = pc[q]
      BY <2>9 DEF CommitNote, Committing, Goto, IInv, HolderKnows, Base, TypeOK
    <3>2. Effective(p)' = Effective(p) /\ Drafted(p)' = Drafted(p)
      BY <3>1 DEF Effective, Drafted, Outside
    <3>3. draft'[p] = Drafted(p)
      BY <2>9 DEF CommitNote, IInv, Base, TypeOK
    <3> QED BY <2>1, <3>1, <3>2, <3>3, OthersOutside DEF JournalShape, HolderKnows, Holding
  <2> QED BY <1>5, <2>2, <2>3, <2>4, <2>5, <2>6, <2>7, <2>8, <2>9, <2>10 DEF Body
<1>6. ASSUME NEW p \in Proc, GateStep(p) PROVE JournalShape' /\ HolderKnows'
  <2>1. lock = p
    BY <1>0, <1>6 DEF GateStep, GateOpen, GateRefuse, GateClose, GateWrite, Holding
  <2>2. CASE GateOpen(p)
    <3>1. /\ journal' = NoJournal /\ disk' = disk
          /\ pc' = [pc EXCEPT ![p] = "gating"]
          /\ seen' = [seen EXCEPT ![p] = disk]
      BY <2>2 DEF GateOpen
    <3>2. JournalShape'
      BY <3>1 DEF JournalShape
    <3>3. HolderKnows'
      BY <2>1, <3>1, OthersOutside DEF HolderKnows, Holding, IInv, Base, TypeOK
    <3> QED BY <3>2, <3>3
  <2>3. CASE GateRefuse(p) \/ GateClose(p)
    BY <2>3, LeaveKnows DEF GateRefuse, GateClose, Refuse
  <2>4. ASSUME NEW g \in Gates, NEW v \in Content, GateWrite(p, g, v)
        PROVE JournalShape' /\ HolderKnows'
    <3>1. journal' = NoJournal
      BY <2>4 DEF GateWrite, IInv, HolderKnows
    <3> QED BY <2>1, <2>4, <3>1, DropKnows DEF GateWrite, Leave, IInv, Base, TypeOK
  <2> QED BY <1>6, <2>2, <2>3, <2>4 DEF GateStep
<1>7. ASSUME NEW p \in Proc, Abort(p) PROVE JournalShape' /\ HolderKnows'
  BY <1>7, LeaveKnows DEF Abort
<1>8. CASE Tidy \/ UNCHANGED vars
  BY <1>8 DEF Tidy, vars, IInv, JournalShape, HolderKnows, Applied, Outside, Effective,
     Drafted
<1> QED BY <1>1, <1>2, <1>3, <1>4, <1>5, <1>6, <1>7, <1>8 DEF Next, Held

LEMMA IInvInit == Init => IInv
<1> SUFFICES ASSUME Init PROVE IInv
  OBVIOUS
<1>1. JournalShape /\ HolderKnows
  BY DEF Init, JournalShape, HolderKnows
<1> QED BY <1>1, BaseInit DEF IInv

LEMMA IInvInvariant == Spec => []IInv
BY IInvInit, IInvNext, PTL DEF Spec

(* No order of calls, crashes and recoveries leaves a journal that recovery   *)
(* would have to refuse.                                                     *)
THEOREM JournalAlwaysResolvable == Spec => []JournalResolvable
<1>1. IInv => JournalResolvable
  BY DEF IInv, JournalShape, JournalResolvable, Foreign
<1> QED BY <1>1, IInvInvariant, PTL

-----------------------------------------------------------------------------
(* The protocol implements one atomic register. *)

(* A journal none of whose entries is applied, and a finished one, are        *)
(* invisible: the readers' files are the files on disk.                      *)
LEMMA FilesOnDisk ==
  ASSUME IInv, journal = NoJournal \/ Applied = {} \/ Applied = journal.names
  PROVE  Files = disk
<1>1. disk \in View
  BY DEF IInv, Base, TypeOK
<1>2. CASE Applied = journal.names /\ journal # NoJournal /\ Applied # {}
  BY <1>1, <1>2 DEF Files, Applied, View
<1> QED BY <1>2 DEF Files

LEMMA SameFiles ==
  ASSUME UNCHANGED <<disk, journal>> PROVE Files' = Files
BY DEF Files, Applied

LEMMA LeaveForgets ==
  ASSUME IInv, NEW p \in Proc, Leave(p, NoView), Files' = Files
  PROVE  Atomic!AForget(p)
BY DEF Leave, Atomic!AForget

LEMMA Stutter ==
  ASSUME UNCHANGED seen, Files' = Files PROVE UNCHANGED Atomic!avars
BY DEF Atomic!avars

LEMMA ApplyPublishes ==
  ASSUME IInv, NEW p \in Proc, NEW n \in Mutable, ApplyReplace(p, n)
  PROVE  [Atomic!ANext]_(Atomic!avars)
<1>1. /\ journal \in Journals /\ n \in journal.names \ Applied
      /\ disk' = [disk EXCEPT ![n] = journal.new[n]]
      /\ Applied' = Applied \cup {n}
      /\ journal' = journal /\ seen' = seen
  BY ReplaceShape DEF ApplyReplace, Goto
<1>2. journal # NoJournal /\ disk \in View /\ journal.names \subseteq Mutable
  BY <1>1, FilesAssumption DEF IInv, Base, TypeOK, Journals
<1>3. Files' = [c \in Consumers |-> IF c \in journal.names THEN journal.new[c] ELSE disk[c]]
  BY <1>1, <1>2 DEF Files, View
<1>4. CASE Applied # {}
  <2>1. Files' = Files
    BY <1>2, <1>3, <1>4 DEF Files
  <2> QED BY <1>1, <2>1, Stutter
<1>5. CASE Applied = {}
  <2>1. Files = disk
    BY <1>5, FilesOnDisk
  <2>2. pc[p] = "write"
    BY <1>5 DEF ApplyReplace, Replacing, IInv, HolderKnows
  <2>3. \A c \in Consumers :
           seen[p][c] = IF c \in journal.names THEN journal.pre[c] ELSE disk[c]
    BY <2>2 DEF IInv, HolderKnows
  <2>4. \A c \in journal.names : disk[c] = journal.pre[c]
    BY <1>2, <1>5 DEF IInv, JournalShape, Applied
  <2>5. seen[p] \in View
    BY <2>2 DEF IInv, HolderKnows
  <2>6. \A c \in Consumers : seen[p][c] = disk[c]
    BY <2>3, <2>4
  <2>7. seen[p] = Files
    BY <1>2, <2>1, <2>5, <2>6 DEF View
  <2>8. Files' = [c \in Consumers |->
                    IF c \in journal.names THEN journal.new[c] ELSE Files[c]]
    BY <1>3, <2>1
  <2>9. journal.new \in [Mutable -> Value] /\ Files \in [Consumers -> Value]
    BY <1>1, <1>2, <2>1 DEF Journals, View
  <2>10. Files' \in [Consumers -> Value]
    BY <1>2, <2>8, <2>9
  <2>11. \A c \in Consumers \ Mutable : Files'[c] = Files[c]
    BY <1>2, <2>8
  <2>12. Atomic!APublish(p)
    BY <1>1, <2>7, <2>10, <2>11 DEF Atomic!APublish
  <2> QED BY <2>12 DEF Atomic!ANext
<1> QED BY <1>4, <1>5

LEMMA StepRefines == IInv /\ [Next]_vars => [Atomic!ANext]_(Atomic!avars)
<1> SUFFICES ASSUME IInv, [Next]_vars PROVE [Atomic!ANext]_(Atomic!avars)
  OBVIOUS
<1>0. ASSUME NEW p \in Proc, Refuse(p) PROVE [Atomic!ANext]_(Atomic!avars)
  BY <1>0, SameFiles, LeaveForgets DEF Refuse, Atomic!ANext
<1>1. ASSUME NEW p \in Proc, Call(p) PROVE [Atomic!ANext]_(Atomic!avars)
  <2>1. Files' = Files
    BY <1>1, SameFiles DEF Call, Read, Publish, RollbackAll, Begin
  <2>2. CASE \E k \in Calls : Read(p, k)
    BY <2>1, <2>2 DEF Read, Atomic!AForget, Atomic!ANext
  <2>3. CASE UNCHANGED seen
    BY <2>1, <2>3, Stutter
  <2> QED BY <1>1, <2>2, <2>3 DEF Call, Publish, RollbackAll
<1>2. ASSUME NEW p \in Proc, Acquire(p) PROVE [Atomic!ANext]_(Atomic!avars)
  BY <1>2, SameFiles, Stutter DEF Acquire
<1>3. ASSUME NEW p \in Proc, Recovery(p) PROVE [Atomic!ANext]_(Atomic!avars)
  <2>1. CASE RecoverNone(p) \/ RecoverForward(p) \/ RecoverDrop(p)
    BY <2>1, SameFiles, Stutter DEF RecoverNone, RecoverForward, RecoverDrop, Goto
  <2>2. CASE RecoverRefuse(p)
    BY <1>0, <2>2 DEF RecoverRefuse
  <2>3. CASE RecoverDone(p)
    <3>1. Applied = {} \/ Applied = journal.names
      BY <2>3 DEF RecoverDone, IInv, HolderKnows, JournalShape, Base,
         JournalHeld, Replaying
    <3>2. journal' = NoJournal /\ disk' = disk /\ seen' = seen
      BY <2>3 DEF RecoverDone, Goto
    <3>3. Files' = disk' /\ Files = disk
      BY <3>1, <3>2, FilesOnDisk DEF Files
    <3> QED BY <3>2, <3>3, Stutter
  <2> QED BY <1>3, <2>1, <2>2, <2>3 DEF Recovery
<1>4. ASSUME NEW p \in Proc, Replay(p) PROVE [Atomic!ANext]_(Atomic!avars)
  <2>1. ASSUME NEW n \in Mutable, ApplyReplace(p, n) PROVE [Atomic!ANext]_(Atomic!avars)
    BY <2>1, ApplyPublishes
  <2>2. ASSUME NEW n \in Mutable, ApplyRefuse(p, n) \/ ApplyGone(p, n)
        PROVE [Atomic!ANext]_(Atomic!avars)
    BY <1>0, <2>2 DEF ApplyRefuse, ApplyGone
  <2>4. ASSUME NEW n \in Mutable, ApplyCheck(p, n) PROVE [Atomic!ANext]_(Atomic!avars)
    BY <2>4, SameFiles, Stutter DEF ApplyCheck, Goto
  <2>3. CASE MarkCommitted(p)
    <3>1. journal \in Journals /\ journal' = [journal EXCEPT !.phase = "COMMITTED"]
          /\ disk' = disk /\ seen' = seen
      BY <2>3 DEF MarkCommitted, Applying, Goto, IInv, Base, JournalHeld, Replaying, TypeOK
    <3>2. journal'.names = journal.names /\ journal'.new = journal.new
      BY <3>1 DEF Journals
    <3>3. journal # NoJournal /\ journal' # NoJournal
      BY <3>1, <3>2, FilesAssumption, MarkType, <2>3 DEF IInv, Base
    <3>4. Files' = Files
      BY <3>1, <3>2, <3>3 DEF Files, Applied
    <3> QED BY <3>1, <3>4, Stutter
  <2> QED BY <1>4, <2>1, <2>2, <2>3, <2>4, NothingSkipped DEF Replay
<1>5. ASSUME NEW p \in Proc, Body(p) PROVE [Atomic!ANext]_(Atomic!avars)
  <2>1. CASE SnapshotDone(p)
    <3>1. Files = disk /\ Files' = Files
      BY <2>1, FilesOnDisk, SameFiles DEF SnapshotDone, IInv, HolderKnows
    <3>2. seen' = [seen EXCEPT ![p] = disk]
      BY <2>1 DEF SnapshotDone, Leave
    <3> QED BY <3>1, <3>2 DEF Atomic!ASnapshot, Atomic!ANext
  <2>2. CASE SnapshotRefuse(p) \/ RecoverOnly(p) \/ CommitConflict(p) \/ CommitNothing(p)
    BY <1>0, <2>2 DEF SnapshotRefuse, RecoverOnly, CommitConflict, CommitNothing
  <2>3. CASE MeasureDone(p)
    <3>1. Files' = Files
      BY <2>3, SameFiles DEF MeasureDone
    <3>2. CASE Present = {}
      BY <2>3, <3>1, <3>2, LeaveForgets DEF MeasureDone, Atomic!ANext
    <3>3. CASE Present # {}
      BY <2>3, <3>1, <3>3, Stutter DEF MeasureDone
    <3> QED BY <3>2, <3>3
  <2>4. CASE CommitPrepare(p)
    <3>1. Files = disk
      BY <2>4, PrepareShape, FilesOnDisk
    <3>2. Files' = disk' /\ disk' = disk /\ seen' = seen
      BY <2>4, PrepareShape DEF Files
    <3> QED BY <3>1, <3>2, Stutter
  <2>5. CASE CommitDone(p)
    <3>1. Applied = journal.names
      BY <2>5 DEF CommitDone, IInv, HolderKnows, JournalShape, Base, JournalHeld, Replaying
    <3>2. Files = disk
      BY <3>1, FilesOnDisk
    <3>3. Files' = disk' /\ disk' = disk
      BY <2>5 DEF CommitDone, Files
    <3> QED BY <2>5, <3>2, <3>3, LeaveForgets DEF CommitDone, Atomic!ANext
  <2>6. CASE SnapshotRead(p) \/ CommitCompare(p) \/ CommitChoose(p) \/ CommitNote(p)
    BY <2>6, SameFiles, Stutter DEF SnapshotRead, CommitCompare, CommitChoose, CommitNote, Goto
  <2> QED BY <1>5, <2>1, <2>2, <2>3, <2>4, <2>5, <2>6 DEF Body
<1>6. ASSUME NEW p \in Proc, GateStep(p) PROVE [Atomic!ANext]_(Atomic!avars)
  <2>1. CASE GateOpen(p)
    <3>1. Files = disk /\ Files' = Files /\ seen' = [seen EXCEPT ![p] = disk]
      BY <2>1, FilesOnDisk, SameFiles DEF GateOpen
    <3> QED BY <3>1 DEF Atomic!ASnapshot, Atomic!ANext
  <2>2. CASE GateRefuse(p) \/ GateClose(p)
    BY <1>0, <2>2 DEF GateRefuse, GateClose
  <2>3. ASSUME NEW g \in Gates, NEW v \in Content, GateWrite(p, g, v)
        PROVE [Atomic!ANext]_(Atomic!avars)
    <3>1. journal = NoJournal /\ seen[p] = disk
      BY <2>3 DEF GateWrite, IInv, HolderKnows
    <3>2. Files = disk /\ Files' = disk'
      BY <2>3, <3>1, FilesOnDisk DEF GateWrite, Files
    <3>3. Atomic!AGateWrite(p, g, v)
      BY <2>3, <3>1, <3>2 DEF GateWrite, Leave, Atomic!AGateWrite
    <3>4. g \in Consumers \ Mutable /\ v \in Value
      BY FilesAssumption DEF Consumers, Value
    <3> QED BY <3>3, <3>4 DEF Atomic!ANext
  <2> QED BY <1>6, <2>1, <2>2, <2>3 DEF GateStep
<1>7. ASSUME NEW p \in Proc, Abort(p) PROVE [Atomic!ANext]_(Atomic!avars)
  BY <1>7, SameFiles, LeaveForgets DEF Abort, Atomic!ANext
<1>8. CASE Tidy
  BY <1>8, SameFiles, Stutter DEF Tidy
<1>9. CASE UNCHANGED vars
  BY <1>9, SameFiles, Stutter DEF vars
<1> QED BY <1>1, <1>2, <1>3, <1>4, <1>5, <1>6, <1>7, <1>8, <1>9 DEF Next, Held

(* Lock, journal, crash and recovery together behave as one register that is *)
(* replaced whole, compared with the caller's snapshot, and read whole.      *)
THEOREM ImplementsAtomicSidecars == Spec => AtomicSpec
<1>1. Init => Atomic!AInit
  <2> SUFFICES ASSUME Init PROVE Atomic!AInit
    OBVIOUS
  <2>1. Files = disk
    BY DEF Init, Files
  <2> QED BY <2>1 DEF Init, View, Atomic!AInit
<1> QED BY <1>1, StepRefines, IInvInvariant, PTL DEF Spec, AtomicSpec, Atomic!ASpec

-----------------------------------------------------------------------------
(* Edits behind the tool's back. *)

(* Steps of the tool, seen as changes of a sidecar. *)
LEMMA OnlyReplaceMoves ==
  ASSUME Base, Next, NEW n \in Mutable, disk'[n] # disk[n]
  PROVE  \E p \in Proc : ApplyReplace(p, n)
<1>1. n \in Consumers /\ disk \in View
  BY DEF Consumers, Base, TypeOK
<1>2. ASSUME UNCHANGED disk PROVE FALSE
  BY <1>2
<1>3. ASSUME NEW p \in Proc, Call(p) PROVE FALSE
  BY <1>2, <1>3 DEF Call, Read, Publish, RollbackAll, Begin
<1>4. ASSUME NEW p \in Proc, Acquire(p) \/ Abort(p) PROVE FALSE
  BY <1>2, <1>4 DEF Acquire, Abort
<1>5. ASSUME NEW p \in Proc, Recovery(p) PROVE FALSE
  BY <1>2, <1>5 DEF Recovery, RecoverNone, RecoverRefuse, RecoverDrop, RecoverForward,
     RecoverDone, Refuse
<1>6. ASSUME NEW p \in Proc, Body(p) PROVE FALSE
  BY <1>2, <1>6 DEF Body, SnapshotRefuse, SnapshotRead, SnapshotDone, RecoverOnly, MeasureDone, CommitConflict,
     CommitCompare, CommitNothing, CommitChoose, CommitNote, CommitPrepare, CommitDone,
     Refuse
<1>7. ASSUME NEW p \in Proc, GateStep(p) PROVE FALSE
  <2>1. ASSUME NEW g \in Gates, NEW v \in Content, GateWrite(p, g, v) PROVE FALSE
    <3>1. g # n
      BY FilesAssumption
    <3> QED BY <1>1, <2>1, <3>1 DEF GateWrite, View
  <2> QED BY <1>2, <1>7, <2>1 DEF GateStep, GateOpen, GateRefuse, GateClose, Refuse
<1>8. ASSUME Tidy PROVE FALSE
  BY <1>2, <1>8 DEF Tidy
<1>9. ASSUME NEW p \in Proc, Replay(p) PROVE ApplyReplace(p, n)
  <2>1. ASSUME NEW m \in Mutable, ApplyReplace(p, m) PROVE m = n
    BY <1>1, <2>1 DEF ApplyReplace, View
  <2> QED BY <1>2, <1>9, <2>1
          DEF Replay, ApplyCheck, ApplySkip, ApplyRefuse, ApplyGone, MarkCommitted, Refuse
<1> QED BY <1>3, <1>4, <1>5, <1>6, <1>7, <1>8, <1>9 DEF Next, Held

(* Only the holder of the lock takes a step of a call.                        *)
LEMMA HeldLocked ==
  ASSUME Base, NEW p \in Proc, Held(p)
  PROVE  lock = p /\ lock' \in {lock, Nobody}
<1>1. pc[p] \in Holding
  BY DEF Held, Recovery, RecoverNone, RecoverRefuse, RecoverDrop, RecoverForward,
     RecoverDone, Entered, Replay, ApplyCheck, ApplySkip, ApplyRefuse, ApplyReplace,
     ApplyGone, MarkCommitted, Applying, Replacing, Body, SnapshotRefuse, SnapshotRead,
     SnapshotDone, RecoverOnly, MeasureDone, CommitConflict, CommitCompare, CommitNothing,
     CommitChoose, CommitNote, CommitPrepare, CommitDone, InBody, Committing, GateStep,
     GateOpen, GateRefuse, GateClose, GateWrite, Holding
<1>2. lock' \in {lock, Nobody}
  BY DEF Held, Recovery, RecoverNone, RecoverRefuse, RecoverDrop, RecoverForward,
     RecoverDone, Replay, ApplyCheck, ApplySkip, ApplyRefuse, ApplyReplace,
     ApplyGone, MarkCommitted, Body, SnapshotRefuse, SnapshotRead, SnapshotDone, RecoverOnly,
     MeasureDone, CommitConflict, CommitCompare, CommitNothing, CommitChoose, CommitNote,
     CommitPrepare, CommitDone, GateStep, GateOpen, GateRefuse,
     GateClose, GateWrite, Refuse, Leave, Goto
<1> QED BY <1>1, <1>2 DEF Base, LockInv

(* What a step of the holder does to the view a process has.                  *)
Views(p) ==
    /\ pc'[p] = "read" => disk' = disk
    /\ pc'[p] \notin {"read", "gating"} =>
           \/ seen'[p] = NoView
           \/ pc[p] = "read" /\ seen'[p] = disk
           \/ pc[p] \notin {"read", "gating"} /\ seen'[p] = seen[p]

LEMMA HeldViews ==
  ASSUME Base, NEW p \in Proc, Held(p)
  PROVE  \A q \in Proc : Views(q)
<1>0. /\ lock = p /\ pc \in [Proc -> Places]
      /\ seen \in [Proc -> View \cup {NoView}]
  BY HeldLocked DEF Base, TypeOK
<1>1. ASSUME NEW v, Leave(p, v)
      PROVE  /\ \A q \in Proc \ {p} : pc'[q] = pc[q] /\ seen'[q] = seen[q]
             /\ pc'[p] = "idle" /\ seen'[p] = v
  BY <1>0, <1>1 DEF Leave
<1>2. ASSUME NEW place, Goto(p, place)
      PROVE  /\ \A q \in Proc \ {p} : pc'[q] = pc[q] /\ seen'[q] = seen[q]
             /\ pc'[p] = place /\ seen'[p] = seen[p]
  BY <1>0, <1>2 DEF Goto
<1>3. \A q \in Proc \ {p} : pc[q] \notin {"read", "gating"}
  BY <1>0 DEF Base, LockInv, Holding
<1>4. CASE Recovery(p)
  BY <1>1, <1>2, <1>3, <1>4 DEF Recovery, RecoverNone, RecoverRefuse, RecoverDrop,
     RecoverForward, RecoverDone, Entered, Refuse, Views
<1>5. CASE Replay(p)
  BY <1>0, <1>1, <1>2, <1>3, <1>5 DEF Replay, ApplyCheck, ApplySkip, ApplyRefuse,
     ApplyReplace, ApplyGone, MarkCommitted, Applying, Replacing, Refuse, Views
<1>6. CASE Body(p)
  <2>1. CASE MeasureDone(p)
    <3>1. CASE Present = {}
      BY <1>1, <1>3, <2>1, <3>1 DEF MeasureDone, Views
    <3>2. CASE Present # {}
      BY <1>0, <1>3, <2>1, <3>2 DEF MeasureDone, InBody, Views
    <3> QED BY <3>1, <3>2
  <2>2. CASE SnapshotRead(p)
    BY <1>2, <1>3, <2>2 DEF SnapshotRead, Views
  <2>3. CASE SnapshotDone(p)
    BY <1>1, <1>3, <2>3 DEF SnapshotDone, Views
  <2> QED BY <1>1, <1>2, <1>3, <1>6, <2>1, <2>2, <2>3
          DEF Body, SnapshotRefuse, RecoverOnly, CommitConflict, CommitCompare, CommitNothing,
              CommitChoose, CommitNote, CommitPrepare, CommitDone, Committing, Refuse, Views
<1>7. CASE GateStep(p)
  <2>1. CASE GateOpen(p)
    BY <1>0, <1>3, <2>1 DEF GateOpen, Views
  <2> QED BY <1>1, <1>3, <1>7, <2>1
          DEF GateStep, GateRefuse, GateClose, GateWrite, Refuse, Views
<1> QED BY <1>4, <1>5, <1>6, <1>7 DEF Held

LEMMA NextViews ==
  ASSUME Base, Next
  PROVE  \A q \in Proc : Views(q)
<1>0. pc \in [Proc -> Places] /\ seen \in [Proc -> View \cup {NoView}]
  BY DEF Base, TypeOK
<1>1. ASSUME NEW p \in Proc, Call(p) PROVE \A q \in Proc : Views(q)
  BY <1>0, <1>1 DEF Call, Read, Publish, RollbackAll, Begin, Views, Base, LockInv, Holding
<1>2. ASSUME NEW p \in Proc, Acquire(p) PROVE \A q \in Proc : Views(q)
  BY <1>0, <1>2 DEF Acquire, Views
<1>3. ASSUME NEW p \in Proc, Abort(p) PROVE \A q \in Proc : Views(q)
  <2>1. \A q \in Proc \ {p} : pc[q] \notin {"read", "gating"}
    BY <1>3 DEF Abort, Base, LockInv, Holding
  <2> QED BY <1>0, <1>3, <2>1 DEF Abort, Leave, Views
<1>4. CASE Tidy
  BY <1>0, <1>4, FilesAssumption DEF Tidy, procVars, Views, Base, LockInv, Holding
<1> QED BY <1>1, <1>2, <1>3, <1>4, HeldViews DEF Next

(* What the holder of the lock knows when the files may be edited behind its  *)
(* back: a replayed entry is an entry of the journal; files that were not     *)
(* edited since the comparison hold, or have as preimage, what the digest its *)
(* caller holds is of; and a file just checked holds its preimage unless      *)
(* edited since.                                                              *)
EditKnows(p) ==
    /\ pc[p] \in {"compared", "chosen", "noted", "apply", "write"} => seen[p] # NoView
    /\ pc[p] \in {"redo", "rewrite", "apply", "write"} => todo[p] \subseteq journal.names
    /\ pc[p] = "noted" => todo[p] \subseteq draft[p].names
    /\ pc[p] \in {"compared", "chosen"} =>
           \A n \in Mutable \ afterCompare : disk[n] = seen[p][n]
    /\ pc[p] = "noted" =>
           \A n \in Mutable \ afterCompare : draft[p].pre[n] = seen[p][n]
    /\ pc[p] \in {"apply", "write"} =>
           \A n \in Mutable \ afterCompare : journal.pre[n] = seen[p][n]
    /\ pc[p] \in {"rewrite", "write"} =>
           /\ checked[p] \subseteq todo[p]
           /\ \A n \in checked[p] \ afterCheck : disk[n] = journal.pre[n]

(* A digest is of what the caller was shown, but for files edited in between. *)
Shows(p) ==
    /\ Digesting(p) => \A n \in Mutable \ afterRead[p] : disk[n] = shown[p][n]
    /\ pc[p] \notin {"read", "gating"} /\ seen[p] # NoView =>
           \A n \in Mutable \ afterRead[p] : seen[p][n] = shown[p][n]

UInv == Base /\ \A p \in Proc : EditKnows(p) /\ Shows(p)

(* Only the holder of the lock knows anything. *)
LEMMA HolderOnly ==
  ASSUME Base', \A p \in Proc : lock' = p => EditKnows(p)'
  PROVE  \A p \in Proc : EditKnows(p)'
<1>1. \A p \in Proc : pc'[p] \in Holding => lock' = p
  BY DEF Base, LockInv
<1>2. ASSUME NEW p \in Proc, pc'[p] \notin Holding PROVE EditKnows(p)'
  BY <1>2 DEF EditKnows, Holding
<1> QED BY <1>1, <1>2

LEMMA KnowsNothing ==
  ASSUME NEW p \in Proc,
         pc'[p] \in {"idle", "waiting", "locked", "drop", "body", "read", "gating", "redone",
                    "applied"}
  PROVE  EditKnows(p)'
BY DEF EditKnows

(* A step of somebody else. *)
LEMMA KnowsStill ==
  ASSUME NEW p \in Proc, EditKnows(p), Kept(p), UNCHANGED <<disk, journal>>,
         Keep, lock' = p
  PROVE  EditKnows(p)'
<1>1. afterCompare' = afterCompare /\ afterCheck' = afterCheck \cap checked'[p]
  BY FilesAssumption DEF Keep, Checked
<1> QED BY <1>1 DEF EditKnows, Kept

LEMMA KnowsReplay ==
  ASSUME UInv, NEW p \in Proc, Replay(p), Keep, lock' = p
  PROVE  EditKnows(p)'
<1>0. EditKnows(p) /\ pc \in [Proc -> Places] /\ todo \in [Proc -> SUBSET Mutable]
      /\ checked \in [Proc -> SUBSET Mutable]
  BY DEF UInv, Base, TypeOK
<1>1. afterCompare' = afterCompare
  BY FilesAssumption DEF Keep
<1>2. ASSUME NEW n \in Mutable, ApplyCheck(p, n) PROVE EditKnows(p)'
  <2>1. /\ pc[p] \in {"redo", "apply"} /\ n \in todo[p] /\ disk[n] = journal.pre[n]
        /\ pc'[p] = IF pc[p] = "redo" THEN "rewrite" ELSE "write"
        /\ checked'[p] = {n} /\ UNCHANGED <<disk, journal, todo, seen>>
    BY <1>0, <1>2 DEF ApplyCheck, Applying, FirstOf, Goto
  <2> QED BY <1>0, <1>1, <2>1 DEF EditKnows
<1>3. ASSUME NEW n \in Mutable, ApplySkip(p, n) PROVE EditKnows(p)'
  BY <1>0, <1>1, <1>3 DEF EditKnows, ApplySkip, Applying
<1>4. ASSUME NEW n \in Mutable, ApplyReplace(p, n) PROVE EditKnows(p)'
  <2>1. /\ pc[p] \in {"rewrite", "write"} /\ UNCHANGED <<journal, seen>>
        /\ pc'[p] = IF pc[p] = "rewrite" THEN "redo" ELSE "apply"
        /\ todo'[p] = todo[p] \ {n}
    BY <1>0, <1>4 DEF ApplyReplace, Replacing, Goto
  <2> QED BY <1>0, <1>1, <2>1 DEF EditKnows
<1>5. ASSUME NEW n \in Mutable, ApplyRefuse(p, n) \/ ApplyGone(p, n) PROVE EditKnows(p)'
  BY <1>5, FilesAssumption DEF ApplyRefuse, ApplyGone, Refuse, Leave
<1>6. CASE MarkCommitted(p)
  <2>1. pc'[p] \in {"redone", "applied"}
    BY <1>0, <1>6 DEF MarkCommitted, Goto
  <2> QED BY <2>1, KnowsNothing
<1> QED BY <1>2, <1>3, <1>4, <1>5, <1>6 DEF Replay

LEMMA KnowsBody ==
  ASSUME UInv, NEW p \in Proc, Body(p), Keep, lock' = p
  PROVE  EditKnows(p)'
<1>0. /\ EditKnows(p) /\ disk \in View
      /\ pc \in [Proc -> Places] /\ todo \in [Proc -> SUBSET Mutable]
      /\ draft \in [Proc -> Journals \cup {NoJournal}]
  BY DEF UInv, Base, TypeOK
<1>1. afterCompare' = afterCompare
  BY FilesAssumption DEF Keep
<1>2. ASSUME NEW v, Leave(p, v) PROVE FALSE
  BY <1>2, FilesAssumption DEF Leave
<1>3. CASE CommitCompare(p)
  <2>1. /\ disk = seen[p] /\ seen[p] # NoView
        /\ pc'[p] = "compared" /\ UNCHANGED <<disk, seen>>
    BY <1>0, <1>3, FilesAssumption DEF CommitCompare, Goto
  <2> QED BY <2>1 DEF EditKnows
<1>4. CASE CommitChoose(p)
  <2>1. pc[p] = "compared" /\ pc'[p] = "chosen" /\ UNCHANGED <<disk, seen>>
    BY <1>0, <1>4 DEF CommitChoose, Committing, Goto
  <2> QED BY <1>0, <1>1, <2>1 DEF EditKnows
<1>5. CASE CommitNote(p)
  <2>1. /\ pc[p] = "chosen" /\ pc'[p] = "noted" /\ UNCHANGED <<seen, todo>>
        /\ draft'[p] = Drafted(p)
    BY <1>0, <1>5 DEF CommitNote, Committing, Goto
  <2>2. /\ draft'[p].names = todo[p]
        /\ \A n \in Mutable : draft'[p].pre[n] = disk[n]
    BY <2>1 DEF Drafted
  <2> QED BY <1>0, <1>1, <2>1, <2>2 DEF EditKnows
<1>6. CASE CommitPrepare(p)
  <2>1. pc[p] = "noted" /\ pc'[p] = "apply" /\ UNCHANGED <<seen, todo>> /\ journal' = draft[p]
    BY <1>0, <1>6 DEF CommitPrepare, Committing, Goto
  <2> QED BY <1>0, <1>1, <2>1 DEF EditKnows
<1>7. CASE MeasureDone(p)
  BY <1>2, <1>7, FilesAssumption DEF MeasureDone
<1>8. CASE SnapshotRead(p)
  BY <1>0, <1>8, KnowsNothing DEF SnapshotRead, Goto
<1> QED BY <1>2, <1>3, <1>4, <1>5, <1>6, <1>7, <1>8
        DEF Body, SnapshotRefuse, SnapshotDone, RecoverOnly, CommitConflict, CommitNothing,
            CommitDone, Refuse

LEMMA ShowsNext ==
  ASSUME UInv, [UNext]_uvars, NEW p \in Proc
  PROVE  Shows(p)'
<1>0. Shows(p)
  BY DEF UInv
<1>1. ASSUME Next, Keep PROVE Shows(p)'
  <2>1. Views(p)
    BY <1>1, NextViews DEF UInv
  <2>2. shown'[p] = IF Gone(p) THEN NoView
                    ELSE IF Digesting(p)' /\ ~Digesting(p) THEN disk ELSE shown[p]
    BY <1>1 DEF Keep
  <2>3. afterRead'[p] = IF Gone(p) THEN {} ELSE afterRead[p]
    BY <1>1 DEF Keep
  <2>4. CASE pc'[p] = "read"
    <3>1. ~Gone(p) /\ Digesting(p)' /\ disk' = disk
      BY <2>1, <2>4 DEF Gone, Digesting, Views
    <3>2. CASE Digesting(p)
      BY <1>0, <2>2, <2>3, <2>4, <3>1, <3>2 DEF Shows
    <3>3. CASE ~Digesting(p)
      BY <2>2, <2>3, <2>4, <3>1, <3>3 DEF Shows
    <3> QED BY <3>2, <3>3
  <2>5. CASE pc'[p] \notin {"read", "gating"} /\ seen'[p] # NoView
    <3>1. ~Gone(p) /\ ~Digesting(p)'
      BY <2>5 DEF Gone, Digesting
    <3>2. shown'[p] = shown[p] /\ afterRead'[p] = afterRead[p]
      BY <2>2, <2>3, <3>1
    <3>3. \/ Digesting(p) /\ seen'[p] = disk
          \/ pc[p] \notin {"read", "gating"} /\ seen'[p] = seen[p]
      BY <2>1, <2>5 DEF Views, Digesting
    <3> QED BY <1>0, <2>5, <3>1, <3>2, <3>3 DEF Shows
  <2> QED BY <2>4, <2>5 DEF Shows, Digesting
<1>2. ASSUME NEW c \in Consumers, NEW v \in Value, Edit(c, v), Note(c) PROVE Shows(p)'
  <2>1. /\ UNCHANGED <<pc, seen, shown>>
        /\ \A n \in Mutable \ {c} : disk'[n] = disk[n]
    BY <1>2 DEF Edit, Note, procVars, UInv, Base, TypeOK, View, Consumers
  <2>2. afterRead'[p] = afterRead[p] \cup IF Digesting(p) THEN {c} ELSE {}
    BY <1>2 DEF Note
  <2> QED BY <1>0, <2>1, <2>2 DEF Shows, Digesting
<1>3. CASE UNCHANGED uvars
  BY <1>0, <1>3 DEF uvars, vars, procVars, history, Shows, Digesting
<1> QED BY <1>1, <1>2, <1>3 DEF UNext

LEMMA KnowsNext == UInv /\ [UNext]_uvars => UInv'
<1> SUFFICES ASSUME UInv, [UNext]_uvars PROVE UInv'
  OBVIOUS
<1>0. Base /\ Base' /\ pc \in [Proc -> Places]
  <2>1. [EditNext]_vars
    BY DEF UNext, EditNext, uvars
  <2> QED BY <2>1, BaseNext DEF UInv, Base, TypeOK
<1> SUFFICES ASSUME NEW h \in Proc, lock' = h PROVE EditKnows(h)'
  BY <1>0, HolderOnly, ShowsNext DEF UInv
<1>1. h # Nobody /\ EditKnows(h)
  BY FilesAssumption DEF UInv
<1>2. ASSUME NEW p \in Proc, Call(p), Keep PROVE EditKnows(h)'
  <2>1. \E k, ch : Begin(p, k, ch) /\ UNCHANGED <<disk, journal>>
    BY <1>2 DEF Call, Read, Publish, RollbackAll, Begin
  <2>2. CASE h = p
    BY <1>0, <2>1, <2>2, KnowsNothing DEF Begin
  <2>3. CASE h # p
    <3>1. Kept(h)
      BY <1>0, <1>2, <2>3 DEF Call, Read, Publish, RollbackAll, Begin, Kept, Base, TypeOK
    <3> QED BY <1>1, <1>2, <2>1, <3>1, KnowsStill
  <2> QED BY <2>2, <2>3
<1>3. ASSUME NEW p \in Proc, Acquire(p) PROVE EditKnows(h)'
  BY <1>0, <1>3, KnowsNothing DEF Acquire
<1>4. ASSUME NEW p \in Proc, Held(p), Keep PROVE EditKnows(h)'
  <2>4. h = p
    BY <1>0, <1>1, <1>4, HeldLocked
  <2>5. CASE Recovery(p)
    <3>1. CASE RecoverNone(p) \/ RecoverDrop(p) \/ RecoverDone(p)
      BY <1>0, <2>4, <3>1, KnowsNothing DEF RecoverNone, RecoverDrop, RecoverDone, Goto
    <3>2. CASE RecoverRefuse(p)
      BY <1>1, <3>2 DEF RecoverRefuse, Refuse, Leave
    <3>3. CASE RecoverForward(p)
      <4>1. pc'[p] = "redo" /\ todo'[p] = journal.names \ Applied /\ journal' = journal
        BY <1>0, <3>3 DEF RecoverForward, Goto, Base, TypeOK
      <4> QED BY <2>4, <4>1 DEF EditKnows
    <3> QED BY <2>5, <3>1, <3>2, <3>3 DEF Recovery
  <2>6. CASE GateStep(p)
    <3>1. CASE GateOpen(p)
      BY <1>0, <2>4, <3>1, KnowsNothing DEF GateOpen
    <3> QED BY <1>1, <2>6, <3>1 DEF GateStep, GateRefuse, GateClose, GateWrite, Refuse, Leave
  <2> QED BY <1>4, <2>4, <2>5, <2>6, KnowsReplay, KnowsBody DEF Held
<1>5. ASSUME NEW p \in Proc, Abort(p) PROVE EditKnows(h)'
  BY <1>1, <1>5 DEF Abort, Leave
<1>6. CASE Tidy
  BY <1>1, <1>6 DEF Tidy
<1>7. ASSUME NEW c \in Consumers, NEW v \in Value, Edit(c, v), Note(c) PROVE EditKnows(h)'
  <2>1. /\ UNCHANGED <<journal, pc, seen, todo, draft, checked>> /\ lock = h
        /\ \A n \in Mutable \ {c} : disk'[n] = disk[n]
    BY <1>0, <1>7 DEF Edit, Base, TypeOK, View, Consumers
  <2>2. pc[h] \in {"compared", "chosen"} => afterCompare' = afterCompare \cup {c}
    BY <1>1, <1>7, <2>1 DEF Note, Choosing
  <2>3. afterCompare \subseteq afterCompare' /\ afterCheck \subseteq afterCheck'
    BY <1>7 DEF Note
  <2>4. c \in checked[h] => c \in afterCheck'
    BY <1>1, <1>7, <2>1 DEF Note, Checked
  <2>5. checked[h] \subseteq Mutable
    BY <1>0 DEF Base, TypeOK
  <2> QED BY <1>1, <2>1, <2>2, <2>3, <2>4, <2>5 DEF EditKnows
<1>8. CASE UNCHANGED uvars
  BY <1>1, <1>8 DEF uvars, vars, history, EditKnows
<1> QED BY <1>2, <1>3, <1>4, <1>5, <1>6, <1>7, <1>8 DEF UNext, Next

(* With arbitrary edits between the tool's steps, a sidecar only moves to the *)
(* content its journal intends, from the preimage that journal keeps and, in  *)
(* a commit, from what the caller was shown -- except for an edit that fell   *)
(* in one of the three gaps between a look at the file and the use made of it. *)
THEOREM OverwritesOnlyWhatWasSeen == USpec => OverwritesOnlySeen
<1> DEFINE A == \A n \in Mutable :
                  disk'[n] # disk[n] /\ edits' = edits
                    => /\ journal # NoJournal /\ n \in journal.names /\ disk'[n] = journal.new[n]
                       /\ n \notin afterCheck => disk[n] = journal.pre[n]
                       /\ pc[lock] = "write" /\ n \notin Unnoticed
                            => disk[n] = shown[lock][n]
<1>1. UInit => UInv
  <2> SUFFICES ASSUME UInit PROVE UInv
    OBVIOUS
  <2>1. \A p \in Proc : EditKnows(p) /\ Shows(p)
    BY DEF UInit, Init, EditKnows, Shows, Digesting
  <2> QED BY <2>1, BaseInit DEF UInit, UInv
<1>2. UInv /\ [UNext]_uvars => [A]_uvars
  <2> SUFFICES ASSUME UInv, UNext, NEW n \in Mutable, disk'[n] # disk[n], edits' = edits
               PROVE  /\ journal # NoJournal /\ n \in journal.names
                      /\ disk'[n] = journal.new[n]
                      /\ n \notin afterCheck => disk[n] = journal.pre[n]
                      /\ pc[lock] = "write" /\ n \notin Unnoticed
                           => disk[n] = shown[lock][n]
    OBVIOUS
  <2>1. Next
    BY DEF UNext, Edit, UInv, Base, TypeOK
  <2>2. PICK p \in Proc : ApplyReplace(p, n)
    BY <2>1, OnlyReplaceMoves DEF UInv
  <2>3. pc[p] \in {"rewrite", "write"} /\ n \in checked[p] /\ disk'[n] = journal.new[n]
    BY <2>2 DEF ApplyReplace, Replacing, UInv, Base, TypeOK, View, Consumers
  <2>4. lock = p /\ journal # NoJournal
    BY <2>3 DEF UInv, Base, LockInv, JournalHeld, Holding, Replaying
  <2>5. EditKnows(p) /\ Shows(p)
    BY DEF UInv
  <2>6. n \in journal.names /\ (n \notin afterCheck => disk[n] = journal.pre[n])
    BY <2>3, <2>5 DEF EditKnows
  <2>7. pc[p] = "write" /\ n \notin afterCompare => journal.pre[n] = seen[p][n]
    BY <2>5 DEF EditKnows
  <2>8. pc[p] = "write" /\ n \notin afterRead[p] => seen[p][n] = shown[p][n]
    BY <2>5 DEF EditKnows, Shows
  <2> QED BY <2>3, <2>4, <2>6, <2>7, <2>8 DEF Unnoticed
<1> QED BY <1>1, <1>2, KnowsNext, PTL DEF USpec, OverwritesOnlySeen

(* A state recovery does not recognise, found by whoever takes the lock next, *)
(* is left exactly as it is and the call refused: files and journal stay as   *)
(* evidence.                                                                 *)
THEOREM ForeignStateKept == EditSpec => ForeignStaysPut
<1> DEFINE A == Foreign /\ Unlocked /\ edits' = edits
                  => UNCHANGED <<disk, journal>> /\ Unlocked'
<1>1. ASSUME Base, [EditNext]_vars PROVE [A]_vars
  <2> SUFFICES ASSUME EditNext, Foreign, Unlocked, edits' = edits
               PROVE  UNCHANGED <<disk, journal>> /\ Unlocked'
    BY <1>1
  <2>0. journal # NoJournal /\ pc \in [Proc -> Places]
    BY <1>1 DEF Foreign, Base, TypeOK
  <2>1. \A p \in Proc : pc[p] \in Holding => lock = p /\ pc[p] = "locked"
    BY <1>1, FilesAssumption DEF Unlocked, Base, LockInv
  <2>2. ASSUME NEW p \in Proc, Refuse(p) PROVE UNCHANGED <<disk, journal>> /\ Unlocked'
    BY <2>2 DEF Refuse, Leave, Unlocked
  <2>3. ASSUME NEW p \in Proc, Held(p) PROVE UNCHANGED <<disk, journal>> /\ Unlocked'
    <3>1. CASE Recovery(p)
      BY <2>0, <2>1, <2>2, <3>1 DEF Recovery, RecoverNone, RecoverRefuse, RecoverDrop,
         RecoverForward, RecoverDone, Holding
    <3>2. CASE Replay(p)
      BY <2>1, <3>2 DEF Replay, ApplyCheck, ApplySkip, ApplyRefuse, ApplyReplace, ApplyGone,
         MarkCommitted, Applying, Replacing, Holding
    <3>3. CASE Body(p)
      BY <2>1, <3>3 DEF Body, SnapshotRefuse, SnapshotRead, SnapshotDone, RecoverOnly, MeasureDone, CommitConflict,
         CommitCompare, CommitNothing, CommitChoose, CommitNote, CommitPrepare, CommitDone,
         InBody, Committing, Holding
    <3>4. CASE GateStep(p)
      BY <2>0, <2>1, <2>2, <3>4 DEF GateStep, GateOpen, GateRefuse, GateClose, GateWrite,
         Holding
    <3> QED BY <2>3, <3>1, <3>2, <3>3, <3>4 DEF Held
  <2>4. ASSUME NEW p \in Proc, Call(p) PROVE UNCHANGED <<disk, journal>> /\ Unlocked'
    <3>1. \E k, ch : Begin(p, k, ch)
      BY <2>4 DEF Call, Read, Publish, RollbackAll
    <3> QED BY <1>1, <2>0, <3>1 DEF Begin, Unlocked, Base, TypeOK
  <2>5. ASSUME NEW p \in Proc, Acquire(p) PROVE UNCHANGED <<disk, journal>> /\ Unlocked'
    BY <2>0, <2>5 DEF Acquire, Unlocked
  <2>6. ASSUME NEW p \in Proc, Abort(p) PROVE UNCHANGED <<disk, journal>> /\ Unlocked'
    BY <2>6 DEF Abort, Leave, Unlocked
  <2>7. ASSUME NEW c \in Consumers, NEW v \in Value, Edit(c, v) PROVE FALSE
    BY <1>1, <2>7 DEF Edit, Base, TypeOK
  <2> QED BY <2>3, <2>4, <2>5, <2>6, <2>7 DEF EditNext, Next, Tidy, Unlocked
<1>2. Base /\ [EditNext]_vars => [A]_vars
  BY <1>1
<1>3. Base /\ [EditNext]_vars => Base'
  BY BaseNext
<1> QED BY BaseInit, <1>2, <1>3, PTL DEF EditSpec, ForeignStaysPut

-----------------------------------------------------------------------------
(* The commands (PlanLifecycle).                                             *)

(* What a command asks the store to write is a change of sidecars. *)
LEMMA ReplaceIsChange ==
  ASSUME NEW n \in Mutable, NEW doc \in Docs, NEW gone \in SUBSET Mutable
  PROVE  Replace(n, doc, gone) \in Change
<1>1. {n} \cup gone \in (SUBSET Mutable) \ {{}}
  OBVIOUS
<1>2. Replace(n, doc, gone) \in [({n} \cup gone) -> Value]
  BY DocsAssumption DEF Replace, Value
<1> QED BY <1>1, <1>2 DEF Change

LEMMA SidecarsAreMutable ==
  /\ Plan \in Mutable /\ Credential \in Mutable
  /\ Bindings \subseteq Mutable
  /\ \A v : Stale(v) \subseteq Mutable /\ Bound(v) \subseteq Mutable
BY DEF Mutable, Stale, Bound

LEMMA PublishIsCall ==
  ASSUME NEW p \in Proc, NEW ch \in Change, Publish(p, ch) PROVE Call(p)
BY DEF Call

(* The clock is within its bound, and what a binding command has read before  *)
(* is a plan and a gate record.                                              *)
Reading == [plan : Plans, gate : GateDocs] \cup {NoPrior}
LInv == now \in 0..MaxSecond /\ prior \in [Proc -> Reading]

LEMMA LInvInit == LInit => LInv
BY SecondsAssumption DEF LInit, LInv, Reading

LEMMA ForgetKeeps ==
  ASSUME LInv, NEW p \in Proc, ForgetPrior(p) PROVE prior' \in [Proc -> Reading]
BY DEF LInv, ForgetPrior, Reading

LEMMA LInvNext == LInv /\ [LNext]_lvars => LInv'
<1> SUFFICES ASSUME LInv, [LNext]_lvars PROVE LInv'
  OBVIOUS
<1>1. ASSUME UNCHANGED <<now, prior>> PROVE LInv'
  BY <1>1 DEF LInv
<1>2. ASSUME NEW p \in Proc, ForgetPrior(p), UNCHANGED now PROVE LInv'
  BY <1>2, ForgetKeeps DEF LInv
<1>3. ASSUME NEW p \in Proc, NEW x \in Plans, Freeze(p, x) PROVE LInv'
  BY <1>3, ForgetKeeps DEF Freeze, LInv
<1>4. ASSUME NEW p \in Proc, NEW x \in Plans, NEW g \in Gates, ReadGate(p, x, g) PROVE LInv'
  <2>1. [plan |-> x, gate |-> disk[g]] \in Reading
    BY <1>4 DEF ReadGate, Reading
  <2> QED BY <1>4, <2>1 DEF ReadGate, LInv
<1>5. ASSUME NEW p \in Proc, LCall(p) PROVE LInv'
  BY <1>1, <1>2, <1>3, <1>4, <1>5 DEF LCall, Prepare, BindStage, Rollback
<1>6. CASE UNCHANGED lvars
  BY <1>1, <1>6 DEF lvars
<1> QED BY <1>1, <1>2, <1>5, <1>6 DEF LNext, LHeld, RecordGate, LAbort

(* Every command is one of the store's calls. *)
LEMMA CallRefines == ASSUME LInv, NEW p \in Proc, LCall(p) PROVE Next
<1>1. ASSUME NEW k \in Calls, Read(p, k) PROVE Next
  BY <1>1 DEF Next, Call
<1>2. ASSUME NEW x \in Plans, Prepare(p, x) PROVE Next
  <2>1. PlanDoc(x) \in Docs
    BY DEF Docs
  <2>2. Replace(Plan, PlanDoc(x), Stale(seen[p])) \in Change
    BY <2>1, ReplaceIsChange, SidecarsAreMutable
  <2> QED BY <1>2, <2>2, PublishIsCall DEF Prepare, Next
<1>3. ASSUME NEW x \in Plans, Freeze(p, x) PROVE Next
  <2>1. CredentialDoc(x, now) \in Docs
    BY DEF Docs, LInv
  <2>2. Replace(Credential, CredentialDoc(x, now), Bound(seen[p])) \in Change
    BY <2>1, ReplaceIsChange, SidecarsAreMutable
  <2> QED BY <1>3, <2>2, PublishIsCall DEF Freeze, Next
<1>4. ASSUME NEW b \in Bindings, BindStage(p, b) PROVE Next
  <2> DEFINE doc == BindingDoc(prior[p].plan, prior[p].gate)
  <2>1. prior[p] \in [plan : Plans, gate : GateDocs]
    BY <1>4 DEF BindStage, LInv, Reading
  <2>2. doc \in Docs
    BY <2>1 DEF Docs
  <2>3. Replace(b, doc, {}) \in Change
    BY <2>2, ReplaceIsChange, SidecarsAreMutable
  <2>4. Publish(p, Replace(b, doc, {}))
    BY <1>4 DEF BindStage
  <2> QED BY <2>3, <2>4, PublishIsCall DEF Next
<1>5. ASSUME Rollback(p) PROVE Next
  BY <1>5 DEF Rollback, Next, Call
<1> QED BY <1>1, <1>2, <1>3, <1>4, <1>5 DEF LCall, ReadGate, Calls

LEMMA RecordIsGateStep ==
  ASSUME NEW p \in Proc, NEW g \in Gates, RecordGate(p, g) PROVE GateStep(p)
<1>1. PICK x \in Plans \cup {NoPlan} : GateWrite(p, g, GateDoc(x))
  BY DEF RecordGate
<1>2. GateDoc(x) \in Content
  BY DocsAssumption DEF Docs, GateDocs
<1> QED BY <1>1, <1>2 DEF GateStep

LEMMA StepUsesStore == LInv /\ [LNext]_lvars => [Next]_vars
<1> SUFFICES ASSUME LInv, [LNext]_lvars PROVE [Next]_vars
  OBVIOUS
<1>1. ASSUME NEW p \in Proc, LHeld(p) PROVE Next
  BY <1>1 DEF LHeld, Next, Held, GateStep
<1>2. ASSUME NEW p \in Proc, NEW g \in Gates, RecordGate(p, g) PROVE Next
  BY <1>2, RecordIsGateStep DEF Next, Held
<1>3. CASE UNCHANGED lvars
  BY <1>3 DEF lvars
<1> QED BY <1>1, <1>2, <1>3, CallRefines DEF LNext, LAbort, Next

(* Every behaviour of the plan and gate commands is a behaviour of the store: *)
(* the commands ask it for nothing but what the store was proved about.      *)
THEOREM CommandsUseStore == LSpec => Spec
<1>1. LInit => Init
  BY DEF LInit
<1> QED BY <1>1, LInvInit, LInvNext, StepUsesStore, PTL DEF LSpec, Spec

(* Whatever the commands do, publishing is atomic for them. *)
THEOREM CommandsSeeAtomicFiles == LSpec => AtomicSpec
BY CommandsUseStore, ImplementsAtomicSidecars, PTL

(* Every variable of the commands and of the store keeps its domain. *)
THEOREM CommandsTypeCorrect == LSpec => []LTypeOK
<1>1. LInv /\ Base => LTypeOK
  <2> SUFFICES ASSUME LInv, Base PROVE LTypeOK
    OBVIOUS
  <2>1. Reading \subseteq [plan : Plans \cup {NoPlan}, gate : GateDocs \cup {Absent}]
    BY DEF Reading, NoPrior
  <2> QED BY <2>1 DEF LInv, Base, LTypeOK
<1>2. IInv => Base
  BY DEF IInv
<1>3. LSpec => []LInv
  BY LInvInit, LInvNext, PTL DEF LSpec
<1> QED BY <1>1, <1>2, <1>3, CommandsUseStore, IInvInvariant, PTL

-----------------------------------------------------------------------------
(* A gate record changes only when a gate command writes it. *)
LEMMA OnlyRecordsMoveGates ==
  ASSUME [LNext]_lvars, NEW g \in Gates, disk'[g] # disk[g]
  PROVE  \E p \in Proc : \E h \in Gates : RecordGate(p, h)
<1>0. g \notin Mutable
  BY FilesAssumption
<1>1. ASSUME NEW p \in Proc, LCall(p) PROVE FALSE
  BY <1>1 DEF LCall, Prepare, Freeze, ReadGate, BindStage, Rollback, Read, Publish,
     RollbackAll, Begin
<1>2. ASSUME NEW p \in Proc, LHeld(p) PROVE FALSE
  <2>1. ASSUME NEW n \in Mutable, ApplyReplace(p, n) PROVE FALSE
    BY <1>0, <2>1 DEF ApplyReplace
  <2>2. ASSUME Replay(p) PROVE FALSE
    BY <2>1, <2>2
       DEF Replay, ApplyCheck, ApplySkip, ApplyRefuse, ApplyGone, MarkCommitted, Refuse
  <2>3. ASSUME Recovery(p) PROVE FALSE
    BY <2>3 DEF Recovery, RecoverNone, RecoverRefuse, RecoverDrop, RecoverForward,
       RecoverDone, Refuse
  <2>4. ASSUME Body(p) PROVE FALSE
    BY <2>4 DEF Body, SnapshotRefuse, SnapshotRead, SnapshotDone, RecoverOnly, MeasureDone, CommitConflict,
       CommitCompare, CommitNothing, CommitChoose, CommitNote, CommitPrepare, CommitDone,
       Refuse
  <2> QED BY <1>2, <2>2, <2>3, <2>4 DEF LHeld, GateOpen, GateRefuse, GateClose, Refuse
<1> QED BY <1>1, <1>2 DEF LNext, lvars, vars, Acquire, LAbort, Abort, Tidy

(* A gate record names the plan that is in force when it is written: what the *)
(* gate command read under the lock cannot have moved before its write.      *)
THEOREM GateNamesCurrentPlan == LSpec => GateUnderCurrentPlan
<1> DEFINE InForce(x) == IF Files[Plan] = Absent THEN x = NoPlan ELSE Files[Plan] = PlanDoc(x)
           A == \A g \in Gates : disk'[g] # disk[g]
                   => disk'[g] = GateDoc(CHOOSE x \in Plans \cup {NoPlan} : InForce(x))
<1>1. ASSUME IInv, [LNext]_lvars PROVE A
  <2> SUFFICES ASSUME NEW g \in Gates, disk'[g] # disk[g]
               PROVE  disk'[g] = GateDoc(CHOOSE x \in Plans \cup {NoPlan} : InForce(x))
    OBVIOUS
  <2>1. PICK p \in Proc, h \in Gates : RecordGate(p, h)
    BY <1>1, OnlyRecordsMoveGates
  <2>2. journal = NoJournal /\ seen[p] = disk
    BY <1>1, <2>1 DEF RecordGate, IInv, HolderKnows
  <2>3. Files = disk
    BY <2>2 DEF Files
  <2>4. PICK x \in Plans \cup {NoPlan} : /\ InForce(x)
                                        /\ GateWrite(p, h, GateDoc(x))
    BY <2>1, <2>2, <2>3 DEF RecordGate, PlanIn
  <2>5. \A y \in Plans \cup {NoPlan} : InForce(y) => y = x
    BY <2>4 DEF PlanDoc
  <2>6. (CHOOSE y \in Plans \cup {NoPlan} : InForce(y)) = x
    BY <2>4, <2>5
  <2>7. disk'[g] = GateDoc(x)
    BY <1>1, <2>4 DEF GateWrite, IInv, Base, TypeOK, View, Consumers
  <2> QED BY <2>6, <2>7
<1>2. IInv /\ [LNext]_lvars => [A]_lvars
  BY <1>1
<1>3. LSpec => [][LNext]_lvars
  BY DEF LSpec
<1> QED BY <1>2, <1>3, CommandsUseStore, IInvInvariant, PTL DEF GateUnderCurrentPlan

-----------------------------------------------------------------------------
(* The sidecars stay coherent.  The clock never shows a second twice to two   *)
(* freezes, so a credential that left the directory never comes back, and a   *)
(* snapshot in which it stands is of the time before it left.                 *)

(* The view v with the changes ch made.                                       *)
After(v, ch) == [c \in Consumers |-> IF c \in DOMAIN ch THEN ch[c] ELSE v[c]]

(* A call whose change is not visible yet, but still may become so.           *)
Before     == {"waiting", "locked", "drop", "redo", "rewrite", "redone", "body",
               "compared", "chosen", "noted"}
Pending(p) == pc[p] \in Before \/ (pc[p] \in {"apply", "write"} /\ Applied = {})

Publishes(p) == kind[p] = "publish" /\ Pending(p)
Removes(p)   == kind[p] = "rollback-all" /\ Pending(p)
Writes(p, c) == /\ Publishes(p)
                /\ Credential \in DOMAIN want[p]
                /\ want[p][Credential] = c /\ c # Absent

Holds(p)  == seen[p] # NoView
Minted(c) == \E x \in Plans : \E s \in 0..MaxSecond : s < now /\ c = CredentialDoc(x, s)

CoherentViews == Coherent(Files) /\ \A p \in Proc : Holds(p) => Coherent(seen[p])

(* Every credential there is was written in a second that is over ...         *)
AllMinted ==
    /\ Files[Credential] # Absent => Minted(Files[Credential])
    /\ \A p \in Proc : /\ Holds(p) /\ seen[p][Credential] # Absent => Minted(seen[p][Credential])
                       /\ \A c \in Value : Writes(p, c) => Minted(c)

(* ... and one that is still to be written is nowhere yet.                    *)
NeverBefore ==
    \A p \in Proc : \A c \in Value : Writes(p, c) =>
        /\ Files[Credential] # c
        /\ \A q \in Proc : /\ Holds(q) => seen[q][Credential] # c
                           /\ Writes(q, c) => q = p

(* Under one credential bindings are only added.                              *)
BindingsGrow ==
    \A p \in Proc :
        Holds(p) /\ seen[p][Credential] # Absent /\ seen[p][Credential] = Files[Credential]
            => Bound(seen[p]) \subseteq Bound(Files)

(* What a publish would make of the snapshot it was made for.                 *)
Sound(v, ch) ==
    /\ Coherent(After(v, ch))
    /\ v[Credential] # Absent /\ After(v, ch)[Credential] = v[Credential]
         => Bound(v) \subseteq Bound(After(v, ch))
SoundPublish == \A p \in Proc : Publishes(p) => Holds(p) /\ Sound(seen[p], want[p])

(* A rollback removes everything its snapshot has, or its snapshot is out of  *)
(* date for good.                                                             *)
PresentIn(v) == {n \in Mutable : v[n] # Absent}
SoundRemoval ==
    \A p \in Proc :
        /\ kind[p] = "measure" => Holds(p)
        /\ Removes(p) =>
             /\ Holds(p)
             /\ \A n \in DOMAIN want[p] : want[p][n] = Absent
             /\ \/ PresentIn(seen[p]) \subseteq DOMAIN want[p]
                \/ seen[p][Credential] # Absent /\ seen[p][Credential] # Files[Credential]

(* The journal of a running commit is what its call asked for.                *)
JournalAsAsked ==
    \A p \in Proc :
        /\ pc[p] \in {"apply", "write", "applied"} => kind[p] \in {"publish", "rollback-all"}
        /\ pc[p] \in {"apply", "write"} =>
             /\ journal.names = {n \in DOMAIN want[p] : seen[p][n] # want[p][n]}
             /\ \A n \in journal.names : journal.new[n] = want[p][n]
        /\ pc[p] \in {"apply", "write", "applied"} /\ kind[p] = "rollback-all" =>
             \A n \in Mutable : IF n \in journal.names THEN journal.new[n] = Absent
                                ELSE disk[n] = Absent

CInv == /\ CoherentViews /\ AllMinted /\ NeverBefore /\ BindingsGrow
        /\ SoundPublish /\ SoundRemoval /\ JournalAsAsked

(* Coherence depends on the sidecars alone. *)
LEMMA CoherentSame ==
  ASSUME NEW v, NEW w, \A n \in Mutable : v[n] = w[n]
  PROVE  /\ Coherent(v) <=> Coherent(w)
         /\ Bound(v) = Bound(w) /\ PresentIn(v) = PresentIn(w)
<1>1. Bound(v) = Bound(w) /\ PresentIn(v) = PresentIn(w)
  BY DEF Bound, PresentIn, Mutable
<1>2. PlanIn(v) = PlanIn(w) /\ FrozenFor(v) = FrozenFor(w)
      /\ \A b \in Bindings : BoundFor(v, b) = BoundFor(w, b)
  BY DEF PlanIn, FrozenFor, BoundFor, Mutable
<1>3. v[Plan] = w[Plan] /\ v[Credential] = w[Credential]
  BY DEF Mutable
<1>4. Bound(v) \subseteq Bindings
  BY DEF Bound
<1> QED BY <1>1, <1>2, <1>3, <1>4 DEF Coherent

LEMMA FilesTyped ==
  ASSUME IInv PROVE Files \in View
<1>1. disk \in View
  BY DEF IInv, Base, TypeOK
<1>2. CASE journal # NoJournal
  <2>1. journal \in Journals
    BY <1>2 DEF IInv, Base, TypeOK
  <2>2. journal.names \subseteq Mutable /\ journal.new \in [Mutable -> Value]
    BY <2>1 DEF Journals
  <2> QED BY <1>1, <2>2 DEF Files, View
<1> QED BY <1>1, <1>2 DEF Files

(* A step that shows no file and begins no change.                            *)
LEMMA Quiet ==
  ASSUME CInv, now' = now, \A n \in Mutable : Files'[n] = Files[n],
         \A q \in Proc : seen'[q] = seen[q] \/ seen'[q] = NoView,
         \A q \in Proc : kind'[q] \in {"publish", "rollback-all"} /\ Pending(q)' =>
             /\ kind'[q] = kind[q] /\ want'[q] = want[q] /\ seen'[q] = seen[q]
             /\ Pending(q),
         \A q \in Proc : kind'[q] = "measure" => seen'[q] # NoView,
         JournalAsAsked'
  PROVE  CInv'
<1> DEFINE F == Files
<1>0. Credential \in Mutable
  BY DEF Mutable
<1>1. Files'[Credential] = Files[Credential]
  BY <1>0
<1>2. Coherent(Files) /\ (Coherent(Files'))
      /\ Bound(Files') = Bound(Files)
  BY CoherentSame DEF CInv, CoherentViews
<1>3. \A q \in Proc : seen'[q] # NoView => seen'[q] = seen[q] /\ Holds(q)
  BY DEF Holds
<1>4. \A q \in Proc : /\ Publishes(q)' => Publishes(q) /\ want'[q] = want[q] /\ seen'[q] = seen[q]
                      /\ Removes(q)' => Removes(q) /\ want'[q] = want[q] /\ seen'[q] = seen[q]
  BY DEF Publishes, Removes
<1>5. \A q \in Proc : \A c : Writes(q, c)' => Writes(q, c)
  BY <1>4 DEF Writes
<1>6. CoherentViews'
  BY <1>2, <1>3 DEF CInv, CoherentViews, Holds
<1>7. AllMinted'
  BY <1>1, <1>3, <1>5 DEF CInv, AllMinted, Holds, Minted
<1>8. NeverBefore'
  BY <1>1, <1>3, <1>5 DEF CInv, NeverBefore, Holds
<1>9. BindingsGrow'
  BY <1>1, <1>2, <1>3 DEF CInv, BindingsGrow, Holds
<1>10. SoundPublish'
  BY <1>4 DEF CInv, SoundPublish, Holds
<1>11. SoundRemoval'
  BY <1>1, <1>4 DEF CInv, SoundRemoval, Holds
<1> QED BY <1>6, <1>7, <1>8, <1>9, <1>10, <1>11 DEF CInv

(* While p holds the lock, nobody else is in the middle of a commit.          *)
LEMMA HolderAlone ==
  ASSUME IInv, NEW p \in Proc, pc[p] \in Holding,
         \A q \in Proc \ {p} : /\ pc'[q] = pc[q] /\ kind'[q] = kind[q]
                               /\ want'[q] = want[q] /\ seen'[q] = seen[q]
  PROVE  \A q \in Proc \ {p} : /\ Pending(q)' => Pending(q)
                               /\ pc'[q] \notin {"apply", "write", "applied"}
<1>1. \A q \in Proc \ {p} : pc[q] \notin Holding
  BY OthersOutside DEF IInv, Base, LockInv
<1> QED BY <1>1 DEF Pending, Holding, Before

LEMMA HolderQuiet ==
  ASSUME IInv, CInv, now' = now, NEW p \in Proc, pc[p] \in Holding,
         \A n \in Mutable : Files'[n] = Files[n],
         \A q \in Proc \ {p} : /\ pc'[q] = pc[q] /\ kind'[q] = kind[q]
                               /\ want'[q] = want[q] /\ seen'[q] = seen[q],
         \/ kind'[p] = "none" /\ pc'[p] = "idle" /\ seen'[p] = NoView
         \/ /\ kind'[p] = kind[p] /\ want'[p] = want[p] /\ seen'[p] = seen[p]
            /\ Pending(p)' => Pending(p)
            /\ pc'[p] \notin {"apply", "write", "applied"}
  PROVE  CInv'
<1>1. \A q \in Proc \ {p} : (Pending(q)' => Pending(q)) /\ pc'[q] \notin {"apply", "write", "applied"}
  BY HolderAlone
<1>2. JournalAsAsked'
  BY <1>1 DEF JournalAsAsked
<1>3. \A q \in Proc : kind[q] = "measure" => seen[q] # NoView
  BY DEF CInv, SoundRemoval, Holds
<1>4. \A q \in Proc : seen'[q] = seen[q] \/ seen'[q] = NoView
  OBVIOUS
<1>5. \A q \in Proc : kind'[q] = "measure" => seen'[q] # NoView
  BY <1>3
<1>6. \A q \in Proc : kind'[q] \in {"publish", "rollback-all"} /\ Pending(q)' =>
             /\ kind'[q] = kind[q] /\ want'[q] = want[q] /\ seen'[q] = seen[q]
             /\ Pending(q)
  BY <1>1
<1> QED BY <1>2, <1>4, <1>5, <1>6, Quiet

LEMMA LeaveQuiet ==
  ASSUME IInv, CInv, now' = now, NEW p \in Proc, pc[p] \in Holding, Leave(p, NoView),
         \A n \in Mutable : Files'[n] = Files[n]
  PROVE  CInv'
<1>1. \A q \in Proc \ {p} : /\ pc'[q] = pc[q] /\ kind'[q] = kind[q]
                            /\ want'[q] = want[q] /\ seen'[q] = seen[q]
  BY DEF Leave, IInv, Base, TypeOK
<1>2. kind'[p] = "none" /\ pc'[p] = "idle" /\ seen'[p] = NoView
  BY DEF Leave, IInv, Base, TypeOK
<1> QED BY <1>1, <1>2, HolderQuiet

(* Nobody but p moves, and the files and the journal do not.                  *)
LEMMA IdleQuiet ==
  ASSUME IInv, CInv, now' = now, NEW p \in Proc, UNCHANGED <<disk, journal>>,
         \A q \in Proc \ {p} : /\ pc'[q] = pc[q] /\ kind'[q] = kind[q]
                               /\ want'[q] = want[q] /\ seen'[q] = seen[q],
         seen'[p] = seen[p] \/ seen'[p] = NoView,
         pc'[p] \notin {"apply", "write", "applied"},
         kind'[p] \in {"publish", "rollback-all"} =>
             kind'[p] = kind[p] /\ want'[p] = want[p] /\ seen'[p] = seen[p] /\ Pending(p),
         kind'[p] = "measure" => seen'[p] # NoView
  PROVE  CInv'
<1>1. Files' = Files /\ Applied' = Applied
  BY SameFiles DEF Applied
<1>2. \A q \in Proc \ {p} : Pending(q)' => Pending(q)
  BY <1>1 DEF Pending
<1>3. JournalAsAsked'
  BY DEF CInv, JournalAsAsked
<1>4. \A q \in Proc : kind[q] = "measure" => seen[q] # NoView
  BY DEF CInv, SoundRemoval, Holds
<1>5. \A q \in Proc : kind'[q] = "measure" => seen'[q] # NoView
  BY <1>4
<1>6. \A q \in Proc : kind'[q] \in {"publish", "rollback-all"} /\ Pending(q)' =>
             /\ kind'[q] = kind[q] /\ want'[q] = want[q] /\ seen'[q] = seen[q]
             /\ Pending(q)
  BY <1>2
<1>7. \A q \in Proc : seen'[q] = seen[q] \/ seen'[q] = NoView
  OBVIOUS
<1> QED BY <1>1, <1>3, <1>5, <1>6, <1>7, Quiet

(* A snapshot is of the files as they are.                                    *)
LEMMA SnapshotKeeps ==
  ASSUME IInv, CInv, now' = now, NEW p \in Proc, pc[p] \in Holding, UNCHANGED <<disk, journal>>,
         kind[p] \in {"snapshot", "gate"}, kind'[p] \in {kind[p], "none"},
         seen'[p] = Files, pc'[p] \notin {"apply", "write", "applied"},
         \A q \in Proc \ {p} : /\ pc'[q] = pc[q] /\ kind'[q] = kind[q]
                               /\ want'[q] = want[q] /\ seen'[q] = seen[q]
  PROVE  CInv'
<1>1. Files' = Files
  BY SameFiles
<1>2. \A q \in Proc \ {p} : (Pending(q)' => Pending(q)) /\ pc'[q] \notin {"apply", "write", "applied"}
  BY HolderAlone
<1>3. \A q \in Proc : Publishes(q)' => q # p /\ Publishes(q)
  BY <1>2 DEF Publishes
<1>4. \A q \in Proc : Removes(q)' => q # p /\ Removes(q)
  BY <1>2 DEF Removes
<1>5. \A q \in Proc : \A c : Writes(q, c)' => q # p /\ Writes(q, c)
  BY <1>3 DEF Writes
<1>6. CoherentViews'
  BY <1>1 DEF CInv, CoherentViews, Holds
<1>7. AllMinted'
  BY <1>1, <1>5 DEF CInv, AllMinted, Holds, Minted
<1>8. NeverBefore'
  BY <1>1, <1>5 DEF CInv, NeverBefore, Holds
<1>9. BindingsGrow'
  BY <1>1 DEF CInv, BindingsGrow, Holds
<1>10. SoundPublish'
  BY <1>3 DEF CInv, SoundPublish, Holds
<1>11. SoundRemoval'
  BY <1>1, <1>4 DEF CInv, SoundRemoval, Holds
<1>12. JournalAsAsked'
  BY <1>2 DEF JournalAsAsked
<1> QED BY <1>6, <1>7, <1>8, <1>9, <1>10, <1>11, <1>12 DEF CInv

LEMMA DocsDistinct ==
  /\ \A x \in Plans : PlanDoc(x) # Absent
  /\ \A x \in Plans, s \in 0..MaxSecond : CredentialDoc(x, s) # Absent
  /\ \A x \in Plans, g \in GateDocs : BindingDoc(x, g) # Absent
  /\ \A x, y : PlanDoc(x) = PlanDoc(y) => x = y
  /\ \A x, y, s, t : CredentialDoc(x, s) = CredentialDoc(y, t) => x = y /\ s = t
  /\ \A x, y, g, h : BindingDoc(x, g) = BindingDoc(y, h) => x = y
<1>1. Absent \notin Docs
  BY DocsAssumption, FilesAssumption
<1>2. \A x, y : PlanDoc(x) = PlanDoc(y) => x = y
  BY DEF PlanDoc
<1>3. \A x, y, s, t : CredentialDoc(x, s) = CredentialDoc(y, t) => x = y /\ s = t
  BY DEF CredentialDoc
<1>4. \A x, y, g, h : BindingDoc(x, g) = BindingDoc(y, h) => x = y
  BY DEF BindingDoc
<1> QED BY <1>1, <1>2, <1>3, <1>4 DEF Docs

(* The three changes a command asks for keep a coherent view coherent.        *)
LEMMA PrepareSound ==
  ASSUME NEW v \in View, Coherent(v), NEW x \in Plans
  PROVE  Sound(v, Replace(Plan, PlanDoc(x), Stale(v)))
<1> DEFINE ch == Replace(Plan, PlanDoc(x), Stale(v))
           w == After(v, ch)
<1>1. Plan # Credential /\ Plan \notin Bindings /\ Credential \notin Bindings
  BY FilesAssumption
<1>2. DOMAIN ch = {Plan} \cup Stale(v)
  BY DEF Replace
<1>3. w[Plan] = PlanDoc(x) /\ w[Plan] # Absent
  BY <1>2, DocsDistinct DEF After, Replace, Consumers, Mutable
<1>4. \A n \in {Credential} \cup Bindings : w[n] = Absent
  BY <1>1, <1>2 DEF After, Replace, Consumers, Mutable, Stale
<1>5. Bound(w) = {}
  BY <1>4 DEF Bound
<1> HIDE DEF w
<1>6. Coherent(w)
  BY <1>3, <1>4, <1>5 DEF Coherent
<1> QED BY <1>4, <1>6 DEF Sound, w

LEMMA FreezeSound ==
  ASSUME NEW v \in View, Coherent(v), NEW x \in Plans, NEW s \in 0..MaxSecond,
         x \in PlanIn(v), x \notin FrozenFor(v)
  PROVE  Sound(v, Replace(Credential, CredentialDoc(x, s), Bound(v)))
<1> DEFINE ch == Replace(Credential, CredentialDoc(x, s), Bound(v))
           w == After(v, ch)
<1>1. Plan # Credential /\ Plan \notin Bindings /\ Credential \notin Bindings
  BY FilesAssumption
<1>2. DOMAIN ch = {Credential} \cup Bound(v)
  BY DEF Replace
<1>3. w[Plan] = PlanDoc(x)
  BY <1>1, <1>2 DEF After, Consumers, Mutable, Bound, PlanIn
<1>4. w[Credential] = CredentialDoc(x, s)
  BY <1>1, <1>2 DEF After, Replace, Consumers, Mutable
<1>5. \A n \in Bindings : w[n] = Absent
  BY <1>1, <1>2 DEF After, Replace, Consumers, Mutable, Bound
<1>6. Bound(w) = {}
  BY <1>5 DEF Bound
<1>7. PlanIn(w) = {x}
  BY <1>3, DocsDistinct DEF PlanIn
<1>8. FrozenFor(w) = {x}
  BY <1>4, DocsDistinct DEF FrozenFor
<1>9. v[Credential] # CredentialDoc(x, s)
  BY DEF FrozenFor
<1>10. w[Plan] # Absent
  BY <1>3, DocsDistinct
<1>11. w[Credential] # Absent
  BY <1>4, DocsDistinct
<1> HIDE DEF w
<1>12. Coherent(w)
  BY <1>6, <1>7, <1>8, <1>10, <1>11 DEF Coherent
<1> QED BY <1>4, <1>9, <1>12 DEF Sound, w

LEMMA BindSound ==
  ASSUME NEW v \in View, Coherent(v), NEW x \in PlanIn(v) \cap FrozenFor(v),
         NEW g \in GateDocs, NEW b \in Bindings
  PROVE  Sound(v, Replace(b, BindingDoc(x, g), {}))
<1> DEFINE ch == Replace(b, BindingDoc(x, g), {})
           w == After(v, ch)
<1>1. Plan # Credential /\ Plan \notin Bindings /\ Credential \notin Bindings
  BY FilesAssumption
<1>2. DOMAIN ch = {b}
  BY DEF Replace
<1>3. w[Plan] = v[Plan] /\ w[Credential] = v[Credential]
  BY <1>1, <1>2 DEF After, Consumers, Mutable
<1>4. w[b] = BindingDoc(x, g) /\ \A n \in Bindings \ {b} : w[n] = v[n]
  BY <1>2 DEF After, Replace, Consumers, Mutable
<1>5. x \in Plans
  BY DEF PlanIn
<1>6. v[Credential] # Absent /\ v[Plan] # Absent
  BY <1>5, DocsDistinct DEF PlanIn, FrozenFor
<1>7. FrozenFor(w) = FrozenFor(v) /\ PlanIn(w) = PlanIn(v)
  BY <1>3 DEF FrozenFor, PlanIn
<1>8. FrozenFor(v) = {x}
  BY <1>5, DocsDistinct DEF FrozenFor
<1>9. BoundFor(w, b) = {x}
  BY <1>4, <1>5, DocsDistinct DEF BoundFor
<1>10. Bound(w) = Bound(v) \cup {b}
  BY <1>4, <1>5, DocsDistinct DEF Bound
<1>11. \A n \in Bindings \ {b} : BoundFor(w, n) = BoundFor(v, n)
  BY <1>4 DEF BoundFor
<1> HIDE DEF w
<1>12. \A n \in Bound(w) : BoundFor(w, n) = FrozenFor(w)
  BY <1>7, <1>8, <1>9, <1>10, <1>11 DEF Coherent, Bound
<1>13. Coherent(w)
  BY <1>3, <1>6, <1>7, <1>12 DEF Coherent
<1> QED BY <1>10, <1>13 DEF Sound, w

LEMMA MintedStays ==
  ASSUME LInv, now' \in 0..MaxSecond, now' >= now, NEW c, Minted(c)
  PROVE  Minted(c)'
BY SecondsAssumption DEF Minted, LInv

(* A call that asks for a publish which is sound for its snapshot, and whose  *)
(* credential, if any, is of this very second.                                *)
LEMMA AskKeeps ==
  ASSUME IInv, LInv, CInv, NEW p \in Proc, UNCHANGED <<disk, journal, seen>>,
         now' \in 0..MaxSecond, now' >= now,
         pc'[p] = "waiting", kind'[p] = "publish", Holds(p), Sound(seen[p], want'[p]),
         \A q \in Proc \ {p} : pc'[q] = pc[q] /\ kind'[q] = kind[q] /\ want'[q] = want[q],
         \A c \in Value : Writes(p, c)' => Minted(c)' /\ ~Minted(c)
  PROVE  CInv'
<1>1. Files' = Files /\ Applied' = Applied
  BY SameFiles DEF Applied
<1>2. \A q \in Proc \ {p} : Pending(q)' = Pending(q)
  BY <1>1 DEF Pending
<1>3. \A q \in Proc \ {p} : /\ Publishes(q)' = Publishes(q)
                            /\ Removes(q)' = Removes(q)
  BY <1>2 DEF Publishes, Removes
<1>4. \A q \in Proc \ {p} : \A c : Writes(q, c)' = Writes(q, c)
  BY <1>3 DEF Writes
<1>5. \A c : Minted(c) => Minted(c)'
  BY MintedStays
<1>6. \A q \in Proc : Holds(q)' = Holds(q)
  BY DEF Holds
<1>7. CoherentViews'
  BY <1>1, <1>6 DEF CInv, CoherentViews
<1>8. AllMinted'
  BY <1>1, <1>4, <1>5, <1>6 DEF CInv, AllMinted
<1>9. NeverBefore'
  <2>1. \A q \in Proc, c \in Value : Writes(q, c)' => Files'[Credential] # c
    BY <1>1, <1>4 DEF CInv, NeverBefore, AllMinted, Writes
  <2>2. \A q, r \in Proc, c \in Value : Writes(q, c)' /\ Holds(r)' => seen'[r][Credential] # c
    BY <1>4, <1>6 DEF CInv, NeverBefore, AllMinted, Writes
  <2>3. \A q, r \in Proc, c \in Value : Writes(q, c)' /\ Writes(r, c)' => q = r
    BY <1>4 DEF CInv, NeverBefore, AllMinted
  <2> QED BY <2>1, <2>2, <2>3 DEF NeverBefore
<1>10. BindingsGrow'
  BY <1>1, <1>6 DEF CInv, BindingsGrow
<1>11. SoundPublish'
  BY <1>3, <1>6 DEF CInv, SoundPublish
<1>12. SoundRemoval'
  BY <1>1, <1>3, <1>6 DEF CInv, SoundRemoval, Removes
<1>13. JournalAsAsked'
  BY DEF CInv, JournalAsAsked
<1> QED BY <1>7, <1>8, <1>9, <1>10, <1>11, <1>12, <1>13 DEF CInv

LEMMA NowNotMinted == ASSUME LInv, NEW x \in Plans PROVE ~Minted(CredentialDoc(x, now))
BY SecondsAssumption, DocsDistinct DEF Minted, LInv

LEMMA ViewHeld ==
  ASSUME IInv, CInv, NEW p \in Proc, seen[p] # NoView
  PROVE  seen[p] \in View /\ Coherent(seen[p]) /\ Holds(p)
BY DEF IInv, Base, TypeOK, CInv, CoherentViews, Holds

LEMMA BeginShape ==
  ASSUME IInv, NEW p \in Proc, NEW k, NEW ch, Begin(p, k, ch)
  PROVE  /\ UNCHANGED <<disk, journal>>
         /\ pc[p] = "idle" /\ pc'[p] = "waiting" /\ kind'[p] = k /\ want'[p] = ch
         /\ \A q \in Proc \ {p} : pc'[q] = pc[q] /\ kind'[q] = kind[q] /\ want'[q] = want[q]
BY DEF Begin, IInv, Base, TypeOK

(* A publish that replaces one sidecar and removes others.                    *)
LEMMA PublishKeeps ==
  ASSUME IInv, LInv, CInv, NEW p \in Proc, NEW n \in Mutable, NEW doc, NEW gone \in SUBSET Mutable,
         Publish(p, Replace(n, doc, gone)), Sound(seen[p], Replace(n, doc, gone)),
         now' \in 0..MaxSecond, now' >= now,
         n = Credential => Minted(doc)' /\ ~Minted(doc)
  PROVE  CInv'
<1> DEFINE ch == Replace(n, doc, gone)
<1>1. /\ seen' = seen /\ Begin(p, "publish", ch) /\ seen[p] # NoView
  BY DEF Publish
<1>2. \A c : Writes(p, c)' => c = doc /\ n = Credential
  <2> SUFFICES ASSUME NEW c, Writes(p, c)' PROVE c = doc /\ n = Credential
    OBVIOUS
  <2>1. want'[p] = ch
    BY <1>1, BeginShape
  <2>2. Credential \in DOMAIN ch /\ ch[Credential] = c /\ c # Absent
    BY <2>1 DEF Writes
  <2> QED BY <2>2 DEF Replace
<1>3. Holds(p) /\ want'[p] = ch
  BY <1>1, BeginShape DEF Holds
<1>4. Sound(seen[p], want'[p])
  BY <1>3
<1>5. \A c \in Value : Writes(p, c)' => Minted(c)' /\ ~Minted(c)
  BY <1>2
<1> HIDE DEF ch
<1> QED BY <1>1, <1>3, <1>4, <1>5, BeginShape, AskKeeps

LEMMA CallKeeps ==
  ASSUME DistinctSeconds = TRUE, IInv, LInv, CInv, NEW p \in Proc, LCall(p)
  PROVE  CInv'
<1>0. Plan \in Mutable /\ Credential \in Mutable /\ Plan # Credential
      /\ Credential \notin Bindings
  BY SidecarsAreMutable, FilesAssumption
<1>1. ASSUME NEW k \in Calls, Read(p, k), now' = now PROVE CInv'
  <2>1. /\ Begin(p, k, NoChange) /\ k \in {"snapshot", "recover", "gate"}
        /\ seen' = [seen EXCEPT ![p] = NoView]
    BY <1>1 DEF Read
  <2>2. seen'[p] = NoView /\ \A q \in Proc \ {p} : seen'[q] = seen[q]
    BY <2>1 DEF IInv, Base, TypeOK
  <2>3. kind'[p] = k /\ pc'[p] = "waiting"
    BY <2>1, BeginShape
  <2> QED BY <1>1, <2>1, <2>2, <2>3, BeginShape, IdleQuiet
<1>2. ASSUME NEW x \in Plans, Prepare(p, x) PROVE CInv'
  <2>1. seen[p] \in View /\ Coherent(seen[p])
    BY <1>2, ViewHeld DEF Prepare
  <2>2. Sound(seen[p], Replace(Plan, PlanDoc(x), Stale(seen[p])))
    BY <2>1, PrepareSound
  <2>3. now' = now /\ now \in 0..MaxSecond
    BY <1>2 DEF Prepare, LInv
  <2>4. now' \in 0..MaxSecond /\ now' >= now
    BY <2>3, SecondsAssumption
  <2> QED BY <1>0, <1>2, <2>2, <2>4, SidecarsAreMutable, PublishKeeps DEF Prepare
<1>3. ASSUME NEW x \in Plans, Freeze(p, x) PROVE CInv'
  <2>1. seen[p] \in View /\ Coherent(seen[p])
    BY <1>3, ViewHeld DEF Freeze
  <2>2. now \in 0..MaxSecond /\ now' \in 0..MaxSecond /\ now' = now + 1
    BY <1>3 DEF Freeze, LInv
  <2>3. Sound(seen[p], Replace(Credential, CredentialDoc(x, now), Bound(seen[p])))
    BY <1>3, <2>1, <2>2, FreezeSound DEF Freeze
  <2>4. PICK doc : doc = CredentialDoc(x, now)
    OBVIOUS
  <2>5. Minted(doc)' /\ ~Minted(doc)
    BY <2>2, <2>4, NowNotMinted, SecondsAssumption DEF Minted
  <2>6. now' >= now
    BY <2>2, SecondsAssumption
  <2>7. Publish(p, Replace(Credential, doc, Bound(seen[p])))
    BY <1>3, <2>4 DEF Freeze
  <2> QED BY <1>0, <2>2, <2>3, <2>4, <2>5, <2>6, <2>7, SidecarsAreMutable, PublishKeeps
<1>4. ASSUME NEW b \in Bindings, BindStage(p, b) PROVE CInv'
  <2> DEFINE x == prior[p].plan
             doc == BindingDoc(x, prior[p].gate)
  <2>1. seen[p] \in View /\ Coherent(seen[p])
    BY <1>4, ViewHeld DEF BindStage
  <2>2. x \in PlanIn(seen[p]) \cap FrozenFor(seen[p]) /\ prior[p].gate \in GateDocs
    BY <1>4 DEF BindStage, LInv, Reading
  <2>3. Sound(seen[p], Replace(b, doc, {}))
    BY <2>1, <2>2, BindSound
  <2>4. now' = now /\ now \in 0..MaxSecond
    BY <1>4 DEF BindStage, LInv
  <2>5. now' \in 0..MaxSecond /\ now' >= now
    BY <2>4, SecondsAssumption
  <2>6. Publish(p, Replace(b, doc, {})) /\ b \in Mutable /\ b # Credential
    BY <1>0, <1>4, SidecarsAreMutable DEF BindStage
  <2> QED BY <2>3, <2>5, <2>6, PublishKeeps
<1>5. ASSUME Rollback(p) PROVE CInv'
  <2>1. Begin(p, "measure", NoChange) /\ seen' = seen /\ seen[p] # NoView /\ now' = now
    BY <1>5 DEF Rollback, RollbackAll
  <2>2. kind'[p] = "measure" /\ pc'[p] = "waiting"
    BY <2>1, BeginShape
  <2> QED BY <2>1, <2>2, BeginShape, IdleQuiet
<1> QED BY <1>1, <1>2, <1>3, <1>4, <1>5 DEF LCall, ReadGate, Calls

(* The files become new ones, all at once, by the first entry that is applied. *)
LEMMA FilesMove ==
  ASSUME CInv, now' = now, NEW p \in Proc, UNCHANGED <<kind, seen, want>>, Publishes(p) \/ Removes(p),
         \A q \in Proc : Pending(q)' => q # p /\ Pending(q),
         Coherent(Files'),
         Files'[Credential] \in {Files[Credential], Absent} \/ Writes(p, Files'[Credential]),
         Files'[Credential] \in Value,
         Files'[Credential] = Files[Credential] /\ Files[Credential] # Absent
           => Bound(Files) \subseteq Bound(Files'),
         JournalAsAsked'
  PROVE  CInv'
<1> DEFINE c0 == Files'[Credential]
<1>1. \A q \in Proc : /\ Publishes(q)' => q # p /\ Publishes(q)
                      /\ Removes(q)' => q # p /\ Removes(q)
  BY DEF Publishes, Removes
<1>2. \A q \in Proc : \A c : Writes(q, c)' => q # p /\ Writes(q, c)
  BY <1>1 DEF Writes
<1>3. CoherentViews'
  BY DEF CInv, CoherentViews, Holds
<1>4. c0 # Absent => Minted(c0)
  BY DEF CInv, AllMinted
<1>5. AllMinted'
  BY <1>2, <1>4 DEF CInv, AllMinted, Holds, Minted
<1>6. \A q \in Proc : Holds(q) /\ seen[q][Credential] # Absent /\ seen[q][Credential] = c0
                       => c0 = Files[Credential]
  BY DEF CInv, NeverBefore
<1>7. \A q \in Proc, c \in Value : Writes(q, c)' => c0 # c
  BY <1>2 DEF CInv, NeverBefore, Writes
<1>8. NeverBefore'
  BY <1>2, <1>7 DEF CInv, NeverBefore, Holds
<1>9. BindingsGrow'
  <2> SUFFICES ASSUME NEW q \in Proc, Holds(q), seen[q][Credential] # Absent,
                      seen[q][Credential] = c0
               PROVE  Bound(seen[q]) \subseteq Bound(Files')
    BY DEF BindingsGrow, Holds
  <2>1. c0 = Files[Credential]
    BY <1>6
  <2>2. Bound(seen[q]) \subseteq Bound(Files)
    BY <2>1 DEF CInv, BindingsGrow
  <2> QED BY <2>1, <2>2
<1>10. SoundPublish'
  BY <1>1 DEF CInv, SoundPublish, Holds
<1>11. SoundRemoval'
  <2>1. \A q \in Proc : kind'[q] = "measure" => Holds(q)'
    BY DEF CInv, SoundRemoval, Holds
  <2>2. ASSUME NEW q \in Proc, Removes(q)'
        PROVE  /\ Holds(q)' /\ \A n \in DOMAIN want'[q] : want'[q][n] = Absent
               /\ \/ PresentIn(seen[q]) \subseteq DOMAIN want[q]
                  \/ seen[q][Credential] # Absent /\ seen[q][Credential] # c0
    <3>1. Removes(q) /\ want' = want /\ seen' = seen
      BY <1>1, <2>2
    <3>2. Holds(q)
      BY <3>1 DEF CInv, SoundRemoval
    <3> QED BY <1>6, <3>1, <3>2 DEF CInv, SoundRemoval, Holds
  <2> QED BY <2>1, <2>2 DEF SoundRemoval
<1> QED BY <1>3, <1>5, <1>8, <1>9, <1>10, <1>11 DEF CInv

LEMMA AllAbsentCoherent ==
  ASSUME NEW v, \A n \in Mutable : v[n] = Absent PROVE Coherent(v)
<1>1. Bound(v) = {}
  BY SidecarsAreMutable DEF Bound
<1> QED BY <1>1, SidecarsAreMutable DEF Coherent

(* Applying an entry keeps what the journal says of the files.                *)
LEMMA ApplyAsAsked ==
  ASSUME IInv, CInv, NEW p \in Proc, NEW n \in Mutable, ApplyReplace(p, n)
  PROVE  JournalAsAsked'
<1>1. /\ n \in journal.names /\ disk' = [disk EXCEPT ![n] = journal.new[n]]
      /\ UNCHANGED <<journal, kind, want, seen>> /\ disk \in View
  BY ReplaceShape DEF ApplyReplace, Goto, IInv, Base, TypeOK
<1>2. \A m \in Mutable \ journal.names : disk'[m] = disk[m]
  BY <1>1 DEF View, Consumers
<1>3. \A q \in Proc : /\ pc'[q] = "apply" => pc[q] \in {"apply", "write"}
                      /\ pc'[q] # pc[q] => pc'[q] \in {"redo", "apply"}
  BY DEF ApplyReplace, Replacing, Goto, IInv, Base, TypeOK
<1> QED BY <1>1, <1>2, <1>3 DEF CInv, JournalAsAsked

LEMMA ApplyKeeps ==
  ASSUME IInv, CInv, now' = now, NEW p \in Proc, NEW n \in Mutable, ApplyReplace(p, n)
  PROVE  CInv'
<1>1. /\ journal \in Journals /\ n \in journal.names \ Applied
      /\ disk' = [disk EXCEPT ![n] = journal.new[n]]
      /\ Applied' = Applied \cup {n}
      /\ UNCHANGED <<journal, kind, want, seen>>
  BY ReplaceShape DEF ApplyReplace, Goto
<1>8. /\ pc[p] \in {"rewrite", "write"} /\ \A q \in Proc \ {p} : pc'[q] = pc[q]
      /\ pc'[p] = IF pc[p] = "rewrite" THEN "redo" ELSE "apply"
  BY DEF ApplyReplace, Replacing, Goto, IInv, Base, TypeOK
<1>2. journal # NoJournal /\ disk \in View /\ journal.names \subseteq Mutable
  BY <1>1, FilesAssumption DEF IInv, Base, TypeOK, Journals
<1>3. Files' = [c \in Consumers |-> IF c \in journal.names THEN journal.new[c] ELSE disk[c]]
  BY <1>1, <1>2 DEF Files, View
<1>4. JournalAsAsked'
  BY ApplyAsAsked
<1>5. \A q \in Proc : Pending(q)' => Pending(q) /\ pc[q] # "write"
  BY <1>1, <1>8 DEF Pending, Before
<1>6. CASE Applied # {}
  <2>1. Files' = Files
    BY <1>2, <1>3, <1>6 DEF Files
  <2>2. \A q \in Proc : kind'[q] = "measure" => seen'[q] # NoView
    BY <1>1 DEF CInv, SoundRemoval, Holds
  <2> QED BY <1>1, <1>4, <1>5, <2>1, <2>2, Quiet
<1>7. CASE Applied = {}
  <2>1. Files = disk
    BY <1>7, FilesOnDisk
  <2>2. pc[p] = "write"
    BY <1>7, <1>8 DEF IInv, HolderKnows
  <2>3. /\ kind[p] \in {"publish", "rollback-all"} /\ Pending(p)
        /\ journal.names = {m \in DOMAIN want[p] : seen[p][m] # want[p][m]}
        /\ \A m \in journal.names : journal.new[m] = want[p][m]
    BY <1>7, <2>2 DEF CInv, JournalAsAsked, Pending
  <2>4. \A c \in journal.names : disk[c] = journal.pre[c]
    BY <1>2, <1>7 DEF IInv, JournalShape, Applied
  <2>5. \A c \in Consumers : seen[p][c] = disk[c]
    BY <2>2, <2>4 DEF IInv, HolderKnows
  <2>6. \A c \in Consumers : Files'[c] = IF c \in DOMAIN want[p] THEN want[p][c] ELSE seen[p][c]
    BY <1>3, <2>3, <2>5
  <2>7. Files' = After(seen[p], want[p])
    BY <1>3, <2>6 DEF After
  <2>8. Files'[Credential] \in Value /\ Credential \in Consumers
    <3>1. journal.new \in [Mutable -> Value]
      BY <1>1 DEF Journals
    <3> QED BY <1>2, <1>3, <3>1, SidecarsAreMutable DEF Consumers, View
  <2>9. seen[p] \in View /\ seen[p] = Files
    BY <2>1, <2>2, <2>5, <1>2 DEF IInv, HolderKnows, View
  <2>10. \A q \in Proc : Pending(q)' => q # p /\ Pending(q)
    BY <1>5, <2>2
  <2>11. CASE kind[p] = "publish"
    <3>1. Publishes(p)
      BY <2>3, <2>11 DEF Publishes
    <3>2. Sound(seen[p], want[p])
      BY <3>1 DEF CInv, SoundPublish
    <3>3. Coherent(Files')
      BY <2>7, <3>2 DEF Sound
    <3>4. Files'[Credential] \in {Files[Credential], Absent} \/ Writes(p, Files'[Credential])
      BY <2>6, <2>8, <2>9, <3>1 DEF Writes
    <3>5. Files'[Credential] = Files[Credential] /\ Files[Credential] # Absent
            => Bound(Files) \subseteq Bound(Files')
      BY <2>7, <2>9, <3>2 DEF Sound
    <3> QED BY <1>1, <1>4, <2>8, <2>10, <3>1, <3>3, <3>4, <3>5, FilesMove
  <2>12. CASE kind[p] = "rollback-all"
    <3>1. Removes(p)
      BY <2>3, <2>12 DEF Removes
    <3>2. \A m \in Mutable : IF m \in journal.names THEN journal.new[m] = Absent
                             ELSE disk[m] = Absent
      BY <2>2, <2>12 DEF CInv, JournalAsAsked
    <3>3. \A m \in Mutable : Files'[m] = Absent
      BY <1>3, <3>2 DEF Consumers
    <3>4. Coherent(Files')
      BY <3>3, AllAbsentCoherent
    <3>5. Files'[Credential] = Absent
      BY <3>3, SidecarsAreMutable
    <3> QED BY <1>1, <1>4, <2>8, <2>10, <3>1, <3>4, <3>5, FilesMove
  <2> QED BY <2>3, <2>11, <2>12
<1> QED BY <1>6, <1>7

LEMMA CheckKeeps ==
  ASSUME IInv, CInv, now' = now, NEW p \in Proc, NEW n \in Mutable, ApplyCheck(p, n)
  PROVE  CInv'
<1>1. /\ UNCHANGED <<disk, journal, kind, seen, want>> /\ pc[p] \in {"redo", "apply"}
      /\ pc'[p] = IF pc[p] = "redo" THEN "rewrite" ELSE "write"
      /\ \A q \in Proc \ {p} : pc'[q] = pc[q]
  BY DEF ApplyCheck, Applying, Goto, IInv, Base, TypeOK
<1>2. Files' = Files /\ Applied' = Applied
  BY <1>1, SameFiles DEF Applied
<1>3. \A q \in Proc : Pending(q)' => Pending(q)
  BY <1>1, <1>2 DEF Pending, Before
<1>4. JournalAsAsked'
  BY <1>1 DEF CInv, JournalAsAsked
<1>5. \A q \in Proc : kind'[q] = "measure" => seen'[q] # NoView
  BY <1>1 DEF CInv, SoundRemoval, Holds
<1> QED BY <1>1, <1>2, <1>3, <1>4, <1>5, Quiet

LEMMA MarkKeeps ==
  ASSUME IInv, CInv, now' = now, NEW p \in Proc, MarkCommitted(p)
  PROVE  CInv'
<1>1. /\ journal \in Journals /\ journal' = [journal EXCEPT !.phase = "COMMITTED"]
      /\ UNCHANGED <<disk, kind, seen, want>> /\ pc[p] \in {"redo", "apply"}
      /\ pc' = [pc EXCEPT ![p] = IF pc[p] = "redo" THEN "redone" ELSE "applied"]
  BY DEF MarkCommitted, Applying, Goto, IInv, Base, JournalHeld, Replaying, TypeOK
<1>2. journal'.names = journal.names /\ journal'.new = journal.new
  BY <1>1 DEF Journals
<1>3. journal # NoJournal /\ journal' # NoJournal
  BY <1>1, <1>2, FilesAssumption, MarkType DEF IInv, Base
<1>4. Files' = Files
  BY <1>1, <1>2, <1>3 DEF Files, Applied
<1>5. /\ pc'[p] = IF pc[p] = "redo" THEN "redone" ELSE "applied"
      /\ \A q \in Proc \ {p} : pc'[q] = pc[q]
  BY <1>1 DEF IInv, Base, TypeOK
<1>6. \A q \in Proc \ {p} : (Pending(q)' => Pending(q)) /\ pc'[q] \notin {"apply", "write", "applied"}
  BY <1>1, <1>5, HolderAlone DEF Holding
<1>7. \A q \in Proc : Pending(q)' => Pending(q)
  BY <1>1, <1>5, <1>6 DEF Pending, Before
<1>8. JournalAsAsked'
  BY <1>1, <1>2, <1>5, <1>6 DEF CInv, JournalAsAsked
<1>9. \A q \in Proc : kind'[q] = "measure" => seen'[q] # NoView
  BY <1>1 DEF CInv, SoundRemoval, Holds
<1> QED BY <1>1, <1>4, <1>7, <1>8, <1>9, Quiet

LEMMA PrepareKeeps ==
  ASSUME IInv, CInv, now' = now, NEW p \in Proc, CommitPrepare(p)
  PROVE  CInv'
<1>1. /\ pc[p] = "noted" /\ kind[p] \in {"publish", "rollback-all"}
      /\ UNCHANGED <<disk, kind, seen, want>> /\ seen[p] = disk
      /\ pc'[p] = "apply" /\ \A q \in Proc \ {p} : pc'[q] = pc[q]
  BY PrepareShape DEF CommitPrepare, Committing, Goto, IInv, Base, TypeOK
<1>2. /\ journal'.names = Effective(p) /\ Effective(p) \subseteq Mutable
      /\ \A n \in Effective(p) : journal'.new[n] = want[p][n]
      /\ Applied' = {} /\ journal = NoJournal
  BY PrepareShape
<1>3. Files = disk /\ Files' = Files
  BY <1>1, <1>2 DEF Files
<1>4. Effective(p) = {n \in DOMAIN want[p] : seen[p][n] # want[p][n]}
  BY <1>1 DEF Effective
<1>5. Pending(p)
  BY <1>1 DEF Pending, Before
<1>6. \A q \in Proc \ {p} : (Pending(q)' => Pending(q)) /\ pc'[q] \notin {"apply", "write", "applied"}
  BY <1>1, HolderAlone DEF Holding
<1>7. ASSUME kind[p] = "rollback-all", NEW n \in Mutable
      PROVE  IF n \in Effective(p) THEN want[p][n] = Absent ELSE disk[n] = Absent
  <2>1. Removes(p)
    BY <1>5, <1>7 DEF Removes
  <2>2. PresentIn(disk) \subseteq DOMAIN want[p] /\ \A m \in DOMAIN want[p] : want[p][m] = Absent
    BY <1>1, <1>3, <2>1 DEF CInv, SoundRemoval
  <2> QED BY <2>2 DEF Effective, PresentIn
<1>8. JournalAsAsked'
  <2>1. ASSUME NEW q \in Proc, pc'[q] \in {"apply", "write", "applied"} PROVE q = p
    BY <1>6, <2>1
  <2>2. /\ kind'[p] \in {"publish", "rollback-all"}
        /\ journal'.names = {n \in DOMAIN want'[p] : seen'[p][n] # want'[p][n]}
        /\ \A n \in journal'.names : journal'.new[n] = want'[p][n]
    BY <1>1, <1>2, <1>4
  <2>3. kind'[p] = "rollback-all" =>
             \A n \in Mutable : IF n \in journal'.names THEN journal'.new[n] = Absent
                                ELSE disk'[n] = Absent
    BY <1>1, <1>2, <1>7
  <2> QED BY <2>1, <2>2, <2>3 DEF JournalAsAsked
<1>9. \A q \in Proc : kind'[q] = "measure" => seen'[q] # NoView
  BY <1>1 DEF CInv, SoundRemoval, Holds
<1> QED BY <1>1, <1>3, <1>5, <1>6, <1>8, <1>9, Quiet

LEMMA MeasureKeeps ==
  ASSUME IInv, CInv, now' = now, NEW p \in Proc, MeasureDone(p)
  PROVE  CInv'
<1>1. /\ pc[p] = "body" /\ kind[p] = "measure" /\ UNCHANGED <<disk, journal>>
      /\ journal = NoJournal /\ pc[p] \in Holding
  BY DEF MeasureDone, InBody, IInv, HolderKnows, Holding
<1>2. Files = disk /\ Files' = Files
  BY <1>1 DEF Files
<1>3. CASE Present = {}
  BY <1>1, <1>2, <1>3, LeaveQuiet DEF MeasureDone
<1>4. CASE Present # {}
  <2>1. /\ seen' = seen /\ pc'[p] = "waiting" /\ kind'[p] = "rollback-all"
        /\ want'[p] = [n \in Present |-> Absent]
        /\ \A q \in Proc \ {p} : pc'[q] = pc[q] /\ kind'[q] = kind[q] /\ want'[q] = want[q]
    BY <1>4 DEF MeasureDone, IInv, Base, TypeOK
  <2>2. Holds(p) /\ Coherent(seen[p]) /\ Coherent(disk)
    BY <1>1, <1>2 DEF CInv, SoundRemoval, CoherentViews
  <2>3. Plan \in Present
    <3>1. Plan \in Mutable
      BY SidecarsAreMutable
    <3>2. Present \subseteq {Plan, Credential} \cup Bound(disk)
      BY DEF Bound, Present, Mutable
    <3> QED BY <1>4, <2>2, <3>1, <3>2 DEF Coherent, Present
  <2>4. \/ PresentIn(seen[p]) \subseteq Present
        \/ seen[p][Credential] # Absent /\ seen[p][Credential] # Files[Credential]
    <3> SUFFICES ASSUME seen[p][Credential] = Absent \/ seen[p][Credential] = Files[Credential]
                 PROVE  PresentIn(seen[p]) \subseteq Present
      OBVIOUS
    <3>1. PresentIn(seen[p]) \subseteq {Plan, Credential} \cup Bound(seen[p])
      BY DEF PresentIn, Bound, Mutable
    <3>2. CASE seen[p][Credential] = Absent
      BY <2>2, <2>3, <3>1, <3>2 DEF Coherent, PresentIn
    <3>3. CASE seen[p][Credential] # Absent /\ seen[p][Credential] = Files[Credential]
      <4>1. Bound(seen[p]) \subseteq Bound(Files)
        BY <2>2, <3>3 DEF CInv, BindingsGrow
      <4>2. Bound(Files) \subseteq Present /\ Credential \in Present
        BY <1>2, <3>3, SidecarsAreMutable DEF Bound, Present
      <4> QED BY <2>3, <3>1, <4>1, <4>2
    <3> QED BY <3>2, <3>3
  <2>5. \A q \in Proc \ {p} : (Pending(q)' => Pending(q)) /\ pc'[q] \notin {"apply", "write", "applied"}
    BY <1>1, <2>1, HolderAlone
  <2>6. \A q \in Proc : Publishes(q)' => q # p /\ Publishes(q)
    BY <2>1, <2>5 DEF Publishes
  <2>7. \A q \in Proc \ {p} : Removes(q)' => Removes(q)
    BY <2>1, <2>5 DEF Removes
  <2>8. \A q \in Proc : \A c : Writes(q, c)' => q # p /\ Writes(q, c)
    BY <2>1, <2>6 DEF Writes
  <2>9. CoherentViews'
    BY <1>2, <2>1 DEF CInv, CoherentViews, Holds
  <2>10. AllMinted'
    BY <1>2, <2>1, <2>8 DEF CInv, AllMinted, Holds, Minted
  <2>11. NeverBefore'
    BY <1>2, <2>1, <2>8 DEF CInv, NeverBefore, Holds
  <2>12. BindingsGrow'
    BY <1>2, <2>1 DEF CInv, BindingsGrow, Holds
  <2>13. SoundPublish'
    BY <2>1, <2>6 DEF CInv, SoundPublish, Holds
  <2>14. SoundRemoval'
    <3>1. \A q \in Proc \ {p} : /\ kind'[q] = "measure" => Holds(q)'
                                /\ Removes(q)' => Removes(q) /\ Holds(q)'
      BY <2>1, <2>7 DEF CInv, SoundRemoval, Holds
    <3>2. \A q \in Proc \ {p} : Removes(q)' =>
             /\ \A n \in DOMAIN want'[q] : want'[q][n] = Absent
             /\ \/ PresentIn(seen'[q]) \subseteq DOMAIN want'[q]
                \/ seen'[q][Credential] # Absent /\ seen'[q][Credential] # Files'[Credential]
      BY <1>2, <2>1, <3>1 DEF CInv, SoundRemoval
    <3>3. Holds(p)' /\ kind'[p] # "measure"
      BY <2>1, <2>2 DEF Holds
    <3>4. /\ \A n \in DOMAIN want'[p] : want'[p][n] = Absent
          /\ DOMAIN want'[p] = Present /\ seen'[p] = seen[p]
      BY <2>1
    <3> QED BY <1>2, <2>4, <3>1, <3>2, <3>3, <3>4 DEF SoundRemoval
  <2>15. JournalAsAsked'
    BY <2>1, <2>5 DEF JournalAsAsked
  <2> QED BY <2>9, <2>10, <2>11, <2>12, <2>13, <2>14, <2>15 DEF CInv
<1> QED BY <1>3, <1>4

LEMMA RefuseKeeps ==
  ASSUME IInv, CInv, now' = now, NEW p \in Proc, pc[p] \in Holding, Leave(p, NoView),
         UNCHANGED <<disk, journal>>
  PROVE  CInv'
BY SameFiles, LeaveQuiet

LEMMA RecoveryKeeps ==
  ASSUME IInv, CInv, now' = now, NEW p \in Proc, Recovery(p)
  PROVE  CInv'
<1>1. ASSUME UNCHANGED <<kind, seen, want>>, pc[p] \in {"locked", "redone", "drop"},
             Files' = Files,
             NEW place \in {"redo", "drop", "body"}, pc' = [pc EXCEPT ![p] = place]
      PROVE  CInv'
  <2>1. pc'[p] \in {"redo", "drop", "body"} /\ \A q \in Proc \ {p} : pc'[q] = pc[q]
    BY <1>1 DEF IInv, Base, TypeOK
  <2>2. pc[p] \in Holding /\ Pending(p) /\ pc'[p] \notin {"apply", "write", "applied"}
    BY <1>1, <2>1 DEF Holding, Pending, Before
  <2> QED BY <1>1, <2>1, <2>2, HolderQuiet
<1>2. CASE RecoverNone(p) \/ RecoverForward(p) \/ RecoverDrop(p)
  BY <1>1, <1>2, SameFiles DEF RecoverNone, RecoverForward, RecoverDrop, Entered, Goto
<1>3. CASE RecoverRefuse(p)
  BY <1>3, RefuseKeeps DEF RecoverRefuse, Entered, Refuse, Holding
<1>4. CASE RecoverDone(p)
  <2>1. Applied = {} \/ Applied = journal.names
    BY <1>4 DEF RecoverDone, IInv, HolderKnows, JournalShape, Base, JournalHeld, Replaying
  <2>2. Files' = Files
    BY <1>4, <2>1, FilesOnDisk DEF Files, RecoverDone
  <2> QED BY <1>1, <1>4, <2>2 DEF RecoverDone, Goto
<1> QED BY <1>2, <1>3, <1>4 DEF Recovery

LEMMA ReplayKeeps ==
  ASSUME IInv, CInv, now' = now, NEW p \in Proc, Replay(p)
  PROVE  CInv'
<1>1. ASSUME NEW n \in Mutable, ApplyRefuse(p, n) \/ ApplyGone(p, n) PROVE CInv'
  BY <1>1, RefuseKeeps DEF ApplyRefuse, ApplyGone, Applying, Replacing, Refuse, Holding
<1> QED BY <1>1, ApplyKeeps, CheckKeeps, NothingSkipped, MarkKeeps DEF Replay

LEMMA BodyKeeps ==
  ASSUME IInv, CInv, now' = now, NEW p \in Proc, Body(p)
  PROVE  CInv'
<1>1. CASE SnapshotDone(p)
  <2>1. /\ pc[p] \in Holding /\ kind[p] = "snapshot"
        /\ journal = NoJournal /\ UNCHANGED <<disk, journal>>
    BY <1>1 DEF SnapshotDone, IInv, HolderKnows, Holding
  <2>2. /\ kind'[p] = "none" /\ pc'[p] = "idle" /\ seen'[p] = disk
        /\ \A q \in Proc \ {p} : /\ pc'[q] = pc[q] /\ kind'[q] = kind[q]
                                 /\ want'[q] = want[q] /\ seen'[q] = seen[q]
    BY <1>1 DEF SnapshotDone, Leave, IInv, Base, TypeOK
  <2>3. Files = disk
    BY <2>1 DEF Files
  <2> QED BY <2>1, <2>2, <2>3, SnapshotKeeps
<1>2. CASE SnapshotRefuse(p) \/ RecoverOnly(p) \/ CommitConflict(p) \/ CommitNothing(p)
  BY <1>2, RefuseKeeps DEF SnapshotRefuse, RecoverOnly, CommitConflict, CommitNothing, InBody,
     Committing, Refuse, Holding
<1>3. CASE CommitDone(p)
  <2>1. Applied = journal.names
    BY <1>3 DEF CommitDone, IInv, HolderKnows, JournalShape, Base, JournalHeld, Replaying
  <2>2. Files' = Files
    BY <1>3, <2>1, FilesOnDisk DEF CommitDone, Files
  <2> QED BY <1>3, <2>2, LeaveQuiet DEF CommitDone, Holding
<1>4. CASE SnapshotRead(p) \/ CommitCompare(p) \/ CommitChoose(p) \/ CommitNote(p)
  <2>1. /\ UNCHANGED <<disk, journal, kind, seen, want>>
        /\ pc[p] \in {"body", "compared", "chosen"}
        /\ pc'[p] \in {"read", "compared", "chosen", "noted"}
        /\ \A q \in Proc \ {p} : pc'[q] = pc[q]
    BY <1>4 DEF SnapshotRead, CommitCompare, CommitChoose, CommitNote, InBody, Committing, Goto,
       IInv, Base, TypeOK
  <2>2. pc[p] \in Holding /\ Pending(p)
    BY <2>1 DEF Holding, Pending, Before
  <2>3. Files' = Files
    BY <2>1, SameFiles
  <2> QED BY <2>1, <2>2, <2>3, HolderQuiet
<1> QED BY <1>1, <1>2, <1>3, <1>4, MeasureKeeps, PrepareKeeps DEF Body

LEMMA GateKeeps ==
  ASSUME IInv, CInv, now' = now, NEW p \in Proc, GateStep(p)
  PROVE  CInv'
<1>1. CASE GateOpen(p)
  <2>1. /\ kind'[p] = kind[p] /\ pc'[p] = "gating" /\ seen'[p] = disk
        /\ \A q \in Proc \ {p} : /\ pc'[q] = pc[q] /\ kind'[q] = kind[q]
                                 /\ want'[q] = want[q] /\ seen'[q] = seen[q]
    BY <1>1 DEF GateOpen, IInv, Base, TypeOK
  <2>2. Files = disk
    BY <1>1 DEF GateOpen, Files
  <2> QED BY <1>1, <2>1, <2>2, SnapshotKeeps DEF GateOpen, Holding
<1>2. CASE GateRefuse(p) \/ GateClose(p)
  BY <1>2, RefuseKeeps DEF GateRefuse, GateClose, Refuse, Holding
<1>3. ASSUME NEW g \in Gates, NEW v \in Content, GateWrite(p, g, v) PROVE CInv'
  <2>1. journal = NoJournal /\ journal' = journal /\ pc[p] \in Holding
    BY <1>3 DEF GateWrite, IInv, HolderKnows, Holding
  <2>2. Files = disk /\ Files' = disk'
    BY <2>1 DEF Files
  <2>3. \A n \in Mutable : disk'[n] = disk[n]
    BY <1>3, FilesAssumption DEF GateWrite, IInv, Base, TypeOK, View, Consumers
  <2> QED BY <1>3, <2>1, <2>2, <2>3, LeaveQuiet DEF GateWrite
<1> QED BY <1>1, <1>2, <1>3 DEF GateStep

LEMMA CInvNext ==
  ASSUME DistinctSeconds = TRUE PROVE IInv /\ LInv /\ CInv /\ [LNext]_lvars => CInv'
<1> SUFFICES ASSUME IInv, LInv, CInv, [LNext]_lvars PROVE CInv'
  OBVIOUS
<1>1. ASSUME NEW p \in Proc, LCall(p) PROVE CInv'
  BY <1>1, CallKeeps
<1>2. ASSUME NEW p \in Proc, Acquire(p), now' = now PROVE CInv'
  <2>1. /\ pc[p] = "waiting" /\ pc'[p] = "locked" /\ UNCHANGED <<disk, journal, kind, seen, want>>
        /\ \A q \in Proc \ {p} : pc'[q] = pc[q]
    BY <1>2 DEF Acquire, IInv, Base, TypeOK
  <2>2. Pending(p) /\ (kind[p] = "measure" => seen[p] # NoView)
    BY <2>1 DEF Pending, Before, CInv, SoundRemoval, Holds
  <2> QED BY <1>2, <2>1, <2>2, IdleQuiet
<1>3. ASSUME NEW p \in Proc, LHeld(p) PROVE CInv'
  BY <1>3, RecoveryKeeps, ReplayKeeps, BodyKeeps, GateKeeps DEF LHeld, GateStep
<1>4. ASSUME NEW p \in Proc, NEW g \in Gates, RecordGate(p, g) PROVE CInv'
  BY <1>4, RecordIsGateStep, GateKeeps DEF RecordGate
<1>5. ASSUME NEW p \in Proc, LAbort(p) PROVE CInv'
  BY <1>5, RefuseKeeps DEF LAbort, Abort
<1>6. ASSUME UNCHANGED <<disk, journal, procVars>>, now' = now PROVE CInv'
  <2>1. Files' = Files /\ Applied' = Applied
    BY <1>6, SameFiles DEF Applied
  <2>2. JournalAsAsked'
    BY <1>6 DEF CInv, JournalAsAsked, procVars
  <2>3. \A q \in Proc : kind'[q] = "measure" => seen'[q] # NoView
    BY <1>6 DEF CInv, SoundRemoval, Holds, procVars
  <2>4. \A q \in Proc : Pending(q)' => Pending(q)
    BY <1>6, <2>1 DEF Pending, procVars
  <2> QED BY <1>6, <2>1, <2>2, <2>3, <2>4, Quiet DEF procVars
<1>7. CASE Tidy /\ UNCHANGED <<now, prior>>
  BY <1>6, <1>7 DEF Tidy
<1>8. CASE UNCHANGED lvars
  BY <1>6, <1>8 DEF lvars, vars, procVars
<1> QED BY <1>1, <1>2, <1>3, <1>4, <1>5, <1>7, <1>8 DEF LNext

LEMMA CInvInit == LInit => CInv
<1> SUFFICES ASSUME LInit PROVE CInv
  OBVIOUS
<1>1. /\ journal = NoJournal /\ disk = [c \in Consumers |-> Absent] /\ now = 0
      /\ \A p \in Proc : pc[p] = "idle" /\ kind[p] = "none" /\ seen[p] = NoView
  BY DEF LInit, Init
<1>2. Files = disk /\ \A n \in Mutable : disk[n] = Absent
  BY <1>1 DEF Files, Consumers
<1>3. \A p \in Proc : ~Holds(p) /\ ~Publishes(p) /\ ~Removes(p)
  BY <1>1 DEF Holds, Publishes, Removes
<1>4. \A p \in Proc : \A c : ~Writes(p, c)
  BY <1>3 DEF Writes
<1>5. CoherentViews
  BY <1>2, <1>3, AllAbsentCoherent DEF CoherentViews
<1>6. AllMinted
  BY <1>2, <1>3, <1>4, SidecarsAreMutable DEF AllMinted
<1>7. NeverBefore /\ BindingsGrow /\ SoundPublish
  BY <1>3, <1>4 DEF NeverBefore, BindingsGrow, SoundPublish
<1>8. SoundRemoval
  BY <1>1, <1>3 DEF SoundRemoval
<1>9. JournalAsAsked
  BY <1>1 DEF JournalAsAsked
<1> QED BY <1>5, <1>6, <1>7, <1>8, <1>9 DEF CInv

LEMMA CInvInvariant == ASSUME DistinctSeconds = TRUE PROVE LSpec => [](IInv /\ CInv)
<1>1. LSpec => []LInv
  BY LInvInit, LInvNext, PTL DEF LSpec
<1>2. IInv /\ LInv /\ CInv /\ [LNext]_lvars => CInv'
  BY CInvNext
<1> QED BY <1>1, <1>2, CInvInit, CommandsUseStore, IInvInvariant, PTL DEF LSpec

(* As long as no two freezes fall into one second, a reader never meets an    *)
(* orphan credential, a credential of another plan, or a binding that         *)
(* outlived its credential.                                                  *)
THEOREM SidecarsStayCoherent == ASSUME DistinctSeconds = TRUE PROVE LSpec => []NeverInvalid
<1>1. CInv => NeverInvalid
  BY DEF CInv, CoherentViews, NeverInvalid
<1> QED BY <1>1, CInvInvariant, PTL

(* As long as no two freezes fall into one second, a rollback that commits    *)
(* leaves no sidecar: what it measured in its first lock epoch is what its    *)
(* snapshot held, or the snapshot no longer holds and the commit is refused.  *)
THEOREM RollbackIsComplete == ASSUME DistinctSeconds = TRUE PROVE LSpec => RollbackRemovesAll
<1> DEFINE A == \A p \in Proc : CommitDone(p) /\ kind[p] = "rollback-all"
                   => \A n \in Mutable : disk[n] = Absent
<1>1. ASSUME IInv, CInv PROVE A
  <2> SUFFICES ASSUME NEW p \in Proc, CommitDone(p), kind[p] = "rollback-all",
                      NEW n \in Mutable
               PROVE  disk[n] = Absent
    OBVIOUS
  <2>1. pc[p] = "applied"
    BY DEF CommitDone
  <2>2. Applied = journal.names
    BY <1>1, <2>1 DEF IInv, HolderKnows, JournalShape, Base, JournalHeld, Replaying
  <2>3. IF n \in journal.names THEN journal.new[n] = Absent ELSE disk[n] = Absent
    BY <1>1, <2>1 DEF CInv, JournalAsAsked
  <2> QED BY <2>2, <2>3 DEF Applied
<1>2. IInv /\ CInv => [A]_lvars
  BY <1>1
<1> QED BY <1>2, CInvInvariant, PTL DEF RollbackRemovesAll
=============================================================================
