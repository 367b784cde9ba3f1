------------------------------ MODULE PlanStore ------------------------------
(* The recoverable multi-file transaction of                                 *)
(* src/aek/adapters/plan_transaction.py: one reviews directory, several      *)
(* command-line processes, an exclusive lock, a write-ahead journal.         *)
(*                                                                           *)
(* One action is one durable step (a replace, an unlink, the lock) or one    *)
(* run of reads in which no file is read twice; a process may die between     *)
(* any two of them.  (An edit of one file commutes with the read of another,  *)
(* so such a run may be taken as one step; a file read again is read in a     *)
(* later step.)  A digest is modelled by the value it is the digest of.       *)
EXTENDS Integers, FiniteSets

CONSTANTS Proc, Plan, Credential, Bindings, Gates, Content,
          Absent, Nobody, NoView, NoJournal,
          MaxCrashes,   \* bound: interrupted calls
          MaxEdits      \* bound: files changed by something that ignores the lock

Mutable   == {Plan, Credential} \cup Bindings
Consumers == Mutable \cup Gates
Value     == Content \cup {Absent}
View      == [Consumers -> Value]
NoChange  == [n \in {} |-> Absent]
Change    == UNION {[N -> Value] : N \in (SUBSET Mutable) \ {{}}}

Journals == [op : {"publish", "rollback-all"}, phase : {"PREPARED", "COMMITTED"},
             names : SUBSET Mutable,
             pre : [Mutable -> Value], new : [Mutable -> Value],
             rest : View]

ASSUME FilesAssumption ==
    /\ Plan # Credential
    /\ Plan \notin Bindings /\ Credential \notin Bindings
    /\ Gates \cap Mutable = {}
    /\ Absent \notin Content
    /\ Nobody \notin Proc
    /\ NoView \notin View /\ NoJournal \notin Journals
ASSUME BoundsAssumption == MaxCrashes \in Nat /\ MaxEdits \in Nat

VARIABLES disk,      \* the consumer files
          journal,   \* artifact-plan.tx.json, or NoJournal
          orphan,    \* a .artifact-plan-write-* temporary was left behind
          lock,      \* who holds .artifact-plan.lock
          pc, kind,  \* where each process is, and in which call
          seen,      \* the snapshot (and so the digest) a process holds
          want,      \* the changes it asks for
          todo,      \* the journal entries it still has to apply
          draft,     \* the journal it is about to write, or NoJournal
          checked,   \* the file it has just compared with its preimage, if any
          crashes, edits

work     == <<todo, draft, checked>>
procVars == <<pc, kind, seen, want, work>>
vars     == <<disk, journal, orphan, lock, procVars, crashes, edits>>

Calls    == {"none", "snapshot", "recover", "gate", "publish", "measure",
             "rollback-all"}
Holding  == {"locked", "drop", "redo", "rewrite", "redone", "body", "read", "compared",
             "chosen", "noted", "apply", "write", "applied", "gating"}
Places   == {"idle", "waiting"} \cup Holding

(* The files of view v outside N: what _consumer_digest(N) identifies. *)
Outside(v, N) == [c \in Consumers |-> IF c \in N THEN Absent ELSE v[c]]

(* Publish writes the plan first and bindings last; rollback-all the reverse. *)
Tier(op, n) == LET t == IF n = Plan THEN 0 ELSE IF n = Credential THEN 1 ELSE 2
               IN IF op = "publish" THEN t ELSE 2 - t

FirstOf(op, N) == {n \in N : \A m \in N : Tier(op, n) <= Tier(op, m)}

Init == /\ disk \in View
        /\ journal = NoJournal
        /\ orphan = FALSE
        /\ lock = Nobody
        /\ pc = [p \in Proc |-> "idle"]
        /\ kind = [p \in Proc |-> "none"]
        /\ seen = [p \in Proc |-> NoView]
        /\ want = [p \in Proc |-> NoChange]
        /\ todo = [p \in Proc |-> {}]
        /\ draft = [p \in Proc |-> NoJournal]
        /\ checked = [p \in Proc |-> {}]
        /\ crashes = 0
        /\ edits = 0

-----------------------------------------------------------------------------
(* Calls.  Every one of them first waits for the exclusive lock. *)

Begin(p, k, ch) ==
    /\ pc[p] = "idle"
    /\ pc' = [pc EXCEPT ![p] = "waiting"]
    /\ kind' = [kind EXCEPT ![p] = k]
    /\ want' = [want EXCEPT ![p] = ch]
    /\ UNCHANGED <<disk, journal, orphan, lock, work, crashes, edits>>

(* A read forgets the older snapshot; a write is compared against it. *)
Read(p, k) == /\ k \in {"snapshot", "recover", "gate"}
              /\ Begin(p, k, NoChange)
              /\ seen' = [seen EXCEPT ![p] = NoView]

Publish(p, ch) == /\ seen[p] # NoView
                  /\ Begin(p, "publish", ch)
                  /\ UNCHANGED seen

(* rollback_all first measures which sidecars exist, in a lock epoch of its own *)
RollbackAll(p) == /\ seen[p] # NoView
                  /\ Begin(p, "measure", NoChange)
                  /\ UNCHANGED seen

Acquire(p) == /\ pc[p] = "waiting"
              /\ lock = Nobody
              /\ lock' = p
              /\ pc' = [pc EXCEPT ![p] = "locked"]
              /\ UNCHANGED <<disk, journal, orphan, kind, seen, want, work,
                             crashes, edits>>

(* The end of a call: the lock is released whatever the outcome was. *)
Leave(p, v) == /\ lock' = Nobody
               /\ pc' = [pc EXCEPT ![p] = "idle"]
               /\ kind' = [kind EXCEPT ![p] = "none"]
               /\ seen' = [seen EXCEPT ![p] = v]
               /\ want' = [want EXCEPT ![p] = NoChange]
               /\ todo' = [todo EXCEPT ![p] = {}]
               /\ draft' = [draft EXCEPT ![p] = NoJournal]
               /\ checked' = [checked EXCEPT ![p] = {}]

(* Mutant: an error path that forgets the unlock. *)
RefuseLocked(p) == /\ pc' = [pc EXCEPT ![p] = "idle"]
                   /\ UNCHANGED <<disk, journal, orphan, lock, kind, seen, want, work,
                                  crashes, edits>>

Refuse(p) == /\ Leave(p, NoView)
             /\ UNCHANGED <<disk, journal, orphan, crashes, edits>>

Goto(p, place) == /\ pc' = [pc EXCEPT ![p] = place]
                  /\ UNCHANGED <<lock, kind, seen, want>>

-----------------------------------------------------------------------------
(* _recover_locked *)

Applied == {n \in journal.names : disk[n] = journal.new[n]}

(* Something recovery does not recognise: another consumer changed, or a file *)
(* holds neither its preimage nor its intended content.                       *)
Foreign == /\ journal # NoJournal
           /\ \/ Outside(disk, journal.names) # journal.rest
              \/ \E n \in journal.names : disk[n] \notin {journal.pre[n], journal.new[n]}

Entered(p) == pc[p] = "locked" /\ kind[p] # "gate"

RecoverNone(p) == /\ Entered(p)
                  /\ journal = NoJournal
                  /\ Goto(p, "body")
                  /\ UNCHANGED <<disk, journal, orphan, work, crashes, edits>>

RecoverRefuse(p) ==
    /\ Entered(p)
    /\ journal # NoJournal
    /\ Foreign \/ (journal.phase = "COMMITTED" /\ Applied # journal.names)
    /\ Refuse(p)

(* Mutants: a partly applied journal is dropped; so is one over foreign bytes. *)
RecoverDropPartial(p) == /\ Entered(p) /\ journal # NoJournal /\ ~Foreign
                         /\ Goto(p, "drop")
                         /\ UNCHANGED <<disk, journal, orphan, work, crashes, edits>>

RecoverDropForeign(p) == /\ Entered(p) /\ journal # NoJournal
                         /\ journal.phase = "COMMITTED" \/ Applied = {}
                         /\ Goto(p, "drop")
                         /\ UNCHANGED <<disk, journal, orphan, work, crashes, edits>>

(* COMMITTED and complete ("CLEANED"), or PREPARED and untouched              *)
(* ("ROLLED_BACK"): the journal is no longer needed.                         *)
RecoverDrop(p) ==
    /\ Entered(p)
    /\ journal # NoJournal
    /\ ~Foreign
    /\ \/ journal.phase = "COMMITTED" /\ Applied = journal.names
       \/ journal.phase = "PREPARED" /\ Applied = {}
    /\ Goto(p, "drop")
    /\ UNCHANGED <<disk, journal, orphan, work, crashes, edits>>

(* Mutant: entries that were applied before the crash are applied again. *)
RecoverForwardAll(p) == /\ Entered(p) /\ journal # NoJournal /\ ~Foreign
                        /\ journal.phase = "PREPARED" /\ Applied # {}
                        /\ todo' = [todo EXCEPT ![p] = journal.names]
                        /\ Goto(p, "redo")
                        /\ UNCHANGED <<disk, journal, orphan, draft, checked, crashes, edits>>

(* PREPARED and partly applied: finish it ("ROLLED_FORWARD"). *)
RecoverForward(p) ==
    /\ Entered(p)
    /\ journal # NoJournal
    /\ ~Foreign
    /\ journal.phase = "PREPARED" /\ Applied # {}
    /\ todo' = [todo EXCEPT ![p] = journal.names \ Applied]
    /\ Goto(p, "redo")
    /\ UNCHANGED <<disk, journal, orphan, draft, checked, crashes, edits>>

-----------------------------------------------------------------------------
(* _apply, the COMMITTED mark and the removal of the journal, shared by       *)
(* recovery and by _commit.                                                   *)

Applying(p)  == pc[p] \in {"redo", "apply"}
Replacing(p) == pc[p] \in {"rewrite", "write"}

(* Mutant: the file is replaced whatever it holds. *)
ApplyBlind(p, n) ==
    /\ Applying(p) /\ n \in FirstOf(journal.op, todo[p])
    /\ checked' = [checked EXCEPT ![p] = {n}]
    /\ Goto(p, IF pc[p] = "redo" THEN "rewrite" ELSE "write")
    /\ UNCHANGED <<disk, journal, orphan, todo, draft, crashes, edits>>

(* An entry that deletes what is not there. *)
Nothing(n) == journal.pre[n] = Absent /\ journal.new[n] = Absent

(* _apply reads the file and compares it with the preimage ...                *)
ApplyCheck(p, n) ==
    /\ Applying(p)
    /\ n \in FirstOf(journal.op, todo[p])
    /\ disk[n] = journal.pre[n] /\ ~Nothing(n)
    /\ checked' = [checked EXCEPT ![p] = {n}]
    /\ Goto(p, IF pc[p] = "redo" THEN "rewrite" ELSE "write")
    /\ UNCHANGED <<disk, journal, orphan, todo, draft, crashes, edits>>

ApplySkip(p, n) ==
    /\ Applying(p)
    /\ n \in FirstOf(journal.op, todo[p])
    /\ disk[n] = journal.pre[n] /\ Nothing(n)
    /\ todo' = [todo EXCEPT ![p] = @ \ {n}]
    /\ UNCHANGED <<disk, journal, orphan, lock, pc, kind, seen, want, draft, checked,
                   crashes, edits>>

ApplyRefuse(p, n) ==
    /\ Applying(p)
    /\ n \in FirstOf(journal.op, todo[p])
    /\ disk[n] # journal.pre[n]
    /\ Refuse(p)

(* ... and later replaces or unlinks it, without another look.                *)
ApplyReplace(p, n) ==
    /\ Replacing(p)
    /\ n \in checked[p]
    /\ journal.new[n] = Absent => disk[n] # Absent
    /\ disk' = [disk EXCEPT ![n] = journal.new[n]]
    /\ todo' = [todo EXCEPT ![p] = @ \ {n}]
    /\ checked' = [checked EXCEPT ![p] = {}]
    /\ Goto(p, IF pc[p] = "rewrite" THEN "redo" ELSE "apply")
    /\ UNCHANGED <<journal, orphan, draft, crashes, edits>>

(* What is to be unlinked was deleted in between: the system call fails.      *)
ApplyGone(p, n) ==
    /\ Replacing(p)
    /\ n \in checked[p]
    /\ journal.new[n] = Absent /\ disk[n] = Absent
    /\ Refuse(p)

MarkCommitted(p) ==
    /\ Applying(p)
    /\ todo[p] = {}
    /\ journal' = [journal EXCEPT !.phase = "COMMITTED"]
    /\ Goto(p, IF pc[p] = "redo" THEN "redone" ELSE "applied")
    /\ UNCHANGED <<disk, orphan, work, crashes, edits>>

RecoverDone(p) == /\ pc[p] \in {"redone", "drop"}
                  /\ journal' = NoJournal
                  /\ Goto(p, "body")
                  /\ UNCHANGED <<disk, orphan, work, crashes, edits>>

CommitDone(p) == /\ pc[p] = "applied"
                 /\ journal' = NoJournal
                 /\ Leave(p, NoView)
                 /\ UNCHANGED <<disk, orphan, crashes, edits>>

-----------------------------------------------------------------------------
(* The body of each call, after recovery and under the same lock. *)

InBody(p, k) == pc[p] = "body" /\ kind[p] = k

(* snapshot_with_digest: a stray temporary is not a valid plan state.  The    *)
(* files are read for the caller, then once more for the digest; the digest   *)
(* is what a later write is compared with.                                    *)
SnapshotRefuse(p) == /\ InBody(p, "snapshot")
                     /\ orphan
                     /\ Refuse(p)

SnapshotRead(p) == /\ InBody(p, "snapshot")
                   /\ ~orphan
                   /\ Goto(p, "read")
                   /\ UNCHANGED <<disk, journal, orphan, work, crashes, edits>>

SnapshotDone(p) == /\ pc[p] = "read" /\ kind[p] = "snapshot"
                   /\ Leave(p, disk)
                   /\ UNCHANGED <<disk, journal, orphan, crashes, edits>>

(* recover: nothing after the recovery itself. *)
RecoverOnly(p) == /\ InBody(p, "recover")
                  /\ Refuse(p)

(* rollback_all, first epoch: the sidecars present now are the ones it will   *)
(* remove; the lock is dropped before _commit takes it again.                 *)
(* Mutants: the gate records are counted in; the credential is forgotten. *)
PresentConsumers == {n \in Consumers : disk[n] # Absent}
PresentPlan      == {n \in {Plan} \cup Bindings : disk[n] # Absent}

Present == {n \in Mutable : disk[n] # Absent}

MeasureDone(p) ==
    /\ InBody(p, "measure")
    /\ IF Present = {}
       THEN Leave(p, NoView)
       ELSE /\ lock' = Nobody
            /\ pc' = [pc EXCEPT ![p] = "waiting"]
            /\ kind' = [kind EXCEPT ![p] = "rollback-all"]
            /\ want' = [want EXCEPT ![p] = [n \in Present |-> Absent]]
            /\ UNCHANGED <<seen, work>>
    /\ UNCHANGED <<disk, journal, orphan, crashes, edits>>

(* _commit: compare with the caller's snapshot, keep the changes that change  *)
(* something, read the preimages, write the journal ahead; each of the four   *)
(* reads or writes the files anew.                                           *)
Committing(p, place) == pc[p] = place /\ kind[p] \in {"publish", "rollback-all"}

CommitConflict(p) == /\ Committing(p, "body")
                     /\ disk # seen[p]
                     /\ Refuse(p)

CommitCompare(p) == /\ Committing(p, "body")
                    /\ disk = seen[p]
                    /\ Goto(p, "compared")
                    /\ UNCHANGED <<disk, journal, orphan, work, crashes, edits>>

Effective(p) == {n \in DOMAIN want[p] : disk[n] # want[p][n]}

CommitNothing(p) == /\ Committing(p, "compared")
                    /\ Effective(p) = {}
                    /\ Refuse(p)

CommitChoose(p) ==
    /\ Committing(p, "compared")
    /\ Effective(p) # {}
    /\ todo' = [todo EXCEPT ![p] = Effective(p)]
    /\ Goto(p, "chosen")
    /\ UNCHANGED <<disk, journal, orphan, draft, checked, crashes, edits>>

(* The preimages of the chosen files and the digest of all the others.        *)
Drafted(p) == [op |-> kind[p], phase |-> "PREPARED", names |-> todo[p],
               pre |-> [n \in Mutable |-> disk[n]],
               new |-> [n \in Mutable |-> IF n \in todo[p] THEN want[p][n] ELSE disk[n]],
               rest |-> Outside(disk, todo[p])]

CommitNote(p) == /\ Committing(p, "chosen")
                 /\ draft' = [draft EXCEPT ![p] = Drafted(p)]
                 /\ Goto(p, "noted")
                 /\ UNCHANGED <<disk, journal, orphan, todo, checked, crashes, edits>>

CommitPrepare(p) == /\ Committing(p, "noted")
                    /\ journal' = draft[p]
                    /\ draft' = [draft EXCEPT ![p] = NoJournal]
                    /\ Goto(p, "apply")
                    /\ UNCHANGED <<disk, orphan, todo, checked, crashes, edits>>

-----------------------------------------------------------------------------
(* gate_snapshot: never recovers, and the caller writes its gate record (or   *)
(* decides not to) before the lock is released.                               *)

(* Mutants: an interrupted transaction is ignored; the lock ends with the read. *)
GateOpenAnyway(p) == /\ pc[p] = "locked" /\ kind[p] = "gate" /\ ~orphan
                     /\ pc' = [pc EXCEPT ![p] = "gating"]
                     /\ seen' = [seen EXCEPT ![p] = disk]
                     /\ UNCHANGED <<disk, journal, orphan, lock, kind, want, work,
                                    crashes, edits>>

GateOpenUnlocked(p) == /\ pc[p] = "locked" /\ kind[p] = "gate"
                       /\ journal = NoJournal /\ ~orphan
                       /\ lock' = Nobody
                       /\ pc' = [pc EXCEPT ![p] = "gating"]
                       /\ seen' = [seen EXCEPT ![p] = disk]
                       /\ UNCHANGED <<disk, journal, orphan, kind, want, work, crashes, edits>>

GateOpen(p) == /\ pc[p] = "locked" /\ kind[p] = "gate"
               /\ journal = NoJournal /\ ~orphan
               /\ pc' = [pc EXCEPT ![p] = "gating"]
               /\ seen' = [seen EXCEPT ![p] = disk]
               /\ UNCHANGED <<disk, journal, orphan, lock, kind, want, work,
                              crashes, edits>>

GateRefuse(p) == /\ pc[p] = "locked" /\ kind[p] = "gate"
                 /\ journal # NoJournal \/ orphan
                 /\ Refuse(p)

GateWrite(p, g, v) == /\ pc[p] = "gating"
                      /\ disk' = [disk EXCEPT ![g] = v]
                      /\ Leave(p, NoView)
                      /\ UNCHANGED <<journal, orphan, crashes, edits>>

GateClose(p) == /\ pc[p] = "gating"
                /\ Refuse(p)

-----------------------------------------------------------------------------
(* The world outside the protocol. *)

(* The process dies, or a write fails, with the lock held.  The kernel drops  *)
(* the lock; a death inside _atomic_write strands the temporary file.         *)
Writing(p) ==
    \/ Applying(p) /\ todo[p] = {}
    \/ Replacing(p) /\ \E n \in checked[p] : journal.new[n] # Absent
    \/ Committing(p, "noted")

Abort(p) == /\ pc[p] \in Holding
            /\ crashes < MaxCrashes
            /\ crashes' = crashes + 1
            /\ orphan' \in IF Writing(p) THEN {orphan, TRUE} ELSE {orphan}
            /\ Leave(p, NoView)
            /\ UNCHANGED <<disk, journal, edits>>

(* A person removes the stranded temporary after looking at it. *)
Tidy == /\ orphan /\ lock = Nobody
        /\ orphan' = FALSE
        /\ UNCHANGED <<disk, journal, lock, procVars, crashes, edits>>

(* An editor, a checkout or a script changes a file without taking the lock.  *)
Edit(c, v) == /\ edits < MaxEdits
              /\ disk[c] # v
              /\ disk' = [disk EXCEPT ![c] = v]
              /\ edits' = edits + 1
              /\ UNCHANGED <<journal, orphan, lock, procVars, crashes>>

-----------------------------------------------------------------------------

Recovery(p) == \/ RecoverNone(p) \/ RecoverRefuse(p) \/ RecoverDrop(p)
               \/ RecoverForward(p) \/ RecoverDone(p)

Replay(p) == \/ \E n \in Mutable : \/ ApplyCheck(p, n) \/ ApplySkip(p, n) \/ ApplyRefuse(p, n)
                                   \/ ApplyReplace(p, n) \/ ApplyGone(p, n)
             \/ MarkCommitted(p)

Body(p) == \/ SnapshotRefuse(p) \/ SnapshotRead(p) \/ SnapshotDone(p)
           \/ RecoverOnly(p) \/ MeasureDone(p)
           \/ CommitConflict(p) \/ CommitCompare(p) \/ CommitNothing(p) \/ CommitChoose(p)
           \/ CommitNote(p) \/ CommitPrepare(p) \/ CommitDone(p)

GateStep(p) == \/ GateOpen(p) \/ GateRefuse(p) \/ GateClose(p)
               \/ \E g \in Gates : \E v \in Content : GateWrite(p, g, v)

(* What a process that holds the lock does next. *)
Held(p) == Recovery(p) \/ Replay(p) \/ Body(p) \/ GateStep(p)

Call(p) == \/ \E k \in Calls : Read(p, k)
           \/ \E ch \in Change : Publish(p, ch)
           \/ RollbackAll(p)

Next == \/ \E p \in Proc : Call(p) \/ Acquire(p) \/ Held(p) \/ Abort(p)
        \/ Tidy

(* Only the tool's own processes touch the files. *)
Spec == Init /\ [][Next]_vars

(* Anything may also edit the files behind the tool's back. *)
EditNext == Next \/ \E c \in Consumers : \E v \in Value : Edit(c, v)
EditSpec == Init /\ [][EditNext]_vars

(* A process that holds the lock keeps running unless it dies; nothing says   *)
(* that anyone ever makes a call or wins the lock.                            *)
FairSpec == Spec /\ \A p \in Proc : WF_vars(Held(p))
-----------------------------------------------------------------------------
(* Properties. *)

TypeOK ==
    /\ disk \in View
    /\ journal \in Journals \cup {NoJournal}
    /\ orphan \in BOOLEAN
    /\ lock \in Proc \cup {Nobody}
    /\ pc \in [Proc -> Places]
    /\ kind \in [Proc -> Calls]
    /\ seen \in [Proc -> View \cup {NoView}]
    /\ want \in [Proc -> Change \cup {NoChange}]
    /\ todo \in [Proc -> SUBSET Mutable]
    /\ draft \in [Proc -> Journals \cup {NoJournal}]
    /\ checked \in [Proc -> SUBSET Mutable]
    /\ crashes \in Nat /\ edits \in Nat

(* While only the tool touches the files, a journal on disk always describes *)
(* a state recovery can resolve: every entry holds its preimage or its       *)
(* intended content, nothing else moved, and COMMITTED means complete.  In   *)
(* particular no interleaving of crashes, recoveries and gate writes makes   *)
(* _recover_locked raise PlanInvalid.                                        *)
JournalResolvable ==
    journal # NoJournal =>
        /\ ~Foreign
        /\ journal.phase = "COMMITTED" => Applied = journal.names

(* A file that something else changed while a transaction was interrupted is *)
(* evidence: a call that comes upon such a state refuses, and neither         *)
(* overwrites a file nor drops the journal.  (An edit after the call has      *)
(* looked, before it removes the journal at 321 or 324, is another matter:    *)
(* the journal goes, and the edit stays.)                                    *)
Unlocked == lock = Nobody \/ pc[lock] = "locked"

ForeignStaysPut ==
    [][Foreign /\ Unlocked /\ edits' = edits
         => UNCHANGED <<disk, journal>> /\ Unlocked']_vars

(* What a reader is entitled to see: the files with an interrupted           *)
(* transaction completed as soon as its first entry has been applied.        *)
Files == IF journal # NoJournal /\ Applied # {}
         THEN [c \in Consumers |-> IF c \in journal.names THEN journal.new[c] ELSE disk[c]]
         ELSE disk

(* The whole protocol -- lock, journal, crash, recovery -- implements one     *)
(* atomic register: a publish takes effect at its first applied entry or not *)
(* at all, whoever finishes it, and every snapshot is of a whole state.      *)
Atomic == INSTANCE AtomicSidecars WITH files <- Files, view <- seen

AtomicSpec == Atomic!ASpec

(* The process that holds the lock always gets to release it: no call, and   *)
(* no recovery of somebody else's crash, can hang the directory.             *)
LockReleased == \A p \in Proc : lock = p ~> lock # p

(* Recovery is not merely safe: while nobody edits the files, whoever comes   *)
(* next gets past an interrupted transaction, unless another crash interrupts *)
(* it in turn.                                                               *)
RecoveryCompletes ==
    \A p \in Proc : \A k \in 0..MaxCrashes :
        (Entered(p) /\ crashes = k /\ edits = 0)
            ~> (pc[p] = "body" \/ crashes > k \/ edits > 0)
=============================================================================
