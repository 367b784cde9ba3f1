---------------------------- MODULE UnlockedEdits ----------------------------
(* What an edit that ignores the lock of PlanStore can cost.  A call looks at *)
(* a file and uses what it saw later; history variables record the files a    *)
(* caller was handed, and which files were edited where the code could no     *)
(* longer notice.  They restrict nothing: every behaviour of PlanStore with   *)
(* edits is one of this module's.                                             *)
EXTENDS PlanStore

VARIABLES shown,         \* the files each process was handed by its snapshot
          afterRead,     \* edited between that reading and the digest of it
          afterCompare,  \* edited between the digest comparison and the preimages
          afterCheck     \* edited between _apply's comparison and its write

history == <<shown, afterRead, afterCompare, afterCheck>>
uvars   == <<vars, history>>

UInit == /\ Init
         /\ shown = [p \in Proc |-> NoView] /\ afterRead = [p \in Proc |-> {}]
         /\ afterCompare = {} /\ afterCheck = {}

(* Lines 222 to 232 of plan_transaction.py, 354 to 370, and 292 to 173 or 298. *)
Digesting(p) == pc[p] = "read"
Choosing     == lock # Nobody /\ pc[lock] \in {"compared", "chosen"}
Checked      == IF lock = Nobody THEN {} ELSE checked[lock]

Note(c) ==
    /\ afterRead' = [p \in Proc |-> afterRead[p] \cup IF Digesting(p) THEN {c} ELSE {}]
    /\ afterCompare' = IF Choosing THEN afterCompare \cup {c} ELSE afterCompare
    /\ afterCheck' = IF c \in Checked THEN afterCheck \cup {c} ELSE afterCheck
    /\ UNCHANGED shown

(* A file is forgotten when it has been written, a gap when its call is over. *)
Gone(p) == ~Digesting(p)' /\ seen'[p] = NoView

Keep ==
    /\ shown' = [p \in Proc |-> IF Gone(p) THEN NoView
                                ELSE IF Digesting(p)' /\ ~Digesting(p) THEN disk
                                ELSE shown[p]]
    /\ afterRead' = [p \in Proc |-> IF Gone(p) THEN {} ELSE afterRead[p]]
    /\ afterCompare' = IF lock' = Nobody THEN {} ELSE afterCompare
    /\ afterCheck' = afterCheck \cap Checked'

UNext == \/ Next /\ Keep
         \/ \E c \in Consumers : \E v \in Value : Edit(c, v) /\ Note(c)

USpec == UInit /\ [][UNext]_uvars

-----------------------------------------------------------------------------
(* Whatever is edited and whenever: the tool only ever changes a file its     *)
(* journal names, and only to the content the journal intends.  The bytes it  *)
(* replaces are the preimage the journal keeps, unless they were put there    *)
(* between _apply's comparison and its write; and in a commit they are the    *)
(* bytes its caller was shown, unless they were put there in that gap,        *)
(* between the digest comparison and the reading of the preimages, or between *)
(* the snapshot's reading of the files and its digest.  In these three gaps,  *)
(* and in no other place, the code replaces an edit nobody saw.               *)
Unnoticed == afterCheck \cup afterCompare \cup afterRead[lock]

OverwritesOnlySeen ==
    [][\A n \in Mutable :
          disk'[n] # disk[n] /\ edits' = edits
            => /\ journal # NoJournal /\ n \in journal.names /\ disk'[n] = journal.new[n]
               /\ n \notin afterCheck => disk[n] = journal.pre[n]
               /\ pc[lock] = "write" /\ n \notin Unnoticed => disk[n] = shown[lock][n]]_uvars
=============================================================================
