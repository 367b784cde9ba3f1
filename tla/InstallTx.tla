----------------------------- MODULE InstallTx -----------------------------
(* The lifecycle transaction of src/installer: install, uninstall, automatic  *)
(* recovery and the two manual recoveries, over the files a kit release owns  *)
(* in one target repository.                                                 *)
(*                                                                           *)
(* install.lock is exclusive and not waited for, so at most one lifecycle     *)
(* process is ever past it; it may die between any two durable steps.  One    *)
(* action is one durable step with the checks that guard it, and a check that *)
(* is not atomic with its step is an action of its own.  A hash is modelled   *)
(* by the bytes it is the hash of.  POSIX ("strict") deletion, symlinks only. *)
EXTENDS Integers, FiniteSets

CONSTANTS Last,        \* resources are 1..Last in Registry order, the manifest last
          Shared,      \* containers of which uninstall keeps the user's part
          Retired,     \* state files of older releases, deleted by an install
          LastSkill,   \* skills linked into the workspace outside the target
          Kit,         \* bytes of a kit release
          Bare,        \* a container, or the manifest, without the kit's part
          Mine,        \* bytes the kit does not recognise as its own
          Absent, NoTx,
          Commands,    \* the commands an operator issues in this instance
          Afterwards,  \* bound: those issued only on what an edit has left behind
          MaxCrashes,  \* bound: interrupted commands
          MaxEdits     \* bound: files and links changed behind the tool's back

Resource == 1..Last
Skill    == 1..LastSkill
Manifest == Last
Ours     == Kit \cup {Bare}
Value    == Ours \cup {Mine, Absent}
Links    == {"absent", "ours", "theirs"}

ASSUME ResourceAssumption ==
    /\ Last \in Nat \ {0} /\ LastSkill \in Nat
    /\ Shared \subseteq 1..(Last - 1) /\ Retired \subseteq 1..(Last - 1)
    /\ Shared \cap Retired = {}
ASSUME BytesAssumption ==
    /\ Absent \notin Ours /\ Mine \notin Ours /\ Mine # Absent /\ Bare \notin Kit
ASSUME CommandsAssumption ==
    Commands \subseteq {"install", "uninstall", "rollback", "roll-forward"}
ASSUME BoundsAssumption == MaxCrashes \in Nat /\ MaxEdits \in Nat

Step == [kind : {"replace", "delete"}, pre : Value, post : Value]
Ext  == [op : {"create", "remove"}, prior : Links, state : {"intent", "applied"}]
PartialOf(D, R) == UNION {[E -> R] : E \in SUBSET D}

Statuses   == {"planning", "staging", "committing", "done", "failed",
               "rolled_back", "needs_human"}
Unresolved == {"planning", "staging", "committing", "needs_human"}

Tx == [kind : {"install", "uninstall"}, status : Statuses,
       plan : PartialOf(Resource, Step), ext : PartialOf(Skill, Ext),
       old : {"none", "unset", "set"}]       \* codex_root_old: the marker to restore

ASSUME NoTxAssumption == NoTx \notin Tx

VARIABLES disk,     \* the managed files of the target
          iso,      \* .kit-txdel-<tx>-*: a file moved aside by a strict delete
          staged,   \* *.kit-stage-<tx>-*
          backup,   \* tx/<id>/backups/*
          tmp,      \* *.kit-restore-<tx>
          link,     \* the workspace links, outside the target
          away,     \* .kit-iso-*: a link moved aside
          marker,   \* codex-workspace-root is recorded
          dir,      \* tx/<id> exists
          litter,   \* ... and holds the temporary of an interrupted record write
          rec,      \* tx/<id>/record.json, or NoTx
          me,       \* the lifecycle process
          crashes, edits

files    == <<disk, iso, staged, backup, tmp>>
outside  == <<link, away, marker>>
record   == <<dir, litter, rec>>
env      == <<crashes, edits>>
vars     == <<files, outside, record, me, env>>

(* The process: where it is, its command, whether a codex root was given, its *)
(* transaction in memory, whether it opened that transaction itself, the      *)
(* resources and links still to handle, and how the transaction is to end.    *)
Idle == [at |-> "idle", cmd |-> "none", root |-> FALSE, tx |-> NoTx, own |-> FALSE,
         todo |-> {}, links |-> {}, goal |-> "none"]

At(place) == me.at = place
Goto(place) == me' = [me EXCEPT !.at = place]
Did(s)    == me' = [me EXCEPT !.todo = @ \ {s}]
First(S)  == {s \in S : \A t \in S : s <= t}
Final(S)  == {s \in S : \A t \in S : s >= t}

Plan == me.tx.plan
Replaced(p) == {s \in DOMAIN p : p[s].kind = "replace"}

(* tx.write: the directory is made, the record replaced atomically. *)
Write(tx) == /\ dir' = TRUE /\ rec' = tx
             /\ UNCHANGED litter

Init == /\ disk \in [Resource -> Value]
        /\ iso = [s \in Resource |-> Absent]
        /\ staged = {} /\ backup = {} /\ tmp = {}
        /\ link \in [Skill -> Links]
        /\ away = [k \in Skill |-> "absent"]
        /\ marker = FALSE
        /\ dir = FALSE /\ litter = FALSE /\ rec = NoTx
        /\ me = Idle
        /\ crashes = 0 /\ edits = 0

-----------------------------------------------------------------------------
(* recover and recover_manual: what to do about a transaction on disk. *)

Begin(c, root) == /\ At("idle")
                  /\ c \in Afterwards => edits = 1 /\ dir
                  /\ me' = [me EXCEPT !.at = "recover", !.cmd = c, !.root = root]
                  /\ UNCHANGED <<files, outside, record, env>>

Manual == me.cmd \in {"rollback", "roll-forward"}

(* A command proceeds once recovery is over; a recovery command ends there,   *)
(* and so does a command that recovered from its own failed commit.           *)
(* Mutant: recovery is retried for ever. *)
RecoveredAgain == [Idle EXCEPT !.at = "recover", !.cmd = me.cmd]

Recovered == IF me.cmd \in {"install", "uninstall"} /\ ~me.own
             THEN [Idle EXCEPT !.at = "open", !.cmd = me.cmd, !.root = me.root]
             ELSE Idle

(* A directory without a readable record is taken for needs_human. *)
Status  == IF rec = NoTx THEN "needs_human" ELSE rec.status
Pending == dir /\ Status \in Unresolved

RecoverNothing == /\ At("recover") /\ ~Pending
                  /\ me' = Recovered
                  /\ UNCHANGED <<files, outside, record, env>>

(* A person has to decide; without a record not even a recovery command may. *)
RecoverBlocked == /\ At("recover") /\ Pending
                  /\ Status = "needs_human" /\ (Manual => rec = NoTx)
                  /\ me' = Idle
                  /\ UNCHANGED <<files, outside, record, env>>

Recovering == /\ At("recover") /\ Pending /\ rec # NoTx
              /\ Status = "needs_human" => Manual

(* classify_committing *)
NewSteps(p) == {s \in DOMAIN p : IF iso[s] # Absent
                                 THEN iso[s] = p[s].pre /\ disk[s] = Absent
                                 ELSE disk[s] = p[s].post}
OldSteps(p) == {s \in DOMAIN p \ NewSteps(p) :
                   /\ iso[s] = Absent
                   /\ disk[s] = p[s].pre \/ (p[s].kind = "delete" /\ p[s].pre = Absent)}
Conflicts(p) == DOMAIN p \ (NewSteps(p) \cup OldSteps(p))

(* Nothing was committed yet. *)
(* Mutants: the final status is not chosen; the transaction is left as it is. *)
RecoverNoGoal == /\ Recovering /\ Status \in {"planning", "staging"}
                 /\ me' = [me EXCEPT !.at = "unmark", !.tx = rec]
                 /\ UNCHANGED <<files, outside, record, env>>

RecoverLeaves == /\ Recovering /\ Status \in {"planning", "staging"}
                 /\ me' = Idle
                 /\ UNCHANGED <<files, outside, record, env>>

RecoverClean == /\ Recovering /\ Status \in {"planning", "staging"}
                /\ me' = [me EXCEPT !.at = "unmark", !.tx = rec, !.goal = "failed"]
                /\ UNCHANGED <<files, outside, record, env>>

Classified == Recovering /\ Status \in {"committing", "needs_human"}

RecoverConflict == /\ Classified /\ Conflicts(rec.plan) # {}
                   /\ me' = [me EXCEPT !.at = "giveup", !.tx = rec]
                   /\ UNCHANGED <<files, outside, record, env>>

(* Partly committed, or asked to: undo the committed steps, last one first. *)
RecoverUndo ==
    /\ Classified /\ Conflicts(rec.plan) = {}
    /\ IF Manual THEN me.cmd = "rollback"
       ELSE NewSteps(rec.plan) = {} \/ OldSteps(rec.plan) # {}
    /\ me' = [me EXCEPT !.at = "undo", !.tx = rec, !.todo = NewSteps(rec.plan),
                 !.goal = IF ~Manual /\ NewSteps(rec.plan) = {}
                          THEN "failed" ELSE "rolled_back"]
    /\ UNCHANGED <<files, outside, record, env>>

RecoverRedo == /\ Classified /\ Conflicts(rec.plan) = {}
               /\ me.cmd = "roll-forward"
               /\ me' = [me EXCEPT !.at = "commit", !.tx = rec,
                            !.todo = OldSteps(rec.plan)]
               /\ UNCHANGED <<files, outside, record, env>>

(* Everything was committed: only the finish is missing. *)
RecoverFinish == /\ Classified /\ Conflicts(rec.plan) = {}
                 /\ ~Manual /\ NewSteps(rec.plan) # {} /\ OldSteps(rec.plan) = {}
                 /\ me' = [me EXCEPT !.at = "complete", !.tx = rec]
                 /\ UNCHANGED <<files, outside, record, env>>

GiveUp == /\ At("giveup")
          /\ Write([me.tx EXCEPT !.status = "needs_human"])
          /\ me' = Idle
          /\ UNCHANGED <<files, outside, env>>

-----------------------------------------------------------------------------
(* Opening a transaction: directory, first record, preflight, plan, record. *)

OpenRefuse == /\ At("open") /\ me.cmd = "uninstall"
              /\ disk[Manifest] \notin Ours
              /\ me' = Idle
              /\ UNCHANGED <<files, outside, record, env>>

(* A new id: no file of an older transaction carries it. *)
Open == /\ At("open")
        /\ me.cmd = "uninstall" => disk[Manifest] \in Ours
        /\ dir' = TRUE /\ litter' = FALSE /\ rec' = NoTx
        /\ iso' = [s \in Resource |-> Absent]
        /\ staged' = {} /\ backup' = {} /\ tmp' = {}
        /\ me' = [me EXCEPT !.at = "first", !.own = TRUE,
                     !.root = @ \/ (me.cmd = "uninstall" /\ marker),
                     !.tx = [kind |-> me.cmd, status |-> "planning", plan |-> [s \in {} |-> 0],
                             ext |-> [k \in {} |-> 0], old |-> "none"]]
        /\ UNCHANGED <<disk, outside, env>>

FirstRecord == /\ At("first")
               /\ Write(me.tx)
               /\ Goto("classify")
               /\ UNCHANGED <<files, outside, env>>

(* Which files this command may touch: never one it does not recognise. *)
Eligible == IF me.cmd = "install"
            THEN {s \in Resource \ ({Manifest} \cup Retired) : disk[s] \in Ours \cup {Absent}}
            ELSE {s \in Resource \ ({Manifest} \cup Retired) : disk[s] \in Kit}

External == {k \in Skill : /\ me.root
                           /\ IF me.cmd = "install" THEN link[k] # "theirs" ELSE link[k] = "ours"}

Classify(S) == /\ At("classify") /\ S \subseteq Eligible
               /\ me.cmd = "install" => disk[Manifest] # Mine
               /\ me' = [me EXCEPT !.at = "plan", !.todo = S, !.links = External]
               /\ UNCHANGED <<files, outside, record, env>>

(* A corrupt manifest, an unsafe path, a container that cannot be read. *)
PlanFails == /\ At("plan") \/ (At("classify") /\ me.cmd = "install")
             /\ Write([me.tx EXCEPT !.status = "failed"])
             /\ me' = Idle
             /\ UNCHANGED <<files, outside, env>>

Replace(s, v) == [kind |-> "replace", pre |-> disk[s], post |-> v]
Delete(s)     == [kind |-> "delete", pre |-> disk[s], post |-> Absent]

PlanInstall(v) ==
    LET old == {s \in Retired : disk[s] \in Kit}
    IN [s \in me.todo \cup old \cup {Manifest} |->
           IF s \in old THEN Delete(s) ELSE Replace(s, v)]

(* The manifest survives, reduced, when something is left behind. *)
PlanUninstall(residual) ==
    [s \in me.todo \cup {Manifest} |->
        IF s \in Shared \/ (s = Manifest /\ residual) THEN Replace(s, Bare) ELSE Delete(s)]

MakePlan(p) == /\ At("plan")
               /\ me' = [me EXCEPT !.at = "write-plan", !.tx.plan = p, !.todo = {}]
               /\ UNCHANGED <<files, outside, record, env>>

PlanOne == \/ \E v \in Kit : me.cmd = "install" /\ MakePlan(PlanInstall(v))
           \/ \E r \in BOOLEAN : me.cmd = "uninstall" /\ MakePlan(PlanUninstall(r))

WritePlan == /\ At("write-plan")
             /\ Write(me.tx)
             /\ Goto("stage-on")
             /\ UNCHANGED <<files, outside, env>>

-----------------------------------------------------------------------------
(* Staging and backups. *)

StageOn == /\ At("stage-on")
           /\ Write([me.tx EXCEPT !.status = "staging"])
           /\ me' = [me EXCEPT !.at = "stage", !.tx.status = "staging",
                        !.todo = Replaced(Plan)]
           /\ UNCHANGED <<files, outside, env>>

StageOne(s) == /\ At("stage") /\ s \in First(me.todo)
               /\ staged' = staged \cup {s}
               /\ Did(s)
               /\ UNCHANGED <<disk, iso, backup, tmp, outside, record, env>>

CleanUp(goal) == me' = [me EXCEPT !.at = "clean", !.goal = goal, !.todo = DOMAIN Plan]

(* validate_staged rejects what was staged. *)
StageInvalid == /\ At("stage") /\ me.todo = {} /\ me.cmd = "install"
                /\ CleanUp("failed")
                /\ UNCHANGED <<files, outside, record, env>>

StageDone == /\ At("stage") /\ me.todo = {}
             /\ me' = [me EXCEPT !.at = "backup", !.todo = DOMAIN Plan]
             /\ UNCHANGED <<files, outside, record, env>>

(* Mutant: what is going to be deleted is not backed up. *)
BackupReplaced(s) ==
    /\ At("backup") /\ s \in First(me.todo) /\ Plan[s].pre \in {Absent, disk[s]}
    /\ backup' = IF s \in Replaced(Plan) THEN backup \cup {s} ELSE backup
    /\ Did(s)
    /\ UNCHANGED <<disk, iso, staged, tmp, outside, record, env>>

BackupOne(s) ==
    /\ At("backup") /\ s \in First(me.todo)
    /\ Plan[s].pre \in {Absent, disk[s]}
    /\ backup' = IF Plan[s].pre = Absent THEN backup ELSE backup \cup {s}
    /\ Did(s)
    /\ UNCHANGED <<disk, iso, staged, tmp, outside, record, env>>

BackupFails(s) == /\ At("backup") /\ s \in First(me.todo)
                  /\ Plan[s].pre \notin {Absent, disk[s]}
                  /\ CleanUp("failed")
                  /\ UNCHANGED <<files, outside, record, env>>

BackupDone ==
    /\ At("backup") /\ me.todo = {}
    /\ Goto(IF me.cmd = "uninstall" THEN "detach-plan"
            ELSE IF me.root THEN "mark" ELSE "commit-on")
    /\ UNCHANGED <<files, outside, record, env>>

(* The workspace is recorded before committing; the old value first. *)
Mark == /\ At("mark")
        /\ LET tx == [me.tx EXCEPT !.old = IF marker THEN "set" ELSE "unset"]
           IN Write(tx) /\ me' = [me EXCEPT !.at = "mark-write", !.tx = tx]
        /\ UNCHANGED <<files, outside, env>>

MarkWrite == /\ At("mark-write")
             /\ marker' = TRUE
             /\ Goto("commit-on")
             /\ UNCHANGED <<files, link, away, record, env>>

-----------------------------------------------------------------------------
(* Uninstall takes the workspace links away before it commits. *)

RemoveIntent(k) == [op |-> "remove", prior |-> link[k], state |-> "intent"]

DetachPlan ==
    /\ At("detach-plan")
    /\ LET tx == [me.tx EXCEPT !.ext = [k \in me.links |-> RemoveIntent(k)]]
       IN Write(tx) /\ me' = [me EXCEPT !.at = "detach", !.tx = tx]
    /\ UNCHANGED <<files, outside, env>>

NextSkill(k) == k \in First(me.links)
Attached(k)  == me.tx.ext[k].prior = "ours"

(* The same loop completes the removals of a transaction that is rolled       *)
(* forward: there the goal is known, nothing is recorded, a link that is gone *)
(* is done with, and a failure does not stop the others.                     *)
Forward == me.goal \in {"done", "stuck"}

DetachSkip(k) ==
    /\ At("detach") /\ NextSkill(k)
    /\ IF Forward THEN link[k] = "absent" /\ away[k] = "absent" ELSE ~Attached(k)
    /\ Goto("detached")
    /\ UNCHANGED <<files, outside, record, env>>

DetachStart(k) ==
    /\ At("detach") /\ NextSkill(k)
    /\ IF Forward THEN link[k] # "absent" \/ away[k] # "absent" ELSE Attached(k)
    /\ Goto("aside")
    /\ UNCHANGED <<files, outside, record, env>>

(* safe_unlink_external_link: an orphan of an earlier attempt goes first ... *)
DetachOrphan(k) ==
    /\ At("aside") /\ NextSkill(k)
    /\ away[k] = "ours" \/ (away[k] = "theirs" /\ link[k] = "absent")
    /\ away' = [away EXCEPT ![k] = "absent"]
    /\ link' = IF away[k] = "ours" THEN link ELSE [link EXCEPT ![k] = "theirs"]
    /\ UNCHANGED <<files, marker, record, me, env>>

(* ... then the link is moved aside, without overwriting anything, ... *)
DetachMove(k) ==
    /\ At("aside") /\ NextSkill(k)
    /\ away[k] = "absent" /\ link[k] # "absent"
    /\ away' = [away EXCEPT ![k] = link[k]]
    /\ link' = [link EXCEPT ![k] = "absent"]
    /\ Goto("moved")
    /\ UNCHANGED <<files, marker, record, env>>

DetachFailed(k) ==
    me' = IF Forward
          THEN [me EXCEPT !.at = "detach", !.goal = "stuck", !.links = @ \ {k}]
          ELSE [me EXCEPT !.at = "reattach", !.links = DOMAIN me.tx.ext]

DetachFails(k) ==
    /\ At("aside") /\ NextSkill(k)
    /\ IF link[k] = "absent" THEN away[k] = "absent" ELSE away[k] = "theirs"
    /\ DetachFailed(k)
    /\ UNCHANGED <<files, outside, record, env>>

(* ... and only what was moved aside is looked at and removed. *)
(* Mutant: what was moved aside is removed unseen. *)
DetachBlind(k) == /\ At("moved") /\ NextSkill(k)
                  /\ away' = [away EXCEPT ![k] = "absent"]
                  /\ Goto("detached")
                  /\ UNCHANGED <<files, link, marker, record, env>>

DetachDispose(k) ==
    /\ At("moved") /\ NextSkill(k) /\ away[k] = "ours"
    /\ away' = [away EXCEPT ![k] = "absent"]
    /\ Goto("detached")
    /\ UNCHANGED <<files, link, marker, record, env>>

DetachRestore(k) ==
    /\ At("moved") /\ NextSkill(k) /\ away[k] = "theirs"
    /\ IF link[k] = "absent"
       THEN /\ link' = [link EXCEPT ![k] = "theirs"]
            /\ away' = [away EXCEPT ![k] = "absent"]
       ELSE UNCHANGED <<link, away>>
    /\ DetachFailed(k)
    /\ UNCHANGED <<files, marker, record, env>>

Detached(k) ==
    /\ At("detached") /\ NextSkill(k)
    /\ LET tx == [me.tx EXCEPT !.ext[k].state = "applied"]
       IN /\ IF Forward THEN UNCHANGED record ELSE Write(tx)
          /\ me' = [me EXCEPT !.at = "detach", !.tx = tx, !.links = @ \ {k}]
    /\ UNCHANGED <<files, outside, env>>

DetachDone == /\ At("detach") /\ me.links = {}
              /\ Goto(IF me.goal = "stuck" THEN "giveup"
                      ELSE IF me.goal = "done" THEN "finish" ELSE "commit-on")
              /\ UNCHANGED <<files, outside, record, env>>

-----------------------------------------------------------------------------
(* The commit loop: commit_one for each step, in order.  The manual           *)
(* roll-forward runs it over the steps that are still old.                    *)

(* Mutant: the first file is replaced before the status is durable. *)
CommitOnLate == /\ At("commit-on")
                /\ me' = [me EXCEPT !.at = "commit", !.tx.status = "committing",
                             !.todo = DOMAIN Plan]
                /\ UNCHANGED <<files, outside, record, env>>

CommitOn == /\ At("commit-on")
            /\ Write([me.tx EXCEPT !.status = "committing"])
            /\ me' = [me EXCEPT !.at = "commit", !.tx.status = "committing",
                         !.todo = DOMAIN Plan]
            /\ UNCHANGED <<files, outside, env>>

Committing(s) == At("commit") /\ s \in First(me.todo)

(* A refused step: the install recovers from a conflict and gives up on       *)
(* anything else, the uninstall recovers from both, the operator's            *)
(* roll-forward gives up on both.                                            *)
Stop(conflict) ==
    /\ me' = IF me.cmd = "uninstall" \/ (me.cmd = "install" /\ conflict)
             THEN [me EXCEPT !.at = "recover", !.cmd = "none"]
             ELSE [me EXCEPT !.at = "giveup"]
    /\ UNCHANGED <<disk, iso, staged, backup, tmp, outside, record, env>>

CommitConflict(s) == Committing(s) /\ disk[s] # Plan[s].pre /\ Stop(TRUE)

CommitAbsent(s) == /\ Committing(s) /\ Plan[s].kind = "delete"
                   /\ disk[s] = Absent /\ Plan[s].pre = Absent
                   /\ Did(s)
                   /\ UNCHANGED <<files, outside, record, env>>

CommitChecked(s) ==
    /\ Committing(s) /\ disk[s] = Plan[s].pre
    /\ IF Plan[s].kind = "delete" THEN disk[s] # Absent ELSE s \in staged
    /\ Goto(IF Plan[s].kind = "delete" THEN "isolate" ELSE "swap")
    /\ UNCHANGED <<files, outside, record, env>>

CommitUnstaged(s) == /\ Committing(s) /\ disk[s] = Plan[s].pre
                     /\ Plan[s].kind = "replace" /\ s \notin staged
                     /\ Stop(FALSE)

Swap(s) == /\ At("swap") /\ s \in First(me.todo)
           /\ disk' = [disk EXCEPT ![s] = Plan[s].post]
           /\ staged' = staged \ {s}
           /\ Goto("swapped")
           /\ UNCHANGED <<iso, backup, tmp, outside, record, env>>

Swapped(s) == /\ At("swapped") /\ s \in First(me.todo)
              /\ IF disk[s] = Plan[s].post
                 THEN /\ me' = [me EXCEPT !.at = "commit", !.todo = @ \ {s}]
                      /\ UNCHANGED <<files, outside, record, env>>
                 ELSE Stop(FALSE)

(* _commit_delete_strict: move aside, look at what was moved, dispose of it. *)
Isolate(s) == /\ At("isolate") /\ s \in First(me.todo)
              /\ iso[s] = Absent /\ disk[s] # Absent
              /\ iso' = [iso EXCEPT ![s] = disk[s]]
              /\ disk' = [disk EXCEPT ![s] = Absent]
              /\ Goto("isolated")
              /\ UNCHANGED <<staged, backup, tmp, outside, record, env>>

IsolateFails(s) == /\ At("isolate") /\ s \in First(me.todo)
                   /\ iso[s] # Absent \/ disk[s] = Absent
                   /\ Stop(iso[s] = Absent)

(* Mutant: what was moved aside is disposed of unseen. *)
DisposeBlind(s) == /\ At("isolated") /\ s \in First(me.todo)
                   /\ iso' = [iso EXCEPT ![s] = Absent]
                   /\ me' = [me EXCEPT !.at = "commit", !.todo = @ \ {s}]
                   /\ UNCHANGED <<disk, staged, backup, tmp, outside, record, env>>

Dispose(s) == /\ At("isolated") /\ s \in First(me.todo)
              /\ iso[s] = Plan[s].pre
              /\ iso' = [iso EXCEPT ![s] = Absent]
              /\ me' = [me EXCEPT !.at = "commit", !.todo = @ \ {s}]
              /\ UNCHANGED <<disk, staged, backup, tmp, outside, record, env>>

(* Not what was planned to go: put it back unless something took its place. *)
Reinstate(s) == /\ At("isolated") /\ s \in First(me.todo)
                /\ iso[s] # Plan[s].pre /\ disk[s] = Absent
                /\ disk' = [disk EXCEPT ![s] = iso[s]]
                /\ iso' = [iso EXCEPT ![s] = Absent]
                /\ me' = IF Manual THEN [me EXCEPT !.at = "giveup"]
                         ELSE [me EXCEPT !.at = "recover", !.cmd = "none"]
                /\ UNCHANGED <<staged, backup, tmp, outside, record, env>>

ReinstateFails(s) == /\ At("isolated") /\ s \in First(me.todo)
                     /\ iso[s] # Plan[s].pre /\ disk[s] # Absent
                     /\ Stop(FALSE)

CommitDone ==
    /\ At("commit") /\ me.todo = {}
    /\ Goto(IF Manual THEN "complete"
            ELSE IF me.cmd = "install" /\ me.root THEN "link" ELSE "finish")
    /\ UNCHANGED <<files, outside, record, env>>

-----------------------------------------------------------------------------
(* ensure_codex_links: the intent is recorded before each link is made. *)

Intent(k) == [op |-> "create", prior |-> link[k],
              state |-> IF link[k] = "ours" THEN "applied" ELSE "intent"]

LinkIntent(k) ==
    /\ At("link") /\ NextSkill(k)
    /\ LET tx == [me.tx EXCEPT !.ext = [j \in {k} \cup DOMAIN @ |->
                                           IF j = k THEN Intent(k) ELSE @[j]]]
       IN /\ Write(tx)
          /\ me' = IF link[k] = "absent"
                   THEN [me EXCEPT !.at = "symlink", !.tx = tx]
                   ELSE [me EXCEPT !.tx = tx, !.links = @ \ {k}]
    /\ UNCHANGED <<files, outside, env>>

Symlink(k) == /\ At("symlink") /\ NextSkill(k) /\ link[k] = "absent"
              /\ link' = [link EXCEPT ![k] = "ours"]
              /\ Goto("linked")
              /\ UNCHANGED <<files, away, marker, record, env>>

(* The name was taken in the meantime: the exception ends the process. *)
SymlinkRaises(k) == /\ At("symlink") /\ NextSkill(k) /\ link[k] # "absent"
                    /\ me' = Idle
                    /\ UNCHANGED <<files, outside, record, env>>

Linked(k) ==
    /\ At("linked") /\ NextSkill(k)
    /\ LET tx == [me.tx EXCEPT !.ext[k].state = "applied"]
       IN /\ Write(tx)
          /\ me' = [me EXCEPT !.at = "link", !.tx = tx, !.links = @ \ {k}]
    /\ UNCHANGED <<files, outside, env>>

LinksDone ==
    /\ At("link") /\ me.links = {}
    /\ marker' = (marker \/ DOMAIN me.tx.ext # {})
    /\ Goto(IF \E k \in DOMAIN me.tx.ext : me.tx.ext[k].prior = "theirs"
            THEN "giveup" ELSE "finish")
    /\ UNCHANGED <<files, link, away, record, env>>

-----------------------------------------------------------------------------
(* rollback_one, from the last committed step to the first. *)

Undoing(s) == At("undo") /\ s \in Final(me.todo)

(* Nothing to restore. *)
Undone(s) == IF Plan[s].kind = "delete"
             THEN iso[s] = Absent /\ Plan[s].pre \in {Absent, disk[s]}
             ELSE disk[s] = Absent /\ Plan[s].pre = Absent

UndoNothing(s) == /\ Undoing(s) /\ Undone(s)
                  /\ Did(s)
                  /\ UNCHANGED <<files, outside, record, env>>

(* _restore_pending_delete *)
UndoIsolated(s) == /\ Undoing(s) /\ iso[s] # Absent
                   /\ iso[s] = Plan[s].pre /\ disk[s] = Absent
                   /\ disk' = [disk EXCEPT ![s] = iso[s]]
                   /\ iso' = [iso EXCEPT ![s] = Absent]
                   /\ Did(s)
                   /\ UNCHANGED <<staged, backup, tmp, outside, record, env>>

(* The step is in force and what it replaced is known. *)
InForce(s)     == iso[s] = Absent /\ disk[s] = Plan[s].post /\ ~Undone(s)
Restorable(s)  == InForce(s) /\ s \in backup /\ s \notin tmp
RemovableNever(s) == InForce(s) /\ s \in backup /\ Plan[s].pre = Absent   \* Mutant
Removable(s)   == InForce(s) /\ s \notin backup /\ Plan[s].pre = Absent

UndoTemporary(s) == /\ Undoing(s) /\ Restorable(s)
                    /\ tmp' = tmp \cup {s}
                    /\ Goto("restore")
                    /\ UNCHANGED <<disk, iso, staged, backup, outside, record, env>>

UndoRemovable(s) == /\ Undoing(s) /\ Removable(s)
                    /\ Goto("remove")
                    /\ UNCHANGED <<files, outside, record, env>>

UndoFails(s) == /\ Undoing(s) /\ ~Undone(s)
                /\ ~(iso[s] # Absent /\ iso[s] = Plan[s].pre /\ disk[s] = Absent)
                /\ ~Restorable(s) /\ ~Removable(s)
                /\ Goto("giveup")
                /\ UNCHANGED <<files, outside, record, env>>

Restore(s) == /\ At("restore") /\ s \in Final(me.todo)
              /\ disk' = [disk EXCEPT ![s] = Plan[s].pre]
              /\ tmp' = tmp \ {s}
              /\ Goto("restored")
              /\ UNCHANGED <<iso, staged, backup, outside, record, env>>

Restored(s) == /\ At("restored") /\ s \in Final(me.todo)
               /\ me' = IF disk[s] = Plan[s].pre
                        THEN [me EXCEPT !.at = "undo", !.todo = @ \ {s}]
                        ELSE [me EXCEPT !.at = "giveup"]
               /\ UNCHANGED <<files, outside, record, env>>

Remove(s) == /\ At("remove") /\ s \in Final(me.todo)
             /\ disk' = [disk EXCEPT ![s] = Absent]
             /\ me' = [me EXCEPT !.at = "undo", !.todo = @ \ {s}]
             /\ UNCHANGED <<iso, staged, backup, tmp, outside, record, env>>

UndoDone == /\ At("undo") /\ me.todo = {}
            /\ Goto("unmark")
            /\ UNCHANGED <<files, outside, record, env>>

-----------------------------------------------------------------------------
(* _finish_rollback: the marker, the links, the cleanup, the final status. *)

Unmark == /\ At("unmark")
          /\ marker' = IF me.tx.old = "none" THEN marker ELSE me.tx.old = "set"
          /\ me' = [me EXCEPT !.at = "compensate", !.links = DOMAIN me.tx.ext]
          /\ UNCHANGED <<files, link, away, record, env>>

(* Mutant: what the record says decides. *)
OutstandingRecorded(k) == /\ me.tx.ext[k].state = "applied"
                          /\ \/ me.tx.ext[k].op = "create" /\ link[k] = "ours"
                             \/ /\ me.tx.ext[k].op = "remove" /\ link[k] = "absent"
                                /\ me.tx.ext[k].prior = "ours"

(* restore_external_links: what is on disk decides, not the recorded state.   *)
(* The look and the system call are two steps.                               *)
Outstanding(k) == LET e == me.tx.ext[k]
                  IN \/ e.op = "create" /\ link[k] = "ours"
                     \/ e.op = "remove" /\ e.prior = "ours" /\ link[k] = "absent"

Compensating(k) == (At("compensate") \/ At("reattach")) /\ NextSkill(k)

CompensateSkip(k) == /\ Compensating(k) /\ ~Outstanding(k)
                     /\ me' = [me EXCEPT !.links = @ \ {k}]
                     /\ UNCHANGED <<files, outside, record, env>>

CompensateStart(k) == /\ Compensating(k) /\ Outstanding(k)
                      /\ Goto(IF me.tx.ext[k].op = "create" THEN "unlink" ELSE "recreate")
                      /\ UNCHANGED <<files, outside, record, env>>

(* Back to the rollback, or to the uninstall's own failure path. *)
Compensated(k, goal) ==
    me' = [me EXCEPT !.at = IF me.own /\ me.cmd = "uninstall" THEN "reattach" ELSE "compensate",
                     !.goal = goal, !.links = @ \ {k}]

CompensateUnlink(k) == /\ At("unlink") /\ NextSkill(k) /\ link[k] # "absent"
                       /\ link' = [link EXCEPT ![k] = "absent"]
                       /\ Compensated(k, me.goal)
                       /\ UNCHANGED <<files, away, marker, record, env>>

CompensateRecreate(k) == /\ At("recreate") /\ NextSkill(k) /\ link[k] = "absent"
                         /\ link' = [link EXCEPT ![k] = "ours"]
                         /\ Compensated(k, me.goal)
                         /\ UNCHANGED <<files, away, marker, record, env>>

CompensateFails(k) == /\ NextSkill(k)
                      /\ \/ At("unlink") /\ link[k] = "absent"
                         \/ At("recreate") /\ link[k] # "absent"
                      /\ Compensated(k, "stuck")
                      /\ UNCHANGED <<files, outside, record, env>>

CompensateDone == /\ At("compensate") /\ me.links = {}
                  /\ IF me.goal = "stuck" THEN Goto("giveup") ELSE CleanUp(me.goal)
                  /\ UNCHANGED <<files, outside, record, env>>

(* The uninstall's own failure path: no cleanup. *)
ReattachDone == /\ At("reattach") /\ me.links = {}
                /\ Write([me.tx EXCEPT !.status = IF me.goal = "stuck" THEN "needs_human"
                                                  ELSE "failed"])
                /\ me' = Idle
                /\ UNCHANGED <<files, outside, env>>

(* cleanup_staging *)
Clean(s) == /\ At("clean") /\ s \in First(me.todo)
            /\ staged' = staged \ {s}
            /\ backup' = backup \ {s}
            /\ Did(s)
            /\ UNCHANGED <<disk, iso, tmp, outside, record, env>>

CleanRecord == /\ At("clean") /\ me.todo = {}
               /\ rec' = NoTx
               /\ Goto("rmdir")
               /\ UNCHANGED <<files, outside, dir, litter, env>>

(* rmdir fails, and is ignored, on a directory that is not empty. *)
Rmdir == /\ At("rmdir")
         /\ dir' = litter
         /\ me' = IF me.goal # "done" THEN [me EXCEPT !.at = "reopen"]
                  ELSE IF me.cmd = "uninstall" /\ me.own THEN [me EXCEPT !.at = "forget"]
                  ELSE Recovered
         /\ UNCHANGED <<files, outside, litter, rec, env>>

(* The final status of a rolled back transaction is written into a new        *)
(* directory.                                                                *)
Reopen == /\ At("reopen")
          /\ dir' = TRUE
          /\ Goto("conclude")
          /\ UNCHANGED <<files, outside, litter, rec, env>>

Conclude == /\ At("conclude")
            /\ Write([me.tx EXCEPT !.status = me.goal])
            /\ me' = Recovered
            /\ UNCHANGED <<files, outside, env>>

(* cleanup_legacy_state: a completed uninstall forgets the workspace. *)
Forget == /\ At("forget")
          /\ marker' = FALSE
          /\ me' = Idle
          /\ UNCHANGED <<files, link, away, record, env>>

-----------------------------------------------------------------------------
(* Rolling forward: pending deletions, then the links, then done. *)

CompleteDeletion(s) == /\ At("complete") /\ s \in DOMAIN Plan
                       /\ iso[s] # Absent
                       /\ iso[s] = Plan[s].pre /\ disk[s] = Absent
                       /\ iso' = [iso EXCEPT ![s] = Absent]
                       /\ UNCHANGED <<disk, staged, backup, tmp, outside, record, me, env>>

NoDeletionLeft == \A s \in DOMAIN Plan : iso[s] # Absent =>
                      iso[s] # Plan[s].pre \/ disk[s] # Absent

Stuck == \/ \E s \in DOMAIN Plan : iso[s] # Absent
         \/ me.tx.kind = "install" /\ disk[Manifest] # Plan[Manifest].post

CompleteFails == /\ At("complete") /\ NoDeletionLeft /\ Stuck
                 /\ Goto("giveup")
                 /\ UNCHANGED <<files, outside, record, env>>

(* Links still to make: those recorded, or all of them when the install died  *)
(* before recording any and the workspace is known.  Links to remove were     *)
(* removed before the commit began; one that is back is removed again.        *)
Unfinished == {k \in DOMAIN me.tx.ext : IF me.tx.ext[k].op = "create"
                                        THEN me.tx.ext[k].state = "intent"
                                        ELSE Attached(k)}

Complete ==
    /\ At("complete") /\ NoDeletionLeft /\ ~Stuck
    /\ me' = [me EXCEPT !.at = IF me.tx.kind = "install" THEN "relink" ELSE "detach",
                        !.goal = "done",
                        !.links = IF /\ me.tx.kind = "install" /\ ~Manual
                                     /\ DOMAIN me.tx.ext = {} /\ marker
                                  THEN Skill ELSE Unfinished]
    /\ UNCHANGED <<files, outside, record, env>>

(* complete_external_creations *)
Relink(k) == /\ At("relink") /\ NextSkill(k) /\ link[k] # "theirs"
             /\ link' = [link EXCEPT ![k] = "ours"]
             /\ me' = [me EXCEPT !.links = @ \ {k}]
             /\ UNCHANGED <<files, away, marker, record, env>>

RelinkOccupied(k) ==
    /\ At("relink") /\ NextSkill(k) /\ link[k] = "theirs"
    /\ me' = [me EXCEPT !.links = @ \ {k},
                        !.goal = IF k \in DOMAIN me.tx.ext THEN "stuck" ELSE @]
    /\ UNCHANGED <<files, outside, record, env>>

RelinkDone == /\ At("relink") /\ me.links = {}
              /\ Goto(IF me.goal = "stuck" THEN "giveup" ELSE "finish")
              /\ UNCHANGED <<files, outside, record, env>>

Finish == /\ At("finish")
          /\ Write([me.tx EXCEPT !.status = "done"])
          /\ me' = [me EXCEPT !.at = "clean", !.goal = "done", !.todo = DOMAIN Plan,
                       !.tx.status = "done"]
          /\ UNCHANGED <<files, outside, env>>

-----------------------------------------------------------------------------
(* The world outside. *)

RecordPlaces == {"first", "classify", "plan", "write-plan", "stage-on", "mark",
                 "detach-plan", "detached", "reattach", "commit-on", "commit",
                 "link", "linked", "finish", "conclude", "giveup"}

(* The process dies, or an operation raises: a record being written leaves    *)
(* its temporary, the marker being written is truncated.                     *)
Abort == /\ ~At("idle") /\ crashes < MaxCrashes
         /\ crashes' = crashes + 1
         /\ litter' \in IF me.at \in RecordPlaces THEN {litter, TRUE} ELSE {litter}
         /\ marker' \in IF \/ me.at = "mark-write"
                           \/ me.at = "unmark" /\ me.tx.old = "set"
                           \/ me.at = "link" /\ me.links = {}
                        THEN {marker, FALSE} ELSE {marker}
         /\ me' = Idle
         /\ UNCHANGED <<files, link, away, dir, rec, edits>>

(* A user edits anything at any moment.  (Bound: a second edit only follows one *)
(* that a deletion has just run into.)                                       *)
RanIntoEdit == At("isolated") /\ \E s \in DOMAIN Plan : iso[s] \notin {Absent, Plan[s].pre}
MayEdit     == edits < MaxEdits /\ (edits > 0 => RanIntoEdit)

EditFile(s, v) == /\ MayEdit /\ disk[s] # v
                  /\ disk' = [disk EXCEPT ![s] = v]
                  /\ edits' = edits + 1
                  /\ UNCHANGED <<iso, staged, backup, tmp, outside, record, me, crashes>>

EditLink(k, v) == /\ MayEdit /\ link[k] # v
                  /\ link' = [link EXCEPT ![k] = v]
                  /\ edits' = edits + 1
                  /\ UNCHANGED <<files, away, marker, record, me, crashes>>

-----------------------------------------------------------------------------

Decide == \/ RecoverNothing \/ RecoverBlocked \/ RecoverClean \/ RecoverConflict
          \/ RecoverUndo \/ RecoverRedo \/ RecoverFinish \/ GiveUp

Prepare == \/ OpenRefuse \/ Open \/ FirstRecord \/ PlanFails \/ PlanOne \/ WritePlan
           \/ \E S \in SUBSET Resource : Classify(S)
           \/ StageOn \/ StageInvalid \/ StageDone \/ BackupDone \/ Mark \/ MarkWrite
           \/ \E s \in Resource : StageOne(s) \/ BackupOne(s) \/ BackupFails(s)

Detach == \/ DetachPlan \/ DetachDone \/ ReattachDone
          \/ \E k \in Skill : \/ DetachSkip(k) \/ DetachStart(k) \/ DetachOrphan(k)
                              \/ DetachMove(k) \/ DetachFails(k) \/ DetachDispose(k)
                              \/ DetachRestore(k) \/ Detached(k)

Commit == \/ CommitOn \/ CommitDone
          \/ \E s \in Resource : \/ CommitConflict(s) \/ CommitAbsent(s)
                                 \/ CommitChecked(s) \/ CommitUnstaged(s)
                                 \/ Swap(s) \/ Swapped(s)
                                 \/ Isolate(s) \/ IsolateFails(s) \/ Dispose(s)
                                 \/ Reinstate(s) \/ ReinstateFails(s)

Expose == \/ LinksDone
          \/ \E k \in Skill : LinkIntent(k) \/ Symlink(k) \/ SymlinkRaises(k) \/ Linked(k)

Undo == \/ UndoDone
        \/ \E s \in Resource : \/ UndoNothing(s) \/ UndoIsolated(s) \/ UndoTemporary(s)
                               \/ UndoRemovable(s) \/ UndoFails(s)
                               \/ Restore(s) \/ Restored(s) \/ Remove(s)

End == \/ Unmark \/ CompensateDone \/ CleanRecord \/ Rmdir \/ Reopen \/ Conclude \/ Forget
       \/ \E k \in Skill : \/ CompensateSkip(k) \/ CompensateStart(k) \/ CompensateFails(k)
                           \/ CompensateUnlink(k) \/ CompensateRecreate(k)
       \/ \E s \in Resource : Clean(s)

RollForward == \/ Complete \/ CompleteFails \/ RelinkDone \/ Finish
               \/ \E s \in Resource : CompleteDeletion(s)
               \/ \E k \in Skill : Relink(k) \/ RelinkOccupied(k)

(* What the lifecycle process does next, once it was started. *)
Proceed == Decide \/ Prepare \/ Detach \/ Commit \/ Expose \/ Undo \/ End \/ RollForward

Next == \/ \E c \in Commands : \E root \in BOOLEAN : Begin(c, root)
        \/ Proceed \/ Abort

EditNext == \/ Next
            \/ \E s \in Resource : \E v \in {Mine, Absent} : EditFile(s, v)
            \/ \E k \in Skill : \E v \in {"theirs", "absent"} : EditLink(k, v)

Spec     == Init /\ [][Next]_vars
EditSpec == Init /\ [][EditNext]_vars

(* A started command keeps running unless it dies; nothing makes an operator  *)
(* start one.                                                                *)
FairSpec == Spec /\ WF_vars(Proceed)

-----------------------------------------------------------------------------
(* Properties. *)

Places == {"idle", "recover", "open", "first", "classify", "plan", "write-plan",
           "stage-on", "stage", "backup", "mark", "mark-write", "detach-plan",
           "detach", "aside", "moved", "detached", "reattach", "commit-on", "commit",
           "swap", "swapped", "isolate", "isolated", "link", "symlink", "linked",
           "undo", "restore", "restored", "remove", "unmark", "compensate", "unlink", "recreate", "clean",
           "rmdir", "reopen", "conclude", "forget", "complete", "relink", "finish",
           "giveup"}

TypeOK ==
    /\ disk \in [Resource -> Value] /\ iso \in [Resource -> Value]
    /\ staged \subseteq Resource /\ backup \subseteq Resource /\ tmp \subseteq Resource
    /\ link \in [Skill -> Links] /\ away \in [Skill -> Links]
    /\ marker \in BOOLEAN /\ dir \in BOOLEAN /\ litter \in BOOLEAN
    /\ rec \in Tx \cup {NoTx}
    /\ me \in [at : Places, cmd : Commands \cup {"none"}, root : BOOLEAN,
               tx : Tx \cup {NoTx}, own : BOOLEAN,
               todo : SUBSET Resource, links : SUBSET Skill,
               goal : {"none", "failed", "rolled_back", "done", "stuck"}]
    /\ crashes \in Nat /\ edits \in Nat

(* While nothing but the tool touches the target, a transaction that says it  *)
(* is done has put every planned file and every link in place, and one that   *)
(* says it failed or was rolled back has left every planned file exactly as   *)
(* it found it -- wherever it was killed, and however recovery was cut short. *)
AllOrNothing ==
    rec # NoTx =>
        /\ rec.status = "done" => \A s \in DOMAIN rec.plan : disk[s] = rec.plan[s].post
        /\ rec.status \in {"failed", "rolled_back"} =>
              \A s \in DOMAIN rec.plan : disk[s] = rec.plan[s].pre

(* As long as a transaction is on disk as committing, each file it already    *)
(* changed can be put back: its old bytes are in the backup or moved aside.   *)
Undoable(p) == \A s \in DOMAIN p :
                  p[s].pre \notin {Absent, disk[s]} => s \in backup \/ iso[s] = p[s].pre

UndoAvailable == (rec # NoTx /\ rec.status = "committing") => Undoable(rec.plan)

(* Bytes moved aside for deletion always belong to a transaction the next     *)
(* command will see: none is stranded under a name nobody looks at again.     *)
NothingStranded ==
    (\E s \in Resource : iso[s] # Absent) =>
        dir /\ rec # NoTx /\ rec.status \in {"committing", "needs_human"}

(* A strict delete never destroys bytes other than the planned ones, even if  *)
(* the file is edited between the check and the deletion.                     *)
DeletesSpareEdits ==
    [][\A s \in Resource : iso[s] # Absent /\ iso'[s] = Absent
          => disk'[s] = iso[s] \/ iso[s] = me.tx.plan[s].pre]_vars

(* What somebody else put under a skill's name, there or moved aside. *)
TheirsKept(k) == /\ link[k] = "theirs" =>
                        link'[k] = "theirs" \/ (away[k] = "absent" /\ away'[k] = "theirs")
                 /\ away[k] = "theirs" =>
                        away'[k] = "theirs" \/ (link[k] = "absent" /\ link'[k] = "theirs")

(* Removing a link never destroys something a user put in its place, however  *)
(* the replacement races with safe_unlink_external_link, and never overwrites *)
(* it by putting an older orphan back.                                       *)
RemovalSparesLinks ==
    [][edits' = edits /\ me.at \in {"detach", "aside", "moved"}
          => \A k \in Skill : TheirsKept(k)]_vars

(* Without edits, automatic recovery never has to ask a person. *)
NeverNeedsHuman == rec # NoTx => rec.status # "needs_human"

(* A command that is not killed comes to an end. *)
CommandEnds == ~At("idle") ~> At("idle")

(* A recovery that is not killed itself resolves the transaction it found. *)
Resolved == ~Pending \/ Status = "needs_human"
RecoveryResolves ==
    \A n \in 0..MaxCrashes :
        (Recovering /\ crashes = n) ~> (Resolved \/ crashes > n)

(* Rolling back undoes what this transaction did to the links and no more: at *)
(* the moment the transaction is over, each is what it was before.  The       *)
(* command `rollback` does not know it for links older than the transaction.  *)
LinksAsFound ==
    [][rec' # rec /\ rec' # NoTx /\ rec'.status \in {"failed", "rolled_back"}
          /\ me.cmd # "rollback"
        => \A k \in DOMAIN rec'.ext : link'[k] = rec'.ext[k].prior]_vars

(* What a cleanup that could not empty its directory leaves behind does not   *)
(* stop the next command.                                                    *)
CleanupHarmless ==
    [][At("rmdir") /\ me'.at # "rmdir" /\ crashes' = crashes
          /\ me.goal = "done" => ~(dir' /\ rec' = NoTx)]_vars
=============================================================================
