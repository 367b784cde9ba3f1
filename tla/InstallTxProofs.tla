------------------------- MODULE InstallTxProofs -------------------------
(* Proofs about the lifecycle transaction (InstallTx.tla), for every number   *)
(* of files, skills, crashes and edits.                                      *)
(*                                                                           *)
(* Five inductive invariants.  AsideInv holds whoever edits the target: the   *)
(* record on disk precedes the first file moved aside and outlives the last,  *)
(* and the process that carries a transaction on knows which files those are. *)
(* FilesTrue needs that nobody else edits: each file of a record is then as   *)
(* it was, as planned or moved aside, the status of the record promises no    *)
(* more than that, and commit and undo know how far they are.  On top of it:  *)
(* KeptInv, what an undo needs is there; SpareInv, everything a recovery uses *)
(* up is still there for the first kill; KnownLinks, which links are as the   *)
(* transaction found them.                                                   *)
EXTENDS InstallTx, TLAPS

Held  == Tx \cup {NoTx}
Cmds  == Commands \cup {"none"}
Goals == {"none", "failed", "rolled_back", "done", "stuck"}
Todos == SUBSET Resource
Names == SUBSET Skill
Me == [at : Places, cmd : Cmds, root : BOOLEAN, tx : Held, own : BOOLEAN,
       todo : Todos, links : Names, goal : Goals]

LEMMA MeTyped == TypeOK => me \in Me
BY DEF TypeOK, Me, Held, Cmds, Goals, Todos, Names

Plans == PartialOf(Resource, Step)
Exts  == PartialOf(Skill, Ext)
Olds  == {"none", "unset", "set"}
Kinds == {"install", "uninstall"}

LEMMA TxTyped == Tx = [kind : Kinds, status : Statuses, plan : Plans, ext : Exts, old : Olds]
BY DEF Tx, Kinds, Plans, Exts, Olds

LEMMA PartialIs ==
  ASSUME NEW D, NEW R
  PROVE  /\ \A f \in PartialOf(D, R) : DOMAIN f \subseteq D /\ f \in [DOMAIN f -> R]
         /\ \A E \in SUBSET D : \A f \in [E -> R] : f \in PartialOf(D, R)
BY DEF PartialOf

LEMMA IdleTyped == Idle \in Me
BY DEF Idle, Me, Places, Cmds, Held, Todos, Names, Goals

LEMMA BeginTyped ==
  ASSUME TypeOK, NEW c \in Commands, NEW root \in BOOLEAN, Begin(c, root)
  PROVE me' \in Me
<1>1. me \in Me BY MeTyped
<1>2. "recover" \in Places BY DEF Places
<1>3. c \in Cmds BY DEF Cmds
<1> QED BY <1>1, <1>2, <1>3 DEF Begin, Me

LEMMA RecoveredTyped == ASSUME me \in Me PROVE Recovered \in Me
<1>1. "open" \in Places BY DEF Places
<1>3. "none" \in Goals /\ NoTx \in Held /\ {} \in Todos /\ {} \in Names BY DEF Goals, Held,
      Todos, Names
<1> QED BY IdleTyped, <1>1, <1>3 DEF Recovered, Idle, Me

Before    == {"classify", "plan", "write-plan", "stage-on", "stage", "backup", "mark",
              "mark-write", "detach-plan", "reattach", "commit-on"}
Early     == Before \ {"reattach"}
Detaching == {"detach", "aside", "moved", "detached"}
Back      == {"unmark", "compensate", "unlink", "recreate"}
After     == {"link", "symlink", "linked", "relink", "finish"}
Midway    == {"commit", "swap", "swapped", "isolate", "isolated"}
Undoes    == {"undo", "restore", "restored", "remove"}
Erased    == {"rmdir", "reopen", "conclude"}

(* The process is past its first record: it has a transaction in memory. *)
Engaged == Before \cup Detaching \cup Back \cup After \cup Midway \cup Undoes \cup Erased
           \cup {"first", "clean", "complete", "giveup"}
HasTx   == /\ me.at \in Engaged => me.tx \in Tx
           /\ me.at \in Midway \cup Undoes => me.todo \subseteq DOMAIN Plan
           /\ me.at = "open" => me.cmd \in Kinds
           /\ me.at = "conclude" => me.goal \in Statuses

(* The world the process works in is well typed. *)
World ==
    /\ disk \in [Resource -> Value] /\ iso \in [Resource -> Value]
    /\ staged \subseteq Resource /\ backup \subseteq Resource /\ tmp \subseteq Resource
    /\ link \in [Skill -> Links] /\ away \in [Skill -> Links]
    /\ marker \in BOOLEAN /\ dir \in BOOLEAN /\ litter \in BOOLEAN
    /\ rec \in Held
    /\ crashes \in Nat /\ edits \in Nat

LEMMA TypeIs == TypeOK <=> World /\ me \in Me
BY DEF TypeOK, World, Me, Held, Cmds, Goals, Todos, Names

LEMMA RecordTyped ==
  ASSUME World, NEW tx \in Tx, Write(tx), UNCHANGED <<files, outside, env>>
  PROVE  World'
BY DEF World, Write, Held, files, outside, env

LEMMA SameWorld ==
  ASSUME World, UNCHANGED <<files, outside, record, env>>
  PROVE  World'
BY DEF World, files, outside, record, env

LEMMA StatusTyped ==
  ASSUME NEW tx \in Tx, NEW s \in Statuses PROVE [tx EXCEPT !.status = s] \in Tx
BY TxTyped

LEMMA DecideTyped ==
  ASSUME TypeOK, HasTx, Decide
  PROVE me' \in Me /\ World'
<1> USE DEF Me
<1>1. me \in Me BY MeTyped
<1>2. {"unmark", "giveup", "undo", "commit", "complete"} \subseteq Places BY DEF Places
<1>3. {"failed", "rolled_back"} \subseteq Goals BY DEF Goals
<1>4. rec \in Held BY DEF TypeOK, Held
<1>5. rec \in Tx => NewSteps(rec.plan) \in Todos /\ OldSteps(rec.plan) \in Todos
  BY TxTyped, PartialIs DEF Plans, Todos, NewSteps, OldSteps
<1>6. rec # NoTx => rec \in Tx BY <1>4 DEF Held
<1>15. World /\ (UNCHANGED <<files, outside, record, env>> => World') BY SameWorld, TypeIs
<1>7. CASE RecoverNothing BY <1>1, <1>7, <1>15, RecoveredTyped DEF RecoverNothing
<1>8. CASE RecoverBlocked BY <1>8, <1>15, IdleTyped DEF RecoverBlocked
<1>9. CASE RecoverClean BY <1>1, <1>15, <1>2, <1>3, <1>4, <1>9 DEF RecoverClean
<1>10. CASE RecoverConflict BY <1>1, <1>15, <1>2, <1>3, <1>4, <1>10 DEF RecoverConflict
<1>11. CASE RecoverUndo BY <1>1, <1>15, <1>2, <1>3, <1>4, <1>5, <1>6, <1>11 DEF RecoverUndo,
      Classified, Recovering
<1>12. CASE RecoverRedo BY <1>1, <1>15, <1>2, <1>3, <1>4, <1>5, <1>6, <1>12 DEF RecoverRedo,
      Classified, Recovering
<1>13. CASE RecoverFinish BY <1>1, <1>15, <1>2, <1>3, <1>4, <1>13 DEF RecoverFinish
<1>14. CASE GiveUp
  <2>1. me.tx \in Tx BY <1>14 DEF GiveUp, At, HasTx, Engaged
  <2>2. [me.tx EXCEPT !.status = "needs_human"] \in Tx BY <2>1, StatusTyped DEF Statuses
  <2> QED BY <1>14, <1>15, <2>2, IdleTyped, RecordTyped DEF GiveUp
<1> QED BY <1>7, <1>8, <1>9, <1>10, <1>11, <1>12, <1>13, <1>14 DEF Decide

LEMMA AppliedTyped ==
  ASSUME NEW tx \in Tx, NEW k PROVE [tx EXCEPT !.ext[k].state = "applied"] \in Tx
<1> DEFINE ext == [tx.ext EXCEPT ![k].state = "applied"]
<1>1. DOMAIN tx.ext \in SUBSET Skill /\ tx.ext \in [DOMAIN tx.ext -> Ext]
  BY TxTyped, PartialIs DEF Exts
<1>2. \A e \in Ext : [e EXCEPT !.state = "applied"] \in Ext BY DEF Ext
<1>3. ext \in [DOMAIN tx.ext -> Ext] BY <1>1, <1>2
<1>4. ext \in Exts BY <1>1, <1>3, PartialIs DEF Exts
<1>5. [tx EXCEPT !.ext = ext] \in Tx BY <1>4, TxTyped
<1> QED BY <1>5

LEMMA ExtTyped ==
  ASSUME NEW tx \in Tx, NEW ext \in Exts PROVE [tx EXCEPT !.ext = ext] \in Tx
BY TxTyped

LEMMA EmptyTyped == [s \in {} |-> 0] \in Plans /\ [k \in {} |-> 0] \in Exts
<1>1. [s \in {} |-> 0] \in [{} -> Step] /\ [k \in {} |-> 0] \in [{} -> Ext]
  OBVIOUS
<1> QED BY <1>1, PartialIs DEF Plans, Exts

LEMMA RemovalsTyped ==
  ASSUME World, NEW L \in SUBSET Skill PROVE [k \in L |-> RemoveIntent(k)] \in Exts
<1>1. \A k \in Skill : RemoveIntent(k) \in Ext BY DEF World, RemoveIntent, Ext
<1>2. [k \in L |-> RemoveIntent(k)] \in [L -> Ext] BY <1>1
<1> QED BY <1>2, PartialIs DEF Exts

LEMMA IntentTyped ==
  ASSUME World, NEW tx \in Tx, NEW k \in Skill
  PROVE  [j \in {k} \cup DOMAIN tx.ext |-> IF j = k THEN Intent(k) ELSE tx.ext[j]] \in Exts
<1>1. DOMAIN tx.ext \in SUBSET Skill /\ tx.ext \in [DOMAIN tx.ext -> Ext]
  BY TxTyped, PartialIs DEF Exts
<1>2. Intent(k) \in Ext BY DEF World, Intent, Ext
<1>3. [j \in {k} \cup DOMAIN tx.ext |-> IF j = k THEN Intent(k) ELSE tx.ext[j]]
        \in [({k} \cup DOMAIN tx.ext) -> Ext]
  BY <1>1, <1>2
<1> QED BY <1>1, <1>3, PartialIs DEF Exts

LEMMA PlanTyped == ASSUME me.tx \in Tx PROVE Plan \in Plans /\ DOMAIN Plan \in Todos
BY TxTyped, PartialIs DEF Plan, Plans, Todos

LEMMA CleanUpTyped ==
  ASSUME me \in Me, me.tx \in Tx, NEW goal \in Goals, CleanUp(goal) PROVE me' \in Me
<1>1. "clean" \in Places BY DEF Places
<1> QED BY <1>1, PlanTyped DEF CleanUp, Me

LEMMA BytesTyped ==
  /\ Kit \subseteq Value /\ Bare \in Value /\ Absent \in Value /\ Mine \in Value
  /\ Manifest \in Resource
BY ResourceAssumption DEF Value, Ours, Manifest, Resource

LEMMA PartsAreResources == Shared \subseteq Resource /\ Retired \subseteq Resource
<1>1. 1..(Last - 1) \subseteq 1..Last BY ResourceAssumption
<1> QED BY <1>1, ResourceAssumption DEF Resource

LEMMA PlanOneTyped ==
  ASSUME TypeOK, HasTx, PlanOne PROVE me' \in Me /\ me'.tx \in Tx
<1>1. me \in Me /\ World BY TypeIs
<1>2. me.todo \in SUBSET Resource BY <1>1 DEF Me, Todos
<1>3. disk \in [Resource -> Value] BY <1>1 DEF World
<1>4. ASSUME NEW v \in Kit PROVE PlanInstall(v) \in Plans
  <2> DEFINE old == {s \in Retired : disk[s] \in Kit}
             E == me.todo \cup old \cup {Manifest}
  <2>1. E \in SUBSET Resource
    BY <1>2, BytesTyped, PartsAreResources
  <2>2. \A s \in E : Delete(s) \in Step /\ Replace(s, v) \in Step
    BY <1>3, <1>4, <2>1, BytesTyped DEF Delete, Replace, Step
  <2>3. PlanInstall(v) \in [E -> Step]
    BY <2>2 DEF PlanInstall
  <2> QED BY <2>1, <2>3, PartialIs DEF Plans
<1>5. ASSUME NEW r \in BOOLEAN PROVE PlanUninstall(r) \in Plans
  <2> DEFINE E == me.todo \cup {Manifest}
  <2>1. E \in SUBSET Resource
    BY <1>2, BytesTyped
  <2>2. \A s \in E : Delete(s) \in Step /\ Replace(s, Bare) \in Step
    BY <1>3, <2>1, BytesTyped DEF Delete, Replace, Step
  <2>3. PlanUninstall(r) \in [E -> Step]
    BY <2>2 DEF PlanUninstall
  <2> QED BY <2>1, <2>3, PartialIs DEF Plans
<1>6. ASSUME NEW p \in Plans, MakePlan(p) PROVE me' \in Me /\ me'.tx \in Tx
  <2>1. me.tx \in Tx BY <1>6 DEF MakePlan, At, HasTx, Engaged, Before
  <2>2. [me.tx EXCEPT !.plan = p] \in Tx BY <2>1, TxTyped
  <2>3. "write-plan" \in Places /\ {} \in Todos BY DEF Places, Todos
  <2> QED BY <1>1, <1>6, <2>2, <2>3 DEF MakePlan, Me, Held
<1> QED BY <1>4, <1>5, <1>6 DEF PlanOne

LEMMA PrepareTyped ==
  ASSUME TypeOK, HasTx, Prepare
  PROVE me' \in Me /\ World'
<1>1. me \in Me /\ World BY TypeIs
<1>2. {"first", "classify", "plan", "stage-on", "stage", "backup", "detach-plan", "mark",
       "mark-write", "commit-on"} \subseteq Places BY DEF Places
<1>3. {"failed", "none"} \subseteq Goals /\ {} \in Todos /\ {} \in Names
  BY DEF Goals, Todos, Names
<1>4. {"planning", "staging", "failed"} \subseteq Statuses BY DEF Statuses
<1>5. me.at \in Engaged => Plan \in Plans /\ DOMAIN Plan \in Todos /\ Replaced(Plan) \in Todos
  BY PlanTyped DEF HasTx, Replaced, Todos
<1>6. ASSUME NEW x PROVE me.todo \ {x} \in Todos BY <1>1 DEF Me, Todos
<1>7. rec' = me.tx => rec' \in Tx \/ me.at \notin Engaged BY DEF HasTx
<1>8. World /\ UNCHANGED <<files, outside, record, env>> => World' BY SameWorld
<1>9. \A tx \in Tx : Write(tx) /\ UNCHANGED <<files, outside, env>> => World'
  BY <1>1, RecordTyped
<1>10. \A tx \in Tx, s \in Statuses : [tx EXCEPT !.status = s] \in Tx BY StatusTyped
<1> USE <1>1, <1>2, <1>3, <1>4 DEF At, Goto, Did, HasTx, Engaged, Before, Me
<1>11. CASE OpenRefuse BY <1>8, <1>11, IdleTyped DEF OpenRefuse
<1>12. CASE Open
  <2>2. [s \in {} |-> 0] \in Plans /\ [k \in {} |-> 0] \in Exts BY EmptyTyped
  <2>3. me'.tx \in Held /\ me'.root \in BOOLEAN
    BY <1>12, <2>2, TxTyped DEF Open, Held, Kinds, Olds, World
  <2>4. me' \in Me BY <1>12, <2>3 DEF Open
  <2> QED BY <1>12, <2>4, BytesTyped DEF Open, World, Held, outside, env
<1>13. CASE FirstRecord BY <1>9, <1>13 DEF FirstRecord
<1>14. CASE PlanFails BY <1>9, <1>10, <1>14, IdleTyped DEF PlanFails
<1>15. CASE PlanOne BY <1>8, <1>15, PlanOneTyped DEF PlanOne, MakePlan
<1>16. CASE WritePlan BY <1>9, <1>16 DEF WritePlan
<1>17. ASSUME NEW S \in SUBSET Resource, Classify(S) PROVE me' \in Me /\ World'
  BY <1>8, <1>17 DEF Classify, External, Todos, Names
<1>18. CASE StageOn
  <2>1. [me.tx EXCEPT !.status = "staging"] \in Held BY <1>10, <1>18 DEF StageOn, Held
  <2>2. me' \in Me BY <1>5, <1>18, <2>1 DEF StageOn
  <2> QED BY <1>9, <1>10, <1>18, <2>2 DEF StageOn
<1>19. CASE StageInvalid BY <1>8, <1>19, CleanUpTyped DEF StageInvalid
<1>20. CASE StageDone BY <1>5, <1>8, <1>20 DEF StageDone
<1>21. CASE BackupDone BY <1>8, <1>21 DEF BackupDone
<1>22. CASE Mark
  <2>1. PICK tx : /\ Write(tx) /\ me' = [me EXCEPT !.at = "mark-write", !.tx = tx]
                  /\ tx = [me.tx EXCEPT !.old = IF marker THEN "set" ELSE "unset"]
    BY <1>22 DEF Mark
  <2>2. tx \in Tx BY <1>22, <2>1, TxTyped DEF Mark, Olds
  <2> QED BY <1>9, <1>22, <2>1, <2>2 DEF Mark, Held
<1>23. CASE MarkWrite BY <1>23 DEF MarkWrite, World, files, record, env
<1>24. ASSUME NEW s \in Resource, StageOne(s) \/ BackupOne(s) \/ BackupFails(s)
       PROVE  me' \in Me /\ World'
  <2>1. CASE StageOne(s)
    BY <1>6, <2>1 DEF StageOne, World, outside, record, env
  <2>2. CASE BackupOne(s)
    BY <1>6, <2>2 DEF BackupOne, World, outside, record, env
  <2>3. CASE BackupFails(s) BY <1>8, <2>3, CleanUpTyped DEF BackupFails
  <2> QED BY <1>24, <2>1, <2>2, <2>3
<1> QED BY <1>11, <1>12, <1>13, <1>14, <1>15, <1>16, <1>17, <1>18, <1>19, <1>20, <1>21,
           <1>22, <1>23, <1>24 DEF Prepare

LEMMA DetachTyped ==
  ASSUME TypeOK, HasTx, Detach
  PROVE me' \in Me /\ World'
<1>1. me \in Me /\ World BY TypeIs
<1>2. {"detach", "aside", "moved", "detached", "reattach", "giveup", "finish", "commit-on"}
        \subseteq Places BY DEF Places
<1>3. "stuck" \in Goals /\ {"failed", "needs_human"} \subseteq Statuses
  BY DEF Goals, Statuses
<1>4. World /\ UNCHANGED <<files, outside, record, env>> => World' BY SameWorld
<1>5. \A tx \in Tx : Write(tx) /\ UNCHANGED <<files, outside, env>> => World'
  BY <1>1, RecordTyped
<1>6. \A tx \in Tx, s \in Statuses : [tx EXCEPT !.status = s] \in Tx BY StatusTyped
<1>7. \A k : me.links \ {k} \in Names BY <1>1 DEF Me, Names
<1>8. me.at \in Engaged => me.tx \in Tx BY DEF HasTx
<1>9. me.at \in Engaged => DOMAIN me.tx.ext \in Names
  BY <1>8, TxTyped, PartialIs DEF Exts, Names
<1> USE <1>1, <1>2, <1>3 DEF At, Goto, Engaged, Before, Detaching, Me
<1>10. ASSUME NEW k \in Skill, DetachFailed(k), me.at \in Engaged PROVE me' \in Me
  BY <1>7, <1>9, <1>10 DEF DetachFailed
<1>11. CASE DetachPlan
  <2>1. PICK tx : /\ Write(tx) /\ me' = [me EXCEPT !.at = "detach", !.tx = tx]
                  /\ tx = [me.tx EXCEPT !.ext = [k \in me.links |-> RemoveIntent(k)]]
    BY <1>11 DEF DetachPlan
  <2>2. tx \in Tx BY <1>8, <1>11, <2>1, RemovalsTyped, ExtTyped DEF DetachPlan, Names
  <2> QED BY <1>5, <1>11, <2>1, <2>2 DEF DetachPlan, Held
<1>12. CASE DetachDone BY <1>4, <1>12 DEF DetachDone
<1>13. CASE ReattachDone BY <1>5, <1>6, <1>8, <1>13, IdleTyped DEF ReattachDone
<1>14. ASSUME NEW k \in Skill, DetachSkip(k) \/ DetachStart(k) PROVE me' \in Me /\ World'
  BY <1>4, <1>14 DEF DetachSkip, DetachStart
<1>15. ASSUME NEW k \in Skill, DetachOrphan(k) PROVE me' \in Me /\ World'
  BY <1>15 DEF DetachOrphan, World, Links, files, record, env
<1>16. ASSUME NEW k \in Skill, DetachMove(k) PROVE me' \in Me /\ World'
  BY <1>16 DEF DetachMove, World, Links, files, record, env
<1>17. ASSUME NEW k \in Skill, DetachFails(k) PROVE me' \in Me /\ World'
  BY <1>4, <1>10, <1>17 DEF DetachFails
<1>18. ASSUME NEW k \in Skill, DetachDispose(k) PROVE me' \in Me /\ World'
  BY <1>18 DEF DetachDispose, World, Links, files, record, env
<1>19. ASSUME NEW k \in Skill, DetachRestore(k) PROVE me' \in Me /\ World'
  BY <1>10, <1>19 DEF DetachRestore, World, Links, files, record, env
<1>20. ASSUME NEW k \in Skill, Detached(k) PROVE me' \in Me /\ World'
  <2>1. PICK tx : /\ me' = [me EXCEPT !.at = "detach", !.tx = tx, !.links = @ \ {k}]
                  /\ tx = [me.tx EXCEPT !.ext[k].state = "applied"]
                  /\ IF Forward THEN UNCHANGED record ELSE Write(tx)
    BY <1>20 DEF Detached
  <2>2. tx \in Tx BY <1>8, <1>20, <2>1, AppliedTyped DEF Detached
  <2>3. me' \in Me BY <1>7, <2>1, <2>2 DEF Held
  <2> QED BY <1>4, <1>5, <1>20, <2>1, <2>2, <2>3 DEF Detached, World, Held, files, outside, env,
        record
<1> QED BY <1>11, <1>12, <1>13, <1>14, <1>15, <1>16, <1>17, <1>18, <1>19, <1>20 DEF Detach

LEMMA CommitTyped ==
  ASSUME TypeOK, HasTx, Commit
  PROVE me' \in Me /\ World'
<1>1. me \in Me /\ World BY TypeIs
<1>2. {"recover", "giveup", "isolate", "isolated", "swap", "swapped", "commit", "complete",
       "link", "finish"} \subseteq Places BY DEF Places
<1>3. "none" \in Cmds /\ "committing" \in Statuses BY DEF Cmds, Statuses
<1>4. World /\ UNCHANGED <<files, outside, record, env>> => World' BY SameWorld
<1>5. \A k : me.todo \ {k} \in Todos BY <1>1 DEF Me, Todos
<1>6. me.at \in Engaged => me.tx \in Tx /\ Plan \in Plans /\ DOMAIN Plan \in Todos
  BY PlanTyped DEF HasTx
<1> USE <1>1, <1>2, <1>3 DEF At, Goto, Did, Engaged, Midway, Before, Me
<1>7. ASSUME NEW conflict, Stop(conflict), me.at \in Engaged PROVE me' \in Me /\ World'
  BY <1>4, <1>7 DEF Stop, files
<1>8. CASE CommitOn
  <2>1. [me.tx EXCEPT !.status = "committing"] \in Tx
    BY <1>6, <1>8, StatusTyped DEF CommitOn
  <2>2. me' \in Me BY <1>6, <1>8, <2>1 DEF CommitOn, Held
  <2> QED BY <1>8, <2>1, <2>2, RecordTyped DEF CommitOn
<1>9. CASE CommitDone BY <1>4, <1>9 DEF CommitDone
<1>10. ASSUME NEW s \in Resource,
              CommitConflict(s) \/ CommitAbsent(s) \/ CommitChecked(s) \/ CommitUnstaged(s)
       PROVE  me' \in Me /\ World'
  <2>1. CASE CommitConflict(s) BY <1>7, <2>1 DEF CommitConflict, Committing
  <2>2. CASE CommitAbsent(s) BY <1>4, <1>5, <2>2 DEF CommitAbsent, Committing
  <2>3. CASE CommitChecked(s) BY <1>4, <2>3 DEF CommitChecked, Committing
  <2>4. CASE CommitUnstaged(s) BY <1>7, <2>4 DEF CommitUnstaged, Committing
  <2> QED BY <1>10, <2>1, <2>2, <2>3, <2>4
<1>11. ASSUME NEW s \in Resource, Swap(s) PROVE me' \in Me /\ World'
  <2>1. s \in DOMAIN Plan BY <1>11 DEF Swap, First, HasTx
  <2>2. Plan[s] \in Step BY <1>6, <1>11, <2>1, PartialIs DEF Swap, Plans
  <2>3. Plan[s].post \in Value BY <2>2 DEF Step
  <2> QED BY <1>11, <2>3 DEF Swap, World, outside, record, env
<1>12. ASSUME NEW s \in Resource, Swapped(s) PROVE me' \in Me /\ World'
  <2>1. CASE disk[s] = Plan[s].post
    <3>1. /\ me' = [me EXCEPT !.at = "commit", !.todo = @ \ {s}]
          /\ UNCHANGED <<files, outside, record, env>>
      BY <1>12, <2>1 DEF Swapped
    <3> QED BY <1>4, <1>5, <3>1
  <2>2. CASE disk[s] # Plan[s].post BY <1>7, <1>12, <2>2 DEF Swapped
  <2> QED BY <2>1, <2>2
<1>13. ASSUME NEW s \in Resource, Isolate(s) PROVE me' \in Me /\ World'
  BY <1>13, BytesTyped DEF Isolate, World, outside, record, env
<1>14. ASSUME NEW s \in Resource, IsolateFails(s) \/ ReinstateFails(s)
       PROVE  me' \in Me /\ World'
  BY <1>7, <1>14 DEF IsolateFails, ReinstateFails
<1>15. ASSUME NEW s \in Resource, Dispose(s) PROVE me' \in Me /\ World'
  BY <1>5, <1>15, BytesTyped DEF Dispose, World, outside, record, env
<1>16. ASSUME NEW s \in Resource, Reinstate(s) PROVE me' \in Me /\ World'
  BY <1>16, BytesTyped DEF Reinstate, World, outside, record, env
<1> QED BY <1>8, <1>9, <1>10, <1>11, <1>12, <1>13, <1>14, <1>15, <1>16 DEF Commit

LEMMA ExposeTyped ==
  ASSUME TypeOK, HasTx, Expose
  PROVE me' \in Me /\ World'
<1>1. me \in Me /\ World BY TypeIs
<1>2. {"symlink", "linked", "link", "giveup", "finish"} \subseteq Places BY DEF Places
<1>3. World /\ UNCHANGED <<files, outside, record, env>> => World' BY SameWorld
<1>4. \A tx \in Tx : Write(tx) /\ UNCHANGED <<files, outside, env>> => World'
  BY <1>1, RecordTyped
<1>5. \A k : me.links \ {k} \in Names BY <1>1 DEF Me, Names
<1>6. me.at \in Engaged => me.tx \in Tx BY DEF HasTx
<1> USE <1>1, <1>2 DEF At, Goto, Engaged, After, Me
<1>7. CASE LinksDone BY <1>7 DEF LinksDone, World, files, record, env
<1>8. ASSUME NEW k \in Skill, LinkIntent(k) PROVE me' \in Me /\ World'
  <2> DEFINE ext == [j \in {k} \cup DOMAIN me.tx.ext |-> IF j = k THEN Intent(k) ELSE me.tx.ext[j]]
  <2>1. PICK tx : /\ Write(tx)
                  /\ tx = [me.tx EXCEPT !.ext = ext]
                  /\ me' = IF link[k] = "absent" THEN [me EXCEPT !.at = "symlink", !.tx = tx]
                           ELSE [me EXCEPT !.tx = tx, !.links = @ \ {k}]
    BY <1>8 DEF LinkIntent
  <2>2. me.tx \in Tx BY <1>6, <1>8 DEF LinkIntent
  <2>7. tx \in Tx BY <2>1, <2>2, IntentTyped, ExtTyped
  <2>8. me' \in Me BY <1>5, <2>1, <2>7 DEF Held
  <2> QED BY <1>4, <1>8, <2>1, <2>7, <2>8 DEF LinkIntent
<1>9. ASSUME NEW k \in Skill, Symlink(k) PROVE me' \in Me /\ World'
  BY <1>9 DEF Symlink, World, Links, files, record, env
<1>10. ASSUME NEW k \in Skill, SymlinkRaises(k) PROVE me' \in Me /\ World'
  BY <1>3, <1>10, IdleTyped DEF SymlinkRaises
<1>11. ASSUME NEW k \in Skill, Linked(k) PROVE me' \in Me /\ World'
  <2>1. PICK tx : /\ Write(tx)
                  /\ tx = [me.tx EXCEPT !.ext[k].state = "applied"]
                  /\ me' = [me EXCEPT !.at = "link", !.tx = tx, !.links = @ \ {k}]
    BY <1>11 DEF Linked
  <2>2. tx \in Tx BY <1>6, <1>11, <2>1, AppliedTyped DEF Linked
  <2>3. me' \in Me BY <1>5, <2>1, <2>2 DEF Held
  <2> QED BY <1>4, <1>11, <2>1, <2>2, <2>3 DEF Linked
<1> QED BY <1>7, <1>8, <1>9, <1>10, <1>11 DEF Expose

LEMMA UndoTyped ==
  ASSUME TypeOK, HasTx, Undo
  PROVE me' \in Me /\ World'
<1>1. me \in Me /\ World BY TypeIs
<1>2. {"restore", "restored", "remove", "undo", "unmark", "giveup"} \subseteq Places BY DEF Places
<1>3. World /\ UNCHANGED <<files, outside, record, env>> => World' BY SameWorld
<1>4. \A k : me.todo \ {k} \in Todos BY <1>1 DEF Me, Todos
<1> USE <1>1, <1>2 DEF At, Goto, Did, Engaged, Undoes, Me, Undoing
<1>5. CASE UndoDone BY <1>3, <1>5 DEF UndoDone
<1>6. ASSUME NEW s \in Resource,
             UndoNothing(s) \/ UndoRemovable(s) \/ UndoFails(s) \/ Restored(s)
      PROVE  me' \in Me /\ World'
  <2>1. CASE UndoNothing(s) BY <1>3, <1>4, <2>1 DEF UndoNothing
  <2>2. CASE UndoRemovable(s) \/ UndoFails(s) BY <1>3, <2>2 DEF UndoRemovable, UndoFails
  <2>3. CASE Restored(s)
    <3>1. UNCHANGED <<files, outside, record, env>> BY <2>3 DEF Restored
    <3>2. CASE disk[s] = Plan[s].pre
      <4>1. me' = [me EXCEPT !.at = "undo", !.todo = @ \ {s}] BY <2>3, <3>2 DEF Restored
      <4> QED BY <1>3, <1>4, <3>1, <4>1
    <3>3. CASE disk[s] # Plan[s].pre
      <4>1. me' = [me EXCEPT !.at = "giveup"] BY <2>3, <3>3 DEF Restored
      <4> QED BY <1>3, <3>1, <4>1
    <3> QED BY <3>2, <3>3
  <2> QED BY <1>6, <2>1, <2>2, <2>3
<1>7. ASSUME NEW s \in Resource, UndoIsolated(s) PROVE me' \in Me /\ World'
  BY <1>4, <1>7, BytesTyped DEF UndoIsolated, World, outside, record, env
<1>8. ASSUME NEW s \in Resource, UndoTemporary(s) PROVE me' \in Me /\ World'
  BY <1>8 DEF UndoTemporary, World, outside, record, env
<1>9. ASSUME NEW s \in Resource, Restore(s) PROVE me' \in Me /\ World'
  <2>1. me.tx \in Tx /\ s \in DOMAIN Plan BY <1>9 DEF Restore, Final, HasTx
  <2>2. Plan[s] \in Step BY <2>1, PlanTyped, PartialIs DEF Plans
  <2>3. Plan[s].pre \in Value BY <2>2 DEF Step
  <2> QED BY <1>9, <2>3 DEF Restore, World, outside, record, env
<1>10. ASSUME NEW s \in Resource, Remove(s) PROVE me' \in Me /\ World'
  BY <1>4, <1>10, BytesTyped DEF Remove, World, outside, record, env
<1> QED BY <1>5, <1>6, <1>7, <1>8, <1>9, <1>10 DEF Undo

LEMMA EndTyped ==
  ASSUME TypeOK, HasTx, End
  PROVE me' \in Me /\ World'
<1>1. me \in Me /\ World BY TypeIs
<1>2. {"compensate", "unlink", "recreate", "reattach", "giveup", "rmdir", "reopen", "forget",
       "conclude"} \subseteq Places BY DEF Places
<1>3. World /\ UNCHANGED <<files, outside, record, env>> => World' BY SameWorld
<1>4. \A k : me.todo \ {k} \in Todos /\ me.links \ {k} \in Names
  BY <1>1 DEF Me, Todos, Names
<1>5. me.at \in Engaged => me.tx \in Tx BY DEF HasTx
<1>6. me.at \in Engaged => DOMAIN me.tx.ext \in Names
  BY <1>5, TxTyped, PartialIs DEF Exts, Names
<1>7. "stuck" \in Goals BY DEF Goals
<1>8. Recovered \in Me BY <1>1, RecoveredTyped
<1> USE <1>1, <1>2 DEF At, Goto, Did, Engaged, Before, Back, Erased, Me
<1>9. CASE Unmark BY <1>6, <1>9 DEF Unmark, World, files, record, env
<1>10. CASE CompensateDone
  <2>1. CASE me.goal = "stuck" BY <1>3, <1>10, <2>1 DEF CompensateDone
  <2>2. CASE me.goal # "stuck"
    BY <1>3, <1>5, <1>10, <2>2, CleanUpTyped DEF CompensateDone
  <2> QED BY <2>1, <2>2
<1>11. CASE CleanRecord BY <1>11 DEF CleanRecord, World, Held, files, outside, env
<1>12. CASE Rmdir BY <1>8, <1>12 DEF Rmdir, World, Held, files, outside, env
<1>13. CASE Reopen BY <1>13 DEF Reopen, World, Held, files, outside, env
<1>14. CASE Conclude
  <2>1. [me.tx EXCEPT !.status = me.goal] \in Tx
    BY <1>5, <1>14, StatusTyped DEF Conclude, HasTx
  <2> QED BY <1>8, <1>14, <2>1, RecordTyped DEF Conclude
<1>15. CASE Forget BY <1>15, IdleTyped DEF Forget, World, files, record, env
<1>16. ASSUME NEW k \in Skill, NEW goal \in Goals, Compensated(k, goal) PROVE me' \in Me
  BY <1>4, <1>16 DEF Compensated
<1>17. ASSUME NEW k \in Skill, CompensateSkip(k) \/ CompensateStart(k)
       PROVE  me' \in Me /\ World'
  BY <1>3, <1>4, <1>17 DEF CompensateSkip, CompensateStart
<1>18. ASSUME NEW k \in Skill, CompensateFails(k) PROVE me' \in Me /\ World'
  BY <1>3, <1>7, <1>16, <1>18 DEF CompensateFails
<1>19. ASSUME NEW k \in Skill, CompensateUnlink(k) \/ CompensateRecreate(k)
       PROVE  me' \in Me /\ World'
  BY <1>16, <1>19 DEF CompensateUnlink, CompensateRecreate, World, Links, files, record, env
<1>20. ASSUME NEW s \in Resource, Clean(s) PROVE me' \in Me /\ World'
  BY <1>4, <1>20 DEF Clean, World, outside, record, env
<1> QED BY <1>9, <1>10, <1>11, <1>12, <1>13, <1>14, <1>15, <1>17, <1>18, <1>19, <1>20 DEF End

LEMMA RollForwardTyped ==
  ASSUME TypeOK, HasTx, RollForward
  PROVE me' \in Me /\ World'
<1>1. me \in Me /\ World BY TypeIs
<1>2. {"giveup", "relink", "detach", "finish", "clean"} \subseteq Places BY DEF Places
<1>3. World /\ UNCHANGED <<files, outside, record, env>> => World' BY SameWorld
<1>4. \A k : me.links \ {k} \in Names BY <1>1 DEF Me, Names
<1>5. me.at \in Engaged => me.tx \in Tx /\ DOMAIN Plan \in Todos BY PlanTyped DEF HasTx
<1>6. {"done", "stuck"} \subseteq Goals /\ "done" \in Statuses BY DEF Goals, Statuses
<1> USE <1>1, <1>2, <1>6 DEF At, Goto, Engaged, After, Me
<1>7. CASE Complete
  <2>1. Skill \in Names BY DEF Names
  <2>2. Unfinished \in Names
    BY <1>5, <1>7, TxTyped, PartialIs DEF Complete, Unfinished, Names, Exts
  <2> QED BY <1>3, <1>7, <2>1, <2>2 DEF Complete
<1>8. CASE CompleteFails BY <1>3, <1>8 DEF CompleteFails
<1>9. CASE RelinkDone BY <1>3, <1>9 DEF RelinkDone
<1>10. CASE Finish
  <2>1. [me.tx EXCEPT !.status = "done"] \in Tx BY <1>5, <1>10, StatusTyped DEF Finish
  <2>2. me' \in Me BY <1>5, <1>10, <2>1 DEF Finish, Held
  <2> QED BY <1>10, <2>1, <2>2, RecordTyped DEF Finish
<1>11. ASSUME NEW s \in Resource, CompleteDeletion(s) PROVE me' \in Me /\ World'
  BY <1>11, BytesTyped DEF CompleteDeletion, World, outside, record, env
<1>12. ASSUME NEW k \in Skill, Relink(k) PROVE me' \in Me /\ World'
  BY <1>4, <1>12 DEF Relink, World, Links, files, record, env
<1>13. ASSUME NEW k \in Skill, RelinkOccupied(k) PROVE me' \in Me /\ World'
  BY <1>3, <1>4, <1>13 DEF RelinkOccupied
<1> QED BY <1>7, <1>8, <1>9, <1>10, <1>11, <1>12, <1>13 DEF RollForward

LEMMA OutsideTyped ==
  ASSUME TypeOK, NEW v \in Value, NEW w \in Links
  PROVE  /\ Abort => me' \in Me /\ World'
         /\ \A s \in Resource : EditFile(s, v) => me' \in Me /\ World'
         /\ \A k \in Skill : EditLink(k, w) => me' \in Me /\ World'
<1>1. me \in Me /\ World BY TypeIs
<1>2. ASSUME Abort PROVE me' \in Me /\ World'
  <2>1. litter' \in {litter, TRUE} BY <1>2 DEF Abort
  <2>2. marker' \in {marker, FALSE} BY <1>2 DEF Abort
  <2>3. litter' \in BOOLEAN /\ marker' \in BOOLEAN BY <1>1, <2>1, <2>2 DEF World
  <2>4. crashes' \in Nat BY <1>1, <1>2 DEF Abort, World
  <2> QED BY <1>1, <1>2, <2>3, <2>4, IdleTyped DEF Abort, World, files
<1>3. \A s \in Resource : EditFile(s, v) => me' \in Me /\ World'
  BY <1>1 DEF EditFile, World, outside, record
<1>4. \A k \in Skill : EditLink(k, w) => me' \in Me /\ World'
  BY <1>1 DEF EditLink, World, files, record
<1> QED BY <1>2, <1>3, <1>4

LEMMA TypeNext == TypeOK /\ HasTx /\ EditNext => TypeOK'
<1> SUFFICES ASSUME TypeOK, HasTx, EditNext PROVE TypeOK'
  OBVIOUS
<1>1. (World /\ me \in Me => TypeOK)' BY TypeIs, PTL
<1>2. ASSUME NEW c \in Commands, NEW root \in BOOLEAN, Begin(c, root) PROVE TypeOK'
  BY <1>1, <1>2, BeginTyped, SameWorld, TypeIs DEF Begin
<1>3. CASE Decide BY <1>1, <1>3, DecideTyped
<1>4. CASE Prepare BY <1>1, <1>4, PrepareTyped
<1>5. CASE Detach BY <1>1, <1>5, DetachTyped
<1>6. CASE Commit BY <1>1, <1>6, CommitTyped
<1>7. CASE Expose BY <1>1, <1>7, ExposeTyped
<1>8. CASE Undo BY <1>1, <1>8, UndoTyped
<1>9. CASE End BY <1>1, <1>9, EndTyped
<1>10. CASE RollForward BY <1>1, <1>10, RollForwardTyped
<1>11. CASE Abort BY <1>1, <1>11, OutsideTyped, BytesTyped DEF Links
<1>12. ASSUME NEW s \in Resource, NEW v \in {Mine, Absent}, EditFile(s, v) PROVE TypeOK'
  BY <1>1, <1>12, OutsideTyped, BytesTyped DEF Links
<1>13. ASSUME NEW k \in Skill, NEW v \in {"theirs", "absent"}, EditLink(k, v) PROVE TypeOK'
  BY <1>1, <1>13, OutsideTyped, BytesTyped DEF Links
<1> QED BY <1>2, <1>3, <1>4, <1>5, <1>6, <1>7, <1>8, <1>9, <1>10, <1>11, <1>12, <1>13
        DEF EditNext, Next, Proceed

-----------------------------------------------------------------------------
(* What is moved aside, whoever edits the target.                            *)

NoIso       == \A s \in Resource : iso[s] = Absent
Interrupted == rec # NoTx /\ rec.status \in {"committing", "needs_human"}
Over        == rec # NoTx => rec.status \in {"done", "failed", "rolled_back"}
Deleted(p)  == {s \in DOMAIN p : p[s].kind = "delete"}

(* Only a deletion of an interrupted transaction has anything moved aside. *)
RecordAside ==
    /\ rec # NoTx => dir
    /\ \A s \in Resource : iso[s] # Absent => Interrupted /\ s \in Deleted(rec.plan)

(* The process carries on the transaction on disk. *)
Carries == Interrupted /\ me.tx.plan = rec.plan

(* With nothing moved aside the process is free to record any status. *)
Settled == Before \cup Detaching \cup Back \cup After \cup {"clean"}

ProcessAside ==
    /\ me.at = "open" => Over
    /\ me.at = "first" => rec = NoTx
    /\ me.at \in Settled => NoIso /\ rec # NoTx
    /\ me.at \in Erased => rec = NoTx
    /\ me.at \in Midway =>
          /\ Carries
          /\ \A s \in me.todo : iso[s] # Absent => At("isolated") /\ s \in First(me.todo)
          /\ ~Manual => \A s \in Resource \ me.todo : iso[s] = Absent
          /\ At("isolate") => \A s \in First(me.todo) : s \in Deleted(Plan)
    /\ me.at \in Undoes =>
          /\ Carries
          /\ \A s \in Resource : iso[s] # Absent => s \in me.todo
          /\ ~At("undo") => \A s \in Final(me.todo) : iso[s] = Absent
    /\ me.at = "complete" => Carries
    /\ me.at = "giveup" => /\ rec # NoTx
                           /\ \A s \in Resource : iso[s] # Absent => s \in Deleted(Plan)

(* How the transaction is to end, and who is to end it: an uninstall that     *)
(* cannot remove the links puts them back itself, before it commits.         *)
OwnUninstall == me.own /\ me.cmd = "uninstall"
Taken        == me.goal \in {"failed", "rolled_back"}

ProcessAims ==
    /\ me.at = "idle" => me = Idle
    /\ me.at \in {"recover", "unmark", "compensate"} \cup Undoes => ~OwnUninstall
    /\ me.at = "open" => me.goal = "none"
    /\ me.at \in Before \cup {"first"} =>
          /\ me.own
          /\ me.at # "reattach" => me.goal = "none"
    /\ me.at \in {"detach-plan", "reattach"} => OwnUninstall
    /\ me.at \in Detaching => Forward \/ (OwnUninstall /\ me.goal = "none")
    /\ me.at \in Undoes => Taken
    /\ me.at \in {"unmark", "compensate"} => Taken \/ me.goal = "stuck"
    /\ me.at \in {"unlink", "recreate"} => Taken \/ me.goal = "stuck" \/ OwnUninstall
    /\ me.at \in Erased \cup {"clean"} => Taken \/ me.goal = "done"
    /\ me.at \in {"reopen", "conclude"} => Taken

AsideInv == TypeOK /\ HasTx /\ RecordAside /\ ProcessAside /\ ProcessAims

Aside == HasTx /\ RecordAside /\ ProcessAside

(* Which of them a place asks for. *)
LEMMA RestAside == RecordAside /\ me.at \in {"idle", "recover", "forget"} => Aside
BY DEF Aside, HasTx, ProcessAside, Engaged, Settled, Before, Detaching, Back, After, Midway,
       Undoes, Erased

LEMMA OpenAside == RecordAside /\ At("open") /\ Over /\ me.cmd \in Kinds => Aside
BY DEF Aside, HasTx, ProcessAside, Engaged, Settled, Before, Detaching, Back, After, Midway,
       Undoes, Erased, At

LEMMA FirstAside == RecordAside /\ At("first") /\ rec = NoTx /\ me.tx \in Tx => Aside
BY DEF Aside, HasTx, ProcessAside, Settled, Before, Detaching, Back, After, Midway, Undoes,
       Erased, At

LEMMA SettledAside ==
  NoIso /\ rec # NoTx /\ dir /\ me.at \in Settled /\ me.tx \in Tx => Aside
BY DEF Aside, RecordAside, NoIso, HasTx, ProcessAside, Settled, Before, Detaching, Back, After,
       Midway, Undoes, Erased

LEMMA ErasedAside ==
  NoIso /\ rec = NoTx /\ me.at \in Erased /\ me.tx \in Tx /\ (At("conclude") => Taken) => Aside
BY DEF Aside, RecordAside, NoIso, HasTx, ProcessAside, Settled, Before, Detaching, Back, After,
       Midway, Undoes, Erased, At, Taken, Statuses

LEMMA CompleteAside ==
  RecordAside /\ Carries /\ At("complete") /\ me.tx \in Tx => Aside
BY DEF Aside, HasTx, ProcessAside, Settled, Before, Detaching, Back, After, Midway, Undoes,
       Erased, At

LEMMA GiveUpAside ==
  /\ RecordAside /\ rec # NoTx /\ me.at = "giveup" /\ me.tx \in Tx
  /\ \A r \in Resource : iso[r] # Absent => r \in Deleted(Plan)
  => Aside
BY DEF Aside, HasTx, ProcessAside, Settled, Before, Detaching, Back, After, Midway, Undoes,
       Erased, At

MidwayFacts ==
    /\ Carries /\ me.todo \subseteq DOMAIN Plan
    /\ \A s \in me.todo : iso[s] # Absent => At("isolated") /\ s \in First(me.todo)
    /\ ~Manual => \A s \in Resource \ me.todo : iso[s] = Absent
    /\ At("isolate") => \A s \in First(me.todo) : s \in Deleted(Plan)

LEMMA MidwayAside == RecordAside /\ MidwayFacts /\ me.at \in Midway /\ me.tx \in Tx => Aside
BY DEF Aside, MidwayFacts, HasTx, ProcessAside, Settled, Before, Detaching, Back, After, Midway,
       Undoes, Erased, At

UndoFacts ==
    /\ Carries /\ me.todo \subseteq DOMAIN Plan
    /\ \A s \in Resource : iso[s] # Absent => s \in me.todo
    /\ ~At("undo") => \A s \in Final(me.todo) : iso[s] = Absent

LEMMA UndoesAside == RecordAside /\ UndoFacts /\ me.at \in Undoes /\ me.tx \in Tx => Aside
BY DEF Aside, UndoFacts, HasTx, ProcessAside, Settled, Before, Detaching, Back, After, Midway,
       Undoes, Erased, At

(* Without anything moved aside any status may be recorded. *)
LEMMA SettledStep ==
  ASSUME AsideInv, me.at \in Settled, iso' = iso,
         UNCHANGED record \/ (\E tx \in Tx : Write(tx)),
         me'.at = "idle" \/ (me'.at \in Settled \cup {"giveup"} /\ me'.tx \in Tx)
  PROVE  Aside'
<1>1. NoIso /\ rec # NoTx /\ dir BY DEF AsideInv, ProcessAside, RecordAside
<1>2. NoIso' BY <1>1 DEF NoIso
<1>3. rec' # NoTx /\ dir' BY <1>1, NoTxAssumption DEF Write, record
<1>4. RecordAside' BY <1>2, <1>3 DEF RecordAside, NoIso
<1>5. CASE me'.at = "idle"
  <2>1. (RecordAside /\ me.at \in {"idle", "recover", "forget"} => Aside)' BY RestAside, PTL
  <2> QED BY <1>4, <1>5, <2>1
<1>6. CASE me'.at \in Settled /\ me'.tx \in Tx
  <2>1. (NoIso /\ rec # NoTx /\ dir /\ me.at \in Settled /\ me.tx \in Tx => Aside)'
    BY SettledAside, PTL
  <2> QED BY <1>2, <1>3, <1>6, <2>1
<1>7. CASE me'.at = "giveup" /\ me'.tx \in Tx
  <2>1. (/\ RecordAside /\ rec # NoTx /\ me.at = "giveup" /\ me.tx \in Tx
         /\ \A r \in Resource : iso[r] # Absent => r \in Deleted(Plan)
         => Aside)'
    BY GiveUpAside, PTL
  <2> QED BY <1>2, <1>3, <1>4, <1>7, <2>1 DEF NoIso, At
<1> QED BY <1>5, <1>6, <1>7

LEMMA SettledTx ==
  ASSUME AsideInv, me.at \in Settled PROVE me.tx \in Tx /\ me \in Me /\ World
BY TypeIs DEF AsideInv, HasTx, Engaged, Settled

LEMMA DetachAside == ASSUME AsideInv, Detach PROVE Aside'
<1>1. me.at \in Settled
  BY DEF Detach, DetachPlan, DetachDone, ReattachDone, DetachSkip, DetachStart, DetachOrphan,
         DetachMove, DetachFails, DetachDispose, DetachRestore, Detached, At, Settled, Before,
         Detaching
<1>2. me.tx \in Tx /\ me \in Me /\ World BY <1>1, SettledTx
<1>3. {"reattach", "commit-on", "detach", "aside", "moved", "detached", "finish"} \subseteq Settled
  BY DEF Settled, Before, Detaching, After
<1>4. iso' = iso
  BY DEF Detach, DetachPlan, DetachDone, ReattachDone, DetachSkip, DetachStart, DetachOrphan,
         DetachMove, DetachFails, DetachDispose, DetachRestore, Detached, files
<1> USE <1>1, <1>2, <1>3, <1>4, SettledStep DEF Goto, Me
<1>5. CASE DetachPlan
  <2>1. PICK tx : /\ Write(tx) /\ me' = [me EXCEPT !.at = "detach", !.tx = tx]
                  /\ tx = [me.tx EXCEPT !.ext = [k \in me.links |-> RemoveIntent(k)]]
    BY <1>5 DEF DetachPlan
  <2>2. tx \in Tx BY <2>1, RemovalsTyped, ExtTyped DEF Names
  <2> QED BY <2>1, <2>2
<1>6. CASE DetachDone BY <1>6 DEF DetachDone
<1>7. CASE ReattachDone
  <2>1. \E tx \in Tx : Write(tx) BY <1>7, StatusTyped DEF ReattachDone, Statuses
  <2> QED BY <1>7, <2>1 DEF ReattachDone, Idle
<1>8. ASSUME NEW k \in Skill, DetachFailed(k), UNCHANGED record PROVE Aside'
  BY <1>8 DEF DetachFailed
<1>9. ASSUME NEW k \in Skill, DetachSkip(k) \/ DetachStart(k) PROVE Aside'
  BY <1>9 DEF DetachSkip, DetachStart
<1>10. ASSUME NEW k \in Skill, DetachOrphan(k) \/ DetachMove(k) \/ DetachDispose(k)
       PROVE  Aside'
  BY <1>10 DEF DetachOrphan, DetachMove, DetachDispose, At
<1>11. ASSUME NEW k \in Skill, DetachFails(k) \/ DetachRestore(k) PROVE Aside'
  BY <1>8, <1>11 DEF DetachFails, DetachRestore
<1>12. ASSUME NEW k \in Skill, Detached(k) PROVE Aside'
  <2>1. PICK tx : /\ me' = [me EXCEPT !.at = "detach", !.tx = tx, !.links = @ \ {k}]
                  /\ tx = [me.tx EXCEPT !.ext[k].state = "applied"]
                  /\ IF Forward THEN UNCHANGED record ELSE Write(tx)
    BY <1>12 DEF Detached
  <2>2. tx \in Tx BY <2>1, AppliedTyped
  <2>3. UNCHANGED record \/ \E t \in Tx : Write(t) BY <2>1, <2>2
  <2>4. me'.at = "detach" /\ me'.tx = tx BY <2>1
  <2> QED BY <2>2, <2>3, <2>4
<1> QED BY <1>5, <1>6, <1>7, <1>9, <1>10, <1>11, <1>12 DEF Detach

LEMMA PrepareAside == ASSUME AsideInv, TypeOK', Prepare PROVE Aside'
<1>1. me \in Me /\ World BY TypeIs DEF AsideInv
<1>2. me.at \in Engaged => me.tx \in Tx BY DEF AsideInv, HasTx
<1>3. Before \cup {"clean"} \subseteq Settled BY DEF Settled
<1>4. Before \cup {"first"} \subseteq Engaged BY DEF Engaged
<1>5. RecordAside BY DEF AsideInv
<1> USE <1>1, <1>3, <1>4 DEF At, Goto, Did, Me, Before
<1>6. CASE OpenRefuse
  <2>1. RecordAside' BY <1>5, <1>6 DEF OpenRefuse, RecordAside, Interrupted, Deleted, files, record
  <2>2. (RecordAside /\ me.at \in {"idle", "recover", "forget"} => Aside)' BY RestAside, PTL
  <2> QED BY <1>6, <2>1, <2>2 DEF OpenRefuse, Idle
<1>7. CASE Open
  <2>1. me'.at = "first" /\ rec' = NoTx /\ RecordAside'
    BY <1>7 DEF Open, RecordAside
  <2>2. me'.tx \in Tx
    <3>1. [s \in {} |-> 0] \in Plans /\ [k \in {} |-> 0] \in Exts BY EmptyTyped
    <3>2. me.cmd \in Kinds BY <1>7 DEF Open, AsideInv, HasTx
    <3> QED BY <1>7, <3>1, <3>2, TxTyped DEF Open, Olds, Statuses
  <2>3. (RecordAside /\ At("first") /\ rec = NoTx /\ me.tx \in Tx => Aside)' BY FirstAside, PTL
  <2> QED BY <2>1, <2>2, <2>3
<1>8. CASE FirstRecord
  <2>1. me.tx \in Tx /\ rec = NoTx /\ NoIso
    BY <1>2, <1>8 DEF FirstRecord, AsideInv, ProcessAside, RecordAside, NoIso, Interrupted
  <2>2. /\ NoIso' /\ rec' # NoTx /\ dir' /\ me'.at \in Settled /\ me'.tx \in Tx
    BY <1>8, <2>1, NoTxAssumption DEF FirstRecord, NoIso, Write, files
  <2>3. (NoIso /\ rec # NoTx /\ dir /\ me.at \in Settled /\ me.tx \in Tx => Aside)'
    BY SettledAside, PTL
  <2> QED BY <2>2, <2>3
<1>9. ASSUME me.at \in Before, \E tx \in Tx : Write(tx), UNCHANGED files,
             me' = Idle \/ (me'.at \in Settled /\ me'.tx \in Tx)
      PROVE  Aside'
  BY <1>9, SettledStep DEF files, Idle
<1>10. ASSUME me.at \in Before, iso' = iso, UNCHANGED record,
             me' = Idle \/ (me'.at \in Settled /\ me'.tx = me.tx)
      PROVE  Aside'
  BY <1>2, <1>10, SettledStep DEF Idle
<1>11. CASE PlanFails
  <2>1. \E tx \in Tx : Write(tx) BY <1>2, <1>11, StatusTyped DEF PlanFails, Statuses
  <2> QED BY <1>9, <1>11, <2>1 DEF PlanFails
<1>12. CASE PlanOne
  <2>1. me.at = "plan" /\ iso' = iso /\ UNCHANGED record /\ me'.at = "write-plan"
    BY <1>12 DEF PlanOne, MakePlan, files
  <2>2. me'.tx \in Tx
    BY <1>2, <1>12, PlanOneTyped DEF AsideInv, PlanOne
  <2> QED BY <2>1, <2>2, SettledStep
<1>13. CASE WritePlan BY <1>2, <1>9, <1>13 DEF WritePlan
<1>14. ASSUME NEW S \in SUBSET Resource, Classify(S) PROVE Aside'
  BY <1>10, <1>14 DEF Classify, files
<1>15. CASE StageOn
  <2>1. [me.tx EXCEPT !.status = "staging"] \in Tx
    BY <1>2, <1>15, StatusTyped DEF StageOn, Statuses
  <2> QED BY <1>9, <1>15, <2>1 DEF StageOn
<1>16. CASE StageInvalid BY <1>10, <1>16 DEF StageInvalid, CleanUp, files
<1>17. CASE StageDone BY <1>10, <1>17 DEF StageDone, files
<1>18. CASE BackupDone BY <1>10, <1>18 DEF BackupDone, files
<1>19. CASE Mark
  <2>1. PICK tx : /\ Write(tx) /\ me' = [me EXCEPT !.at = "mark-write", !.tx = tx]
                  /\ tx = [me.tx EXCEPT !.old = IF marker THEN "set" ELSE "unset"]
    BY <1>19 DEF Mark
  <2>2. tx \in Tx BY <1>2, <1>19, <2>1, TxTyped DEF Mark, Olds
  <2> QED BY <1>9, <1>19, <2>1, <2>2 DEF Mark
<1>20. CASE MarkWrite BY <1>10, <1>20 DEF MarkWrite, files
<1>21. ASSUME NEW s \in Resource, StageOne(s) \/ BackupOne(s) PROVE Aside'
  BY <1>10, <1>21 DEF StageOne, BackupOne
<1>22. ASSUME NEW s \in Resource, BackupFails(s) PROVE Aside'
  BY <1>10, <1>22 DEF BackupFails, CleanUp, files
<1> QED BY <1>6, <1>7, <1>8, <1>11, <1>12, <1>13, <1>14, <1>15, <1>16, <1>17, <1>18, <1>19,
           <1>20, <1>21, <1>22 DEF Prepare

LEMMA SameAside ==
  ASSUME RecordAside, iso' = iso, dir' = dir, rec' = rec PROVE RecordAside'
BY DEF RecordAside, Interrupted, Deleted

(* The process leaves the record to the next command. *)
LEMMA LeaveAside ==
  ASSUME RecordAside, iso' = iso, dir' = dir, rec' = rec,
         me'.at \in {"idle", "recover", "forget"}
  PROVE  Aside'
<1>1. RecordAside' BY SameAside
<1>2. (RecordAside /\ me.at \in {"idle", "recover", "forget"} => Aside)' BY RestAside, PTL
<1> QED BY <1>1, <1>2

LEMMA GiveUpStep ==
  ASSUME RecordAside, iso' = iso, dir' = dir, rec' = rec, rec # NoTx,
         me'.at = "giveup", me'.tx \in Tx, me'.tx.plan = rec.plan
  PROVE  Aside'
<1>1. RecordAside' BY SameAside
<1>2. (/\ RecordAside /\ rec # NoTx /\ me.at = "giveup" /\ me.tx \in Tx
       /\ \A r \in Resource : iso[r] # Absent => r \in Deleted(Plan)
       => Aside)'
  BY GiveUpAside, PTL
<1>3. (\A s \in Resource : iso[s] # Absent => s \in Deleted(Plan))'
  BY <1>1 DEF RecordAside, Plan
<1> QED BY <1>1, <1>2, <1>3 DEF At

LEMMA RecoveredAside ==
  ASSUME RecordAside', me' = Recovered, me \in Me, Over'
  PROVE  Aside'
<1>1. CASE me' = Idle
  <2>1. (RecordAside /\ me.at \in {"idle", "recover", "forget"} => Aside)' BY RestAside, PTL
  <2> QED BY <1>1, <2>1 DEF Idle
<1>2. CASE me' # Idle
  <2>1. me'.at = "open" /\ me'.cmd \in Kinds BY <1>2 DEF Recovered, Idle, Kinds
  <2>2. (RecordAside /\ At("open") /\ Over /\ me.cmd \in Kinds => Aside)' BY OpenAside, PTL
  <2> QED BY <2>1, <2>2 DEF At
<1> QED BY <1>1, <1>2

LEMMA DecideAside == ASSUME AsideInv, Decide PROVE Aside'
<1>1. me \in Me /\ World /\ RecordAside BY TypeIs DEF AsideInv
<1>2. rec # NoTx => rec \in Tx /\ rec.status \in Statuses BY <1>1, TxTyped DEF World, Held
<1> USE <1>1 DEF At, Goto, Me
<1>3. Recovering => rec # NoTx /\ rec \in Tx BY <1>2 DEF Recovering
<1>4. Classified => Interrupted
  BY <1>3 DEF Classified, Recovering, Interrupted, Status
<1>5. UNCHANGED <<files, outside, record, env>> => iso' = iso /\ dir' = dir /\ rec' = rec
  BY DEF files, record
<1>6. CASE RecoverNothing
  <2>1. Over BY <1>1, <1>2, <1>6 DEF RecoverNothing, Pending, Status, Unresolved, Statuses,
                                     Over, RecordAside
  <2>2. RecordAside' /\ Over' BY <1>5, <1>6, <2>1, SameAside DEF RecoverNothing, Over
  <2> QED BY <1>6, <2>2, RecoveredAside DEF RecoverNothing
<1>7. CASE RecoverBlocked BY <1>5, <1>7, LeaveAside DEF RecoverBlocked, Idle
<1>8. CASE RecoverClean
  <2>1. rec \in Tx /\ dir /\ NoIso
    BY <1>3, <1>8 DEF RecoverClean, RecordAside, Interrupted, NoIso, Recovering, Status
  <2>2. NoIso' /\ rec' # NoTx /\ dir' /\ me'.at \in Settled /\ me'.tx \in Tx
    BY <1>3, <1>5, <1>8, <2>1 DEF RecoverClean, NoIso, Settled, Back
  <2>3. (NoIso /\ rec # NoTx /\ dir /\ me.at \in Settled /\ me.tx \in Tx => Aside)'
    BY SettledAside, PTL
  <2> QED BY <2>2, <2>3
<1>9. CASE RecoverConflict
  BY <1>3, <1>5, <1>9, GiveUpStep DEF RecoverConflict, Classified
<1>10. CASE RecoverUndo
  <2>1. rec \in Tx /\ Interrupted BY <1>3, <1>4, <1>10 DEF RecoverUndo, Classified
  <2>2. /\ iso' = iso /\ dir' = dir /\ rec' = rec
        /\ me'.at = "undo" /\ me'.tx = rec /\ me'.todo = NewSteps(rec.plan)
    BY <1>5, <1>10 DEF RecoverUndo
  <2>3. \A s \in Resource : iso[s] # Absent => s \in NewSteps(rec.plan)
    BY <1>10 DEF RecoverUndo, RecordAside, Deleted, Conflicts, OldSteps
  <2>4. NewSteps(rec.plan) \subseteq DOMAIN rec.plan BY DEF NewSteps
  <2>5. UndoFacts'
    BY <2>1, <2>2, <2>3, <2>4 DEF UndoFacts, Carries, Interrupted, Plan
  <2>6. (RecordAside /\ UndoFacts /\ me.at \in Undoes /\ me.tx \in Tx => Aside)'
    BY UndoesAside, PTL
  <2> QED BY <2>1, <2>2, <2>5, <2>6, SameAside DEF Undoes
<1>11. CASE RecoverRedo
  <2>1. rec \in Tx /\ Interrupted BY <1>3, <1>4, <1>11 DEF RecoverRedo, Classified
  <2>2. /\ iso' = iso /\ dir' = dir /\ rec' = rec
        /\ me'.at = "commit" /\ me'.tx = rec /\ me'.todo = OldSteps(rec.plan)
        /\ me'.cmd = "roll-forward"
    BY <1>5, <1>11 DEF RecoverRedo
  <2>3. OldSteps(rec.plan) \subseteq DOMAIN rec.plan BY DEF OldSteps
  <2>4. \A s \in OldSteps(rec.plan) : iso[s] = Absent BY DEF OldSteps
  <2>5. MidwayFacts'
    BY <2>1, <2>2, <2>3, <2>4 DEF MidwayFacts, Carries, Interrupted, Plan, Manual
  <2>6. (RecordAside /\ MidwayFacts /\ me.at \in Midway /\ me.tx \in Tx => Aside)'
    BY MidwayAside, PTL
  <2> QED BY <2>1, <2>2, <2>5, <2>6, SameAside DEF Midway
<1>12. CASE RecoverFinish
  <2>1. rec \in Tx /\ Interrupted BY <1>3, <1>4, <1>12 DEF RecoverFinish, Classified
  <2>2. iso' = iso /\ dir' = dir /\ rec' = rec /\ me'.at = "complete" /\ me'.tx = rec
    BY <1>5, <1>12 DEF RecoverFinish
  <2>3. Carries' BY <2>1, <2>2 DEF Carries, Interrupted
  <2>4. (RecordAside /\ Carries /\ At("complete") /\ me.tx \in Tx => Aside)'
    BY CompleteAside, PTL
  <2> QED BY <2>1, <2>2, <2>3, <2>4, SameAside
<1>13. CASE GiveUp
  <2>1. me.tx \in Tx BY <1>13 DEF GiveUp, AsideInv, HasTx, Engaged
  <2>2. \A s \in Resource : iso[s] # Absent => s \in Deleted(Plan)
    BY <1>13 DEF GiveUp, AsideInv, ProcessAside
  <2> DEFINE tx == [me.tx EXCEPT !.status = "needs_human"]
  <2>3. tx # NoTx /\ tx.status = "needs_human" /\ tx.plan = Plan
    BY <2>1, TxTyped, StatusTyped, NoTxAssumption DEF Statuses, Plan
  <2>4. dir' /\ rec' = tx /\ iso' = iso /\ me'.at = "idle"
    BY <1>13 DEF GiveUp, Write, files, Idle
  <2> HIDE DEF tx
  <2>5. RecordAside' BY <2>2, <2>3, <2>4 DEF RecordAside, Interrupted, Deleted
  <2>6. (RecordAside /\ me.at \in {"idle", "recover", "forget"} => Aside)' BY RestAside, PTL
  <2> QED BY <2>4, <2>5, <2>6
<1> QED BY <1>6, <1>7, <1>8, <1>9, <1>10, <1>11, <1>12, <1>13 DEF Decide

LEMMA FirstIsOne ==
  ASSUME NEW S \in SUBSET Resource
  PROVE  /\ \A s \in First(S) : s \in S /\ First(S) = {s}
         /\ \A s \in Final(S) : s \in S /\ Final(S) = {s}
<1>1. Resource \subseteq Int BY ResourceAssumption DEF Resource
<1>2. \A s, t \in S : s <= t /\ t <= s => s = t BY <1>1
<1>3. ASSUME NEW s \in First(S) PROVE s \in S /\ First(S) = {s}
  <2>1. s \in S /\ \A t \in First(S) : t \in S /\ s <= t /\ t <= s BY DEF First
  <2> QED BY <1>2, <2>1
<1>4. ASSUME NEW s \in Final(S) PROVE s \in S /\ Final(S) = {s}
  <2>1. s \in S /\ \A t \in Final(S) : t \in S /\ s <= t /\ t <= s BY <1>1 DEF Final
  <2> QED BY <1>2, <2>1
<1> QED BY <1>3, <1>4

LEMMA CommitAside == ASSUME AsideInv, Commit PROVE Aside'
<1>1. me \in Me /\ World /\ RecordAside BY TypeIs DEF AsideInv
<1>2. me.at \in Midway => me.tx \in Tx /\ MidwayFacts
  BY DEF AsideInv, HasTx, ProcessAside, MidwayFacts, Engaged
<1>3. (RecordAside /\ MidwayFacts /\ me.at \in Midway /\ me.tx \in Tx => Aside)'
  BY MidwayAside, PTL
<1>4. \A s \in First(me.todo) : s \in me.todo /\ First(me.todo) = {s}
  BY <1>1, FirstIsOne DEF Me, Todos
<1> USE <1>1 DEF At, Goto, Did, Me
<1>5. ASSUME me.at \in Midway, iso' = iso, dir' = dir, rec' = rec, me'.tx = me.tx,
             me'.at \in {"idle", "recover", "giveup"}
      PROVE  Aside'
  BY <1>2, <1>5, LeaveAside, GiveUpStep DEF MidwayFacts, Carries, Interrupted, Plan
<1>6. ASSUME NEW conflict, Stop(conflict), me.at \in Midway PROVE Aside'
  BY <1>5, <1>6 DEF Stop, record
<1>7. ASSUME me.at \in Midway, dir' = dir, rec' = rec, me'.tx = me.tx, me'.cmd = me.cmd,
             me'.at \in Midway, me'.todo \subseteq me.todo, RecordAside',
             \A s \in me'.todo : iso'[s] # Absent =>
                 me'.at = "isolated" /\ s \in First(me'.todo),
             ~Manual => \A s \in Resource \ me'.todo : iso'[s] = Absent,
             me'.at = "isolate" => \A s \in First(me'.todo) : s \in Deleted(Plan)
      PROVE  Aside'
  <2>1. Carries' BY <1>2, <1>7 DEF MidwayFacts, Carries, Interrupted
  <2>2. MidwayFacts' BY <1>2, <1>7, <2>1 DEF MidwayFacts, Plan, Manual
  <2> QED BY <1>2, <1>3, <1>7, <2>2
<1>8. CASE CommitOn
  <2> DEFINE tx == [me.tx EXCEPT !.status = "committing"]
  <2>1. me.tx \in Tx /\ NoIso
    <3>1. me.at \in Settled BY <1>8 DEF CommitOn, Settled, Before
    <3> QED BY <3>1, SettledTx DEF AsideInv, ProcessAside
  <2>2. tx \in Tx /\ tx.status = "committing" /\ tx # NoTx
    <3>1. tx \in Tx BY <2>1, StatusTyped DEF Statuses
    <3>2. tx.status = "committing" BY <2>1, TxTyped
    <3> QED BY <3>1, <3>2, NoTxAssumption
  <2>3. DOMAIN tx.plan = DOMAIN Plan BY <2>1, TxTyped DEF Plan
  <2>4. /\ dir' /\ rec' = tx /\ iso' = iso /\ me'.tx = tx
        /\ me'.at = "commit" /\ me'.todo = DOMAIN Plan
    BY <1>8 DEF CommitOn, Write, files
  <2> HIDE DEF tx
  <2>5. RecordAside' BY <2>1, <2>4 DEF RecordAside, NoIso
  <2>6. DOMAIN Plan \subseteq Resource BY <2>1, PlanTyped DEF Todos
  <2>7. MidwayFacts'
    BY <2>1, <2>2, <2>3, <2>4, <2>6 DEF MidwayFacts, Carries, Interrupted, NoIso, Plan
  <2> QED BY <1>3, <2>2, <2>4, <2>5, <2>7 DEF Midway
<1>9. CASE CommitDone
  <2>1. /\ me.at = "commit" /\ me.todo = {} /\ iso' = iso /\ dir' = dir /\ rec' = rec
        /\ me'.tx = me.tx /\ me'.at \in {"complete", "link", "finish"}
        /\ ~Manual => me'.at \in {"link", "finish"}
    BY <1>9 DEF CommitDone, files, record
  <2>2. me.tx \in Tx /\ MidwayFacts BY <1>2, <2>1 DEF Midway
  <2>3. CASE me'.at = "complete"
    <3>1. (RecordAside /\ Carries /\ At("complete") /\ me.tx \in Tx => Aside)'
      BY CompleteAside, PTL
    <3>2. Carries' BY <2>1, <2>2 DEF MidwayFacts, Carries, Interrupted
    <3> QED BY <2>1, <2>2, <2>3, <3>1, <3>2, SameAside
  <2>4. CASE me'.at # "complete"
    <3>1. ~Manual BY <1>9, <2>4 DEF CommitDone
    <3>2. NoIso BY <2>1, <2>2, <3>1 DEF MidwayFacts, NoIso
    <3>3. (NoIso /\ rec # NoTx /\ dir /\ me.at \in Settled /\ me.tx \in Tx => Aside)'
      BY SettledAside, PTL
    <3>4. rec # NoTx /\ dir BY <2>2 DEF MidwayFacts, Carries, Interrupted, RecordAside
    <3> QED BY <2>1, <2>2, <2>4, <3>2, <3>3, <3>4 DEF NoIso, Settled, After
  <2> QED BY <2>3, <2>4
<1>10. ASSUME NEW s \in Resource, CommitConflict(s) \/ CommitUnstaged(s) PROVE Aside'
  BY <1>6, <1>10 DEF CommitConflict, CommitUnstaged, Committing, Midway
<1>11. ASSUME NEW s \in Resource, CommitAbsent(s) PROVE Aside'
  <2>1. /\ me.at = "commit" /\ iso' = iso /\ dir' = dir /\ rec' = rec /\ me'.tx = me.tx
        /\ me'.cmd = me.cmd /\ me'.at = "commit" /\ me'.todo = me.todo \ {s}
    BY <1>11 DEF CommitAbsent, Committing, files, record
  <2>2. MidwayFacts BY <1>2, <2>1 DEF Midway
  <2>3. \A r \in me.todo : iso[r] = Absent BY <2>1, <2>2 DEF MidwayFacts
  <2>4. s \in me.todo BY <1>4, <1>11 DEF CommitAbsent, Committing
  <2> QED BY <1>7, <2>1, <2>2, <2>3, <2>4, SameAside DEF MidwayFacts, Midway
<1>12. ASSUME NEW s \in Resource, CommitChecked(s) PROVE Aside'
  <2>1. /\ me.at = "commit" /\ iso' = iso /\ dir' = dir /\ rec' = rec /\ me'.tx = me.tx
        /\ me'.cmd = me.cmd /\ me'.at \in {"isolate", "swap"} /\ me'.todo = me.todo
        /\ me'.at = "isolate" => Plan[s].kind = "delete"
    BY <1>12 DEF CommitChecked, Committing, files, record
  <2>2. MidwayFacts BY <1>2, <2>1 DEF Midway
  <2>3. First(me.todo) = {s} BY <1>4, <1>12 DEF CommitChecked, Committing
  <2>4. s \in DOMAIN Plan BY <1>4, <1>12, <2>2 DEF CommitChecked, Committing, MidwayFacts
  <2> QED BY <1>7, <2>1, <2>2, <2>3, <2>4, SameAside DEF MidwayFacts, Midway, Deleted
<1>13. ASSUME NEW s \in Resource, Swap(s) PROVE Aside'
  <2>1. /\ me.at = "swap" /\ iso' = iso /\ dir' = dir /\ rec' = rec /\ me'.tx = me.tx
        /\ me'.cmd = me.cmd /\ me'.at = "swapped" /\ me'.todo = me.todo
    BY <1>13 DEF Swap, record
  <2>2. MidwayFacts BY <1>2, <2>1 DEF Midway
  <2> QED BY <1>7, <2>1, <2>2, SameAside DEF MidwayFacts, Midway
<1>14. ASSUME NEW s \in Resource, Swapped(s) PROVE Aside'
  <2>1. me.at = "swapped" /\ s \in First(me.todo) BY <1>14 DEF Swapped
  <2>2. CASE disk[s] = Plan[s].post
    <3>1. /\ iso' = iso /\ dir' = dir /\ rec' = rec /\ me'.tx = me.tx
          /\ me'.cmd = me.cmd /\ me'.at = "commit" /\ me'.todo = me.todo \ {s}
      BY <1>14, <2>2 DEF Swapped, files, record
    <3>2. MidwayFacts BY <1>2, <2>1 DEF Midway
    <3>3. \A r \in me.todo : iso[r] = Absent BY <2>1, <3>2 DEF MidwayFacts
    <3> QED BY <1>4, <1>7, <2>1, <3>1, <3>2, <3>3, SameAside DEF MidwayFacts, Midway
  <2>3. CASE disk[s] # Plan[s].post BY <1>6, <1>14, <2>1, <2>3 DEF Swapped, Midway
  <2> QED BY <2>2, <2>3
<1>15. ASSUME NEW s \in Resource, Isolate(s) PROVE Aside'
  <2>1. /\ me.at = "isolate" /\ iso' = [iso EXCEPT ![s] = disk[s]] /\ dir' = dir
        /\ rec' = rec /\ me'.tx = me.tx
        /\ me'.cmd = me.cmd /\ me'.at = "isolated" /\ me'.todo = me.todo
    BY <1>15 DEF Isolate, record
  <2>2. MidwayFacts BY <1>2, <2>1 DEF Midway
  <2>3. First(me.todo) = {s} /\ s \in me.todo BY <1>4, <1>15 DEF Isolate
  <2>4. \A r \in Resource \ {s} : iso'[r] = iso[r] BY <2>1 DEF World
  <2>5. Interrupted /\ s \in Deleted(rec.plan)
    BY <2>1, <2>2, <2>3 DEF MidwayFacts, Carries, Plan
  <2>6. RecordAside' BY <2>1, <2>4, <2>5 DEF RecordAside, Interrupted, Deleted
  <2>7. me.todo \subseteq Resource BY DEF Todos
  <2> QED BY <1>7, <2>1, <2>2, <2>3, <2>4, <2>6, <2>7 DEF MidwayFacts, Midway
<1>16. ASSUME NEW s \in Resource, IsolateFails(s) \/ ReinstateFails(s) PROVE Aside'
  BY <1>6, <1>16 DEF IsolateFails, ReinstateFails, Midway
<1>17. ASSUME NEW s \in Resource, Dispose(s) PROVE Aside'
  <2>1. /\ me.at = "isolated" /\ iso' = [iso EXCEPT ![s] = Absent] /\ dir' = dir
        /\ rec' = rec /\ me'.tx = me.tx
        /\ me'.cmd = me.cmd /\ me'.at = "commit" /\ me'.todo = me.todo \ {s}
    BY <1>17 DEF Dispose, record
  <2>2. MidwayFacts BY <1>2, <2>1 DEF Midway
  <2>3. First(me.todo) = {s} BY <1>4, <1>17 DEF Dispose
  <2>4. iso'[s] = Absent /\ \A r \in Resource \ {s} : iso'[r] = iso[r] BY <2>1 DEF World
  <2>5. RecordAside' BY <2>1, <2>4 DEF RecordAside, Interrupted, Deleted
  <2>6. me.todo \subseteq Resource BY DEF Todos
  <2> QED BY <1>7, <2>1, <2>2, <2>3, <2>4, <2>5, <2>6 DEF MidwayFacts, Midway
<1>18. ASSUME NEW s \in Resource, Reinstate(s) PROVE Aside'
  <2>1. /\ me.at = "isolated" /\ iso' = [iso EXCEPT ![s] = Absent] /\ dir' = dir
        /\ rec' = rec /\ me'.tx = me.tx /\ me'.at \in {"giveup", "recover"}
    BY <1>18 DEF Reinstate, record
  <2>2. me.tx \in Tx /\ MidwayFacts BY <1>2, <2>1 DEF Midway
  <2>3. iso'[s] = Absent /\ \A r \in Resource \ {s} : iso'[r] = iso[r] BY <2>1 DEF World
  <2>4. RecordAside' BY <2>1, <2>3 DEF RecordAside, Interrupted, Deleted
  <2>5. (RecordAside /\ me.at \in {"idle", "recover", "forget"} => Aside)' BY RestAside, PTL
  <2>6. (/\ RecordAside /\ rec # NoTx /\ me.at = "giveup" /\ me.tx \in Tx
         /\ \A r \in Resource : iso[r] # Absent => r \in Deleted(Plan)
         => Aside)'
    BY GiveUpAside, PTL
  <2>7. rec # NoTx /\ rec.plan = Plan BY <2>2 DEF MidwayFacts, Carries, Interrupted, Plan
  <2>8. (\A r \in Resource : iso[r] # Absent => r \in Deleted(Plan))'
    BY <2>1, <2>4, <2>7 DEF RecordAside, Plan
  <2> QED BY <2>1, <2>2, <2>4, <2>5, <2>6, <2>7, <2>8
<1> QED BY <1>8, <1>9, <1>10, <1>11, <1>12, <1>13, <1>14, <1>15, <1>16, <1>17, <1>18
        DEF Commit

LEMMA ExposeAside == ASSUME AsideInv, Expose PROVE Aside'
<1>1. me.at \in Settled
  BY DEF Expose, LinksDone, LinkIntent, Symlink, SymlinkRaises, Linked, At, Settled, After
<1>2. me.tx \in Tx /\ me \in Me /\ World BY <1>1, SettledTx
<1>3. {"link", "symlink", "linked", "finish"} \subseteq Settled BY DEF Settled, After
<1>4. iso' = iso
  BY DEF Expose, LinksDone, LinkIntent, Symlink, SymlinkRaises, Linked, files
<1> USE <1>1, <1>2, <1>3, <1>4, SettledStep DEF Goto, Me
<1>5. CASE LinksDone BY <1>5 DEF LinksDone
<1>6. ASSUME NEW k \in Skill, LinkIntent(k) PROVE Aside'
  <2>1. PICK tx \in Tx : /\ Write(tx)
                         /\ \/ me' = [me EXCEPT !.at = "symlink", !.tx = tx]
                            \/ me' = [me EXCEPT !.tx = tx, !.links = @ \ {k}]
    BY <1>6, IntentTyped, ExtTyped DEF LinkIntent
  <2>2. me'.at \in Settled /\ me'.tx = tx BY <2>1
  <2> QED BY <2>1, <2>2
<1>7. ASSUME NEW k \in Skill, Symlink(k) PROVE Aside' BY <1>7 DEF Symlink
<1>8. ASSUME NEW k \in Skill, SymlinkRaises(k) PROVE Aside'
  BY <1>8 DEF SymlinkRaises, Idle
<1>9. ASSUME NEW k \in Skill, Linked(k) PROVE Aside'
  <2>1. PICK tx \in Tx : /\ Write(tx)
                         /\ me' = [me EXCEPT !.at = "link", !.tx = tx, !.links = @ \ {k}]
    BY <1>9, AppliedTyped DEF Linked
  <2> QED BY <2>1
<1> QED BY <1>5, <1>6, <1>7, <1>8, <1>9 DEF Expose

LEMMA UndoAside == ASSUME AsideInv, Undo PROVE Aside'
<1>1. me \in Me /\ World /\ RecordAside BY TypeIs DEF AsideInv
<1>2. me.at \in Undoes => me.tx \in Tx /\ UndoFacts
  BY DEF AsideInv, HasTx, ProcessAside, UndoFacts, Engaged
<1>3. (RecordAside /\ UndoFacts /\ me.at \in Undoes /\ me.tx \in Tx => Aside)'
  BY UndoesAside, PTL
<1>4. \A s \in Final(me.todo) : s \in me.todo /\ Final(me.todo) = {s}
  BY <1>1, FirstIsOne DEF Me, Todos
<1> USE <1>1 DEF At, Goto, Did, Me
<1>5. ASSUME me.at \in Undoes, iso' = iso, dir' = dir, rec' = rec, me'.tx = me.tx,
             me'.at = "giveup"
      PROVE  Aside'
  BY <1>2, <1>5, GiveUpStep DEF UndoFacts, Carries, Interrupted, Plan
<1>6. ASSUME me.at \in Undoes, dir' = dir, rec' = rec, me'.tx = me.tx, me'.at \in Undoes,
             me'.todo \subseteq me.todo, RecordAside',
             \A s \in Resource : iso'[s] # Absent => s \in me'.todo,
             me'.at # "undo" => \A s \in Final(me'.todo) : iso'[s] = Absent
      PROVE  Aside'
  <2>1. Carries' BY <1>2, <1>6 DEF UndoFacts, Carries, Interrupted
  <2>2. UndoFacts' BY <1>2, <1>6, <2>1 DEF UndoFacts, Plan
  <2> QED BY <1>2, <1>3, <1>6, <2>2
<1>7. CASE UndoDone
  <2>1. /\ me.at = "undo" /\ me.todo = {} /\ iso' = iso /\ dir' = dir /\ rec' = rec
        /\ me'.tx = me.tx /\ me'.at = "unmark"
    BY <1>7 DEF UndoDone, files, record
  <2>2. me.tx \in Tx /\ UndoFacts BY <1>2, <2>1 DEF Undoes
  <2>3. NoIso /\ rec # NoTx /\ dir
    BY <2>1, <2>2 DEF UndoFacts, NoIso, Carries, Interrupted, RecordAside
  <2>4. (NoIso /\ rec # NoTx /\ dir /\ me.at \in Settled /\ me.tx \in Tx => Aside)'
    BY SettledAside, PTL
  <2> QED BY <2>1, <2>2, <2>3, <2>4 DEF NoIso, Settled, Back
<1>8. ASSUME NEW s \in Resource, UndoNothing(s) PROVE Aside'
  <2>1. /\ me.at = "undo" /\ Undone(s) /\ iso' = iso /\ dir' = dir /\ rec' = rec
        /\ me'.tx = me.tx /\ me'.at = "undo" /\ me'.todo = me.todo \ {s}
        /\ s \in me.todo
    BY <1>4, <1>8 DEF UndoNothing, Undoing, files, record
  <2>2. UndoFacts /\ me.tx \in Tx BY <1>2, <2>1 DEF Undoes
  <2>3. iso[s] = Absent
    <3>1. s \in DOMAIN Plan /\ rec.plan = Plan
      BY <2>1, <2>2 DEF UndoFacts, Carries, Plan
    <3>2. CASE Plan[s].kind = "delete" BY <2>1, <3>2 DEF Undone
    <3>3. CASE Plan[s].kind # "delete" BY <3>1, <3>3 DEF RecordAside, Deleted
    <3> QED BY <3>2, <3>3
  <2> QED BY <1>6, <2>1, <2>2, <2>3, SameAside DEF UndoFacts, Undoes
<1>9. ASSUME NEW s \in Resource, UndoIsolated(s) PROVE Aside'
  <2>1. /\ me.at = "undo" /\ iso' = [iso EXCEPT ![s] = Absent] /\ dir' = dir /\ rec' = rec
        /\ me'.tx = me.tx /\ me'.at = "undo" /\ me'.todo = me.todo \ {s}
    BY <1>9 DEF UndoIsolated, Undoing, record
  <2>2. UndoFacts BY <1>2, <2>1 DEF Undoes
  <2>3. iso'[s] = Absent /\ \A r \in Resource \ {s} : iso'[r] = iso[r] BY <2>1 DEF World
  <2>4. RecordAside' BY <2>1, <2>3 DEF RecordAside, Interrupted, Deleted
  <2> QED BY <1>6, <2>1, <2>2, <2>3, <2>4 DEF UndoFacts, Undoes
<1>10. ASSUME NEW s \in Resource, UndoTemporary(s) \/ UndoRemovable(s) PROVE Aside'
  <2>1. /\ me.at = "undo" /\ InForce(s) /\ s \in Final(me.todo)
        /\ iso' = iso /\ dir' = dir /\ rec' = rec
        /\ me'.tx = me.tx /\ me'.at \in {"restore", "remove"} /\ me'.todo = me.todo
    BY <1>10 DEF UndoTemporary, UndoRemovable, Restorable, Removable, Undoing, files, record
  <2>2. UndoFacts BY <1>2, <2>1 DEF Undoes
  <2>3. iso[s] = Absent /\ Final(me.todo) = {s} BY <1>4, <2>1 DEF InForce
  <2> QED BY <1>6, <2>1, <2>2, <2>3, SameAside DEF UndoFacts, Undoes
<1>11. ASSUME NEW s \in Resource, UndoFails(s) PROVE Aside'
  BY <1>5, <1>11 DEF UndoFails, Undoing, files, record, Undoes
<1>12. ASSUME NEW s \in Resource, Restore(s) PROVE Aside'
  <2>1. /\ me.at = "restore" /\ iso' = iso /\ dir' = dir /\ rec' = rec
        /\ me'.tx = me.tx /\ me'.at = "restored" /\ me'.todo = me.todo
    BY <1>12 DEF Restore, record
  <2>2. UndoFacts BY <1>2, <2>1 DEF Undoes
  <2> QED BY <1>6, <2>1, <2>2, SameAside DEF UndoFacts, Undoes
<1>13. ASSUME NEW s \in Resource, Restored(s) PROVE Aside'
  <2>1. /\ me.at = "restored" /\ s \in Final(me.todo) /\ iso' = iso /\ dir' = dir
        /\ rec' = rec
    BY <1>13 DEF Restored, files, record
  <2>2. UndoFacts BY <1>2, <2>1 DEF Undoes
  <2>3. CASE disk[s] = Plan[s].pre
    <3>1. me'.tx = me.tx /\ me'.at = "undo" /\ me'.todo = me.todo \ {s}
      BY <1>13, <2>3 DEF Restored
    <3> QED BY <1>4, <1>6, <2>1, <2>2, <3>1, SameAside DEF UndoFacts, Undoes
  <2>4. CASE disk[s] # Plan[s].pre
    <3>1. me'.tx = me.tx /\ me'.at = "giveup" BY <1>13, <2>4 DEF Restored
    <3> QED BY <1>5, <2>1, <3>1 DEF Undoes
  <2> QED BY <2>3, <2>4
<1>14. ASSUME NEW s \in Resource, Remove(s) PROVE Aside'
  <2>1. /\ me.at = "remove" /\ s \in Final(me.todo) /\ iso' = iso /\ dir' = dir
        /\ rec' = rec /\ me'.tx = me.tx /\ me'.at = "undo" /\ me'.todo = me.todo \ {s}
    BY <1>14 DEF Remove, record
  <2>2. UndoFacts BY <1>2, <2>1 DEF Undoes
  <2> QED BY <1>4, <1>6, <2>1, <2>2, SameAside DEF UndoFacts, Undoes
<1> QED BY <1>7, <1>8, <1>9, <1>10, <1>11, <1>12, <1>13, <1>14 DEF Undo

LEMMA EndAside == ASSUME AsideInv, End PROVE Aside'
<1>1. me \in Me /\ World /\ RecordAside BY TypeIs DEF AsideInv
<1>2. me.at \in Back \cup {"reattach", "clean"} => me.at \in Settled /\ me.tx \in Tx
  BY SettledTx DEF Settled, Before
<1>3. {"compensate", "unlink", "recreate", "reattach", "clean"} \subseteq Settled
  BY DEF Settled, Before, Back
<1>4. ASSUME me.at \in Back \cup {"reattach", "clean"}, iso' = iso, UNCHANGED record,
             me'.tx = me.tx, me'.at \in Settled \cup {"giveup"}
      PROVE  Aside'
  BY <1>2, <1>4, SettledStep
<1> USE <1>1, <1>3 DEF At, Goto, Did, Me, Back
<1>5. CASE Unmark BY <1>4, <1>5 DEF Unmark, files
<1>6. CASE CompensateDone
  <2>1. me.at = "compensate" /\ iso' = iso /\ UNCHANGED record
    BY <1>6 DEF CompensateDone, files
  <2>2. me'.tx = me.tx /\ me'.at \in {"clean", "giveup"}
    BY <1>6 DEF CompensateDone, CleanUp
  <2> QED BY <1>4, <2>1, <2>2
<1>7. ASSUME me.at \in Erased, iso' = iso, rec' = rec
      PROVE  RecordAside' /\ NoIso' /\ rec' = NoTx /\ me.tx \in Tx
  BY <1>7 DEF AsideInv, HasTx, ProcessAside, RecordAside, Interrupted, NoIso, Engaged
<1>8. (NoIso /\ rec = NoTx /\ me.at \in Erased /\ me.tx \in Tx /\ (At("conclude") => Taken)
         => Aside)'
  BY ErasedAside, PTL
<1>9. CASE CleanRecord
  <2>1. /\ me.at = "clean" /\ iso' = iso /\ rec' = NoTx /\ me'.tx = me.tx /\ me'.at = "rmdir"
    BY <1>9 DEF CleanRecord, files
  <2>2. NoIso' BY <2>1 DEF AsideInv, ProcessAside, Settled, NoIso
  <2> QED BY <1>2, <1>8, <2>1, <2>2 DEF Erased
<1>10. CASE Rmdir
  <2>1. me.at = "rmdir" /\ iso' = iso /\ rec' = rec BY <1>10 DEF Rmdir, files
  <2>2. RecordAside' /\ NoIso' /\ rec' = NoTx /\ me.tx \in Tx BY <1>7, <2>1 DEF Erased
  <2>3. CASE me' = [me EXCEPT !.at = "reopen"] BY <1>8, <2>2, <2>3 DEF Erased
  <2>4. CASE me' = [me EXCEPT !.at = "forget"]
    <3>1. (RecordAside /\ me.at \in {"idle", "recover", "forget"} => Aside)' BY RestAside, PTL
    <3> QED BY <2>2, <2>4, <3>1
  <2>5. CASE me' = Recovered BY <2>2, <2>5, RecoveredAside DEF Over
  <2> QED BY <1>10, <2>3, <2>4, <2>5 DEF Rmdir
<1>11. CASE Reopen
  <2>1. me.at = "reopen" /\ iso' = iso /\ rec' = rec /\ me' = [me EXCEPT !.at = "conclude"]
    BY <1>11 DEF Reopen, files
  <2>2. Taken' BY <2>1 DEF AsideInv, ProcessAims, Taken
  <2> QED BY <1>7, <1>8, <2>1, <2>2 DEF Erased
<1>12. CASE Conclude
  <2> DEFINE tx == [me.tx EXCEPT !.status = me.goal]
  <2>1. me.at = "conclude" /\ me.tx \in Tx /\ NoIso
    BY <1>12 DEF Conclude, AsideInv, HasTx, Engaged, Erased, ProcessAside, RecordAside,
                 Interrupted, NoIso
  <2>2. me.goal \in {"failed", "rolled_back"} BY <2>1 DEF AsideInv, ProcessAims, Taken
  <2>3. tx.status = me.goal BY <2>1, TxTyped
  <2>4. /\ dir' /\ rec' = tx /\ iso' = iso /\ me' = Recovered
    BY <1>12 DEF Conclude, Write, files
  <2> HIDE DEF tx
  <2>5. RecordAside' /\ Over' BY <2>1, <2>2, <2>3, <2>4 DEF RecordAside, NoIso, Over
  <2> QED BY <2>4, <2>5, RecoveredAside
<1>13. CASE Forget BY <1>13, LeaveAside DEF Forget, Idle, files, record
<1>14. ASSUME NEW k \in Skill, NEW goal, Compensated(k, goal),
              me.at \in Back \cup {"reattach"}, iso' = iso, UNCHANGED record
       PROVE  Aside'
  <2>1. me'.tx = me.tx /\ me'.at \in {"reattach", "compensate"} BY <1>14 DEF Compensated
  <2> QED BY <1>4, <1>14, <2>1
<1>15. ASSUME NEW k \in Skill, CompensateSkip(k) \/ CompensateStart(k) PROVE Aside'
  <2>1. /\ me.at \in {"compensate", "reattach"} /\ iso' = iso /\ UNCHANGED record
        /\ me'.tx = me.tx /\ me'.at \in {"compensate", "reattach", "unlink", "recreate"}
    BY <1>15 DEF CompensateSkip, CompensateStart, Compensating, files
  <2> QED BY <1>4, <2>1
<1>16. ASSUME NEW k \in Skill, CompensateFails(k) PROVE Aside'
  BY <1>14, <1>16 DEF CompensateFails, files
<1>17. ASSUME NEW k \in Skill, CompensateUnlink(k) \/ CompensateRecreate(k) PROVE Aside'
  BY <1>14, <1>17 DEF CompensateUnlink, CompensateRecreate, files
<1>18. ASSUME NEW s \in Resource, Clean(s) PROVE Aside'
  <2>1. /\ me.at = "clean" /\ iso' = iso /\ UNCHANGED record
        /\ me'.tx = me.tx /\ me'.at = "clean"
    BY <1>18 DEF Clean
  <2> QED BY <1>4, <2>1
<1> QED BY <1>5, <1>6, <1>9, <1>10, <1>11, <1>12, <1>13, <1>15, <1>16, <1>17, <1>18 DEF End

LEMMA RollForwardAside == ASSUME AsideInv, RollForward PROVE Aside'
<1>1. me \in Me /\ World /\ RecordAside BY TypeIs DEF AsideInv
<1>2. me.at = "complete" => me.tx \in Tx /\ Carries
  BY DEF AsideInv, HasTx, ProcessAside, Engaged
<1>3. me.at \in After => me.at \in Settled /\ me.tx \in Tx BY SettledTx DEF Settled
<1>4. After \cup Detaching \cup {"clean"} \subseteq Settled BY DEF Settled
<1> USE <1>1, <1>4 DEF At, Goto, Me, After
<1>5. CASE Complete
  <2>1. /\ me.at = "complete" /\ iso' = iso /\ dir' = dir /\ rec' = rec /\ me'.tx = me.tx
        /\ me'.at \in {"relink", "detach"} /\ \A s \in DOMAIN Plan : iso[s] = Absent
    BY <1>5 DEF Complete, Stuck, files, record
  <2>2. me.tx \in Tx /\ rec # NoTx /\ rec.plan = Plan
    BY <1>2, <2>1 DEF Carries, Interrupted, Plan
  <2>3. NoIso /\ dir BY <2>1, <2>2 DEF NoIso, RecordAside, Deleted
  <2>4. (NoIso /\ rec # NoTx /\ dir /\ me.at \in Settled /\ me.tx \in Tx => Aside)'
    BY SettledAside, PTL
  <2> QED BY <2>1, <2>2, <2>3, <2>4 DEF NoIso, Detaching
<1>6. CASE CompleteFails
  BY <1>2, <1>6, GiveUpStep DEF CompleteFails, Carries, Interrupted, files, record
<1>7. ASSUME me.at \in After, iso' = iso, UNCHANGED record, me'.tx = me.tx,
             me'.at \in Settled \cup {"giveup"}
      PROVE  Aside'
  BY <1>3, <1>7, SettledStep
<1>8. CASE RelinkDone BY <1>7, <1>8 DEF RelinkDone, files
<1>9. CASE Finish
  <2>1. me.at = "finish" /\ me.tx \in Tx /\ iso' = iso BY <1>3, <1>9 DEF Finish, files
  <2>2. [me.tx EXCEPT !.status = "done"] \in Tx BY <2>1, StatusTyped DEF Statuses
  <2>3. me'.at = "clean" /\ me'.tx = [me.tx EXCEPT !.status = "done"] /\ Write(me'.tx)
    BY <1>9 DEF Finish
  <2> QED BY <1>3, <2>1, <2>2, <2>3, SettledStep
<1>10. ASSUME NEW s \in Resource, CompleteDeletion(s) PROVE Aside'
  <2>1. /\ me.at = "complete" /\ iso' = [iso EXCEPT ![s] = Absent] /\ dir' = dir
        /\ rec' = rec /\ me' = me
    BY <1>10 DEF CompleteDeletion, record
  <2>2. iso'[s] = Absent /\ \A r \in Resource \ {s} : iso'[r] = iso[r] BY <2>1 DEF World
  <2>3. RecordAside' BY <2>1, <2>2 DEF RecordAside, Interrupted, Deleted
  <2>4. Carries' BY <1>2, <2>1 DEF Carries, Interrupted
  <2>5. (RecordAside /\ Carries /\ At("complete") /\ me.tx \in Tx => Aside)'
    BY CompleteAside, PTL
  <2> QED BY <1>2, <2>1, <2>3, <2>4, <2>5
<1>11. ASSUME NEW k \in Skill, Relink(k) \/ RelinkOccupied(k) PROVE Aside'
  <2>1. /\ me.at = "relink" /\ iso' = iso /\ UNCHANGED record /\ me'.tx = me.tx
        /\ me'.at = "relink"
    BY <1>11 DEF Relink, RelinkOccupied, files
  <2> QED BY <1>7, <2>1
<1> QED BY <1>5, <1>6, <1>8, <1>9, <1>10, <1>11 DEF RollForward

LEMMA AsideNext == AsideInv /\ EditNext /\ TypeOK' => Aside'
<1> SUFFICES ASSUME AsideInv, EditNext, TypeOK' PROVE Aside'
  OBVIOUS
<1>1. me \in Me /\ World /\ RecordAside BY TypeIs DEF AsideInv
<1>2. ASSUME NEW c \in Commands, NEW root \in BOOLEAN, Begin(c, root) PROVE Aside'
  BY <1>1, <1>2, LeaveAside DEF Begin, Me, files, record
<1>3. CASE Proceed
  BY <1>3, DecideAside, PrepareAside, DetachAside, CommitAside, ExposeAside, UndoAside,
     EndAside, RollForwardAside DEF Proceed
<1>4. CASE Abort BY <1>1, <1>4, LeaveAside DEF Abort, Idle, files
<1>5. ASSUME iso' = iso, UNCHANGED <<record, me>> PROVE Aside'
  BY <1>5 DEF AsideInv, Aside, HasTx, RecordAside, ProcessAside, Plan, At, NoIso, Over,
              Interrupted, Deleted, Carries, Manual, record
<1>6. ASSUME NEW s \in Resource, NEW v, EditFile(s, v) PROVE Aside'
  BY <1>5, <1>6 DEF EditFile
<1>7. ASSUME NEW k \in Skill, NEW v, EditLink(k, v) PROVE Aside'
  BY <1>5, <1>7 DEF EditLink, files
<1> QED BY <1>2, <1>3, <1>4, <1>6, <1>7 DEF EditNext, Next

(* Aims: only the process itself is looked at. *)
LEMMA IdleAims == me = Idle => ProcessAims
BY DEF Idle, ProcessAims, Taken, OwnUninstall, Before, Undoes, Detaching, Erased

LEMMA RecoveredAims == ASSUME me \in Me, me' = Recovered PROVE ProcessAims'
BY DEF Recovered, Me, Idle, ProcessAims, Taken, OwnUninstall, Before, Undoes, Detaching, Erased

LEMMA DecideAims == ASSUME AsideInv, Decide PROVE ProcessAims'
<1>1. me \in Me BY TypeIs DEF AsideInv
<1>2. (me = Idle => ProcessAims)' BY IdleAims, PTL
<1> USE <1>1, <1>2 DEF AsideInv, ProcessAims, At, Goto, Did, Me, Taken, OwnUninstall, Before,
      Undoes,
      Detaching, Erased
<1>3. CASE RecoverNothing BY <1>3, RecoveredAims DEF RecoverNothing
<1>4. CASE RecoverBlocked BY <1>4 DEF RecoverBlocked
<1>5. CASE RecoverClean BY <1>5 DEF RecoverClean, Recovering
<1>6. CASE RecoverConflict BY <1>6 DEF RecoverConflict
<1>7. CASE RecoverUndo BY <1>7 DEF RecoverUndo, Classified, Recovering
<1>8. CASE RecoverRedo BY <1>8 DEF RecoverRedo, Manual
<1>9. CASE RecoverFinish BY <1>9 DEF RecoverFinish, Manual
<1>10. CASE GiveUp BY <1>10 DEF GiveUp
<1> QED BY <1>3, <1>4, <1>5, <1>6, <1>7, <1>8, <1>9, <1>10 DEF Decide

LEMMA PrepareAims == ASSUME AsideInv, Prepare PROVE ProcessAims'
<1>1. me \in Me BY TypeIs DEF AsideInv
<1>2. (me = Idle => ProcessAims)' BY IdleAims, PTL
<1> USE <1>1, <1>2 DEF AsideInv, ProcessAims, At, Goto, Did, Me, Taken, OwnUninstall, Before,
      Undoes,
      Detaching, Erased
<1>3. CASE OpenRefuse BY <1>3 DEF OpenRefuse
<1>4. CASE Open BY <1>4 DEF Open
<1>5. CASE FirstRecord BY <1>5 DEF FirstRecord
<1>6. CASE PlanFails BY <1>6 DEF PlanFails
<1>7. CASE PlanOne BY <1>7 DEF PlanOne, MakePlan
<1>8. CASE WritePlan BY <1>8 DEF WritePlan
<1>9. ASSUME NEW S \in SUBSET Resource, Classify(S) PROVE ProcessAims'
  BY <1>9 DEF Classify
<1>10. CASE StageOn BY <1>10 DEF StageOn
<1>11. CASE StageInvalid BY <1>11 DEF StageInvalid, CleanUp
<1>12. CASE StageDone BY <1>12 DEF StageDone
<1>13. CASE BackupDone BY <1>13 DEF BackupDone
<1>14. CASE Mark BY <1>14 DEF Mark
<1>15. CASE MarkWrite BY <1>15 DEF MarkWrite
<1>16. ASSUME NEW s \in Resource, StageOne(s) PROVE ProcessAims'
  BY <1>16 DEF StageOne
<1>17. ASSUME NEW s \in Resource, BackupOne(s) PROVE ProcessAims'
  BY <1>17 DEF BackupOne
<1>18. ASSUME NEW s \in Resource, BackupFails(s) PROVE ProcessAims'
  BY <1>18 DEF BackupFails, CleanUp
<1> QED BY <1>3, <1>4, <1>5, <1>6, <1>7, <1>8, <1>9, <1>10, <1>11, <1>12, <1>13, <1>14, <1>15,
      <1>16, <1>17, <1>18 DEF Prepare

LEMMA DetachAims == ASSUME AsideInv, Detach PROVE ProcessAims'
<1>1. me \in Me BY TypeIs DEF AsideInv
<1>2. (me = Idle => ProcessAims)' BY IdleAims, PTL
<1> USE <1>1, <1>2 DEF AsideInv, ProcessAims, At, Goto, Did, Me, Taken, OwnUninstall, Before,
      Undoes,
      Detaching, Erased
<1>3. CASE DetachPlan BY <1>3 DEF DetachPlan
<1>4. CASE DetachDone BY <1>4 DEF DetachDone, Forward
<1>5. CASE ReattachDone BY <1>5 DEF ReattachDone
<1>6. ASSUME NEW k \in Skill, DetachSkip(k) PROVE ProcessAims'
  BY <1>6 DEF DetachSkip, Forward
<1>7. ASSUME NEW k \in Skill, DetachStart(k) PROVE ProcessAims'
  BY <1>7 DEF DetachStart, Forward
<1>8. ASSUME NEW k \in Skill, DetachOrphan(k) PROVE ProcessAims'
  BY <1>8 DEF DetachOrphan, Forward
<1>9. ASSUME NEW k \in Skill, DetachMove(k) PROVE ProcessAims'
  BY <1>9 DEF DetachMove, Forward
<1>10. ASSUME NEW k \in Skill, DetachFails(k) PROVE ProcessAims'
  BY <1>10 DEF DetachFails, DetachFailed, Forward
<1>11. ASSUME NEW k \in Skill, DetachDispose(k) PROVE ProcessAims'
  BY <1>11 DEF DetachDispose, Forward
<1>12. ASSUME NEW k \in Skill, DetachRestore(k) PROVE ProcessAims'
  BY <1>12 DEF DetachRestore, DetachFailed, Forward
<1>13. ASSUME NEW k \in Skill, Detached(k) PROVE ProcessAims'
  BY <1>13 DEF Detached, Forward
<1> QED BY <1>3, <1>4, <1>5, <1>6, <1>7, <1>8, <1>9, <1>10, <1>11, <1>12, <1>13 DEF Detach

LEMMA CommitAims == ASSUME AsideInv, Commit PROVE ProcessAims'
<1>1. me \in Me BY TypeIs DEF AsideInv
<1>2. (me = Idle => ProcessAims)' BY IdleAims, PTL
<1> USE <1>1, <1>2 DEF AsideInv, ProcessAims, At, Goto, Did, Me, Taken, OwnUninstall, Before,
      Undoes,
      Detaching, Erased
<1>3. CASE CommitOn BY <1>3 DEF CommitOn
<1>4. CASE CommitDone BY <1>4 DEF CommitDone, Manual
<1>5. ASSUME NEW s \in Resource, CommitConflict(s) PROVE ProcessAims'
  BY <1>5 DEF CommitConflict, Committing, Stop, Manual
<1>6. ASSUME NEW s \in Resource, CommitAbsent(s) PROVE ProcessAims'
  BY <1>6 DEF CommitAbsent, Committing
<1>7. ASSUME NEW s \in Resource, CommitChecked(s) PROVE ProcessAims'
  BY <1>7 DEF CommitChecked, Committing
<1>8. ASSUME NEW s \in Resource, CommitUnstaged(s) PROVE ProcessAims'
  BY <1>8 DEF CommitUnstaged, Committing, Stop, Manual
<1>9. ASSUME NEW s \in Resource, Swap(s) PROVE ProcessAims'
  BY <1>9 DEF Swap
<1>10. ASSUME NEW s \in Resource, Swapped(s) PROVE ProcessAims'
  <2>1. me'.at \in {"recover", "giveup", "commit"} BY <1>10 DEF Swapped, Stop
  <2>2. me'.at = "recover" => me'.cmd = "none" BY <1>10 DEF Swapped, Stop
  <2> QED BY <2>1, <2>2
<1>11. ASSUME NEW s \in Resource, Isolate(s) PROVE ProcessAims'
  BY <1>11 DEF Isolate
<1>12. ASSUME NEW s \in Resource, IsolateFails(s) PROVE ProcessAims'
  BY <1>12 DEF IsolateFails, Stop
<1>13. ASSUME NEW s \in Resource, Dispose(s) PROVE ProcessAims'
  BY <1>13 DEF Dispose
<1>14. ASSUME NEW s \in Resource, Reinstate(s) PROVE ProcessAims'
  BY <1>14 DEF Reinstate, Manual
<1>15. ASSUME NEW s \in Resource, ReinstateFails(s) PROVE ProcessAims'
  BY <1>15 DEF ReinstateFails, Stop
<1> QED BY <1>3, <1>4, <1>5, <1>6, <1>7, <1>8, <1>9, <1>10, <1>11, <1>12, <1>13, <1>14,
      <1>15 DEF Commit

LEMMA ExposeAims == ASSUME AsideInv, Expose PROVE ProcessAims'
<1>1. me \in Me BY TypeIs DEF AsideInv
<1>2. (me = Idle => ProcessAims)' BY IdleAims, PTL
<1> USE <1>1, <1>2 DEF AsideInv, ProcessAims, At, Goto, Did, Me, Taken, OwnUninstall, Before,
      Undoes,
      Detaching, Erased
<1>3. CASE LinksDone BY <1>3 DEF LinksDone
<1>4. ASSUME NEW k \in Skill, LinkIntent(k) PROVE ProcessAims'
  BY <1>4 DEF LinkIntent
<1>5. ASSUME NEW k \in Skill, Symlink(k) PROVE ProcessAims'
  BY <1>5 DEF Symlink
<1>6. ASSUME NEW k \in Skill, SymlinkRaises(k) PROVE ProcessAims'
  BY <1>6 DEF SymlinkRaises
<1>7. ASSUME NEW k \in Skill, Linked(k) PROVE ProcessAims'
  BY <1>7 DEF Linked
<1> QED BY <1>3, <1>4, <1>5, <1>6, <1>7 DEF Expose

LEMMA UndoAims == ASSUME AsideInv, Undo PROVE ProcessAims'
<1>1. me \in Me BY TypeIs DEF AsideInv
<1>2. (me = Idle => ProcessAims)' BY IdleAims, PTL
<1> USE <1>1, <1>2 DEF AsideInv, ProcessAims, At, Goto, Did, Me, Taken, OwnUninstall, Before,
      Undoes,
      Detaching, Erased
<1>3. CASE UndoDone BY <1>3 DEF UndoDone
<1>4. ASSUME NEW s \in Resource, UndoNothing(s) PROVE ProcessAims'
  BY <1>4 DEF UndoNothing, Undoing
<1>5. ASSUME NEW s \in Resource, UndoIsolated(s) PROVE ProcessAims'
  BY <1>5 DEF UndoIsolated, Undoing
<1>6. ASSUME NEW s \in Resource, UndoTemporary(s) PROVE ProcessAims'
  BY <1>6 DEF UndoTemporary, Undoing
<1>7. ASSUME NEW s \in Resource, UndoRemovable(s) PROVE ProcessAims'
  BY <1>7 DEF UndoRemovable, Undoing
<1>8. ASSUME NEW s \in Resource, UndoFails(s) PROVE ProcessAims'
  BY <1>8 DEF UndoFails, Undoing
<1>9. ASSUME NEW s \in Resource, Restore(s) PROVE ProcessAims'
  BY <1>9 DEF Restore
<1>10. ASSUME NEW s \in Resource, Restored(s) PROVE ProcessAims'
  BY <1>10 DEF Restored
<1>11. ASSUME NEW s \in Resource, Remove(s) PROVE ProcessAims'
  BY <1>11 DEF Remove
<1> QED BY <1>3, <1>4, <1>5, <1>6, <1>7, <1>8, <1>9, <1>10, <1>11 DEF Undo

LEMMA EndAims == ASSUME AsideInv, End PROVE ProcessAims'
<1>1. me \in Me BY TypeIs DEF AsideInv
<1>2. (me = Idle => ProcessAims)' BY IdleAims, PTL
<1> USE <1>1, <1>2 DEF AsideInv, ProcessAims, At, Goto, Did, Me, Taken, OwnUninstall, Before,
      Undoes,
      Detaching, Erased
<1>3. CASE Unmark BY <1>3 DEF Unmark
<1>4. CASE CompensateDone
  <2>1. me.at = "compensate" BY <1>4 DEF CompensateDone
  <2>2. CASE me.goal = "stuck" BY <1>4, <2>2 DEF CompensateDone
  <2>3. CASE me.goal # "stuck"
    <3>1. me'.at = "clean" /\ me'.goal = me.goal
      BY <1>4, <2>3 DEF CompensateDone, CleanUp
    <3> QED BY <2>1, <2>3, <3>1
  <2> QED BY <2>2, <2>3
<1>5. CASE CleanRecord BY <1>5 DEF CleanRecord
<1>6. CASE Rmdir
  <2>1. me.at = "rmdir" BY <1>6 DEF Rmdir
  <2>2. CASE me.goal # "done"
    <3>1. me' = [me EXCEPT !.at = "reopen"] BY <1>6, <2>2 DEF Rmdir
    <3> QED BY <2>1, <2>2, <3>1
  <2>3. CASE me.goal = "done"
    <3>1. me' = [me EXCEPT !.at = "forget"] \/ me' = Recovered BY <1>6, <2>3 DEF Rmdir
    <3>2. CASE me' = [me EXCEPT !.at = "forget"] BY <3>2
    <3> QED BY <3>1, <3>2, RecoveredAims
  <2> QED BY <2>2, <2>3
<1>7. CASE Reopen BY <1>7 DEF Reopen
<1>8. CASE Conclude BY <1>8, RecoveredAims DEF Conclude
<1>9. CASE Forget BY <1>9 DEF Forget
<1>10. ASSUME NEW k \in Skill, CompensateSkip(k) PROVE ProcessAims'
  BY <1>10 DEF CompensateSkip, Compensating
<1>11. ASSUME NEW k \in Skill, CompensateStart(k) PROVE ProcessAims'
  BY <1>11 DEF CompensateStart, Compensating
<1>12. ASSUME NEW k \in Skill, CompensateFails(k) PROVE ProcessAims'
  BY <1>12 DEF CompensateFails, Compensated
<1>13. ASSUME NEW k \in Skill, CompensateUnlink(k) PROVE ProcessAims'
  BY <1>13 DEF CompensateUnlink, Compensated
<1>14. ASSUME NEW k \in Skill, CompensateRecreate(k) PROVE ProcessAims'
  BY <1>14 DEF CompensateRecreate, Compensated
<1>15. ASSUME NEW s \in Resource, Clean(s) PROVE ProcessAims'
  BY <1>15 DEF Clean
<1> QED BY <1>3, <1>4, <1>5, <1>6, <1>7, <1>8, <1>9, <1>10, <1>11, <1>12, <1>13, <1>14,
      <1>15 DEF End

LEMMA RollForwardAims == ASSUME AsideInv, RollForward PROVE ProcessAims'
<1>1. me \in Me BY TypeIs DEF AsideInv
<1>2. (me = Idle => ProcessAims)' BY IdleAims, PTL
<1> USE <1>1, <1>2 DEF AsideInv, ProcessAims, At, Goto, Did, Me, Taken, OwnUninstall, Before,
      Undoes,
      Detaching, Erased
<1>3. CASE Complete BY <1>3 DEF Complete, Forward
<1>4. CASE CompleteFails BY <1>4 DEF CompleteFails
<1>5. CASE RelinkDone BY <1>5 DEF RelinkDone
<1>6. CASE Finish BY <1>6 DEF Finish
<1>7. ASSUME NEW s \in Resource, CompleteDeletion(s) PROVE ProcessAims'
  BY <1>7 DEF CompleteDeletion
<1>8. ASSUME NEW k \in Skill, Relink(k) PROVE ProcessAims'
  BY <1>8 DEF Relink
<1>9. ASSUME NEW k \in Skill, RelinkOccupied(k) PROVE ProcessAims'
  BY <1>9 DEF RelinkOccupied
<1> QED BY <1>3, <1>4, <1>5, <1>6, <1>7, <1>8, <1>9 DEF RollForward

LEMMA AimsNext == AsideInv /\ EditNext => ProcessAims'
<1> SUFFICES ASSUME AsideInv, EditNext PROVE ProcessAims'
  OBVIOUS
<1>1. me \in Me BY TypeIs DEF AsideInv
<1>2. (me = Idle => ProcessAims)' BY IdleAims, PTL
<1>3. ASSUME NEW c \in Commands, NEW root \in BOOLEAN, Begin(c, root) PROVE ProcessAims'
  BY <1>1, <1>3 DEF Begin, AsideInv, ProcessAims, At, Me, Taken, OwnUninstall, Idle, Before,
                    Undoes, Detaching, Erased
<1>4. CASE Proceed
  BY <1>4, DecideAims, PrepareAims, DetachAims, CommitAims, ExposeAims, UndoAims, EndAims,
     RollForwardAims DEF Proceed
<1>5. CASE Abort BY <1>2, <1>5 DEF Abort
<1>6. ASSUME me' = me PROVE ProcessAims'
  BY <1>6 DEF AsideInv, ProcessAims, Taken, OwnUninstall, Forward
<1>7. ASSUME NEW s \in Resource, NEW v, EditFile(s, v) PROVE ProcessAims'
  BY <1>6, <1>7 DEF EditFile
<1>8. ASSUME NEW k \in Skill, NEW v, EditLink(k, v) PROVE ProcessAims'
  BY <1>6, <1>8 DEF EditLink
<1> QED BY <1>3, <1>4, <1>5, <1>7, <1>8 DEF EditNext, Next

-----------------------------------------------------------------------------

(* The first record of a transaction precedes anything moved aside, and the   *)
(* record that ends it follows the last thing put back or disposed of.        *)
LEMMA AsideHolds == EditSpec => []AsideInv
<1>1. Init => AsideInv
  <2> SUFFICES ASSUME Init PROVE AsideInv OBVIOUS
  <2>1. me = Idle /\ rec = NoTx /\ NoIso BY DEF Init, NoIso
  <2>2. TypeOK
    <3>1. World BY BytesTyped DEF Init, World, Links, Held
    <3> QED BY <2>1, <3>1, IdleTyped, TypeIs
  <2>3. RecordAside BY <2>1 DEF RecordAside, NoIso
  <2> QED BY <2>1, <2>2, <2>3, RestAside, IdleAims DEF AsideInv, Aside, Idle
<1>2. AsideInv /\ [EditNext]_vars => AsideInv'
  <2> SUFFICES ASSUME AsideInv, [EditNext]_vars PROVE AsideInv' OBVIOUS
  <2>1. CASE EditNext
    BY <2>1, TypeNext, AsideNext, AimsNext DEF AsideInv, Aside
  <2>2. CASE UNCHANGED vars
    BY <2>2 DEF vars, files, outside, record, env, AsideInv, TypeOK, HasTx, RecordAside,
                ProcessAside, ProcessAims, Plan, At, NoIso, Over, Interrupted, Deleted, Carries,
                Manual, Taken, OwnUninstall, Forward
  <2> QED BY <2>1, <2>2
<1> QED BY <1>1, <1>2, PTL DEF EditSpec

(* Every state of the transaction, its record and its process is well typed,  *)
(* whoever edits the target.                                                 *)
THEOREM InstallTypeCorrect == EditSpec => []TypeOK
BY AsideHolds, PTL DEF AsideInv

(* Bytes moved aside for a deletion belong, at every moment, to a transaction *)
(* on disk that the next command will see.                                   *)
THEOREM NothingIsStranded == EditSpec => []NothingStranded
<1>1. AsideInv => NothingStranded
  BY DEF AsideInv, RecordAside, NothingStranded, Interrupted
<1> QED BY <1>1, AsideHolds, PTL

-----------------------------------------------------------------------------
(* What the files hold, as long as nobody edits them.                         *)

Old(p, s)   == iso[s] = Absent /\ disk[s] = p[s].pre
New(p, s)   == iso[s] = Absent /\ disk[s] = p[s].post
Moved(p, s) == /\ p[s].kind = "delete" /\ p[s].pre # Absent
               /\ iso[s] = p[s].pre /\ disk[s] = Absent
Done(p, s)  == New(p, s) \/ Moved(p, s)

AllOld(p)      == \A s \in DOMAIN p : Old(p, s)
AllNew(p)      == \A s \in DOMAIN p : New(p, s)
Accounted(p)   == \A s \in DOMAIN p : Old(p, s) \/ Done(p, s)
WellPlanned(p) == \A s \in DOMAIN p : p[s].kind = "delete" => p[s].post = Absent

(* Each file of a record is as it was, as planned or moved aside, and what    *)
(* the status promises is true.                                              *)
RecordTrue ==
    rec # NoTx =>
        /\ WellPlanned(rec.plan) /\ Accounted(rec.plan)
        /\ rec.status \in {"planning", "staging", "failed", "rolled_back"} => AllOld(rec.plan)
        /\ rec.status = "done" => AllNew(rec.plan)

(* The commit and its undoing know how far they are. *)
CommitTrue ==
    /\ \A s \in DOMAIN Plan \ me.todo : Done(Plan, s)
    /\ \A s \in me.todo \ First(me.todo) : Old(Plan, s)
    /\ \A s \in First(me.todo) :
          /\ me.at \in {"commit", "swap", "isolate"} => Old(Plan, s)
          /\ me.at = "swapped" => New(Plan, s)
          /\ me.at = "isolated" => Moved(Plan, s)

UndoTrue ==
    /\ \A s \in DOMAIN Plan \ me.todo : Old(Plan, s)
    /\ \A s \in me.todo \ Final(me.todo) : Done(Plan, s)
    /\ \A s \in Final(me.todo) :
          /\ me.at = "undo" => Done(Plan, s)
          /\ me.at \in {"restore", "remove"} => New(Plan, s)
          /\ me.at = "remove" => Plan[s].pre = Absent
          /\ me.at = "restored" => Old(Plan, s)

(* Nothing, or all, of the transaction in memory is in force; before the      *)
(* commit and from then on the record in memory says so.                     *)
Begun     == me.tx.status \in {"planning", "staging"}
Committed == me.tx.status \in {"committing", "needs_human"}
Untouched == WellPlanned(Plan) /\ AllOld(Plan)
InPlace   == WellPlanned(Plan) /\ AllNew(Plan)

ProcessTrue ==
    /\ me.at = "first" => DOMAIN Plan = {} /\ Begun
    /\ me.at \in Before => Untouched
    /\ me.at \in Early => Begun
    /\ me.at \in Back => Untouched
    /\ me.at \in Detaching => IF Forward THEN InPlace /\ Committed ELSE Untouched /\ Begun
    /\ me.at \in Erased \cup {"clean"} => me.goal = "done" \/ Untouched
    /\ me.at \in After => InPlace /\ Committed
    /\ me.at \in Midway => CommitTrue /\ Committed
    /\ me.at \in Undoes => UndoTrue
    /\ me.at = "complete" => Committed /\ \A s \in DOMAIN Plan : Done(Plan, s)
    /\ me.at = "giveup" => WellPlanned(Plan) /\ Accounted(Plan)

FilesTrue == RecordTrue /\ ProcessTrue

(* Nothing changes for a plan while the files stay as they are. *)
LEMMA SameFiles ==
  ASSUME disk' = disk, iso' = iso
  PROVE  /\ rec' = rec /\ RecordTrue => RecordTrue'
         /\ Plan' = Plan /\ Untouched => Untouched'
         /\ Plan' = Plan /\ InPlace => InPlace'
BY DEF RecordTrue, Untouched, InPlace, WellPlanned, Accounted, AllOld, AllNew, Old, New, Moved,
       Done, Plan

LEMMA RestTrue == me.at \in {"idle", "recover", "open", "forget"} => ProcessTrue
BY DEF ProcessTrue, Before, Early, Back, Detaching, Erased, After, Midway, Undoes

LEMMA UntouchedTrue ==
  /\ Untouched
  /\ \/ me.at \in Back \cup Erased \cup {"clean", "giveup", "reattach"}
     \/ Begun /\ (me.at \in Before \/ (me.at \in Detaching /\ ~Forward))
  => ProcessTrue
BY DEF ProcessTrue, Before, Early, Back, Detaching, Erased, After, Midway, Undoes, Untouched,
      Accounted,
       AllOld

LEMMA FirstTrue == me.at = "first" /\ DOMAIN Plan = {} /\ Begun => ProcessTrue
BY DEF ProcessTrue, Before, Early, Back, Detaching, Erased, After, Midway, Undoes

LEMMA OverTrue == me.at \in Erased \cup {"clean"} /\ me.goal = "done" => ProcessTrue
BY DEF ProcessTrue, Before, Early, Back, Detaching, Erased, After, Midway, Undoes

LEMMA InPlaceTrue ==
  InPlace /\ Committed /\ (me.at \in After \cup {"giveup"} \/ (me.at \in Detaching /\ Forward))
  => ProcessTrue
BY DEF ProcessTrue, Before, Early, Back, Detaching, Erased, After, Midway, Undoes, InPlace,
      Accounted,
       AllNew, Done

LEMMA CommitIsTrue == CommitTrue /\ Committed /\ me.at \in Midway => ProcessTrue
BY DEF ProcessTrue, Before, Early, Back, Detaching, Erased, After, Midway, Undoes

LEMMA UndoIsTrue == UndoTrue /\ me.at \in Undoes => ProcessTrue
BY DEF ProcessTrue, Before, Early, Back, Detaching, Erased, After, Midway, Undoes

LEMMA CompleteTrue ==
  Committed /\ (\A s \in DOMAIN Plan : Done(Plan, s)) /\ me.at = "complete" => ProcessTrue
BY DEF ProcessTrue, Before, Early, Back, Detaching, Erased, After, Midway, Undoes

LEMMA GiveUpTrue == WellPlanned(Plan) /\ Accounted(Plan) /\ me.at = "giveup" => ProcessTrue
BY DEF ProcessTrue, Before, Early, Back, Detaching, Erased, After, Midway, Undoes

(* A record tells the truth of what is untouched unless it says done, and of  *)
(* what is in place unless it says it is not.                                 *)
LEMMA UntouchedRecord ==
  ASSUME RecordTrue, Untouched, disk' = disk, iso' = iso,
         \/ UNCHANGED record
         \/ \E tx \in Tx : Write(tx) /\ tx.plan = Plan /\ tx.status # "done"
  PROVE  RecordTrue'
<1>1. CASE UNCHANGED record BY <1>1, SameFiles DEF record
<1>2. CASE \E tx \in Tx : Write(tx) /\ tx.plan = Plan /\ tx.status # "done"
  <2>1. rec'.plan = Plan /\ rec'.status # "done" BY <1>2 DEF Write
  <2> QED BY <2>1 DEF RecordTrue, Untouched, WellPlanned, Accounted, AllOld, Old
<1> QED BY <1>1, <1>2

LEMMA UntouchedStep ==
  ASSUME RecordTrue, Untouched, disk' = disk, iso' = iso,
         \/ UNCHANGED record
         \/ \E tx \in Tx : Write(tx) /\ tx.plan = Plan /\ tx.status # "done",
         \/ me' = Idle
         \/ /\ Plan' = Plan
            /\ \/ me'.at \in Back \cup Erased \cup {"clean", "giveup", "reattach"}
               \/ Begun' /\ (me'.at \in Before \/ (me'.at \in Detaching /\ ~Forward'))
  PROVE  FilesTrue'
<1>1. RecordTrue' BY UntouchedRecord
<1>2. CASE me' = Idle
  <2>1. (me.at \in {"idle", "recover", "open", "forget"} => ProcessTrue)' BY RestTrue, PTL
  <2> QED BY <1>1, <1>2, <2>1 DEF FilesTrue, Idle
<1>3. CASE me' # Idle
  <2>1. Untouched' BY <1>3, SameFiles
  <2>2. (/\ Untouched
         /\ \/ me.at \in Back \cup Erased \cup {"clean", "giveup", "reattach"}
            \/ Begun /\ (me.at \in Before \/ (me.at \in Detaching /\ ~Forward))
         => ProcessTrue)'
    BY UntouchedTrue, PTL
  <2> QED BY <1>1, <1>3, <2>1, <2>2 DEF FilesTrue
<1> QED BY <1>2, <1>3

LEMMA InPlaceStep ==
  ASSUME RecordTrue, InPlace, disk' = disk, iso' = iso,
         \/ UNCHANGED record
         \/ \E tx \in Tx : /\ Write(tx) /\ tx.plan = Plan
                           /\ tx.status \in {"committing", "done", "needs_human"},
         \/ me' = Idle
         \/ me'.at = "clean" /\ me'.goal = "done"
         \/ /\ Plan' = Plan /\ Committed'
            /\ me'.at \in After \cup {"giveup"} \/ (me'.at \in Detaching /\ Forward')
  PROVE  FilesTrue'
<1>1. RecordTrue'
  <2>1. CASE UNCHANGED record BY <2>1, SameFiles DEF record
  <2>2. CASE \E tx \in Tx : /\ Write(tx) /\ tx.plan = Plan
                            /\ tx.status \in {"committing", "done", "needs_human"}
    <3>1. rec'.plan = Plan /\ rec'.status \in {"committing", "done", "needs_human"}
      BY <2>2 DEF Write
    <3> QED BY <3>1 DEF RecordTrue, InPlace, WellPlanned, Accounted, AllNew, New, Done
  <2> QED BY <2>1, <2>2
<1>2. CASE me' = Idle
  <2>1. (me.at \in {"idle", "recover", "open", "forget"} => ProcessTrue)' BY RestTrue, PTL
  <2> QED BY <1>1, <1>2, <2>1 DEF FilesTrue, Idle
<1>3. CASE me'.at = "clean" /\ me'.goal = "done"
  <2>1. (me.at \in Erased \cup {"clean"} /\ me.goal = "done" => ProcessTrue)' BY OverTrue, PTL
  <2> QED BY <1>1, <1>3, <2>1 DEF FilesTrue
<1>4. CASE /\ Plan' = Plan /\ Committed'
           /\ me'.at \in After \cup {"giveup"} \/ (me'.at \in Detaching /\ Forward')
  <2>1. InPlace' BY <1>4, SameFiles
  <2>2. (InPlace /\ Committed
         /\ (me.at \in After \cup {"giveup"} \/ (me.at \in Detaching /\ Forward))
           => ProcessTrue)'
    BY InPlaceTrue, PTL
  <2> QED BY <1>1, <1>4, <2>1, <2>2 DEF FilesTrue
<1> QED BY <1>2, <1>3, <1>4

LEMMA RestStep ==
  ASSUME RecordTrue', me'.at \in {"idle", "recover", "open", "forget"} PROVE FilesTrue'
<1>1. (me.at \in {"idle", "recover", "open", "forget"} => ProcessTrue)' BY RestTrue, PTL
<1> QED BY <1>1 DEF FilesTrue

LEMMA StatusIs ==
  ASSUME NEW tx \in Tx, NEW s \in Statuses
  PROVE  /\ [tx EXCEPT !.status = s] \in Tx
         /\ [tx EXCEPT !.status = s].status = s
         /\ [tx EXCEPT !.status = s].plan = tx.plan
         /\ [tx EXCEPT !.status = s].ext = tx.ext
BY TxTyped, StatusTyped

LEMMA DecideTrue == ASSUME AsideInv, FilesTrue, Decide PROVE FilesTrue'
<1>1. me \in Me /\ World /\ RecordTrue BY TypeIs DEF AsideInv, FilesTrue
<1>2. rec # NoTx => rec \in Tx BY <1>1, TxTyped DEF World, Held
<1> USE <1>1 DEF At, Goto, Me
<1>3. Recovering => rec \in Tx /\ Status = rec.status BY <1>2 DEF Recovering, Status
<1>4. UNCHANGED <<files, outside, record, env>> => disk' = disk /\ iso' = iso /\ rec' = rec
  BY DEF files, record
<1>5. ASSUME UNCHANGED <<files, outside, record, env>>,
             me'.at \in {"idle", "recover", "open", "forget"}
      PROVE  FilesTrue'
  BY <1>4, <1>5, SameFiles, RestStep
<1>6. CASE RecoverNothing BY <1>5, <1>6 DEF RecoverNothing, Recovered, Idle
<1>7. CASE RecoverBlocked BY <1>5, <1>7 DEF RecoverBlocked, Idle
<1>8. CASE RecoverClean
  <2>1. WellPlanned(rec.plan) /\ AllOld(rec.plan)
    BY <1>3, <1>8 DEF RecoverClean, RecordTrue, Recovering
  <2>2. /\ disk' = disk /\ iso' = iso /\ rec' = rec /\ me'.at = "unmark" /\ Plan' = rec.plan
    BY <1>4, <1>8 DEF RecoverClean, Plan
  <2>3. Untouched' BY <2>1, <2>2 DEF Untouched, WellPlanned, AllOld, Old
  <2>4. (/\ Untouched
         /\ \/ me.at \in Back \cup Erased \cup {"clean", "giveup", "reattach"}
            \/ Begun /\ (me.at \in Before \/ (me.at \in Detaching /\ ~Forward))
         => ProcessTrue)'
    BY UntouchedTrue, PTL
  <2> QED BY <2>2, <2>3, <2>4, SameFiles DEF FilesTrue, Back
(* What was classified is what the record says of each file. *)
<1>9. ASSUME Classified, Conflicts(rec.plan) = {}
      PROVE  /\ WellPlanned(rec.plan) /\ rec.status \in {"committing", "needs_human"}
             /\ NewSteps(rec.plan) \cup OldSteps(rec.plan) = DOMAIN rec.plan
             /\ NewSteps(rec.plan) \cap OldSteps(rec.plan) = {}
             /\ \A s \in NewSteps(rec.plan) : Done(rec.plan, s)
             /\ \A s \in OldSteps(rec.plan) : Old(rec.plan, s)
  <2>1. rec # NoTx /\ rec.status \in {"committing", "needs_human"}
    BY <1>3, <1>9 DEF Classified, Recovering
  <2>2. WellPlanned(rec.plan) /\ Accounted(rec.plan) BY <2>1 DEF RecordTrue
  <2>3. /\ NewSteps(rec.plan) \cup OldSteps(rec.plan) = DOMAIN rec.plan
        /\ NewSteps(rec.plan) \cap OldSteps(rec.plan) = {}
    BY <1>9 DEF Conflicts, NewSteps, OldSteps
  <2>4. ASSUME NEW s \in NewSteps(rec.plan) PROVE Done(rec.plan, s)
    <3>1. s \in DOMAIN rec.plan BY DEF NewSteps
    <3>2. CASE iso[s] # Absent
      BY <2>2, <3>1, <3>2 DEF Accounted, Old, New, Done
    <3>3. CASE iso[s] = Absent BY <3>3 DEF NewSteps, New, Done
    <3> QED BY <3>2, <3>3
  <2>5. ASSUME NEW s \in OldSteps(rec.plan) PROVE Old(rec.plan, s)
    <3>1. s \in DOMAIN rec.plan /\ iso[s] = Absent BY DEF OldSteps
    <3>2. disk[s] # rec.plan[s].post BY <3>1 DEF OldSteps, NewSteps
    <3> QED BY <2>2, <3>1, <3>2 DEF Accounted, New, Moved, Done
  <2> QED BY <2>1, <2>2, <2>3, <2>4, <2>5
<1>10. CASE RecoverConflict
  <2>1. WellPlanned(rec.plan) /\ Accounted(rec.plan)
    BY <1>3, <1>10 DEF RecoverConflict, Classified, Recovering, RecordTrue
  <2>2. /\ disk' = disk /\ iso' = iso /\ rec' = rec /\ me'.at = "giveup" /\ Plan' = rec.plan
    BY <1>4, <1>10 DEF RecoverConflict, Plan
  <2>3. (WellPlanned(Plan) /\ Accounted(Plan))'
    BY <2>1, <2>2 DEF WellPlanned, Accounted, Old, New, Moved, Done
  <2>4. (WellPlanned(Plan) /\ Accounted(Plan) /\ me.at = "giveup" => ProcessTrue)'
    BY GiveUpTrue, PTL
  <2> QED BY <2>2, <2>3, <2>4, SameFiles DEF FilesTrue
<1>11. CASE RecoverUndo
  <2>1. /\ disk' = disk /\ iso' = iso /\ rec' = rec /\ me'.at = "undo" /\ Plan' = rec.plan
        /\ me'.todo = NewSteps(rec.plan)
    BY <1>4, <1>11 DEF RecoverUndo, Plan
  <2>2. UndoTrue'
    BY <1>9, <1>11, <2>1 DEF RecoverUndo, UndoTrue, Final, Old, New, Moved, Done
  <2>3. (UndoTrue /\ me.at \in Undoes => ProcessTrue)' BY UndoIsTrue, PTL
  <2> QED BY <2>1, <2>2, <2>3, SameFiles DEF FilesTrue, Undoes
<1>12. CASE RecoverRedo
  <2>1. /\ disk' = disk /\ iso' = iso /\ rec' = rec /\ me'.at = "commit" /\ Plan' = rec.plan
        /\ me'.todo = OldSteps(rec.plan) /\ me'.tx = rec
    BY <1>4, <1>12 DEF RecoverRedo, Plan
  <2>2. CommitTrue' /\ Committed'
    BY <1>9, <1>12, <2>1
       DEF RecoverRedo, CommitTrue, Committed, First, Old, New, Moved, Done
  <2>3. (CommitTrue /\ Committed /\ me.at \in Midway => ProcessTrue)' BY CommitIsTrue, PTL
  <2> QED BY <2>1, <2>2, <2>3, SameFiles DEF FilesTrue, Midway
<1>13. CASE RecoverFinish
  <2>1. /\ disk' = disk /\ iso' = iso /\ rec' = rec /\ me'.at = "complete" /\ Plan' = rec.plan
        /\ me'.tx = rec
    BY <1>4, <1>13 DEF RecoverFinish, Plan
  <2>2. (\A s \in DOMAIN Plan : Done(Plan, s))' /\ Committed'
    BY <1>9, <1>13, <2>1 DEF RecoverFinish, Committed, New, Moved, Done
  <2>3. (Committed /\ (\A s \in DOMAIN Plan : Done(Plan, s)) /\ me.at = "complete"
           => ProcessTrue)'
    BY CompleteTrue, PTL
  <2> QED BY <2>1, <2>2, <2>3, SameFiles DEF FilesTrue
<1>14. CASE GiveUp
  <2> DEFINE tx == [me.tx EXCEPT !.status = "needs_human"]
  <2>1. me.tx \in Tx BY <1>14 DEF GiveUp, AsideInv, HasTx, Engaged
  <2>2. WellPlanned(Plan) /\ Accounted(Plan) BY <1>14 DEF GiveUp, FilesTrue, ProcessTrue
  <2>3. tx.plan = Plan /\ tx.status = "needs_human" BY <2>1, StatusIs DEF Plan, Statuses
  <2>4. rec' = tx /\ disk' = disk /\ iso' = iso /\ me'.at = "idle"
    BY <1>14 DEF GiveUp, Write, files, Idle
  <2> HIDE DEF tx
  <2>5. RecordTrue'
    BY <2>2, <2>3, <2>4 DEF RecordTrue, WellPlanned, Accounted, Old, New, Moved, Done
  <2> QED BY <2>4, <2>5, RestStep
<1> QED BY <1>6, <1>7, <1>8, <1>10, <1>11, <1>12, <1>13, <1>14 DEF Decide

LEMMA PlanOneTrue == ASSUME AsideInv, FilesTrue, PlanOne PROVE FilesTrue'
<1>1. me.at = "plan" /\ UNCHANGED <<files, record>> BY DEF PlanOne, MakePlan, At
<1>2. me.tx \in Tx /\ me \in Me /\ NoIso /\ Begun
  BY <1>1, SettledTx DEF AsideInv, ProcessAside, FilesTrue, ProcessTrue, Settled, Before, Early
<1>3. PICK p : /\ MakePlan(p)
               /\ \A s \in DOMAIN p : /\ p[s].pre = disk[s]
                                      /\ p[s].kind = "delete" => p[s].post = Absent
  <2>1. \A v : \A s \in DOMAIN PlanInstall(v) :
           /\ PlanInstall(v)[s].pre = disk[s]
           /\ PlanInstall(v)[s].kind = "delete" => PlanInstall(v)[s].post = Absent
    BY DEF PlanInstall, Replace, Delete
  <2>2. \A r : \A s \in DOMAIN PlanUninstall(r) :
           /\ PlanUninstall(r)[s].pre = disk[s]
           /\ PlanUninstall(r)[s].kind = "delete" => PlanUninstall(r)[s].post = Absent
    BY DEF PlanUninstall, Replace, Delete
  <2> QED BY <2>1, <2>2 DEF PlanOne
<1>4. Plan' = p /\ me'.at = "write-plan" /\ me'.tx.status = me.tx.status
  BY <1>2, <1>3, TxTyped DEF MakePlan, Plan, Me
<1>5. disk' = disk /\ iso' = iso /\ rec' = rec BY <1>1 DEF files, record
<1>6. DOMAIN p \subseteq Resource
  <2>1. TypeOK /\ HasTx BY DEF AsideInv
  <2>2. me'.tx \in Tx BY <2>1, PlanOneTyped
  <2> QED BY <1>4, <2>2, TxTyped, PartialIs DEF Plan, Plans
<1>7. Untouched'
  BY <1>2, <1>3, <1>4, <1>5, <1>6 DEF Untouched, WellPlanned, AllOld, Old, NoIso
<1>8. (/\ Untouched
       /\ \/ me.at \in Back \cup Erased \cup {"clean", "giveup", "reattach"}
          \/ Begun /\ (me.at \in Before \/ (me.at \in Detaching /\ ~Forward))
       => ProcessTrue)'
  BY UntouchedTrue, PTL
<1> QED BY <1>2, <1>4, <1>5, <1>7, <1>8, SameFiles DEF FilesTrue, Begun, Before

LEMMA PrepareTrue == ASSUME AsideInv, FilesTrue, Prepare PROVE FilesTrue'
<1>1. me \in Me /\ World /\ RecordTrue BY TypeIs DEF AsideInv, FilesTrue
<1>2. me.at \in Early => me.tx \in Tx /\ Untouched /\ Begun
  BY SettledTx DEF FilesTrue, ProcessTrue, Settled, Early
<1> USE <1>1 DEF At, Goto, Did, Me
<1>3. ASSUME me.at \in Early, disk' = disk, iso' = iso,
             UNCHANGED record, me'.tx = me.tx, me'.at \in Before \cup {"clean"}
      PROVE  FilesTrue'
  <2>1. Plan' = Plan /\ (Begun => Begun') BY <1>3 DEF Plan, Begun
  <2> QED BY <1>2, <1>3, <2>1, UntouchedStep
<1>4. ASSUME me.at \in Early, disk' = disk, iso' = iso,
             NEW tx \in Tx, tx.plan = me.tx.plan, Write(tx), tx.status # "done",
             \/ me' = Idle
             \/ /\ me'.at \in Before /\ me'.tx.plan = me.tx.plan
                /\ me'.tx.status \in {"planning", "staging"}
      PROVE  FilesTrue'
  <2>1. tx.plan = Plan BY <1>4 DEF Plan
  <2>2. me' = Idle \/ (Plan' = Plan /\ Begun' /\ me'.at \in Before) BY <1>4 DEF Plan, Begun
  <2> QED BY <1>2, <1>4, <2>1, <2>2, UntouchedStep
<1>5. CASE OpenRefuse
  BY <1>5, SameFiles, RestStep DEF OpenRefuse, Idle, files, record
<1>6. CASE Open
  <2>1. RecordTrue' BY <1>6 DEF Open, RecordTrue
  <2>2. /\ me'.at = "first" /\ DOMAIN Plan' = {} /\ Begun' BY <1>6 DEF Open, Plan, Begun
  <2>3. (me.at = "first" /\ DOMAIN Plan = {} /\ Begun => ProcessTrue)' BY FirstTrue, PTL
  <2> QED BY <2>1, <2>2, <2>3 DEF FilesTrue
<1>7. CASE FirstRecord
  <2>1. DOMAIN Plan = {} /\ Begun BY <1>7 DEF FirstRecord, FilesTrue, ProcessTrue
  <2>2. Untouched BY <2>1 DEF Untouched, WellPlanned, AllOld
  <2>3. me.tx \in Tx BY <1>7 DEF FirstRecord, AsideInv, HasTx, Engaged
  <2>4. /\ disk' = disk /\ iso' = iso /\ Write(me.tx) /\ me'.at = "classify" /\ me'.tx = me.tx
    BY <1>7 DEF FirstRecord, files
  <2>5. Plan' = Plan /\ Begun' /\ me.tx.plan = Plan /\ me.tx.status # "done"
    BY <2>1, <2>4 DEF Plan, Begun
  <2> QED BY <2>2, <2>3, <2>4, <2>5, UntouchedStep DEF Before, Early
<1>8. CASE PlanFails
  <2>1. me.at \in Early BY <1>8 DEF PlanFails, Before, Early
  <2> QED BY <1>2, <1>4, <1>8, <2>1, StatusIs DEF PlanFails, Statuses, files
<1>9. CASE PlanOne BY <1>9, PlanOneTrue
<1>10. CASE WritePlan
  <2>1. me.at \in Early BY <1>10 DEF WritePlan, Before, Early
  <2>2. me.tx \in Tx /\ Begun BY <1>2, <2>1
  <2> QED BY <1>4, <1>10, <2>1, <2>2 DEF WritePlan, Before, Early, files, Begun
<1>11. ASSUME NEW S \in SUBSET Resource, Classify(S) PROVE FilesTrue'
  BY <1>3, <1>11 DEF Classify, Before, Early, files
<1>12. CASE StageOn
  <2>1. me.at \in Early /\ me.tx \in Tx BY <1>2, <1>12 DEF StageOn, Before, Early
  <2> DEFINE tx == [me.tx EXCEPT !.status = "staging"]
  <2>2. tx \in Tx /\ tx.plan = me.tx.plan /\ tx.status = "staging" BY <2>1, StatusIs DEF Statuses
  <2>3. /\ Write(tx) /\ me'.tx = tx /\ me'.at = "stage" /\ disk' = disk /\ iso' = iso
    BY <1>12 DEF StageOn, files
  <2> HIDE DEF tx
  <2> QED BY <1>4, <2>1, <2>2, <2>3 DEF Before, Early
<1>13. CASE StageInvalid BY <1>3, <1>13 DEF StageInvalid, CleanUp, Before, Early, files
<1>14. CASE StageDone BY <1>3, <1>14 DEF StageDone, Before, Early, files
<1>15. CASE BackupDone BY <1>3, <1>15 DEF BackupDone, Before, Early, files
<1>16. CASE Mark
  <2>1. me.at \in Early BY <1>16 DEF Mark, Before, Early
  <2>2. me.tx \in Tx /\ Begun BY <1>2, <2>1
  <2>3. PICK tx : /\ Write(tx) /\ me' = [me EXCEPT !.at = "mark-write", !.tx = tx]
                  /\ tx = [me.tx EXCEPT !.old = IF marker THEN "set" ELSE "unset"]
    BY <1>16 DEF Mark
  <2>4. tx \in Tx /\ tx.plan = me.tx.plan /\ tx.status = me.tx.status
    BY <2>2, <2>3, TxTyped DEF Olds
  <2>5. disk' = disk /\ iso' = iso BY <1>16 DEF Mark, files
  <2> QED BY <1>4, <2>1, <2>2, <2>3, <2>4, <2>5 DEF Before, Early, Begun
<1>17. CASE MarkWrite BY <1>3, <1>17 DEF MarkWrite, Before, Early, files
<1>18. ASSUME NEW s \in Resource, StageOne(s) \/ BackupOne(s) PROVE FilesTrue'
  BY <1>3, <1>18 DEF StageOne, BackupOne, Before, Early
<1>19. ASSUME NEW s \in Resource, BackupFails(s) PROVE FilesTrue'
  BY <1>3, <1>19 DEF BackupFails, CleanUp, Before, Early, files
<1> QED BY <1>5, <1>6, <1>7, <1>8, <1>9, <1>10, <1>11, <1>12, <1>13, <1>14, <1>15, <1>16,
           <1>17, <1>18, <1>19 DEF Prepare

LEMMA DetachTrue == ASSUME AsideInv, FilesTrue, Detach PROVE FilesTrue'
<1>1. me.at \in Settled /\ me.at \in Before \cup Detaching
  BY DEF Detach, DetachPlan, DetachDone, ReattachDone, DetachSkip, DetachStart, DetachOrphan,
         DetachMove, DetachFails, DetachDispose, DetachRestore, Detached, At, Settled, Before,
         Detaching
<1>2. me.tx \in Tx /\ me \in Me /\ World /\ RecordTrue BY <1>1, SettledTx DEF FilesTrue
<1>3. /\ me.at \in Before => Untouched
      /\ me.at \in Early => Begun
      /\ me.at \in Detaching => IF Forward THEN InPlace /\ Committed ELSE Untouched /\ Begun
  BY DEF FilesTrue, ProcessTrue
<1>4. me.at \in Detaching => Forward \/ me.goal = "none" BY DEF AsideInv, ProcessAims
<1>5. disk' = disk /\ iso' = iso
  BY DEF Detach, DetachPlan, DetachDone, ReattachDone, DetachSkip, DetachStart, DetachOrphan,
         DetachMove, DetachFails, DetachDispose, DetachRestore, Detached, files
<1> USE <1>2, <1>5 DEF At, Goto, Me
<1>6. ASSUME me.at \in Detaching, UNCHANGED record \/ (~Forward /\ Write(me'.tx)),
             me'.tx \in Tx, me'.tx.plan = me.tx.plan, me'.tx.status = me.tx.status,
             \/ me'.at \in Detaching /\ Forward' = Forward
             \/ ~Forward /\ me'.at \in Before
             \/ Forward /\ me'.at \in {"finish", "giveup"}
      PROVE  FilesTrue'
  <2>1. Plan' = Plan /\ me'.tx.plan = Plan /\ (Begun => Begun') /\ (Committed => Committed')
    BY <1>6 DEF Plan, Begun, Committed
  <2>2. CASE Forward BY <1>3, <1>6, <2>1, <2>2, InPlaceStep DEF After
  <2>3. CASE ~Forward
    <3>1. Untouched /\ Begun /\ me'.tx.status # "done" BY <1>3, <1>6, <2>3 DEF Begun
    <3> QED BY <1>6, <2>1, <2>3, <3>1, UntouchedStep
  <2> QED BY <2>2, <2>3
<1>7. CASE DetachPlan
  <2>1. me.at = "detach-plan" /\ me.at \in Before /\ me.at \in Early
    BY <1>7 DEF DetachPlan, Before, Early
  <2>2. ~Forward BY <2>1 DEF AsideInv, ProcessAims, Before, Forward
  <2>3. PICK tx : /\ Write(tx) /\ me' = [me EXCEPT !.at = "detach", !.tx = tx]
                  /\ tx = [me.tx EXCEPT !.ext = [k \in me.links |-> RemoveIntent(k)]]
    BY <1>7 DEF DetachPlan
  <2>4. tx \in Tx BY <2>3, RemovalsTyped, ExtTyped DEF Names
  <2>5. tx.plan = Plan /\ tx.status = me.tx.status BY <2>3, TxTyped DEF Plan
  <2>6. Plan' = Plan /\ Begun' /\ me'.at = "detach" /\ ~Forward'
    BY <1>3, <2>1, <2>2, <2>3, <2>5 DEF Plan, Begun, Forward
  <2>7. Untouched /\ tx.status # "done" BY <1>3, <2>1, <2>5 DEF Begun
  <2> QED BY <2>3, <2>4, <2>5, <2>6, <2>7, UntouchedStep DEF Detaching
<1>8. CASE DetachDone
  <2>1. /\ me.at = "detach" /\ UNCHANGED record /\ me'.tx = me.tx
        /\ me'.at = IF me.goal = "stuck" THEN "giveup"
                    ELSE IF me.goal = "done" THEN "finish" ELSE "commit-on"
    BY <1>8 DEF DetachDone
  <2> QED BY <1>4, <1>6, <2>1 DEF Detaching, Before, Forward
<1>9. CASE ReattachDone
  <2>1. me.at \in Before BY <1>9 DEF ReattachDone, Before
  <2>2. PICK s \in {"needs_human", "failed"} : Write([me.tx EXCEPT !.status = s])
    BY <1>9 DEF ReattachDone
  <2>3. \E tx \in Tx : Write(tx) /\ tx.plan = Plan /\ tx.status # "done"
    BY <2>2, StatusIs DEF Statuses, Plan
  <2> QED BY <1>3, <1>9, <2>1, <2>3, UntouchedStep DEF ReattachDone
<1>10. ASSUME NEW k \in Skill, DetachFailed(k), me.at \in Detaching, UNCHANGED record
       PROVE  FilesTrue'
  BY <1>6, <1>10 DEF DetachFailed, Forward, Detaching, Before
<1>11. ASSUME NEW k \in Skill, DetachSkip(k) \/ DetachStart(k) PROVE FilesTrue'
  <2>1. me.at = "detach" /\ UNCHANGED record BY <1>11 DEF DetachSkip, DetachStart
  <2>2. me'.tx = me.tx /\ me'.at \in {"detached", "aside"} /\ Forward' = Forward
    BY <1>11 DEF DetachSkip, DetachStart, Forward
  <2> QED BY <1>6, <2>1, <2>2 DEF Detaching
<1>12. ASSUME NEW k \in Skill, DetachOrphan(k) \/ DetachMove(k) \/ DetachDispose(k)
       PROVE  FilesTrue'
  <2>1. me.at \in {"aside", "moved"} /\ UNCHANGED record
    BY <1>12 DEF DetachOrphan, DetachMove, DetachDispose
  <2>2. me'.tx = me.tx /\ me'.at \in {"aside", "moved", "detached"} /\ Forward' = Forward
    BY <1>12 DEF DetachOrphan, DetachMove, DetachDispose, Forward
  <2> QED BY <1>6, <2>1, <2>2 DEF Detaching
<1>13. ASSUME NEW k \in Skill, DetachFails(k) \/ DetachRestore(k) PROVE FilesTrue'
  BY <1>10, <1>13 DEF DetachFails, DetachRestore, Detaching
<1>14. ASSUME NEW k \in Skill, Detached(k) PROVE FilesTrue'
  <2>1. PICK tx : /\ me' = [me EXCEPT !.at = "detach", !.tx = tx, !.links = @ \ {k}]
                  /\ tx = [me.tx EXCEPT !.ext[k].state = "applied"]
                  /\ IF Forward THEN UNCHANGED record ELSE Write(tx)
    BY <1>14 DEF Detached
  <2>2. tx \in Tx /\ tx.plan = me.tx.plan /\ tx.status = me.tx.status
    BY <2>1, AppliedTyped, TxTyped
  <2>3. me.at \in Detaching /\ me'.at \in Detaching /\ me'.tx = tx /\ Forward' = Forward
    BY <1>14, <2>1 DEF Detached, Detaching, Forward
  <2> QED BY <1>6, <2>1, <2>2, <2>3
<1> QED BY <1>7, <1>8, <1>9, <1>11, <1>12, <1>13, <1>14 DEF Detach

LEMMA ExposeTrue == ASSUME AsideInv, FilesTrue, Expose PROVE FilesTrue'
<1>1. me.at \in Settled /\ me.at \in After
  BY DEF Expose, LinksDone, LinkIntent, Symlink, SymlinkRaises, Linked, At, Settled, After
<1>2. me.tx \in Tx /\ me \in Me /\ World /\ RecordTrue BY <1>1, SettledTx DEF FilesTrue
<1>3. InPlace /\ Committed BY <1>1 DEF FilesTrue, ProcessTrue
<1>4. disk' = disk /\ iso' = iso
  BY DEF Expose, LinksDone, LinkIntent, Symlink, SymlinkRaises, Linked, files
<1> USE <1>1, <1>2, <1>3, <1>4 DEF At, Goto, Me
<1>5. ASSUME UNCHANGED record \/ Write(me'.tx), me'.tx \in Tx,
             me'.tx.plan = me.tx.plan, me'.tx.status = me.tx.status,
             me'.at \in After \cup {"giveup"}
      PROVE  FilesTrue'
  <2>1. Plan' = Plan /\ me'.tx.plan = Plan /\ Committed' BY <1>5 DEF Plan, Committed
  <2>2. me'.tx.status \in {"committing", "done", "needs_human"} BY <1>5 DEF Committed
  <2> QED BY <1>5, <2>1, <2>2, InPlaceStep
<1>6. CASE LinksDone BY <1>5, <1>6 DEF LinksDone, After
<1>7. ASSUME NEW k \in Skill, LinkIntent(k) PROVE FilesTrue'
  <2> DEFINE ext == [j \in {k} \cup DOMAIN me.tx.ext |->
                        IF j = k THEN Intent(k) ELSE me.tx.ext[j]]
  <2>1. PICK tx : /\ Write(tx) /\ tx = [me.tx EXCEPT !.ext = ext]
                  /\ \/ me' = [me EXCEPT !.at = "symlink", !.tx = tx]
                     \/ me' = [me EXCEPT !.tx = tx, !.links = @ \ {k}]
    BY <1>7 DEF LinkIntent
  <2>2. ext \in Exts BY IntentTyped
  <2>3. tx \in Tx /\ tx.plan = me.tx.plan /\ tx.status = me.tx.status
    BY <2>1, <2>2, ExtTyped, TxTyped
  <2>4. me'.tx = tx /\ me'.at \in After BY <2>1 DEF After
  <2> QED BY <1>5, <2>1, <2>3, <2>4
<1>8. ASSUME NEW k \in Skill, Symlink(k) PROVE FilesTrue' BY <1>5, <1>8 DEF Symlink, After
<1>9. ASSUME NEW k \in Skill, SymlinkRaises(k) PROVE FilesTrue'
  BY <1>9, InPlaceStep DEF SymlinkRaises
<1>10. ASSUME NEW k \in Skill, Linked(k) PROVE FilesTrue'
  <2>1. PICK tx : /\ Write(tx) /\ tx = [me.tx EXCEPT !.ext[k].state = "applied"]
                  /\ me' = [me EXCEPT !.at = "link", !.tx = tx, !.links = @ \ {k}]
    BY <1>10 DEF Linked
  <2>2. tx \in Tx /\ tx.plan = me.tx.plan /\ tx.status = me.tx.status
    BY <2>1, AppliedTyped, TxTyped
  <2> QED BY <1>5, <2>1, <2>2 DEF After
<1> QED BY <1>6, <1>7, <1>8, <1>9, <1>10 DEF Expose

LEMMA EndTrue == ASSUME AsideInv, FilesTrue, End PROVE FilesTrue'
<1>1. me \in Me /\ World /\ RecordTrue BY TypeIs DEF AsideInv, FilesTrue
<1>2. /\ me.at \in Back \cup {"reattach"} => Untouched
      /\ me.at \in Erased \cup {"clean"} => me.goal = "done" \/ Untouched
  BY DEF FilesTrue, ProcessTrue, Before
<1>3. me.at \in Back => Untouched BY <1>2
<1> USE <1>1 DEF At, Goto, Did, Me
<1>4. ASSUME disk' = disk, iso' = iso, rec' \in {rec, NoTx},
             me'.at \in {"idle", "recover", "open", "forget"}
      PROVE  FilesTrue'
  <2>1. RecordTrue' BY <1>4, SameFiles DEF RecordTrue
  <2> QED BY <1>4, <2>1, RestStep
<1>5. ASSUME disk' = disk, iso' = iso, rec' \in {rec, NoTx}, me'.tx = me.tx, Untouched,
             me'.at \in Back \cup Erased \cup {"clean", "giveup", "reattach"}
      PROVE  FilesTrue'
  <2>1. RecordTrue' BY <1>5, SameFiles DEF RecordTrue
  <2>2. Untouched' BY <1>5, SameFiles DEF Plan
  <2>3. (/\ Untouched
         /\ \/ me.at \in Back \cup Erased \cup {"clean", "giveup", "reattach"}
            \/ Begun /\ (me.at \in Before \/ (me.at \in Detaching /\ ~Forward))
         => ProcessTrue)'
    BY UntouchedTrue, PTL
  <2> QED BY <1>5, <2>1, <2>2, <2>3 DEF FilesTrue
<1>6. ASSUME disk' = disk, iso' = iso, rec' \in {rec, NoTx}, me'.goal = "done",
             me'.at \in Erased \cup {"clean"}
      PROVE  FilesTrue'
  <2>1. RecordTrue' BY <1>6, SameFiles DEF RecordTrue
  <2>2. (me.at \in Erased \cup {"clean"} /\ me.goal = "done" => ProcessTrue)'
    BY OverTrue, PTL
  <2> QED BY <1>6, <2>1, <2>2 DEF FilesTrue
<1>7. CASE Unmark BY <1>3, <1>5, <1>7 DEF Unmark, Back, files, record
<1>8. CASE CompensateDone
  <2>1. /\ me.at = "compensate" /\ disk' = disk /\ iso' = iso /\ rec' = rec
        /\ me'.tx = me.tx /\ me'.at \in {"clean", "giveup"}
    BY <1>8 DEF CompensateDone, CleanUp, files, record
  <2> QED BY <1>3, <1>5, <2>1 DEF Back
<1>9. ASSUME disk' = disk, iso' = iso, rec' \in {rec, NoTx},
             me.at \in Erased \cup {"clean"}, me'.at \in Erased \cup {"clean"},
             me'.tx = me.tx, me'.goal = me.goal
      PROVE  FilesTrue'
  BY <1>2, <1>5, <1>6, <1>9
<1>10. CASE CleanRecord BY <1>9, <1>10 DEF CleanRecord, Erased, files
<1>11. CASE Rmdir
  <2>1. me.at = "rmdir" /\ disk' = disk /\ iso' = iso /\ rec' = rec
    BY <1>11 DEF Rmdir, files
  <2>2. \/ me' = [me EXCEPT !.at = "reopen"]
        \/ me'.at \in {"idle", "recover", "open", "forget"}
    BY <1>11 DEF Rmdir, Recovered, Idle
  <2> QED BY <1>4, <1>9, <2>1, <2>2 DEF Erased
<1>12. CASE Reopen BY <1>9, <1>12 DEF Reopen, Erased, files
<1>13. CASE Conclude
  <2> DEFINE tx == [me.tx EXCEPT !.status = me.goal]
  <2>1. me.tx \in Tx /\ me.goal \in {"failed", "rolled_back"}
    BY <1>13 DEF Conclude, AsideInv, HasTx, Engaged, Erased, ProcessAims, Taken
  <2>2. Untouched BY <1>2, <1>13, <2>1 DEF Conclude, Erased
  <2>3. tx.plan = Plan BY <2>1, TxTyped DEF Plan
  <2>4. /\ rec' = tx /\ disk' = disk /\ iso' = iso /\ me' = Recovered
    BY <1>13 DEF Conclude, Write, files
  <2>5. tx.status # "done" BY <2>1, TxTyped
  <2> HIDE DEF tx
  <2>6. RecordTrue'
    BY <2>2, <2>3, <2>4, <2>5 DEF RecordTrue, Untouched, WellPlanned, Accounted, AllOld, Old
  <2> QED BY <2>4, <2>6, RestStep DEF Recovered, Idle
<1>14. CASE Forget BY <1>4, <1>14 DEF Forget, Idle, files, record
<1>15. ASSUME disk' = disk, iso' = iso, UNCHANGED record, me'.tx = me.tx,
              me.at \in Back \cup {"reattach"}, me'.at \in Back \cup {"reattach"}
       PROVE  FilesTrue'
  BY <1>2, <1>5, <1>15 DEF record
<1>16. ASSUME NEW k \in Skill, CompensateSkip(k) PROVE FilesTrue'
  BY <1>15, <1>16 DEF CompensateSkip, Compensating, Back, files
<1>17. ASSUME NEW k \in Skill, CompensateStart(k) PROVE FilesTrue'
  BY <1>15, <1>17 DEF CompensateStart, Compensating, Back, files
<1>18. ASSUME NEW k \in Skill, NEW goal, Compensated(k, goal), disk' = disk, iso' = iso,
              UNCHANGED record, me.at \in {"unlink", "recreate"}
       PROVE  FilesTrue'
  <2>1. me'.tx = me.tx /\ me'.at \in {"reattach", "compensate"} BY <1>18 DEF Compensated
  <2> QED BY <1>15, <1>18, <2>1 DEF Back
<1>19. ASSUME NEW k \in Skill, CompensateFails(k) PROVE FilesTrue'
  BY <1>18, <1>19 DEF CompensateFails, files
<1>20. ASSUME NEW k \in Skill, CompensateUnlink(k) PROVE FilesTrue'
  BY <1>18, <1>20 DEF CompensateUnlink, files
<1>21. ASSUME NEW k \in Skill, CompensateRecreate(k) PROVE FilesTrue'
  BY <1>18, <1>21 DEF CompensateRecreate, files
<1>22. ASSUME NEW s \in Resource, Clean(s) PROVE FilesTrue'
  <2>1. /\ me.at = "clean" /\ me'.at = "clean" /\ me'.tx = me.tx /\ me'.goal = me.goal
        /\ disk' = disk /\ iso' = iso /\ rec' = rec
    BY <1>22 DEF Clean, record
  <2> QED BY <1>9, <2>1
<1> QED BY <1>7, <1>8, <1>10, <1>11, <1>12, <1>13, <1>14, <1>16, <1>17, <1>19, <1>20, <1>21,
           <1>22 DEF End

(* What a step does to one file leaves what is known of the others. *)
LEMMA OthersTrue ==
  ASSUME World, NEW s \in Resource, NEW d, NEW i,
         disk' = [disk EXCEPT ![s] = d], iso' = [iso EXCEPT ![s] = i]
  PROVE  /\ disk'[s] = d /\ iso'[s] = i
         /\ \A r \in Resource \ {s} : disk'[r] = disk[r] /\ iso'[r] = iso[r]
BY DEF World

(* The record of a transaction being carried on stays true while each of its  *)
(* files is old, new or moved aside.                                         *)
LEMMA CarriedRecord ==
  ASSUME RecordTrue, Interrupted, rec' = rec,
         \A s \in DOMAIN rec.plan : (Old(rec.plan, s) \/ Done(rec.plan, s))'
  PROVE  RecordTrue'
<1>1. WellPlanned(rec.plan) /\ WellPlanned(rec.plan)' BY DEF RecordTrue, Interrupted, WellPlanned
<1> QED BY <1>1 DEF RecordTrue, Interrupted, Accounted

LEMMA CommitAccounts == ASSUME CommitTrue, me.at \in Midway PROVE Accounted(Plan)
<1>1. ASSUME NEW s \in DOMAIN Plan PROVE Old(Plan, s) \/ Done(Plan, s)
  <2>1. CASE s \notin me.todo BY <2>1 DEF CommitTrue
  <2>2. CASE s \in me.todo \ First(me.todo) BY <2>2 DEF CommitTrue
  <2>3. CASE s \in First(me.todo) BY <2>3 DEF CommitTrue, Midway, Done
  <2> QED BY <2>1, <2>2, <2>3
<1> QED BY <1>1 DEF Accounted

LEMMA UndoAccounts == ASSUME UndoTrue, me.at \in Undoes PROVE Accounted(Plan)
<1>1. ASSUME NEW s \in DOMAIN Plan PROVE Old(Plan, s) \/ Done(Plan, s)
  <2>1. CASE s \notin me.todo BY <2>1 DEF UndoTrue
  <2>2. CASE s \in me.todo \ Final(me.todo) BY <2>2 DEF UndoTrue
  <2>3. CASE s \in Final(me.todo) BY <2>3 DEF UndoTrue, Undoes, Done
  <2> QED BY <2>1, <2>2, <2>3
<1> QED BY <1>1 DEF Accounted

LEMMA GiveUpFiles ==
  ASSUME RecordTrue, Carries, Accounted(Plan), disk' = disk, iso' = iso, rec' = rec,
         me'.at \in {"recover", "giveup"}, me'.tx = me.tx
  PROVE  FilesTrue'
<1>1. RecordTrue' BY SameFiles
<1>2. CASE me'.at = "recover" BY <1>1, <1>2, RestStep
<1>3. CASE me'.at = "giveup"
  <2>1. rec.plan = Plan /\ Plan' = Plan /\ rec # NoTx BY DEF Carries, Plan, Interrupted
  <2>2. (WellPlanned(Plan) /\ Accounted(Plan))'
    BY <2>1 DEF RecordTrue, WellPlanned, Accounted, Old, New, Moved, Done
  <2>3. (WellPlanned(Plan) /\ Accounted(Plan) /\ me.at = "giveup" => ProcessTrue)'
    BY GiveUpTrue, PTL
  <2> QED BY <1>1, <1>3, <2>2, <2>3 DEF FilesTrue
<1> QED BY <1>2, <1>3

(* One step of the commit: at the first file of the list, or past it. *)
LEMMA CommitStep ==
  ASSUME RecordTrue, Carries, me.tx \in Tx, CommitTrue, Committed, rec' = rec,
         me.at \in Midway, me'.at \in Midway, me'.tx = me.tx, me.todo \subseteq DOMAIN Plan,
         NEW s \in me.todo, First(me.todo) = {s},
         \A r \in Resource \ {s} : disk'[r] = disk[r] /\ iso'[r] = iso[r],
         \/ /\ me'.todo = me.todo
            /\ me'.at \in {"commit", "swap", "isolate"} => Old(Plan, s)'
            /\ me'.at = "swapped" => New(Plan, s)'
            /\ me'.at = "isolated" => Moved(Plan, s)'
         \/ me'.todo = me.todo \ {s} /\ me'.at = "commit" /\ Done(Plan, s)'
  PROVE  FilesTrue'
<1>1. Plan' = Plan /\ rec.plan = Plan /\ Interrupted BY DEF Carries, Plan
<1>2. DOMAIN Plan \subseteq Resource BY PlanTyped DEF Todos
<1>3. ASSUME NEW r \in DOMAIN Plan, r # s
      PROVE  (Old(Plan, r) => Old(Plan, r)') /\ (Done(Plan, r) => Done(Plan, r)')
  BY <1>1, <1>2, <1>3 DEF Old, New, Moved, Done
<1>4. \A r \in DOMAIN Plan \ me'.todo : Done(Plan, r)'
  BY <1>3 DEF CommitTrue
<1>5. \A r \in me'.todo \ {s} : Old(Plan, r)'
  BY <1>3 DEF CommitTrue
<1>6. First(me'.todo) \subseteq me'.todo BY DEF First
<1>7. CASE me'.todo = me.todo /\ First(me'.todo) = {s}
  <2>1. CommitTrue' BY <1>1, <1>4, <1>5, <1>7 DEF CommitTrue
  <2>2. (CommitTrue /\ Committed /\ me.at \in Midway => ProcessTrue)' BY CommitIsTrue, PTL
  <2>3. Committed' BY DEF Committed
  <2>4. ProcessTrue' BY <2>1, <2>2, <2>3
  <2>5. (CommitTrue /\ me.at \in Midway => Accounted(Plan))' BY CommitAccounts, PTL
  <2>6. RecordTrue' BY <1>1, <2>1, <2>5, CarriedRecord DEF Accounted
  <2> QED BY <2>4, <2>6 DEF FilesTrue
<1>8. CASE me'.todo = me.todo \ {s} /\ me'.at = "commit"
  <2>1. CommitTrue' BY <1>1, <1>4, <1>5, <1>6, <1>8 DEF CommitTrue
  <2>2. (CommitTrue /\ Committed /\ me.at \in Midway => ProcessTrue)' BY CommitIsTrue, PTL
  <2>3. Committed' BY DEF Committed
  <2>4. ProcessTrue' BY <2>1, <2>2, <2>3
  <2>5. (CommitTrue /\ me.at \in Midway => Accounted(Plan))' BY CommitAccounts, PTL
  <2>6. RecordTrue' BY <1>1, <2>1, <2>5, CarriedRecord DEF Accounted
  <2> QED BY <2>4, <2>6 DEF FilesTrue
<1> QED BY <1>7, <1>8

(* One step of the undoing: at the last file of the list, or past it. *)
LEMMA UndoStep ==
  ASSUME RecordTrue, Carries, me.tx \in Tx, UndoTrue, rec' = rec,
         me.at \in Undoes, me'.at \in Undoes, me'.tx = me.tx, me.todo \subseteq DOMAIN Plan,
         NEW s \in me.todo, Final(me.todo) = {s},
         \A r \in Resource \ {s} : disk'[r] = disk[r] /\ iso'[r] = iso[r],
         \/ /\ me'.todo = me.todo
            /\ me'.at = "undo" => Done(Plan, s)'
            /\ me'.at \in {"restore", "remove"} => New(Plan, s)'
            /\ me'.at = "remove" => Plan[s].pre = Absent
            /\ me'.at = "restored" => Old(Plan, s)'
         \/ me'.todo = me.todo \ {s} /\ me'.at = "undo" /\ Old(Plan, s)'
  PROVE  FilesTrue'
<1>1. Plan' = Plan /\ rec.plan = Plan /\ Interrupted BY DEF Carries, Plan
<1>2. DOMAIN Plan \subseteq Resource BY PlanTyped DEF Todos
<1>3. ASSUME NEW r \in DOMAIN Plan, r # s
      PROVE  (Old(Plan, r) => Old(Plan, r)') /\ (Done(Plan, r) => Done(Plan, r)')
  BY <1>1, <1>2, <1>3 DEF Old, New, Moved, Done
<1>4. \A r \in DOMAIN Plan \ me'.todo : Old(Plan, r)'
  BY <1>3 DEF UndoTrue
<1>5. \A r \in me'.todo \ {s} : Done(Plan, r)'
  BY <1>3 DEF UndoTrue
<1>6. Final(me'.todo) \subseteq me'.todo BY DEF Final
<1>7. UndoTrue'
  <2>1. CASE me'.todo = me.todo /\ Final(me'.todo) = {s}
    BY <1>1, <1>4, <1>5, <2>1 DEF UndoTrue
  <2>2. CASE me'.todo = me.todo \ {s} /\ me'.at = "undo"
    BY <1>1, <1>4, <1>5, <1>6, <2>2 DEF UndoTrue
  <2> QED BY <2>1, <2>2
<1>8. (UndoTrue /\ me.at \in Undoes => ProcessTrue)' BY UndoIsTrue, PTL
<1>9. (UndoTrue /\ me.at \in Undoes => Accounted(Plan))' BY UndoAccounts, PTL
<1>10. RecordTrue' BY <1>1, <1>7, <1>9, CarriedRecord DEF Accounted
<1> QED BY <1>7, <1>8, <1>10 DEF FilesTrue

LEMMA CommitKeepsTrue == ASSUME AsideInv, FilesTrue, Commit PROVE FilesTrue'
<1>1. me \in Me /\ World /\ RecordTrue BY TypeIs DEF AsideInv, FilesTrue
<1>2. me.at \in Midway =>
        /\ me.tx \in Tx /\ Carries /\ me.todo \subseteq DOMAIN Plan
        /\ CommitTrue /\ Committed /\ Accounted(Plan) /\ WellPlanned(Plan)
  <2> SUFFICES ASSUME me.at \in Midway
               PROVE  /\ me.tx \in Tx /\ Carries /\ me.todo \subseteq DOMAIN Plan
                      /\ CommitTrue /\ Committed /\ Accounted(Plan) /\ WellPlanned(Plan)
    OBVIOUS
  <2>1. me.tx \in Tx /\ Carries /\ me.todo \subseteq DOMAIN Plan
    BY DEF AsideInv, HasTx, ProcessAside, Engaged
  <2>2. CommitTrue /\ Committed BY DEF FilesTrue, ProcessTrue
  <2>3. WellPlanned(Plan) BY <1>1, <2>1 DEF Carries, Interrupted, Plan, RecordTrue
  <2> QED BY <2>1, <2>2, <2>3, CommitAccounts
<1>3. \A s \in First(me.todo) : s \in me.todo /\ First(me.todo) = {s}
  BY <1>1, FirstIsOne DEF Me, Todos
<1> USE <1>1 DEF At, Goto, Did, Me
<1>4. ASSUME me.at \in Midway, disk' = disk, iso' = iso, rec' = rec, me'.tx = me.tx,
             me'.at \in {"recover", "giveup"}
      PROVE  FilesTrue'
  BY <1>2, <1>4, GiveUpFiles
<1>5. ASSUME NEW conflict, Stop(conflict), me.at \in Midway PROVE FilesTrue'
  BY <1>4, <1>5 DEF Stop, record
<1>6. CASE CommitOn
  <2> DEFINE tx == [me.tx EXCEPT !.status = "committing"]
  <2>1. me.at \in Before /\ me.at \in Early BY <1>6 DEF CommitOn, Before, Early
  <2>2. me.tx \in Tx /\ Untouched
    BY <2>1, SettledTx DEF FilesTrue, ProcessTrue, Settled
  <2>3. tx \in Tx /\ tx.plan = Plan /\ tx.status = "committing"
    BY <2>2, StatusIs DEF Statuses, Plan
  <2>4. /\ rec' = tx /\ disk' = disk /\ iso' = iso /\ me'.tx = tx
        /\ me'.at = "commit" /\ me'.todo = DOMAIN Plan
    BY <1>6 DEF CommitOn, Write, files
  <2> HIDE DEF tx
  <2>5. RecordTrue'
    BY <2>2, <2>3, <2>4 DEF RecordTrue, Untouched, WellPlanned, Accounted, AllOld, Old
  <2>6. Plan' = Plan BY <2>3, <2>4 DEF Plan
  <2>7. CommitTrue' /\ Committed'
    BY <2>2, <2>3, <2>4, <2>6 DEF CommitTrue, Committed, Untouched, AllOld, Old, First
  <2>8. (CommitTrue /\ Committed /\ me.at \in Midway => ProcessTrue)' BY CommitIsTrue, PTL
  <2> QED BY <2>4, <2>5, <2>7, <2>8 DEF FilesTrue, Midway
<1>7. CASE CommitDone
  <2>1. /\ me.at = "commit" /\ me.todo = {} /\ disk' = disk /\ iso' = iso
        /\ UNCHANGED record /\ rec' = rec
        /\ me'.tx = me.tx /\ me'.at \in {"complete", "link", "finish"}
        /\ me'.at # "complete" => ~Manual
    BY <1>7 DEF CommitDone, files, record
  <2>2. \A s \in DOMAIN Plan : Done(Plan, s) BY <1>2, <2>1 DEF CommitTrue, Midway
  <2>3. Plan' = Plan /\ Committed' BY <1>2, <2>1 DEF Plan, Committed, Midway
  <2>4. CASE me'.at = "complete"
    <3>1. (\A s \in DOMAIN Plan : Done(Plan, s))'
      BY <2>1, <2>2, <2>3 DEF Done, New, Moved
    <3>2. (Committed /\ (\A s \in DOMAIN Plan : Done(Plan, s)) /\ me.at = "complete"
             => ProcessTrue)'
      BY CompleteTrue, PTL
    <3> QED BY <2>1, <2>3, <2>4, <3>1, <3>2, SameFiles DEF FilesTrue
  <2>5. CASE me'.at # "complete"
    <3>1. NoIso BY <2>1, <2>5 DEF AsideInv, ProcessAside, Midway, NoIso
    <3>2. DOMAIN Plan \subseteq Resource BY <1>2, <2>1, PlanTyped DEF Todos, Midway
    <3>3. AllNew(Plan) BY <2>2, <3>1, <3>2 DEF AllNew, Done, Moved, NoIso
    <3>4. InPlace BY <1>2, <2>1, <3>3 DEF InPlace, Midway
    <3> QED BY <2>1, <2>3, <2>5, <3>4, InPlaceStep DEF After
  <2> QED BY <2>4, <2>5
<1>8. ASSUME NEW s \in Resource, CommitConflict(s) \/ CommitUnstaged(s) PROVE FilesTrue'
  BY <1>5, <1>8 DEF CommitConflict, CommitUnstaged, Committing, Midway
<1>9. ASSUME NEW s \in Resource, CommitAbsent(s) PROVE FilesTrue'
  <2>1. /\ me.at = "commit" /\ disk' = disk /\ iso' = iso /\ rec' = rec /\ me'.tx = me.tx
        /\ me'.at = "commit" /\ me'.todo = me.todo \ {s} /\ Plan' = Plan
        /\ Plan[s].kind = "delete" /\ disk[s] = Absent
    BY <1>9 DEF CommitAbsent, Committing, files, record, Plan
  <2>2. s \in me.todo /\ First(me.todo) = {s} BY <1>3, <1>9 DEF CommitAbsent, Committing
  <2>3. me.at \in Midway BY <2>1 DEF Midway
  <2>4. Old(Plan, s) /\ Plan[s].post = Absent
    BY <1>2, <2>1, <2>2, <2>3 DEF CommitTrue, WellPlanned
  <2>5. Done(Plan, s)' BY <2>1, <2>4 DEF Old, Done, New
  <2> QED BY <1>2, <2>1, <2>2, <2>3, <2>5, CommitStep
<1>10. ASSUME NEW s \in Resource, CommitChecked(s) PROVE FilesTrue'
  <2>1. /\ me.at = "commit" /\ disk' = disk /\ iso' = iso /\ rec' = rec /\ me'.tx = me.tx
        /\ me'.at \in {"isolate", "swap"} /\ me'.todo = me.todo /\ Plan' = Plan
    BY <1>10 DEF CommitChecked, Committing, files, record, Plan
  <2>2. s \in me.todo /\ First(me.todo) = {s} BY <1>3, <1>10 DEF CommitChecked, Committing
  <2>3. me.at \in Midway /\ me'.at \in Midway BY <2>1 DEF Midway
  <2>4. Old(Plan, s)' BY <1>2, <2>1, <2>2, <2>3 DEF CommitTrue, Old
  <2> QED BY <1>2, <2>1, <2>2, <2>3, <2>4, CommitStep
<1>11. ASSUME NEW s \in Resource, Swap(s) PROVE FilesTrue'
  <2>1. /\ me.at = "swap" /\ disk' = [disk EXCEPT ![s] = Plan[s].post] /\ iso' = iso
        /\ rec' = rec /\ me'.tx = me.tx
        /\ me'.at = "swapped" /\ me'.todo = me.todo /\ Plan' = Plan
    BY <1>11 DEF Swap, record, Plan
  <2>2. s \in me.todo /\ First(me.todo) = {s} BY <1>3, <1>11 DEF Swap
  <2>3. me.at \in Midway /\ me'.at \in Midway BY <2>1 DEF Midway
  <2>4. Old(Plan, s) BY <1>2, <2>1, <2>2, <2>3 DEF CommitTrue
  <2>5. disk'[s] = Plan[s].post /\ \A r \in Resource \ {s} : disk'[r] = disk[r]
    BY <2>1 DEF World
  <2>6. New(Plan, s)' BY <2>1, <2>4, <2>5 DEF Old, New
  <2> QED BY <1>2, <2>1, <2>2, <2>3, <2>5, <2>6, CommitStep
<1>12. ASSUME NEW s \in Resource, Swapped(s) PROVE FilesTrue'
  <2>1. /\ me.at = "swapped" /\ me.at \in Midway /\ s \in me.todo /\ First(me.todo) = {s}
    BY <1>3, <1>12 DEF Swapped, Midway
  <2>2. CASE disk[s] = Plan[s].post
    <3>1. /\ disk' = disk /\ iso' = iso /\ rec' = rec /\ me'.tx = me.tx /\ Plan' = Plan
          /\ me'.at = "commit" /\ me'.todo = me.todo \ {s}
      BY <1>12, <2>2 DEF Swapped, files, record, Plan
    <3>2. New(Plan, s) BY <1>2, <2>1 DEF CommitTrue
    <3>3. Done(Plan, s)' BY <3>1, <3>2 DEF New, Done
    <3>4. me'.at \in Midway BY <3>1 DEF Midway
    <3> QED BY <1>2, <2>1, <3>1, <3>3, <3>4, CommitStep
  <2>3. CASE disk[s] # Plan[s].post BY <1>5, <1>12, <2>1, <2>3 DEF Swapped
  <2> QED BY <2>2, <2>3
<1>13. ASSUME NEW s \in Resource, Isolate(s) PROVE FilesTrue'
  <2>1. /\ me.at = "isolate" /\ iso' = [iso EXCEPT ![s] = disk[s]]
        /\ disk' = [disk EXCEPT ![s] = Absent] /\ disk[s] # Absent
        /\ rec' = rec /\ me'.tx = me.tx
        /\ me'.at = "isolated" /\ me'.todo = me.todo /\ Plan' = Plan
    BY <1>13 DEF Isolate, record, Plan
  <2>2. s \in me.todo /\ First(me.todo) = {s} BY <1>3, <1>13 DEF Isolate
  <2>3. me.at \in Midway /\ me'.at \in Midway BY <2>1 DEF Midway
  <2>4. Old(Plan, s) BY <1>2, <2>1, <2>2, <2>3 DEF CommitTrue
  <2>5. Plan[s].kind = "delete"
    BY <2>1, <2>2, <2>3 DEF AsideInv, ProcessAside, Deleted
  <2>6. /\ disk'[s] = Absent /\ iso'[s] = disk[s]
        /\ \A r \in Resource \ {s} : disk'[r] = disk[r] /\ iso'[r] = iso[r]
    BY <2>1, OthersTrue
  <2>7. Moved(Plan, s)' BY <2>1, <2>4, <2>5, <2>6 DEF Old, Moved
  <2> QED BY <1>2, <2>1, <2>2, <2>3, <2>6, <2>7, CommitStep
<1>14. ASSUME NEW s \in Resource, IsolateFails(s) \/ ReinstateFails(s) PROVE FilesTrue'
  BY <1>5, <1>14 DEF IsolateFails, ReinstateFails, Midway
<1>15. ASSUME NEW s \in Resource, Dispose(s) PROVE FilesTrue'
  <2>1. /\ me.at = "isolated" /\ iso' = [iso EXCEPT ![s] = Absent] /\ disk' = disk
        /\ rec' = rec /\ me'.tx = me.tx
        /\ me'.at = "commit" /\ me'.todo = me.todo \ {s} /\ Plan' = Plan
    BY <1>15 DEF Dispose, record, Plan
  <2>2. s \in me.todo /\ First(me.todo) = {s} BY <1>3, <1>15 DEF Dispose
  <2>3. me.at \in Midway /\ me'.at \in Midway BY <2>1 DEF Midway
  <2>4. Moved(Plan, s) /\ Plan[s].post = Absent
    BY <1>2, <2>1, <2>2, <2>3 DEF CommitTrue, WellPlanned, Moved
  <2>5. iso'[s] = Absent /\ \A r \in Resource \ {s} : iso'[r] = iso[r] BY <2>1 DEF World
  <2>6. Done(Plan, s)' BY <2>1, <2>4, <2>5 DEF Moved, Done, New
  <2> QED BY <1>2, <2>1, <2>2, <2>3, <2>5, <2>6, CommitStep
<1>16. ASSUME NEW s \in Resource, Reinstate(s) PROVE FilesTrue'
  <2>1. me.at = "isolated" /\ me.at \in Midway /\ iso[s] # Plan[s].pre /\ s \in First(me.todo)
    BY <1>16 DEF Reinstate, Midway
  <2>2. Moved(Plan, s) BY <1>2, <2>1 DEF CommitTrue
  <2> QED BY <2>1, <2>2 DEF Moved
<1> QED BY <1>6, <1>7, <1>8, <1>9, <1>10, <1>11, <1>12, <1>13, <1>14, <1>15, <1>16
        DEF Commit

LEMMA UndoKeepsTrue == ASSUME AsideInv, FilesTrue, Undo PROVE FilesTrue'
<1>1. me \in Me /\ World /\ RecordTrue BY TypeIs DEF AsideInv, FilesTrue
<1>2. me.at \in Undoes =>
        /\ me.tx \in Tx /\ Carries /\ me.todo \subseteq DOMAIN Plan
        /\ UndoTrue /\ Accounted(Plan) /\ WellPlanned(Plan)
  <2> SUFFICES ASSUME me.at \in Undoes
               PROVE  /\ me.tx \in Tx /\ Carries /\ me.todo \subseteq DOMAIN Plan
                      /\ UndoTrue /\ Accounted(Plan) /\ WellPlanned(Plan)
    OBVIOUS
  <2>1. me.tx \in Tx /\ Carries /\ me.todo \subseteq DOMAIN Plan
    BY DEF AsideInv, HasTx, ProcessAside, Engaged
  <2>2. UndoTrue BY DEF FilesTrue, ProcessTrue
  <2>3. WellPlanned(Plan) BY <1>1, <2>1 DEF Carries, Interrupted, Plan, RecordTrue
  <2> QED BY <2>1, <2>2, <2>3, UndoAccounts
<1>3. \A s \in Final(me.todo) : s \in me.todo /\ Final(me.todo) = {s}
  BY <1>1, FirstIsOne DEF Me, Todos
<1> USE <1>1 DEF At, Goto, Did, Me
<1>4. ASSUME me.at \in Undoes, disk' = disk, iso' = iso, rec' = rec, me'.tx = me.tx,
             me'.at = "giveup"
      PROVE  FilesTrue'
  BY <1>2, <1>4, GiveUpFiles
<1>5. CASE UndoDone
  <2>1. /\ me.at = "undo" /\ me.todo = {} /\ disk' = disk /\ iso' = iso /\ UNCHANGED record
        /\ me'.tx = me.tx /\ me'.at = "unmark" /\ Plan' = Plan
    BY <1>5 DEF UndoDone, files, Plan
  <2>2. Untouched BY <1>2, <2>1 DEF UndoTrue, Undoes, Untouched, AllOld
  <2> QED BY <2>1, <2>2, UntouchedStep DEF Back
<1>6. ASSUME NEW s \in Resource, UndoNothing(s) PROVE FilesTrue'
  <2>1. /\ me.at = "undo" /\ disk' = disk /\ iso' = iso /\ rec' = rec /\ me'.tx = me.tx
        /\ me'.at = "undo" /\ me'.todo = me.todo \ {s} /\ Plan' = Plan /\ Undone(s)
    BY <1>6 DEF UndoNothing, Undoing, files, record, Plan
  <2>2. s \in me.todo /\ Final(me.todo) = {s} BY <1>3, <1>6 DEF UndoNothing, Undoing
  <2>3. me.at \in Undoes BY <2>1 DEF Undoes
  <2>4. Done(Plan, s) /\ (Plan[s].kind = "delete" => Plan[s].post = Absent)
    BY <1>2, <2>1, <2>2, <2>3 DEF UndoTrue, WellPlanned
  <2>5. Old(Plan, s) BY <2>1, <2>4 DEF Undone, Done, New, Moved, Old
  <2>6. Old(Plan, s)' BY <2>1, <2>5 DEF Old
  <2> QED BY <1>2, <2>1, <2>2, <2>3, <2>6, UndoStep
<1>7. ASSUME NEW s \in Resource, UndoIsolated(s) PROVE FilesTrue'
  <2>1. /\ me.at = "undo" /\ disk' = [disk EXCEPT ![s] = iso[s]]
        /\ iso' = [iso EXCEPT ![s] = Absent] /\ rec' = rec /\ me'.tx = me.tx
        /\ me'.at = "undo" /\ me'.todo = me.todo \ {s} /\ Plan' = Plan
        /\ iso[s] = Plan[s].pre
    BY <1>7 DEF UndoIsolated, Undoing, record, Plan
  <2>2. s \in me.todo /\ Final(me.todo) = {s} BY <1>3, <1>7 DEF UndoIsolated, Undoing
  <2>3. me.at \in Undoes BY <2>1 DEF Undoes
  <2>4. /\ disk'[s] = iso[s] /\ iso'[s] = Absent
        /\ \A r \in Resource \ {s} : disk'[r] = disk[r] /\ iso'[r] = iso[r]
    BY <2>1, OthersTrue
  <2>5. Old(Plan, s)' BY <2>1, <2>4 DEF Old
  <2> QED BY <1>2, <2>1, <2>2, <2>3, <2>4, <2>5, UndoStep
<1>8. ASSUME NEW s \in Resource, UndoTemporary(s) \/ UndoRemovable(s) PROVE FilesTrue'
  <2>1. /\ me.at = "undo" /\ InForce(s) /\ s \in Final(me.todo)
        /\ disk' = disk /\ iso' = iso /\ rec' = rec /\ Plan' = Plan
        /\ me'.tx = me.tx /\ me'.at \in {"restore", "remove"} /\ me'.todo = me.todo
        /\ me'.at = "remove" => Plan[s].pre = Absent
    BY <1>8 DEF UndoTemporary, UndoRemovable, Restorable, Removable, Undoing, files, record, Plan
  <2>2. s \in me.todo /\ Final(me.todo) = {s} BY <1>3, <2>1
  <2>3. me.at \in Undoes /\ me'.at \in Undoes BY <2>1 DEF Undoes
  <2>4. New(Plan, s)' BY <2>1 DEF InForce, New
  <2> QED BY <1>2, <2>1, <2>2, <2>3, <2>4, UndoStep
<1>9. ASSUME NEW s \in Resource, UndoFails(s) PROVE FilesTrue'
  BY <1>4, <1>9 DEF UndoFails, Undoing, files, record, Undoes
<1>10. ASSUME NEW s \in Resource, Restore(s) PROVE FilesTrue'
  <2>1. /\ me.at = "restore" /\ disk' = [disk EXCEPT ![s] = Plan[s].pre] /\ iso' = iso
        /\ rec' = rec /\ me'.tx = me.tx /\ Plan' = Plan
        /\ me'.at = "restored" /\ me'.todo = me.todo
    BY <1>10 DEF Restore, record, Plan
  <2>2. s \in me.todo /\ Final(me.todo) = {s} BY <1>3, <1>10 DEF Restore
  <2>3. me.at \in Undoes /\ me'.at \in Undoes BY <2>1 DEF Undoes
  <2>4. New(Plan, s) BY <1>2, <2>1, <2>2, <2>3 DEF UndoTrue
  <2>5. disk'[s] = Plan[s].pre /\ \A r \in Resource \ {s} : disk'[r] = disk[r]
    BY <2>1 DEF World
  <2>6. Old(Plan, s)' BY <2>1, <2>4, <2>5 DEF New, Old
  <2> QED BY <1>2, <2>1, <2>2, <2>3, <2>5, <2>6, UndoStep
<1>11. ASSUME NEW s \in Resource, Restored(s) PROVE FilesTrue'
  <2>1. /\ me.at = "restored" /\ me.at \in Undoes /\ s \in me.todo /\ Final(me.todo) = {s}
    BY <1>3, <1>11 DEF Restored, Undoes
  <2>2. Old(Plan, s) BY <1>2, <2>1 DEF UndoTrue
  <2>3. /\ disk' = disk /\ iso' = iso /\ rec' = rec /\ me'.tx = me.tx /\ Plan' = Plan
        /\ me'.at = "undo" /\ me'.todo = me.todo \ {s}
    BY <1>11, <2>2 DEF Restored, Old, files, record, Plan
  <2>4. Old(Plan, s)' /\ me'.at \in Undoes BY <2>2, <2>3 DEF Old, Undoes
  <2> QED BY <1>2, <2>1, <2>3, <2>4, UndoStep
<1>12. ASSUME NEW s \in Resource, Remove(s) PROVE FilesTrue'
  <2>1. /\ me.at = "remove" /\ disk' = [disk EXCEPT ![s] = Absent] /\ iso' = iso
        /\ rec' = rec /\ me'.tx = me.tx /\ Plan' = Plan
        /\ me'.at = "undo" /\ me'.todo = me.todo \ {s}
    BY <1>12 DEF Remove, record, Plan
  <2>2. s \in me.todo /\ Final(me.todo) = {s} BY <1>3, <1>12 DEF Remove
  <2>3. me.at \in Undoes /\ me'.at \in Undoes BY <2>1 DEF Undoes
  <2>4. New(Plan, s) /\ Plan[s].pre = Absent BY <1>2, <2>1, <2>2, <2>3 DEF UndoTrue
  <2>5. disk'[s] = Absent /\ \A r \in Resource \ {s} : disk'[r] = disk[r]
    BY <2>1 DEF World
  <2>6. Old(Plan, s)' BY <2>1, <2>4, <2>5 DEF New, Old
  <2> QED BY <1>2, <2>1, <2>2, <2>3, <2>5, <2>6, UndoStep
<1> QED BY <1>5, <1>6, <1>7, <1>8, <1>9, <1>10, <1>11, <1>12 DEF Undo

LEMMA RollForwardTrue == ASSUME AsideInv, FilesTrue, RollForward PROVE FilesTrue'
<1>1. me \in Me /\ World /\ RecordTrue BY TypeIs DEF AsideInv, FilesTrue
<1>2. me.at = "complete" =>
        /\ me.tx \in Tx /\ Carries /\ WellPlanned(Plan) /\ Committed
        /\ \A s \in DOMAIN Plan : Done(Plan, s)
  <2> SUFFICES ASSUME me.at = "complete"
               PROVE  /\ me.tx \in Tx /\ Carries /\ WellPlanned(Plan) /\ Committed
                      /\ \A s \in DOMAIN Plan : Done(Plan, s)
    OBVIOUS
  <2>1. me.tx \in Tx /\ Carries BY DEF AsideInv, HasTx, ProcessAside, Engaged
  <2>2. WellPlanned(Plan) BY <1>1, <2>1 DEF Carries, Interrupted, Plan, RecordTrue
  <2> QED BY <2>1, <2>2 DEF FilesTrue, ProcessTrue
<1>3. me.at \in After => me.tx \in Tx /\ InPlace /\ Committed
  BY SettledTx DEF FilesTrue, ProcessTrue, Settled
<1> USE <1>1 DEF At, Goto, Me
<1>4. CASE Complete
  <2>1. /\ me.at = "complete" /\ ~Stuck /\ disk' = disk /\ iso' = iso /\ UNCHANGED record
        /\ me'.tx = me.tx /\ Plan' = Plan /\ me'.goal = "done" /\ me'.at \in {"relink", "detach"}
    BY <1>4 DEF Complete, files, Plan
  <2>2. InPlace BY <1>2, <2>1 DEF Stuck, InPlace, AllNew, Done, Moved
  <2>3. Committed' /\ Forward' BY <1>2, <2>1 DEF Committed, Forward
  <2> QED BY <2>1, <2>2, <2>3, InPlaceStep DEF After, Detaching
<1>5. CASE CompleteFails
  <2>1. /\ me.at = "complete" /\ disk' = disk /\ iso' = iso /\ rec' = rec
        /\ me'.tx = me.tx /\ me'.at = "giveup"
    BY <1>5 DEF CompleteFails, files, record
  <2>2. Accounted(Plan) BY <1>2, <2>1 DEF Accounted
  <2> QED BY <1>2, <2>1, <2>2, GiveUpFiles
<1>6. ASSUME me.at = "relink", disk' = disk, iso' = iso, UNCHANGED record, me'.tx = me.tx,
             me'.at \in After \cup {"giveup"}
      PROVE  FilesTrue'
  <2>1. Plan' = Plan /\ Committed' /\ InPlace BY <1>3, <1>6 DEF Plan, Committed, After
  <2> QED BY <1>6, <2>1, InPlaceStep
<1>7. CASE RelinkDone BY <1>6, <1>7 DEF RelinkDone, After, files
<1>8. CASE Finish
  <2> DEFINE tx == [me.tx EXCEPT !.status = "done"]
  <2>1. me.tx \in Tx /\ InPlace BY <1>3, <1>8 DEF Finish, After
  <2>2. tx \in Tx /\ tx.plan = Plan /\ tx.status = "done" BY <2>1, StatusIs DEF Statuses, Plan
  <2>3. /\ Write(tx) /\ disk' = disk /\ iso' = iso /\ me'.at = "clean" /\ me'.goal = "done"
    BY <1>8 DEF Finish, files
  <2> HIDE DEF tx
  <2> QED BY <2>1, <2>2, <2>3, InPlaceStep
<1>9. (Committed /\ (\A s \in DOMAIN Plan : Done(Plan, s)) /\ me.at = "complete"
          => ProcessTrue)'
  BY CompleteTrue, PTL
<1>10. ASSUME NEW s \in Resource, CompleteDeletion(s) PROVE FilesTrue'
  <2>1. /\ me.at = "complete" /\ iso' = [iso EXCEPT ![s] = Absent] /\ disk' = disk
        /\ rec' = rec /\ me' = me /\ s \in DOMAIN Plan /\ iso[s] # Absent
    BY <1>10 DEF CompleteDeletion, record
  <2>2. iso'[s] = Absent /\ \A r \in Resource \ {s} : iso'[r] = iso[r] BY <2>1 DEF World
  <2>3. Moved(Plan, s) /\ Plan[s].post = Absent
    BY <1>2, <2>1 DEF Done, New, WellPlanned, Moved
  <2>4. Plan' = Plan /\ rec.plan = Plan /\ Interrupted /\ Committed'
    BY <1>2, <2>1 DEF Plan, Carries, Committed
  <2>5. DOMAIN Plan \subseteq Resource BY <1>2, <2>1, PlanTyped DEF Todos
  <2>6. New(Plan, s)' BY <2>1, <2>2, <2>3, <2>4 DEF Moved, New
  <2>7. ASSUME NEW r \in DOMAIN Plan \ {s} PROVE Done(Plan, r)'
    BY <1>2, <2>1, <2>2, <2>4, <2>5 DEF Done, New, Moved
  <2>8. (\A r \in DOMAIN Plan : Done(Plan, r))' BY <2>4, <2>6, <2>7 DEF Done
  <2>9. RecordTrue' BY <2>1, <2>4, <2>8, CarriedRecord
  <2> QED BY <1>9, <2>1, <2>4, <2>8, <2>9 DEF FilesTrue
<1>11. ASSUME NEW k \in Skill, Relink(k) PROVE FilesTrue'
  BY <1>6, <1>11 DEF Relink, After, files
<1>12. ASSUME NEW k \in Skill, RelinkOccupied(k) PROVE FilesTrue'
  BY <1>6, <1>12 DEF RelinkOccupied, After, files
<1> QED BY <1>4, <1>5, <1>7, <1>8, <1>10, <1>11, <1>12 DEF RollForward

(* As long as nobody edits the files, each is known in every state. *)
LEMMA TrueHolds == Spec => [](AsideInv /\ FilesTrue)
<1>1. Init => FilesTrue
  <2> SUFFICES ASSUME Init PROVE FilesTrue OBVIOUS
  <2>1. me.at = "idle" /\ rec = NoTx BY DEF Init, Idle
  <2> QED BY <2>1, RestTrue DEF FilesTrue, RecordTrue
<1>2. AsideInv /\ FilesTrue /\ [Next]_vars => FilesTrue'
  <2> SUFFICES ASSUME AsideInv, FilesTrue, [Next]_vars PROVE FilesTrue' OBVIOUS
  <2>1. ASSUME NEW c \in Commands, NEW root \in BOOLEAN, Begin(c, root) PROVE FilesTrue'
    <3>1. me \in Me BY TypeIs DEF AsideInv
    <3>2. disk' = disk /\ iso' = iso /\ rec' = rec /\ me'.at = "recover"
      BY <2>1, <3>1 DEF Begin, Me, files, record
    <3> QED BY <3>2, SameFiles, RestStep DEF FilesTrue
  <2>2. CASE Proceed
    BY <2>2, DecideTrue, PrepareTrue, DetachTrue, CommitKeepsTrue, ExposeTrue, UndoKeepsTrue,
       EndTrue, RollForwardTrue DEF Proceed
  <2>3. CASE Abort
    <3>1. disk' = disk /\ iso' = iso /\ rec' = rec /\ me'.at = "idle"
      BY <2>3 DEF Abort, files, Idle
    <3> QED BY <3>1, SameFiles, RestStep DEF FilesTrue
  <2>4. CASE UNCHANGED vars
    <3>1. disk' = disk /\ iso' = iso /\ rec' = rec /\ me' = me
      BY <2>4 DEF vars, files, record
    <3> QED BY <3>1 DEF FilesTrue, RecordTrue, ProcessTrue, CommitTrue, UndoTrue, Begun,
                        Committed, Untouched, InPlace, WellPlanned, Accounted, AllOld, AllNew,
                        Old, New, Moved, Done, Plan, Forward
  <2> QED BY <2>1, <2>2, <2>3, <2>4 DEF Next
<1>3. [Next]_vars => [EditNext]_vars BY DEF EditNext
<1>4. Spec => EditSpec BY <1>3, PTL DEF Spec, EditSpec
<1> QED BY <1>1, <1>2, <1>4, AsideHolds, PTL DEF Spec

(* A transaction on disk as done has put every planned file in place, one     *)
(* that failed or was rolled back has left every planned file as it was --    *)
(* wherever it was killed and however its recovery was cut short, as long as  *)
(* nobody else touches the target (Spec, not EditSpec).                      *)
THEOREM WholeOrNot == Spec => []AllOrNothing
<1>1. FilesTrue => AllOrNothing
  BY DEF FilesTrue, RecordTrue, AllOrNothing, AllOld, AllNew, Old, New
<1> QED BY <1>1, TrueHolds, PTL

-----------------------------------------------------------------------------

(* What is moved aside changes in few places. *)
LEMMA IsoSteps ==
  ASSUME EditNext
  PROVE  \/ iso' = iso \/ Open
         \/ \E s \in Resource : \/ Isolate(s) \/ Dispose(s) \/ Reinstate(s)
                                \/ UndoIsolated(s) \/ CompleteDeletion(s)
<1>1. CASE \E c \in Commands : \E root \in BOOLEAN : Begin(c, root) BY <1>1 DEF Begin, files
<1>2. CASE Decide
  BY <1>2 DEF Decide, RecoverNothing, RecoverBlocked, RecoverClean, RecoverConflict, RecoverUndo,
              RecoverRedo, RecoverFinish, GiveUp, files
<1>3. CASE Prepare
  BY <1>3 DEF Prepare, OpenRefuse, FirstRecord, PlanFails, PlanOne, MakePlan, WritePlan, Classify,
              StageOn, StageInvalid, StageDone, BackupDone, Mark, MarkWrite, StageOne, BackupOne,
              BackupFails, files
<1>4. CASE Detach
  BY <1>4 DEF Detach, DetachPlan, DetachDone, ReattachDone, DetachSkip, DetachStart, DetachOrphan,
              DetachMove, DetachFails, DetachDispose, DetachRestore, Detached, files
<1>5. CASE Commit
  BY <1>5 DEF Commit, CommitOn, CommitDone, CommitConflict, CommitAbsent, CommitChecked,
              CommitUnstaged, Swap, Swapped, IsolateFails, ReinstateFails, Stop, files
<1>6. CASE Expose
  BY <1>6 DEF Expose, LinksDone, LinkIntent, Symlink, SymlinkRaises, Linked, files
<1>7. CASE Undo
  BY <1>7 DEF Undo, UndoDone, UndoNothing, UndoTemporary, UndoRemovable, UndoFails, Restore,
              Restored, Remove, files
<1>8. CASE End
  BY <1>8 DEF End, Unmark, CompensateDone, CleanRecord, Rmdir, Reopen, Conclude, Forget,
              CompensateSkip, CompensateStart, CompensateFails, CompensateUnlink,
              CompensateRecreate, Clean, files
<1>9. CASE RollForward
  BY <1>9 DEF RollForward, Complete, CompleteFails, RelinkDone, Finish, Relink, RelinkOccupied,
              files
<1>10. CASE Abort BY <1>10 DEF Abort, files
<1>11. CASE \/ \E s \in Resource : \E v \in {Mine, Absent} : EditFile(s, v)
            \/ \E k \in Skill : \E v \in {"theirs", "absent"} : EditLink(k, v)
  BY <1>11 DEF EditFile, EditLink, files
<1> QED BY <1>1, <1>2, <1>3, <1>4, <1>5, <1>6, <1>7, <1>8, <1>9, <1>10, <1>11
        DEF EditNext, Next, Proceed

(* The bytes a strict deletion destroys are the planned ones; any others it   *)
(* moved aside leave only for their old place, however edits race with it.    *)
THEOREM DeletionsSpareEdits == EditSpec => DeletesSpareEdits
<1> DEFINE Spared(s) == iso[s] # Absent /\ iso'[s] = Absent
                           => disk'[s] = iso[s] \/ iso[s] = me.tx.plan[s].pre
<1>1. AsideInv /\ [EditNext]_vars => [\A s \in Resource : Spared(s)]_vars
  <2> SUFFICES ASSUME AsideInv, EditNext, NEW s \in Resource, iso[s] # Absent, iso'[s] = Absent
               PROVE  disk'[s] = iso[s] \/ iso[s] = me.tx.plan[s].pre
    BY DEF Spared
  <2>1. World BY TypeIs DEF AsideInv
  <2>2. ~Open
    <3>1. Interrupted BY DEF AsideInv, RecordAside
    <3> QED BY <3>1 DEF Open, At, AsideInv, ProcessAside, Over, Interrupted
  <2>3. PICK r \in Resource : \/ Isolate(r) \/ Dispose(r) \/ Reinstate(r)
                              \/ UndoIsolated(r) \/ CompleteDeletion(r)
    BY <2>2, IsoSteps
  <2>4. CASE Isolate(r)
    <3>1. iso' = [iso EXCEPT ![r] = disk[r]] /\ disk[r] # Absent BY <2>4 DEF Isolate
    <3> QED BY <2>1, <3>1 DEF World
  <2>5. CASE Dispose(r)
    <3>1. iso' = [iso EXCEPT ![r] = Absent] /\ iso[r] = me.tx.plan[r].pre
      BY <2>5 DEF Dispose, Plan
    <3>2. r = s BY <2>1, <3>1 DEF World
    <3> QED BY <3>1, <3>2
  <2>6. CASE Reinstate(r) \/ UndoIsolated(r)
    <3>1. iso' = [iso EXCEPT ![r] = Absent] /\ disk' = [disk EXCEPT ![r] = iso[r]]
      BY <2>6 DEF Reinstate, UndoIsolated
    <3>2. r = s BY <2>1, <3>1 DEF World
    <3> QED BY <2>1, <3>1, <3>2 DEF World
  <2>7. CASE CompleteDeletion(r)
    <3>1. iso' = [iso EXCEPT ![r] = Absent] /\ iso[r] = me.tx.plan[r].pre
      BY <2>7 DEF CompleteDeletion, Plan
    <3>2. r = s BY <2>1, <3>1 DEF World
    <3> QED BY <3>1, <3>2
  <2> QED BY <2>3, <2>4, <2>5, <2>6, <2>7
<1> QED BY <1>1, AsideHolds, PTL DEF EditSpec, DeletesSpareEdits, Spared

(* Only the steps of a link's removal happen while one is being removed. *)
LEMMA RemovalSteps ==
  ASSUME EditNext, me.at \in {"detach", "aside", "moved"}, edits \in Nat, edits' = edits
  PROVE  \/ link' = link /\ away' = away
         \/ \E k \in Skill : DetachOrphan(k) \/ DetachMove(k) \/ DetachDispose(k)
                             \/ DetachRestore(k)
<1> USE DEF At
<1>1. ~ \E c \in Commands : \E root \in BOOLEAN : Begin(c, root) BY DEF Begin
<1>2. CASE Decide
  BY <1>2 DEF Decide, RecoverNothing, RecoverBlocked, RecoverClean, RecoverConflict, RecoverUndo,
              RecoverRedo, RecoverFinish, GiveUp, outside
<1>3. CASE Prepare
  BY <1>3 DEF Prepare, OpenRefuse, Open, FirstRecord, PlanFails, PlanOne, MakePlan, WritePlan,
              Classify, StageOn, StageInvalid, StageDone, BackupDone, Mark, MarkWrite, StageOne,
              BackupOne, BackupFails, outside
<1>4. CASE Detach
  BY <1>4 DEF Detach, DetachPlan, DetachDone, ReattachDone, DetachSkip, DetachStart, DetachFails,
              Detached, outside
<1>5. CASE Commit
  BY <1>5 DEF Commit, CommitOn, CommitDone, CommitConflict, CommitAbsent, CommitChecked,
              CommitUnstaged, Swap, Swapped, Isolate, IsolateFails, Dispose, Reinstate,
              ReinstateFails, Stop, outside
<1>6. ~Expose BY DEF Expose, LinksDone, LinkIntent, Symlink, SymlinkRaises, Linked
<1>7. CASE Undo
  BY <1>7 DEF Undo, UndoDone, UndoNothing, UndoIsolated, UndoTemporary, UndoRemovable, UndoFails,
              Restore, Restored, Remove, outside
<1>8. ~End
  BY DEF End, Unmark, CompensateDone, CleanRecord, Rmdir, Reopen, Conclude, Forget,
         CompensateSkip, CompensateStart, Compensating, CompensateFails, CompensateUnlink,
         CompensateRecreate, Clean
<1>9. ~RollForward
  BY DEF RollForward, Complete, CompleteFails, RelinkDone, Finish, CompleteDeletion, Relink,
         RelinkOccupied
<1>10. CASE Abort BY <1>10 DEF Abort
<1>11. ~ \E k \in Skill : \E v \in {"theirs", "absent"} : EditLink(k, v) BY DEF EditLink
<1>12. CASE \E s \in Resource : \E v \in {Mine, Absent} : EditFile(s, v)
  BY <1>12 DEF EditFile, outside
<1> QED BY <1>1, <1>2, <1>3, <1>4, <1>5, <1>6, <1>7, <1>8, <1>9, <1>10, <1>11, <1>12
        DEF EditNext, Next, Proceed

(* While a link is being removed, what somebody else put under its name       *)
(* survives, there or moved aside: no step of the removal destroys it, and    *)
(* none puts an older orphan back over it.                                   *)
THEOREM RemovalsSpareLinks == EditSpec => RemovalSparesLinks
<1>1. TypeOK /\ [EditNext]_vars
        => [edits' = edits /\ me.at \in {"detach", "aside", "moved"}
              => \A k \in Skill : TheirsKept(k)]_vars
  <2> SUFFICES ASSUME TypeOK, EditNext, edits' = edits, me.at \in {"detach", "aside", "moved"},
                      NEW k \in Skill
               PROVE  TheirsKept(k)
    OBVIOUS
  <2>1. World BY TypeIs
  <2> USE DEF TheirsKept, World
  <2>2. CASE link' = link /\ away' = away BY <2>2
  <2>3. ASSUME NEW j \in Skill, DetachOrphan(j) PROVE TheirsKept(k)
    <3>1. CASE j = k BY <2>1, <2>3, <3>1 DEF DetachOrphan
    <3>2. CASE j # k BY <2>1, <2>3, <3>2 DEF DetachOrphan
    <3> QED BY <3>1, <3>2
  <2>4. ASSUME NEW j \in Skill, DetachMove(j) PROVE TheirsKept(k)
    BY <2>1, <2>4 DEF DetachMove
  <2>5. ASSUME NEW j \in Skill, DetachDispose(j) PROVE TheirsKept(k)
    BY <2>1, <2>5 DEF DetachDispose
  <2>6. ASSUME NEW j \in Skill, DetachRestore(j) PROVE TheirsKept(k)
    BY <2>1, <2>6 DEF DetachRestore
  <2> QED BY <2>1, <2>2, <2>3, <2>4, <2>5, <2>6, RemovalSteps
<1> QED BY <1>1, InstallTypeCorrect, PTL DEF EditSpec, RemovalSparesLinks

-----------------------------------------------------------------------------
(* What an undo needs, as long as a transaction rolled forward by hand has its *)
(* backups.                                                                  *)

BackedUp(p) == \A s \in DOMAIN p : p[s].pre # Absent => s \in backup
Kept(p)     == BackedUp(p) \/ AllOld(p)
Commits     == rec # NoTx /\ rec.status = "committing"

(* The places between the last backup and the commit. *)
Ready == {"mark", "mark-write", "detach-plan", "commit-on"}

(* A transaction on disk as committing has its backups, or they were removed   *)
(* after everything had been put back.                                       *)
RecordKept == Commits => Kept(rec.plan)

ProcessKept ==
    /\ me.at = "backup" => \A s \in DOMAIN Plan \ me.todo : Plan[s].pre # Absent => s \in backup
    /\ me.at \in Ready \cup Midway => BackedUp(Plan)
    /\ me.at \in Detaching => IF Forward THEN Kept(Plan) ELSE BackedUp(Plan) /\ ~Commits
    /\ me.at \in After \cup {"complete"} => Kept(Plan)
    /\ me.at \in Early => ~Commits
    /\ me.at \in Back \cup {"reattach", "clean"} /\ Commits => AllOld(rec.plan)

KeptInv == RecordKept /\ ProcessKept

(* Which of them a place asks for. *)
LEMMA KeptRest ==
  me.at \in {"idle", "recover", "open", "first", "forget", "giveup"} \cup Undoes \cup Erased
    => ProcessKept
BY DEF ProcessKept, Ready, Before, Early, Back, Detaching, Erased, After, Midway, Undoes

LEMMA KeptBack ==
  me.at \in Back \cup {"reattach", "clean"} /\ (Commits => AllOld(rec.plan)) => ProcessKept
BY DEF ProcessKept, Ready, Before, Early, Back, Detaching, Erased, After, Midway, Undoes

LEMMA KeptEarly ==
  /\ me.at \in Early /\ ~Commits
  /\ me.at \in Ready => BackedUp(Plan)
  /\ me.at = "backup" => \A s \in DOMAIN Plan \ me.todo : Plan[s].pre # Absent => s \in backup
  => ProcessKept
BY DEF ProcessKept, Ready, Before, Early, Back, Detaching, Erased, After, Midway, Undoes

LEMMA KeptDetaching ==
  me.at \in Detaching /\ (IF Forward THEN Kept(Plan) ELSE BackedUp(Plan) /\ ~Commits)
    => ProcessKept
BY DEF ProcessKept, Ready, Before, Early, Back, Detaching, Erased, After, Midway, Undoes

LEMMA KeptMidway == me.at \in Midway /\ BackedUp(Plan) => ProcessKept
BY DEF ProcessKept, Ready, Before, Early, Back, Detaching, Erased, After, Midway, Undoes

LEMMA KeptAfter == me.at \in After \cup {"complete"} /\ Kept(Plan) => ProcessKept
BY DEF ProcessKept, Ready, Before, Early, Back, Detaching, Erased, After, Midway, Undoes

(* Nothing changes while files and backups stay as they are. *)
LEMMA SameKept ==
  ASSUME disk' = disk, iso' = iso, backup' = backup
  PROVE  /\ rec' = rec => /\ (Commits' <=> Commits) /\ (RecordKept => RecordKept')
                          /\ (AllOld(rec.plan) => AllOld(rec.plan)')
         /\ Plan' = Plan => /\ (BackedUp(Plan) => BackedUp(Plan)')
                            /\ (Kept(Plan) => Kept(Plan)')
BY DEF RecordKept, Commits, Kept, BackedUp, AllOld, Old, Plan

(* A step to a place that asks for nothing, the files staying as they are. *)
LEMMA KeptRestStep ==
  ASSUME KeptInv, disk' = disk, iso' = iso, backup' = backup, rec' = rec \/ ~Commits',
         me'.at \in {"idle", "recover", "open", "first", "forget", "giveup"} \cup Undoes
                      \cup Erased
  PROVE  KeptInv'
<1>1. (me.at \in {"idle", "recover", "open", "first", "forget", "giveup"} \cup Undoes
         \cup Erased => ProcessKept)'
  BY KeptRest, PTL
<1>2. RecordKept' BY SameKept DEF KeptInv, RecordKept
<1> QED BY <1>1, <1>2 DEF KeptInv

(* A step that leaves the record at a status in which nothing was committed. *)
LEMMA KeptEarlyStep ==
  ASSUME ~Commits', me'.at \in Early \cup Back \cup {"clean", "reattach"},
         me'.at \in Ready => BackedUp(Plan)',
         me'.at # "backup"
  PROVE  KeptInv'
<1>1. (/\ me.at \in Early /\ ~Commits
       /\ me.at \in Ready => BackedUp(Plan)
       /\ me.at = "backup" => \A s \in DOMAIN Plan \ me.todo : Plan[s].pre # Absent => s \in backup
       => ProcessKept)'
  BY KeptEarly, PTL
<1>2. (me.at \in Back \cup {"reattach", "clean"} /\ (Commits => AllOld(rec.plan))
         => ProcessKept)'
  BY KeptBack, PTL
<1> QED BY <1>1, <1>2 DEF KeptInv, RecordKept

LEMMA DecideKept ==
  ASSUME AsideInv, FilesTrue, KeptInv, Decide, RecoverRedo => BackedUp(rec.plan)
  PROVE  KeptInv'
<1>1. me \in Me /\ World BY TypeIs DEF AsideInv
<1>2. rec # NoTx => rec \in Tx BY <1>1 DEF World, Held
<1> USE <1>1 DEF At, Goto, Me
<1>3. UNCHANGED <<files, outside, record, env>> =>
        disk' = disk /\ iso' = iso /\ backup' = backup /\ rec' = rec
  BY DEF files, record
<1>4. CASE RecoverNothing BY <1>3, <1>4, KeptRestStep DEF RecoverNothing, Recovered, Idle
<1>5. CASE RecoverBlocked BY <1>3, <1>5, KeptRestStep DEF RecoverBlocked, Idle
<1>6. CASE RecoverClean
  <2>1. ~Commits BY <1>6 DEF RecoverClean, Commits, Status
  <2>2. ~Commits' /\ me'.at = "unmark" BY <1>3, <1>6, <2>1, SameKept DEF RecoverClean
  <2> QED BY <2>2, KeptEarlyStep DEF Back, Ready
<1>7. CASE RecoverConflict BY <1>3, <1>7, KeptRestStep DEF RecoverConflict
<1>8. CASE RecoverUndo BY <1>3, <1>8, KeptRestStep DEF RecoverUndo, Undoes
<1>9. CASE RecoverRedo
  <2>1. /\ disk' = disk /\ iso' = iso /\ backup' = backup /\ rec' = rec
        /\ me'.at = "commit" /\ Plan' = rec.plan
    BY <1>3, <1>9 DEF RecoverRedo, Plan
  <2>2. BackedUp(Plan)' BY <1>9, <2>1 DEF BackedUp
  <2>3. (me.at \in Midway /\ BackedUp(Plan) => ProcessKept)' BY KeptMidway, PTL
  <2> QED BY <2>1, <2>2, <2>3, SameKept DEF KeptInv, Midway
<1>10. CASE RecoverFinish
  <2>1. Commits
    BY <1>2, <1>10 DEF RecoverFinish, Classified, Recovering, Status, Commits
  <2>2. Kept(rec.plan) BY <2>1 DEF KeptInv, RecordKept
  <2>3. /\ disk' = disk /\ iso' = iso /\ backup' = backup /\ rec' = rec
        /\ me'.at = "complete" /\ Plan' = rec.plan
    BY <1>3, <1>10 DEF RecoverFinish, Plan
  <2>4. Kept(Plan)' BY <2>2, <2>3 DEF Kept, BackedUp, AllOld, Old
  <2>5. (me.at \in After \cup {"complete"} /\ Kept(Plan) => ProcessKept)' BY KeptAfter, PTL
  <2> QED BY <2>3, <2>4, <2>5, SameKept DEF KeptInv
<1>11. CASE GiveUp
  <2>1. me.tx \in Tx BY <1>11 DEF GiveUp, AsideInv, HasTx, Engaged
  <2>2. rec'.status = "needs_human" BY <1>11, <2>1, StatusIs DEF GiveUp, Write, Statuses
  <2>3. disk' = disk /\ iso' = iso /\ backup' = backup /\ ~Commits' /\ me'.at = "idle"
    BY <1>11, <2>2 DEF GiveUp, Commits, Idle, files
  <2> QED BY <2>3, KeptRestStep
<1> QED BY <1>4, <1>5, <1>6, <1>7, <1>8, <1>9, <1>10, <1>11 DEF Decide

LEMMA PrepareKept == ASSUME AsideInv, FilesTrue, KeptInv, Prepare PROVE KeptInv'
<1>1. me \in Me /\ World BY TypeIs DEF AsideInv
<1>2. me.at \in Early => me.tx \in Tx /\ Begun /\ ~Commits
  BY SettledTx DEF FilesTrue, ProcessTrue, Settled, Early, KeptInv, ProcessKept
<1> USE <1>1 DEF At, Goto, Did, Me
<1>3. ASSUME me.at \in Early, backup' = backup, disk' = disk, iso' = iso, rec' = rec,
             me'.at \in Early \cup {"clean"}, me'.at # "backup",
             me'.at \in Ready => Plan' = Plan /\ BackedUp(Plan)
      PROVE  KeptInv'
  BY <1>2, <1>3, SameKept, KeptEarlyStep
<1>4. CASE OpenRefuse BY <1>4, KeptRestStep DEF OpenRefuse, Idle, files, record
<1>5. CASE Open
  <2>1. RecordKept' /\ me'.at = "first" BY <1>5 DEF Open, RecordKept, Commits
  <2>2. (me.at \in {"idle", "recover", "open", "first", "forget", "giveup"} \cup Undoes
           \cup Erased => ProcessKept)'
    BY KeptRest, PTL
  <2> QED BY <2>1, <2>2 DEF KeptInv
<1>6. CASE FirstRecord
  <2>1. Begun BY <1>6 DEF FirstRecord, FilesTrue, ProcessTrue
  <2>2. ~Commits' /\ me'.at = "classify" BY <1>6, <2>1 DEF FirstRecord, Write, Begun, Commits
  <2> QED BY <2>2, KeptEarlyStep DEF Early, Before, Ready
<1>7. CASE PlanFails
  <2>1. me.tx \in Tx BY <1>2, <1>7 DEF PlanFails, Early, Before
  <2>2. rec'.status = "failed" BY <1>7, <2>1, StatusIs DEF PlanFails, Write, Statuses
  <2>3. disk' = disk /\ iso' = iso /\ backup' = backup /\ ~Commits' /\ me'.at = "idle"
    BY <1>7, <2>2 DEF PlanFails, Commits, Idle, files
  <2> QED BY <2>3, KeptRestStep
<1>8. CASE PlanOne
  <2>1. PICK p : MakePlan(p) BY <1>8 DEF PlanOne
  <2>2. me.at = "plan" /\ UNCHANGED <<files, record>> /\ me'.at = "write-plan"
    BY <2>1 DEF MakePlan
  <2> QED BY <1>3, <2>2 DEF files, record, Early, Before, Ready
<1>9. CASE WritePlan
  <2>1. Begun BY <1>2, <1>9 DEF WritePlan, Early, Before
  <2>2. ~Commits' /\ me'.at = "stage-on" BY <1>9, <2>1 DEF WritePlan, Write, Begun, Commits
  <2> QED BY <2>2, KeptEarlyStep DEF Early, Before, Ready
<1>10. ASSUME NEW S \in SUBSET Resource, Classify(S) PROVE KeptInv'
  BY <1>3, <1>10 DEF Classify, Early, Before, Ready, files, record
<1>11. CASE StageOn
  <2>1. me.tx \in Tx BY <1>2, <1>11 DEF StageOn, Early, Before
  <2>2. rec'.status = "staging" BY <1>11, <2>1, StatusIs DEF StageOn, Write, Statuses
  <2>3. ~Commits' /\ me'.at = "stage" BY <1>11, <2>2 DEF StageOn, Commits
  <2> QED BY <2>3, KeptEarlyStep DEF Early, Before, Ready
<1>12. CASE StageInvalid
  BY <1>3, <1>12 DEF StageInvalid, CleanUp, Early, Before, Ready, files, record
<1>13. (/\ me.at \in Early /\ ~Commits
        /\ me.at \in Ready => BackedUp(Plan)
        /\ me.at = "backup" => \A s \in DOMAIN Plan \ me.todo : Plan[s].pre # Absent => s \in backup
        => ProcessKept)'
  BY KeptEarly, PTL
<1>14. CASE StageDone
  <2>1. /\ me.at = "stage" /\ disk' = disk /\ iso' = iso /\ backup' = backup /\ rec' = rec
        /\ me'.at = "backup" /\ DOMAIN Plan' \ me'.todo = {}
    BY <1>14 DEF StageDone, files, record, Plan
  <2>2. ~Commits' BY <1>2, <2>1, SameKept DEF Early, Before
  <2> QED BY <1>13, <2>1, <2>2 DEF KeptInv, RecordKept, Early, Before, Ready
<1>15. CASE BackupDone
  <2>1. /\ me.at = "backup" /\ me.todo = {} /\ disk' = disk /\ iso' = iso /\ backup' = backup
        /\ rec' = rec /\ me'.at \in Ready /\ Plan' = Plan
    BY <1>15 DEF BackupDone, files, record, Plan, Ready
  <2>2. BackedUp(Plan) BY <2>1 DEF KeptInv, ProcessKept, BackedUp
  <2> QED BY <1>3, <2>1, <2>2 DEF Early, Before, Ready
<1>16. CASE Mark
  <2>1. me.at \in Early /\ me.at \in Ready BY <1>16 DEF Mark, Early, Before, Ready
  <2>2. me.tx \in Tx /\ Begun /\ BackedUp(Plan) BY <1>2, <2>1 DEF KeptInv, ProcessKept
  <2>3. PICK tx : /\ Write(tx) /\ me' = [me EXCEPT !.at = "mark-write", !.tx = tx]
                  /\ tx = [me.tx EXCEPT !.old = IF marker THEN "set" ELSE "unset"]
    BY <1>16, Zenon DEF Mark
  <2>4. tx.plan = me.tx.plan /\ tx.status = me.tx.status BY <2>2, <2>3, TxTyped DEF Olds
  <2>5. /\ Plan' = Plan /\ ~Commits' /\ me'.at = "mark-write"
        /\ disk' = disk /\ iso' = iso /\ backup' = backup
    BY <1>16, <2>2, <2>3, <2>4 DEF Mark, Write, Begun, Commits, Plan, files
  <2>6. BackedUp(Plan)' BY <2>2, <2>5, SameKept
  <2> QED BY <2>5, <2>6, KeptEarlyStep DEF Early, Before
<1>17. CASE MarkWrite
  <2>1. /\ me.at = "mark-write" /\ disk' = disk /\ iso' = iso /\ backup' = backup /\ rec' = rec
        /\ me'.at = "commit-on" /\ Plan' = Plan
    BY <1>17 DEF MarkWrite, files, record, Plan
  <2>2. BackedUp(Plan) BY <2>1 DEF KeptInv, ProcessKept, Ready
  <2> QED BY <1>3, <2>1, <2>2 DEF Early, Before
<1>18. ASSUME NEW s \in Resource, StageOne(s) PROVE KeptInv'
  BY <1>3, <1>18 DEF StageOne, Early, Before, Ready, record
<1>19. ASSUME NEW s \in Resource, BackupOne(s) PROVE KeptInv'
  <2>1. /\ me.at = "backup" /\ me'.at = "backup" /\ rec' = rec /\ Plan' = Plan
        /\ me'.todo = me.todo \ {s}
        /\ backup' = IF Plan[s].pre = Absent THEN backup ELSE backup \cup {s}
    BY <1>19 DEF BackupOne, record, Plan
  <2>2. ~Commits' BY <1>2, <2>1 DEF Early, Before, Commits
  <2>3. \A r \in DOMAIN Plan \ me'.todo : Plan[r].pre # Absent => r \in backup'
    BY <2>1 DEF KeptInv, ProcessKept
  <2> QED BY <1>13, <2>1, <2>2, <2>3 DEF KeptInv, RecordKept, Early, Before, Ready
<1>20. ASSUME NEW s \in Resource, BackupFails(s) PROVE KeptInv'
  BY <1>3, <1>20 DEF BackupFails, CleanUp, Early, Before, Ready, files, record
<1> QED BY <1>4, <1>5, <1>6, <1>7, <1>8, <1>9, <1>10, <1>11, <1>12, <1>14, <1>15, <1>16, <1>17,
           <1>18, <1>19, <1>20 DEF Prepare

LEMMA DetachKept == ASSUME AsideInv, FilesTrue, KeptInv, Detach PROVE KeptInv'
<1>1. me.at \in Settled /\ me.at \in Before \cup Detaching
  BY DEF Detach, DetachPlan, DetachDone, ReattachDone, DetachSkip, DetachStart, DetachOrphan,
         DetachMove, DetachFails, DetachDispose, DetachRestore, Detached, At, Settled, Before,
         Detaching
<1>2. me.tx \in Tx /\ me \in Me /\ World BY <1>1, SettledTx
<1>3. /\ me.at = "detach-plan" => BackedUp(Plan) /\ ~Commits /\ Begun /\ ~Forward
      /\ me.at \in Detaching =>
            IF Forward THEN Kept(Plan) ELSE BackedUp(Plan) /\ ~Commits /\ Begun
  BY DEF KeptInv, ProcessKept, Ready, Early, Before, FilesTrue, ProcessTrue, AsideInv, ProcessAims,
         Forward
<1>4. me.at \in Detaching => Forward \/ me.goal = "none" BY DEF AsideInv, ProcessAims
<1>5. disk' = disk /\ iso' = iso /\ backup' = backup
  BY DEF Detach, DetachPlan, DetachDone, ReattachDone, DetachSkip, DetachStart, DetachOrphan,
         DetachMove, DetachFails, DetachDispose, DetachRestore, Detached, files
<1> USE <1>2, <1>5 DEF At, Goto, Me
<1>6. ASSUME me.at \in Detaching \cup {"detach-plan"},
             rec' = rec \/ (~Forward /\ Write(me'.tx)),
             me'.tx.plan = me.tx.plan, me'.tx.status = me.tx.status,
             \/ me'.at \in Detaching /\ Forward' = Forward
             \/ ~Forward /\ me'.at \in {"reattach", "commit-on"}
             \/ Forward /\ me'.at \in {"finish", "giveup"}
      PROVE  KeptInv'
  <2>1. Plan' = Plan BY <1>6 DEF Plan
  <2>2. CASE Forward
    <3>1. Kept(Plan)' /\ RecordKept' BY <1>3, <1>6, <2>1, <2>2, SameKept DEF KeptInv
    <3>2. CASE me'.at \in Detaching
      <4>1. (me.at \in Detaching /\ (IF Forward THEN Kept(Plan) ELSE BackedUp(Plan) /\ ~Commits)
               => ProcessKept)'
        BY KeptDetaching, PTL
      <4> QED BY <1>6, <2>2, <3>1, <3>2, <4>1 DEF KeptInv, Detaching
    <3>3. CASE me'.at = "finish"
      <4>1. (me.at \in After \cup {"complete"} /\ Kept(Plan) => ProcessKept)' BY KeptAfter, PTL
      <4> QED BY <3>1, <3>3, <4>1 DEF KeptInv, After
    <3>4. CASE me'.at = "giveup" BY <1>6, <2>2, <3>4, KeptRestStep
    <3> QED BY <1>6, <2>2, <3>2, <3>3, <3>4
  <2>3. CASE ~Forward
    <3>1. BackedUp(Plan)' BY <1>3, <1>6, <2>1, <2>3, SameKept
    <3>2. ~Commits' BY <1>3, <1>6, <2>3 DEF Commits, Write, Begun
    <3>3. CASE me'.at \in Detaching
      <4>1. (me.at \in Detaching /\ (IF Forward THEN Kept(Plan) ELSE BackedUp(Plan) /\ ~Commits)
               => ProcessKept)'
        BY KeptDetaching, PTL
      <4>2. Kept(Plan)' BY <3>1 DEF Kept
      <4> QED BY <3>1, <3>2, <3>3, <4>1, <4>2 DEF KeptInv, RecordKept
    <3>4. CASE me'.at \in {"reattach", "commit-on"}
      BY <3>1, <3>2, <3>4, KeptEarlyStep DEF Early, Before
    <3> QED BY <1>6, <2>3, <3>3, <3>4
  <2> QED BY <2>2, <2>3
<1>7. CASE DetachPlan
  <2>1. me.at = "detach-plan" BY <1>7 DEF DetachPlan
  <2>2. PICK tx : /\ Write(tx) /\ me' = [me EXCEPT !.at = "detach", !.tx = tx]
                  /\ tx = [me.tx EXCEPT !.ext = [k \in me.links |-> RemoveIntent(k)]]
    BY <1>7, Zenon DEF DetachPlan
  <2>3. tx.plan = me.tx.plan /\ tx.status = me.tx.status BY <2>2, TxTyped
  <2>4. me'.tx = tx /\ me'.at \in Detaching /\ Forward' = Forward
    BY <2>2 DEF Detaching, Forward
  <2> QED BY <1>3, <1>6, <2>1, <2>2, <2>3, <2>4
<1>8. CASE DetachDone
  <2>1. /\ me.at = "detach" /\ rec' = rec /\ me'.tx = me.tx
        /\ me'.at = IF me.goal = "stuck" THEN "giveup"
                    ELSE IF me.goal = "done" THEN "finish" ELSE "commit-on"
    BY <1>8 DEF DetachDone, record
  <2> QED BY <1>4, <1>6, <2>1 DEF Detaching, Forward
<1>9. CASE ReattachDone
  <2>1. PICK s \in {"needs_human", "failed"} : Write([me.tx EXCEPT !.status = s])
    BY <1>9 DEF ReattachDone
  <2>2. rec'.status = s BY <2>1, StatusIs DEF Statuses, Write
  <2>3. ~Commits' /\ me'.at = "idle" BY <1>9, <2>2 DEF Commits, ReattachDone, Idle
  <2> QED BY <2>3, KeptRestStep
<1>10. ASSUME NEW k \in Skill, DetachFailed(k), me.at \in Detaching, UNCHANGED record
       PROVE  KeptInv'
  BY <1>6, <1>10 DEF DetachFailed, Forward, Detaching, record
<1>11. ASSUME NEW k \in Skill, DetachSkip(k) \/ DetachStart(k) PROVE KeptInv'
  <2>1. me.at = "detach" /\ rec' = rec BY <1>11 DEF DetachSkip, DetachStart, record
  <2>2. me'.tx = me.tx /\ me'.at \in {"detached", "aside"} /\ Forward' = Forward
    BY <1>11 DEF DetachSkip, DetachStart, Forward
  <2> QED BY <1>6, <2>1, <2>2 DEF Detaching
<1>12. ASSUME NEW k \in Skill, DetachOrphan(k) \/ DetachMove(k) \/ DetachDispose(k)
       PROVE  KeptInv'
  <2>1. me.at \in {"aside", "moved"} /\ rec' = rec
    BY <1>12 DEF DetachOrphan, DetachMove, DetachDispose, record
  <2>2. me'.tx = me.tx /\ me'.at \in {"aside", "moved", "detached"} /\ Forward' = Forward
    BY <1>12 DEF DetachOrphan, DetachMove, DetachDispose, Forward
  <2> QED BY <1>6, <2>1, <2>2 DEF Detaching
<1>13. ASSUME NEW k \in Skill, DetachFails(k) \/ DetachRestore(k) PROVE KeptInv'
  BY <1>10, <1>13 DEF DetachFails, DetachRestore, Detaching
<1>14. ASSUME NEW k \in Skill, Detached(k) PROVE KeptInv'
  <2>1. PICK tx : /\ me' = [me EXCEPT !.at = "detach", !.tx = tx, !.links = @ \ {k}]
                  /\ tx = [me.tx EXCEPT !.ext[k].state = "applied"]
                  /\ IF Forward THEN UNCHANGED record ELSE Write(tx)
    BY <1>14, Zenon DEF Detached
  <2>2. tx.plan = me.tx.plan /\ tx.status = me.tx.status BY <2>1, AppliedTyped, TxTyped
  <2>3. me.at \in Detaching /\ me'.at \in Detaching /\ me'.tx = tx /\ Forward' = Forward
    BY <1>14, <2>1 DEF Detached, Detaching, Forward
  <2> QED BY <1>6, <2>1, <2>2, <2>3 DEF record
<1> QED BY <1>7, <1>8, <1>9, <1>11, <1>12, <1>13, <1>14 DEF Detach

LEMMA CommitKept == ASSUME AsideInv, FilesTrue, KeptInv, Commit PROVE KeptInv'
<1>1. me \in Me /\ World BY TypeIs DEF AsideInv
<1> USE <1>1 DEF At, Goto, Did, Me
<1>2. (me.at \in Midway /\ BackedUp(Plan) => ProcessKept)' BY KeptMidway, PTL
<1>3. CASE CommitOn
  <2> DEFINE tx == [me.tx EXCEPT !.status = "committing"]
  <2>1. me.at \in Ready /\ me.at \in Early BY <1>3 DEF CommitOn, Before, Early, Ready
  <2>2. me.tx \in Tx /\ BackedUp(Plan)
    BY <2>1, SettledTx DEF KeptInv, ProcessKept, Settled, Early
  <2>3. tx.plan = Plan BY <2>2, StatusIs DEF Statuses, Plan
  <2>4. rec' = tx /\ backup' = backup /\ me'.tx = tx /\ me'.at = "commit"
    BY <1>3 DEF CommitOn, Write, files
  <2> HIDE DEF tx
  <2>5. BackedUp(Plan)' /\ BackedUp(rec.plan)' BY <2>2, <2>3, <2>4 DEF BackedUp, Plan
  <2>6. Kept(rec.plan)' BY <2>5 DEF Kept
  <2> QED BY <1>2, <2>4, <2>5, <2>6 DEF KeptInv, RecordKept, Midway
<1>4. ASSUME me.at \in Midway, backup' = backup, rec' = rec, me'.tx = me.tx,
             me'.at \in Midway \cup After \cup {"complete", "recover", "giveup"}
      PROVE  KeptInv'
  <2>1. Carries BY <1>4 DEF AsideInv, ProcessAside
  <2>2. Plan' = Plan /\ rec'.plan = Plan BY <1>4, <2>1 DEF Carries, Plan
  <2>3. BackedUp(Plan) BY <1>4 DEF KeptInv, ProcessKept
  <2>4. BackedUp(Plan)' /\ BackedUp(rec.plan)' BY <1>4, <2>2, <2>3 DEF BackedUp
  <2>5. Kept(Plan)' /\ RecordKept' BY <2>4 DEF Kept, RecordKept
  <2>6. (me.at \in After \cup {"complete"} /\ Kept(Plan) => ProcessKept)' BY KeptAfter, PTL
  <2>7. (me.at \in {"idle", "recover", "open", "first", "forget", "giveup"} \cup Undoes
           \cup Erased => ProcessKept)'
    BY KeptRest, PTL
  <2> QED BY <1>2, <1>4, <2>4, <2>5, <2>6, <2>7 DEF KeptInv
<1>5. ASSUME NEW conflict, Stop(conflict), me.at \in Midway PROVE KeptInv'
  BY <1>4, <1>5 DEF Stop, record
<1>6. CASE CommitDone BY <1>4, <1>6 DEF CommitDone, files, record, Midway, After
<1>7. ASSUME NEW s \in Resource, CommitConflict(s) \/ CommitUnstaged(s) PROVE KeptInv'
  BY <1>5, <1>7 DEF CommitConflict, CommitUnstaged, Committing, Midway
<1>8. ASSUME NEW s \in Resource, CommitAbsent(s) PROVE KeptInv'
  BY <1>4, <1>8 DEF CommitAbsent, Committing, files, record, Midway
<1>9. ASSUME NEW s \in Resource, CommitChecked(s) PROVE KeptInv'
  BY <1>4, <1>9 DEF CommitChecked, Committing, files, record, Midway
<1>10. ASSUME NEW s \in Resource, Swap(s) PROVE KeptInv'
  BY <1>4, <1>10 DEF Swap, record, Midway
<1>11. ASSUME NEW s \in Resource, Swapped(s) PROVE KeptInv'
  <2>1. CASE disk[s] = Plan[s].post
    BY <1>4, <1>11, <2>1 DEF Swapped, files, record, Midway
  <2>2. CASE disk[s] # Plan[s].post BY <1>5, <1>11, <2>2 DEF Swapped, Midway
  <2> QED BY <2>1, <2>2
<1>12. ASSUME NEW s \in Resource, Isolate(s) PROVE KeptInv'
  BY <1>4, <1>12 DEF Isolate, record, Midway
<1>13. ASSUME NEW s \in Resource, IsolateFails(s) \/ ReinstateFails(s) PROVE KeptInv'
  BY <1>5, <1>13 DEF IsolateFails, ReinstateFails, Midway
<1>14. ASSUME NEW s \in Resource, Dispose(s) PROVE KeptInv'
  BY <1>4, <1>14 DEF Dispose, record, Midway
<1>15. ASSUME NEW s \in Resource, Reinstate(s) PROVE KeptInv'
  <2>1. me'.tx = me.tx /\ me'.at \in {"giveup", "recover"} BY <1>15 DEF Reinstate
  <2> QED BY <1>4, <1>15, <2>1 DEF Reinstate, record, Midway
<1> QED BY <1>3, <1>6, <1>7, <1>8, <1>9, <1>10, <1>11, <1>12, <1>13, <1>14, <1>15 DEF Commit

(* Before the links are made, and while they are, the backups stay. *)
LEMMA AfterKept ==
  ASSUME KeptInv, me.at \in After, disk' = disk, iso' = iso, backup' = backup,
         rec' = rec \/ Write(me'.tx), me'.tx.plan = me.tx.plan, me'.at \in After \cup {"giveup"}
  PROVE  KeptInv'
<1>1. Kept(Plan) BY DEF KeptInv, ProcessKept
<1>2. Plan' = Plan /\ Kept(Plan)' BY <1>1, SameKept DEF Plan
<1>3. RecordKept'
  <2>1. CASE rec' = rec BY <2>1, SameKept DEF KeptInv
  <2>2. CASE Write(me'.tx)
    <3>1. rec'.plan = Plan BY <2>2 DEF Write, Plan
    <3>2. Kept(rec.plan)' BY <1>1, <3>1 DEF Kept, BackedUp, AllOld, Old
    <3> QED BY <3>2 DEF RecordKept
  <2> QED BY <2>1, <2>2
<1>4. (me.at \in After \cup {"complete"} /\ Kept(Plan) => ProcessKept)' BY KeptAfter, PTL
<1>5. (me.at \in {"idle", "recover", "open", "first", "forget", "giveup"} \cup Undoes
         \cup Erased => ProcessKept)'
  BY KeptRest, PTL
<1> QED BY <1>2, <1>3, <1>4, <1>5 DEF KeptInv

LEMMA ExposeKept == ASSUME AsideInv, FilesTrue, KeptInv, Expose PROVE KeptInv'
<1>1. me.at \in Settled /\ me.at \in After
  BY DEF Expose, LinksDone, LinkIntent, Symlink, SymlinkRaises, Linked, At, Settled, After
<1>2. me.tx \in Tx /\ me \in Me /\ World BY <1>1, SettledTx
<1>4. disk' = disk /\ iso' = iso /\ backup' = backup
  BY DEF Expose, LinksDone, LinkIntent, Symlink, SymlinkRaises, Linked, files
<1> USE <1>1, <1>2, <1>4 DEF At, Goto, Me
<1>5. ASSUME rec' = rec \/ Write(me'.tx), me'.tx.plan = me.tx.plan,
             me'.at \in After \cup {"giveup"}
      PROVE  KeptInv'
  BY <1>5, AfterKept
<1>6. CASE LinksDone BY <1>5, <1>6 DEF LinksDone, After, record
<1>7. ASSUME NEW k \in Skill, LinkIntent(k) PROVE KeptInv'
  <2> DEFINE ext == [j \in {k} \cup DOMAIN me.tx.ext |->
                        IF j = k THEN Intent(k) ELSE me.tx.ext[j]]
  <2>1. PICK tx : /\ Write(tx) /\ tx = [me.tx EXCEPT !.ext = ext]
                  /\ \/ me' = [me EXCEPT !.at = "symlink", !.tx = tx]
                     \/ me' = [me EXCEPT !.tx = tx, !.links = @ \ {k}]
    BY <1>7, Zenon DEF LinkIntent
  <2>2. tx.plan = me.tx.plan BY <2>1, TxTyped
  <2>3. me'.tx = tx /\ me'.at \in After BY <2>1 DEF After
  <2> QED BY <1>5, <2>1, <2>2, <2>3
<1>8. ASSUME NEW k \in Skill, Symlink(k) PROVE KeptInv'
  BY <1>5, <1>8 DEF Symlink, After, record
<1>9. ASSUME NEW k \in Skill, SymlinkRaises(k) PROVE KeptInv'
  BY <1>9, KeptRestStep DEF SymlinkRaises, Idle, record
<1>10. ASSUME NEW k \in Skill, Linked(k) PROVE KeptInv'
  <2>1. PICK tx : /\ Write(tx) /\ tx = [me.tx EXCEPT !.ext[k].state = "applied"]
                  /\ me' = [me EXCEPT !.at = "link", !.tx = tx, !.links = @ \ {k}]
    BY <1>10, Zenon DEF Linked
  <2>2. tx.plan = me.tx.plan BY <2>1, TxTyped
  <2>3. me'.tx = tx /\ me'.at \in After BY <2>1 DEF After
  <2> QED BY <1>5, <2>1, <2>2, <2>3
<1> QED BY <1>6, <1>7, <1>8, <1>9, <1>10 DEF Expose

LEMMA UndoKept == ASSUME AsideInv, FilesTrue, KeptInv, Undo PROVE KeptInv'
<1>1. me \in Me /\ World BY TypeIs DEF AsideInv
<1>2. me.at \in Undoes =>
        Carries /\ rec.plan = Plan /\ me.todo \subseteq DOMAIN Plan /\ UndoTrue
  BY DEF AsideInv, HasTx, ProcessAside, Carries, Plan, FilesTrue, ProcessTrue
<1>3. \A s \in Final(me.todo) : s \in me.todo BY DEF Final
<1> USE <1>1 DEF At, Goto, Did, Me
<1>4. ASSUME backup' = backup, rec' = rec, AllOld(rec.plan) => AllOld(rec.plan)',
             me'.at \in Undoes \cup {"giveup"}
      PROVE  KeptInv'
  <2>1. RecordKept' BY <1>4 DEF KeptInv, RecordKept, Commits, Kept, BackedUp
  <2>2. (me.at \in {"idle", "recover", "open", "first", "forget", "giveup"} \cup Undoes
           \cup Erased => ProcessKept)'
    BY KeptRest, PTL
  <2> QED BY <1>4, <2>1, <2>2 DEF KeptInv
<1>5. CASE UndoDone
  <2>1. /\ me.at = "undo" /\ me.todo = {} /\ disk' = disk /\ iso' = iso /\ backup' = backup
        /\ rec' = rec /\ me'.at = "unmark"
    BY <1>5 DEF UndoDone, files, record
  <2>2. AllOld(rec.plan) BY <1>2, <2>1 DEF UndoTrue, Undoes, AllOld
  <2>3. RecordKept' /\ AllOld(rec.plan)' BY <2>1, <2>2, SameKept DEF KeptInv
  <2>4. (me.at \in Back \cup {"reattach", "clean"} /\ (Commits => AllOld(rec.plan))
           => ProcessKept)'
    BY KeptBack, PTL
  <2> QED BY <2>1, <2>3, <2>4 DEF KeptInv, Back
<1>6. ASSUME disk' = disk, iso' = iso, backup' = backup, rec' = rec,
             me'.at \in Undoes \cup {"giveup"}
      PROVE  KeptInv'
  BY <1>4, <1>6, SameKept
<1>7. ASSUME NEW s \in Resource, UndoNothing(s) PROVE KeptInv'
  BY <1>6, <1>7 DEF UndoNothing, Undoing, files, record, Undoes
<1>8. ASSUME NEW s \in Resource, UndoIsolated(s) PROVE KeptInv'
  <2>1. /\ me.at = "undo" /\ s \in Final(me.todo) /\ iso[s] # Absent
        /\ backup' = backup /\ rec' = rec /\ me'.at = "undo"
    BY <1>8 DEF UndoIsolated, Undoing, record
  <2>2. s \in DOMAIN rec.plan BY <1>2, <1>3, <2>1 DEF Undoes
  <2>3. ~AllOld(rec.plan) BY <2>1, <2>2 DEF AllOld, Old
  <2> QED BY <1>4, <2>1, <2>3 DEF Undoes
<1>9. ASSUME NEW s \in Resource, UndoTemporary(s) PROVE KeptInv'
  BY <1>6, <1>9 DEF UndoTemporary, Undoing, record, Undoes
<1>10. ASSUME NEW s \in Resource, UndoRemovable(s) \/ UndoFails(s) PROVE KeptInv'
  BY <1>6, <1>10 DEF UndoRemovable, UndoFails, Undoing, files, record, Undoes
<1>11. ASSUME NEW s, me.at \in Undoes, disk' = [disk EXCEPT ![s] = Plan[s].pre], iso' = iso,
              backup' = backup, rec' = rec, me'.at \in Undoes
       PROVE  KeptInv'
  <2>1. AllOld(rec.plan) => AllOld(rec.plan)'
    <3> SUFFICES ASSUME AllOld(rec.plan), NEW r \in DOMAIN rec.plan PROVE Old(rec.plan, r)'
      BY <1>11 DEF AllOld
    <3>1. rec.plan = Plan BY <1>2, <1>11
    <3>2. disk[r] = Plan[r].pre /\ iso[r] = Absent BY <3>1 DEF AllOld, Old
    <3>3. disk'[r] = Plan[r].pre BY <1>11, <3>2
    <3> QED BY <1>11, <3>1, <3>2, <3>3 DEF Old
  <2> QED BY <1>4, <1>11, <2>1
<1>12. ASSUME NEW s \in Resource, Restore(s) PROVE KeptInv'
  <2>1. /\ disk' = [disk EXCEPT ![s] = Plan[s].pre] /\ iso' = iso /\ backup' = backup
        /\ rec' = rec /\ me.at \in Undoes /\ me'.at \in Undoes
    BY <1>12 DEF Restore, record, Undoes
  <2> QED BY <1>11, <2>1
<1>13. ASSUME NEW s \in Resource, Restored(s) PROVE KeptInv'
  <2>1. me'.at \in {"undo", "giveup"} BY <1>13 DEF Restored
  <2> QED BY <1>6, <1>13, <2>1 DEF Restored, files, record, Undoes
<1>14. ASSUME NEW s \in Resource, Remove(s) PROVE KeptInv'
  <2>1. me.at = "remove" /\ s \in Final(me.todo) /\ disk' = [disk EXCEPT ![s] = Absent]
    BY <1>14 DEF Remove
  <2>2. Plan[s].pre = Absent BY <1>2, <2>1 DEF UndoTrue, Undoes
  <2>3. /\ disk' = [disk EXCEPT ![s] = Plan[s].pre] /\ iso' = iso /\ backup' = backup
        /\ rec' = rec /\ me.at \in Undoes /\ me'.at \in Undoes
    BY <1>14, <2>2 DEF Remove, record, Undoes
  <2> QED BY <1>11, <2>3
<1> QED BY <1>5, <1>7, <1>8, <1>9, <1>10, <1>12, <1>13, <1>14 DEF Undo

LEMMA EndKept == ASSUME AsideInv, FilesTrue, KeptInv, End PROVE KeptInv'
<1>1. me \in Me /\ World BY TypeIs DEF AsideInv
<1>2. me.at \in Back \cup {"reattach", "clean"} => (Commits => AllOld(rec.plan))
  BY DEF KeptInv, ProcessKept
<1> USE <1>1 DEF At, Goto, Did, Me
<1>3. ASSUME me.at \in Back \cup {"reattach", "clean"}, disk' = disk, iso' = iso, rec' = rec,
             me'.at \in Back \cup {"reattach", "clean", "giveup"}
      PROVE  KeptInv'
  <2>1. Commits' => AllOld(rec.plan)' BY <1>2, <1>3 DEF Commits, AllOld, Old
  <2>2. RecordKept' BY <2>1 DEF RecordKept, Kept
  <2>3. (me.at \in Back \cup {"reattach", "clean"} /\ (Commits => AllOld(rec.plan))
           => ProcessKept)'
    BY KeptBack, PTL
  <2>4. (me.at \in {"idle", "recover", "open", "first", "forget", "giveup"} \cup Undoes
           \cup Erased => ProcessKept)'
    BY KeptRest, PTL
  <2> QED BY <1>3, <2>1, <2>2, <2>3, <2>4 DEF KeptInv
<1>4. CASE Unmark BY <1>3, <1>4 DEF Unmark, Back, files, record
<1>5. CASE CompensateDone
  <2>1. me'.at \in {"giveup", "clean"} BY <1>5 DEF CompensateDone, CleanUp
  <2> QED BY <1>3, <1>5, <2>1 DEF CompensateDone, Back, files, record
<1>6. CASE CleanRecord
  <2>1. ~Commits' BY <1>6 DEF CleanRecord, Commits
  <2> QED BY <1>6, <2>1, KeptRestStep DEF CleanRecord, Erased, files
<1>7. CASE Rmdir
  <2>1. me'.at \in {"reopen", "forget", "idle", "open"} BY <1>7 DEF Rmdir, Recovered, Idle
  <2> QED BY <1>7, <2>1, KeptRestStep DEF Rmdir, Erased, files
<1>8. CASE Reopen BY <1>8, KeptRestStep DEF Reopen, Erased, files
<1>9. CASE Conclude
  <2>1. me.tx \in Tx /\ me.goal \in {"failed", "rolled_back"}
    BY <1>9 DEF Conclude, AsideInv, HasTx, Engaged, Erased, ProcessAims, Taken
  <2>2. rec'.status = me.goal BY <1>9, <2>1, StatusIs DEF Conclude, Write, Statuses
  <2>3. ~Commits' /\ me'.at \in {"idle", "open"}
    BY <1>9, <2>1, <2>2 DEF Conclude, Commits, Recovered, Idle
  <2> QED BY <1>9, <2>3, KeptRestStep DEF Conclude, files
<1>10. CASE Forget BY <1>10, KeptRestStep DEF Forget, Idle, files, record
<1>11. ASSUME NEW k \in Skill, CompensateSkip(k) PROVE KeptInv'
  BY <1>3, <1>11 DEF CompensateSkip, Compensating, Back, files, record
<1>12. ASSUME NEW k \in Skill, CompensateStart(k) PROVE KeptInv'
  <2>1. me'.at \in {"unlink", "recreate"} BY <1>12 DEF CompensateStart
  <2> QED BY <1>3, <1>12, <2>1 DEF CompensateStart, Compensating, Back, files, record
<1>13. ASSUME NEW k \in Skill, NEW goal, Compensated(k, goal), me.at \in {"unlink", "recreate"},
              UNCHANGED <<files, record>>
       PROVE  KeptInv'
  <2>1. me'.at \in {"reattach", "compensate"} BY <1>13 DEF Compensated
  <2> QED BY <1>3, <1>13, <2>1 DEF Back, files, record
<1>14. ASSUME NEW k \in Skill, CompensateFails(k) PROVE KeptInv'
  BY <1>13, <1>14 DEF CompensateFails
<1>15. ASSUME NEW k \in Skill, CompensateUnlink(k) PROVE KeptInv'
  BY <1>13, <1>15 DEF CompensateUnlink
<1>16. ASSUME NEW k \in Skill, CompensateRecreate(k) PROVE KeptInv'
  BY <1>13, <1>16 DEF CompensateRecreate
<1>17. ASSUME NEW s \in Resource, Clean(s) PROVE KeptInv'
  BY <1>3, <1>17 DEF Clean, record
<1> QED BY <1>4, <1>5, <1>6, <1>7, <1>8, <1>9, <1>10, <1>11, <1>12, <1>14, <1>15, <1>16, <1>17
        DEF End

LEMMA RollForwardKept == ASSUME AsideInv, FilesTrue, KeptInv, RollForward PROVE KeptInv'
<1>1. me \in Me /\ World BY TypeIs DEF AsideInv
<1> USE <1>1 DEF At, Goto, Me
<1>2. CASE Complete
  <2>1. /\ me.at = "complete" /\ disk' = disk /\ iso' = iso /\ backup' = backup /\ rec' = rec
        /\ Plan' = Plan /\ me'.goal = "done" /\ me'.at \in {"relink", "detach"}
    BY <1>2 DEF Complete, files, record, Plan
  <2>2. Kept(Plan)' /\ RecordKept' BY <2>1, SameKept DEF KeptInv, ProcessKept
  <2>3. (me.at \in After \cup {"complete"} /\ Kept(Plan) => ProcessKept)' BY KeptAfter, PTL
  <2>4. (me.at \in Detaching /\ (IF Forward THEN Kept(Plan) ELSE BackedUp(Plan) /\ ~Commits)
           => ProcessKept)'
    BY KeptDetaching, PTL
  <2> QED BY <2>1, <2>2, <2>3, <2>4 DEF KeptInv, After, Detaching, Forward
<1>3. CASE CompleteFails BY <1>3, KeptRestStep DEF CompleteFails, files, record
<1>4. CASE RelinkDone
  <2>1. me'.at \in {"giveup", "finish"} BY <1>4 DEF RelinkDone
  <2> QED BY <1>4, <2>1, AfterKept DEF RelinkDone, After, files, record
<1>5. CASE Finish
  <2>1. me.tx \in Tx BY <1>5 DEF Finish, AsideInv, HasTx, Engaged, After
  <2>2. rec'.status = "done" BY <1>5, <2>1, StatusIs DEF Finish, Write, Statuses
  <2>3. ~Commits' /\ me'.at = "clean" BY <1>5, <2>2 DEF Finish, Commits
  <2> QED BY <2>3, KeptEarlyStep DEF Ready
<1>6. ASSUME NEW s \in Resource, CompleteDeletion(s) PROVE KeptInv'
  <2>1. /\ me.at = "complete" /\ me'.at = "complete" /\ backup' = backup /\ rec' = rec
        /\ Plan' = Plan /\ s \in DOMAIN Plan /\ iso[s] # Absent
    BY <1>6 DEF CompleteDeletion, record, Plan
  <2>2. BackedUp(Plan) BY <2>1 DEF KeptInv, ProcessKept, Kept, AllOld, Old
  <2>3. rec.plan = Plan BY <2>1 DEF AsideInv, ProcessAside, Carries, Plan
  <2>4. BackedUp(Plan)' /\ BackedUp(rec.plan)' BY <2>1, <2>2, <2>3 DEF BackedUp
  <2>5. (me.at \in After \cup {"complete"} /\ Kept(Plan) => ProcessKept)' BY KeptAfter, PTL
  <2> QED BY <2>1, <2>4, <2>5 DEF KeptInv, RecordKept, Kept
<1>7. ASSUME NEW k \in Skill, Relink(k) PROVE KeptInv'
  BY <1>7, AfterKept DEF Relink, After, files, record
<1>8. ASSUME NEW k \in Skill, RelinkOccupied(k) PROVE KeptInv'
  BY <1>8, AfterKept DEF RelinkOccupied, After, files, record
<1> QED BY <1>2, <1>3, <1>4, <1>5, <1>6, <1>7, <1>8 DEF RollForward

-----------------------------------------------------------------------------
(* What spares a person the decision, as long as nobody edits the target and  *)
(* at most one command is killed.                                            *)

(* The bytes of an interrupted transaction are enough to take it to either    *)
(* end: each old file is in the backup and only those are, each new one is    *)
(* staged or in place.                                                       *)
BackupsFit(p) == \A s \in DOMAIN p : s \in backup <=> p[s].pre # Absent
StagedFit(p)  == \A s \in Replaced(p) : s \in staged \/ disk[s] = p[s].post

(* No link it recorded is somebody else's, or there when it should be gone.   *)
ManifestFit(tx) == tx.kind = "install" => Manifest \in Replaced(tx.plan)
Gone(k)         == link[k] = "absent" /\ away[k] = "absent"
LinksFit(tx)    == \A k \in DOMAIN tx.ext :
                      IF tx.kind = "install"
                      THEN tx.ext[k].prior # "theirs" /\ link[k] # "theirs"
                      ELSE Gone(k)

Fit(tx) == BackupsFit(tx.plan) /\ StagedFit(tx.plan) /\ ManifestFit(tx) /\ LinksFit(tx)

(* Once the files are being put back the bytes are used up: there a second     *)
(* kill would find less than it needs, and so the first one must have been.   *)
Spent      == Undoes \cup Back \cup {"clean"}
RecordFits == Commits /\ me.at \notin Spent => Fit(rec)

Struck ==
    /\ me.at \in {"idle", "recover", "forget"} /\ rec # NoTx
          /\ rec.status \in {"planning", "staging", "committing"} => crashes > 0
    /\ me.at \in Undoes => crashes > 0
    /\ me.at \in Back \cup {"clean"} /\ Commits => crashes > 0

(* Nobody was asked, is about to be, or put something where a link goes.      *)
Calm ==
    /\ me.at \notin {"giveup", "reattach"} /\ me.goal # "stuck"
    /\ rec # NoTx => rec.status # "needs_human"
    /\ me.at \in Engaged => me.tx.status # "needs_human"
    /\ \A k \in Skill : away[k] # "theirs"
    /\ IF me.at = "restore" THEN tmp \subseteq Final(me.todo) ELSE tmp = {}

Free(L)    == \A k \in L : link[k] # "theirs"
Opening    == {"first", "classify", "plan", "write-plan", "stage-on", "stage"}
Detaches   == me.at \in Detaching /\ ~Forward

(* The files of a transaction that is prepared ... *)
PrepareFits ==
    /\ me.at \in Early \cup {"first"} \/ Detaches => me.tx.kind = me.cmd /\ ~Commits
    /\ me.at \in Opening => backup = {}
    /\ me.at = "stage" => Replaced(Plan) \ me.todo \subseteq staged
    /\ me.at = "backup" => \A s \in DOMAIN Plan : s \in backup
                              <=> s \notin me.todo /\ Plan[s].pre # Absent
    /\ me.at \in Ready \/ Detaches => BackupsFit(Plan)
    /\ me.at \in Ready \cup {"backup"} \/ Detaches => Replaced(Plan) \subseteq staged
    /\ me.at \in Ready \cup {"write-plan", "stage-on", "stage", "backup"} => ManifestFit(me.tx)

(* ... and its links, before and while an uninstall takes them away. *)
Attaches ==
    /\ me.at \in (Early \cup {"first"}) \ {"commit-on"} => DOMAIN me.tx.ext = {}
    /\ me.at \in Early \ {"classify", "commit-on"} =>
          IF me.cmd = "install" THEN Free(me.links) ELSE \A k \in me.links : link[k] = "ours"
    /\ me.at = "commit-on" => LinksFit(me.tx) /\ (me.cmd = "install" => Free(me.links))
    /\ Detaches =>
          /\ me.links \subseteq DOMAIN me.tx.ext
          /\ \A k \in DOMAIN me.tx.ext :
                /\ me.tx.ext[k].prior = "ours"
                /\ IF k \notin me.links THEN Gone(k)
                   ELSE IF k \notin First(me.links) THEN link[k] = "ours"
                   ELSE /\ me.at \in {"detach", "aside"} => link[k] = "ours"
                        /\ me.at = "moved" => link[k] = "absent" /\ away[k] = "ours"
                        /\ me.at = "detached" => Gone(k)

(* A transaction that is carried on is the recorded one, and nothing stops it. *)
Carrying == Midway \cup {"link", "symlink", "linked", "complete", "relink"}

CarryFits ==
    /\ me.at \in Carrying => rec = me.tx
    /\ me.at \in Midway =>
          /\ \A s \in Replaced(Plan) \cap me.todo :
                s \in staged \/ (me.at = "swapped" /\ s \in First(me.todo))
          /\ me.cmd = "install" => me.tx.kind = "install" /\ Free(me.links)
    /\ me.at = "isolate" => \A s \in First(me.todo) : disk[s] # Absent
    /\ me.at \in {"link", "symlink", "linked"} => me.tx.kind = "install" /\ Free(me.links)
    /\ me.at = "symlink" => \A k \in First(me.links) : link[k] = "absent"
    /\ me.at = "relink" => me.tx.kind = "install"
    /\ me.at \in Detaching /\ Forward =>
          /\ me.at \in {"detach", "detached"}
          /\ Commits /\ rec.kind = "uninstall" /\ me.links \subseteq DOMAIN rec.ext

(* A transaction that is taken back finds what it needs. *)
BackFits ==
    /\ me.at \in Undoes => BackupsFit(Plan)
    /\ me.at = "unlink" => \A k \in First(me.links) : link[k] # "absent"
    /\ me.at = "recreate" => \A k \in First(me.links) : link[k] = "absent"
    /\ me.at \in {"unlink", "recreate"} => ~OwnUninstall

SpareInv == RecordFits /\ Struck /\ Calm /\ PrepareFits /\ Attaches /\ CarryFits /\ BackFits

(* Which of them a place asks for. *)
Resting == {"idle", "recover", "open", "forget", "clean", "finish", "unmark", "compensate"}
           \cup Erased

LEMMA FitsRest == me.at \in Resting => PrepareFits /\ Attaches /\ CarryFits /\ BackFits
BY DEF Resting, PrepareFits, Attaches, CarryFits, BackFits, Detaches, Opening, Carrying, Ready,
       Before, Early, Detaching, Erased, Midway, Undoes

LEMMA FitsPrepare == me.at \in Early \cup {"first"} \/ Detaches => CarryFits /\ BackFits
BY DEF CarryFits, BackFits, Detaches, Carrying, Before, Early, Detaching, Midway, Undoes

LEMMA FitsCarry ==
  me.at \in Carrying \/ (me.at \in Detaching /\ Forward) => PrepareFits /\ Attaches /\ BackFits
BY DEF PrepareFits, Attaches, BackFits, Detaches, Opening, Carrying, Ready, Before, Early,
       Detaching, Midway, Undoes

LEMMA FitsBack ==
  me.at \in Undoes \cup {"unlink", "recreate"} => PrepareFits /\ Attaches /\ CarryFits
BY DEF PrepareFits, Attaches, CarryFits, Detaches, Opening, Carrying, Ready, Before, Early,
       Detaching, Midway, Undoes

LEMMA FitsRestStep ==
  ASSUME RecordFits', Struck', Calm', me'.at \in Resting PROVE SpareInv'
<1>1. (me.at \in Resting => PrepareFits /\ Attaches /\ CarryFits /\ BackFits)' BY FitsRest, PTL
<1> QED BY <1>1 DEF SpareInv

LEMMA FitsPrepareStep ==
  ASSUME RecordFits', Struck', Calm', PrepareFits', Attaches',
         me'.at \in Early \cup {"first"} \/ Detaches'
  PROVE  SpareInv'
<1>1. (me.at \in Early \cup {"first"} \/ Detaches => CarryFits /\ BackFits)' BY FitsPrepare, PTL
<1> QED BY <1>1 DEF SpareInv

LEMMA FitsCarryStep ==
  ASSUME RecordFits', Struck', Calm', CarryFits',
         me'.at \in Carrying \/ (me'.at \in Detaching /\ Forward')
  PROVE  SpareInv'
<1>1. (me.at \in Carrying \/ (me.at \in Detaching /\ Forward)
         => PrepareFits /\ Attaches /\ BackFits)'
  BY FitsCarry, PTL
<1> QED BY <1>1 DEF SpareInv

LEMMA FitsBackStep ==
  ASSUME RecordFits', Struck', Calm', BackFits', me'.at \in Undoes \cup {"unlink", "recreate"}
  PROVE  SpareInv'
<1>1. (me.at \in Undoes \cup {"unlink", "recreate"} => PrepareFits /\ Attaches /\ CarryFits)'
  BY FitsBack, PTL
<1> QED BY <1>1 DEF SpareInv

(* Nothing changes while bytes and links stay as they are. *)
LEMMA SameFit ==
  ASSUME disk' = disk, staged' = staged, backup' = backup, link' = link, away' = away
  PROVE  /\ rec' = rec => (Commits' <=> Commits) /\ (Fit(rec) => Fit(rec)')
         /\ me'.tx = me.tx => /\ BackupsFit(Plan) => BackupsFit(Plan)'
                              /\ LinksFit(me.tx) => LinksFit(me.tx)'
                              /\ ManifestFit(me.tx) => ManifestFit(me.tx)'
BY DEF Commits, Fit, BackupsFit, StagedFit, ManifestFit, LinksFit, Gone, Plan, Replaced

LEMMA CalmStep ==
  ASSUME Calm, tmp = {}, tmp' = {},
         away' = away \/ (\A k \in Skill : away'[k] # "theirs"),
         rec' = rec \/ rec' = NoTx \/ rec'.status # "needs_human",
         me'.at \notin {"giveup", "reattach"}, me'.goal # "stuck",
         me'.at \in Engaged => me'.tx.status # "needs_human"
  PROVE  Calm'
BY DEF Calm

(* A step of the process that only looks. *)
LEMMA LookStep ==
  ASSUME SpareInv, UNCHANGED <<files, outside, record, env>>
  PROVE  /\ disk' = disk /\ iso' = iso /\ staged' = staged /\ backup' = backup /\ tmp' = tmp
         /\ link' = link /\ away' = away /\ rec' = rec /\ crashes' = crashes
         /\ Commits' <=> Commits
         /\ Fit(rec) => Fit(rec)'
BY SameFit DEF files, outside, record, env

LEMMA CalmTemp == Calm /\ me.at # "restore" => tmp = {}
BY DEF Calm

LEMMA DecideFits == ASSUME AsideInv, FilesTrue, SpareInv, Decide PROVE SpareInv'
<1>1. me \in Me /\ World /\ RecordTrue BY TypeIs DEF AsideInv, FilesTrue
<1>2. rec # NoTx => rec \in Tx BY <1>1 DEF World, Held
<1> USE <1>1 DEF At, Goto, Me
<1>3. Recovering => /\ rec \in Tx /\ Status = rec.status /\ me.at = "recover"
                    /\ rec.status # "needs_human"
  BY <1>2 DEF Recovering, Status, SpareInv, Calm
<1>4. ~GiveUp BY DEF GiveUp, SpareInv, Calm
<1>5. me.at = "recover" /\ UNCHANGED <<files, outside, record, env>>
  BY <1>4 DEF Decide, RecoverNothing, RecoverBlocked, RecoverClean, RecoverConflict,
              RecoverUndo, RecoverRedo, RecoverFinish, Classified, Recovering
<1>6. /\ disk' = disk /\ iso' = iso /\ staged' = staged /\ backup' = backup /\ tmp' = tmp
      /\ link' = link /\ away' = away /\ rec' = rec /\ crashes' = crashes
  BY <1>5, LookStep
<1>7. /\ tmp = {} /\ (Commits => Fit(rec)) /\ (Commits' <=> Commits)
      /\ (Fit(rec) => Fit(rec)')
  BY <1>5, LookStep, CalmTemp DEF SpareInv, RecordFits, Spent, Undoes, Back
<1>8. RecordFits' BY <1>7 DEF RecordFits
<1>9. ASSUME me'.at \notin {"giveup", "reattach"}, me'.goal # "stuck",
             me'.at \in Engaged => me'.tx.status # "needs_human"
      PROVE  Calm'
  BY <1>6, <1>7, <1>9, CalmStep DEF SpareInv
<1>10. Commits => crashes > 0 BY <1>5 DEF SpareInv, Struck, Commits
<1>11. ASSUME me'.at \notin {"idle", "recover", "forget"},
             me'.at \in Undoes => Commits PROVE Struck'
  BY <1>6, <1>7, <1>10, <1>11 DEF Struck
<1>12. CASE RecoverNothing
  <2>1. me'.at \in {"idle", "open"} /\ me'.goal = "none"
    BY <1>12 DEF RecoverNothing, Recovered, Idle
  <2>2. Struck' BY <1>5, <1>6, <2>1 DEF SpareInv, Struck, Undoes, Back
  <2>3. Calm' BY <1>9, <2>1 DEF Engaged, Before, Detaching, Back, After, Midway, Undoes, Erased
  <2> QED BY <1>8, <2>1, <2>2, <2>3, FitsRestStep DEF Resting
<1>13. CASE RecoverBlocked
  <2>1. me'.at = "idle" /\ me'.goal = "none" BY <1>13 DEF RecoverBlocked, Idle
  <2>2. Struck' BY <1>5, <1>6, <2>1 DEF SpareInv, Struck, Undoes, Back
  <2>3. Calm' BY <1>9, <2>1 DEF Engaged, Before, Detaching, Back, After, Midway, Undoes, Erased
  <2> QED BY <1>8, <2>1, <2>2, <2>3, FitsRestStep DEF Resting
<1>14. CASE RecoverClean
  <2>1. me'.at = "unmark" /\ me'.goal = "failed" /\ me'.tx = rec
    BY <1>14 DEF RecoverClean
  <2>2. Calm' BY <1>3, <1>9, <1>14, <2>1 DEF RecoverClean
  <2> QED BY <1>8, <1>11, <2>1, <2>2, FitsRestStep DEF Resting, Undoes
<1>15. Accounted(rec.plan) => Conflicts(rec.plan) = {}
  BY DEF Accounted, Conflicts, NewSteps, OldSteps, Old, Done, New, Moved
<1>16. ~RecoverConflict
  BY <1>3, <1>15 DEF RecoverConflict, Classified, Recovering, RecordTrue
<1>17. Classified => Commits /\ Fit(rec) BY <1>3, <1>7 DEF Classified, Recovering, Commits
<1>18. CASE RecoverUndo
  <2>1. me'.at = "undo" /\ me'.goal \in {"failed", "rolled_back"} /\ me'.tx = rec
    BY <1>18 DEF RecoverUndo
  <2>2. Calm' BY <1>3, <1>9, <1>18, <2>1 DEF RecoverUndo, Classified
  <2>3. BackupsFit(Plan)'
    BY <1>6, <1>17, <1>18, <2>1 DEF RecoverUndo, Fit, BackupsFit, Plan
  <2>4. BackFits' BY <2>1, <2>3 DEF BackFits
  <2>5. Struck' BY <1>11, <1>17, <1>18, <2>1 DEF RecoverUndo
  <2> QED BY <1>8, <2>1, <2>2, <2>4, <2>5, FitsBackStep DEF Undoes
<1>19. CASE RecoverRedo
  <2>1. /\ me'.at = "commit" /\ me'.tx = rec /\ me'.todo = OldSteps(rec.plan)
        /\ me'.cmd = "roll-forward" /\ me'.goal = me.goal
    BY <1>19 DEF RecoverRedo
  <2>2. Calm' BY <1>3, <1>9, <1>19, <2>1 DEF RecoverRedo, Classified, SpareInv, Calm
  <2>3. \A s \in Replaced(rec.plan) \cap OldSteps(rec.plan) : s \in staged
    BY <1>17, <1>19 DEF RecoverRedo, Fit, StagedFit, OldSteps, NewSteps, Replaced
  <2>4. CarryFits'
    BY <1>6, <2>1, <2>3 DEF CarryFits, Carrying, Midway, Detaching, Plan
  <2> QED BY <1>8, <1>11, <2>1, <2>2, <2>4, FitsCarryStep DEF Carrying, Midway, Undoes
<1>20. CASE RecoverFinish
  <2>1. me'.at = "complete" /\ me'.tx = rec /\ me'.goal = me.goal BY <1>20 DEF RecoverFinish
  <2>2. Calm' BY <1>3, <1>9, <1>20, <2>1 DEF RecoverFinish, Classified, SpareInv, Calm
  <2>3. CarryFits' BY <1>6, <2>1 DEF CarryFits, Carrying, Midway, Detaching
  <2> QED BY <1>8, <1>11, <2>1, <2>2, <2>3, FitsCarryStep DEF Carrying, Undoes
<1> QED BY <1>4, <1>12, <1>13, <1>14, <1>16, <1>18, <1>19, <1>20 DEF Decide

(* Before a transaction commits, what was prepared is all there is to keep. *)
LEMMA EarlyStep ==
  ASSUME ~Commits', me'.at \in Early \cup {"first", "clean"} \cup Detaching
  PROVE  RecordFits' /\ Struck'
<1>1. me'.at \notin {"idle", "recover", "forget"} \cup Undoes BY DEF Early, Before, Detaching, Undoes
<1> QED BY <1>1 DEF RecordFits, Struck

LEMMA PrepareFitsNext == ASSUME AsideInv, FilesTrue, SpareInv, Prepare PROVE SpareInv'
<1>1. me \in Me /\ World BY TypeIs DEF AsideInv
<1>2. /\ Calm /\ PrepareFits /\ Attaches
      /\ me.at \in Early \cup {"first"} =>
           /\ me.tx \in Tx /\ Begun /\ ~Commits /\ tmp = {} /\ me.tx.kind = me.cmd
           /\ me.goal # "stuck" /\ me.tx.status # "needs_human"
  BY CalmTemp DEF AsideInv, HasTx, Engaged, FilesTrue, ProcessTrue, SpareInv, PrepareFits, Calm,
                  Early, Before
<1> USE <1>1 DEF At, Goto, Did, Me
<1>3. me.at \in Engaged => Plan \in Plans /\ DOMAIN Plan \subseteq Resource
  BY PlanTyped DEF AsideInv, HasTx, Todos
(* A step of the preparation that records nothing new about the commit. *)
<1>4. ASSUME me.at \in Early \cup {"first"}, tmp' = tmp, away' = away,
             rec' = rec \/ rec'.status \in {"planning", "staging"},
             me'.at \in Early \cup {"clean"}, me'.goal \in {me.goal, "failed"},
             me'.tx.status \in {me.tx.status, "staging"}
      PROVE  ~Commits' /\ Calm' /\ RecordFits' /\ Struck'
  <2>1. ~Commits' BY <1>2, <1>4 DEF Commits
  <2>2. Calm' BY <1>2, <1>4, CalmStep DEF Early, Before
  <2> QED BY <2>1, <2>2, <1>4, EarlyStep
<1>5. ASSUME me.at \in Early, me'.at = "clean", me'.goal = "failed", me'.tx = me.tx,
             UNCHANGED <<files, outside, record, env>>
      PROVE  SpareInv'
  <2>1. tmp' = tmp /\ away' = away /\ rec' = rec BY <1>5 DEF files, outside, record
  <2>2. Calm' /\ RecordFits' /\ Struck' BY <1>4, <1>5, <2>1
  <2> QED BY <1>5, <2>2, FitsRestStep DEF Resting
<1>6. CASE OpenRefuse
  <2>1. Over BY <1>6 DEF OpenRefuse, AsideInv, ProcessAside
  <2>2. me' = Idle /\ rec' = rec /\ tmp' = tmp /\ away' = away /\ tmp = {}
    BY <1>2, <1>6, CalmTemp DEF OpenRefuse, files, outside, record
  <2>3. RecordFits' /\ Struck'
    BY <2>1, <2>2 DEF Over, RecordFits, Struck, Commits, Idle, Undoes, Back
  <2>4. me'.at = "idle" /\ me'.goal = "none" BY <2>2 DEF Idle
  <2>5. Calm' BY <1>2, <2>2, <2>4, CalmStep
                 DEF Engaged, Before, Detaching, Back, After, Midway, Undoes, Erased
  <2> QED BY <2>3, <2>4, <2>5, FitsRestStep DEF Resting
<1>7. CASE Open
  <2> DEFINE tx == [kind |-> me.cmd, status |-> "planning", plan |-> [s \in {} |-> 0],
                    ext |-> [k \in {} |-> 0], old |-> "none"]
  <2>1. /\ me'.at = "first" /\ me'.cmd = me.cmd /\ me'.goal = me.goal /\ me'.tx = tx
        /\ rec' = NoTx /\ backup' = {} /\ tmp' = {} /\ away' = away /\ me.at = "open"
    BY <1>7 DEF Open, outside
  <2>2. tx.kind = me.cmd /\ tx.status = "planning" /\ DOMAIN tx.ext = {} OBVIOUS
  <2> HIDE DEF tx
  <2>3. ~Commits' BY <2>1 DEF Commits
  <2>4. RecordFits' /\ Struck' BY <2>1, <2>3, EarlyStep
  <2>5. tmp = {} /\ me.goal # "stuck" BY <1>2, <2>1, CalmTemp DEF Calm
  <2>6. Calm' BY <1>2, <2>1, <2>2, <2>5, CalmStep
  <2>7. PrepareFits'
    BY <2>1, <2>2, <2>3 DEF PrepareFits, Detaches, Detaching, Early, Before, Ready
  <2>8. Attaches' BY <2>1, <2>2 DEF Attaches, Detaches, Detaching, Early, Before
  <2> QED BY <2>1, <2>4, <2>6, <2>7, <2>8, FitsPrepareStep
<1>8. CASE FirstRecord
  <2>1. /\ me.at = "first" /\ me'.at = "classify" /\ me'.tx = me.tx /\ me'.cmd = me.cmd
        /\ me'.goal = me.goal /\ rec' = me.tx /\ backup' = backup /\ tmp' = tmp /\ away' = away
    BY <1>8 DEF FirstRecord, Write, files, outside
  <2>2. ~Commits' /\ Calm' /\ RecordFits' /\ Struck'
    BY <1>2, <1>4, <2>1 DEF Begun, Early, Before
  <2>3. PrepareFits'
    BY <1>2, <2>1, <2>2 DEF PrepareFits, Detaches, Detaching, Early, Before, Ready, Opening
  <2>4. Attaches' BY <1>2, <2>1 DEF Attaches, Detaches, Detaching, Early, Before
  <2> QED BY <2>1, <2>2, <2>3, <2>4, FitsPrepareStep DEF Early, Before
<1>9. CASE PlanFails
  <2>1. me.at \in Early /\ me' = Idle /\ rec' = [me.tx EXCEPT !.status = "failed"]
        /\ tmp' = tmp /\ away' = away
    BY <1>9 DEF PlanFails, Write, files, outside, Early, Before
  <2>2. rec'.status = "failed" BY <1>2, <2>1, StatusIs DEF Statuses
  <2>3. me'.at = "idle" /\ me'.goal = "none" BY <2>1 DEF Idle
  <2>4. RecordFits' /\ Struck' BY <2>2, <2>3 DEF RecordFits, Struck, Commits, Undoes, Back
  <2>5. Calm' BY <1>2, <2>1, <2>2, <2>3, CalmStep
                 DEF Engaged, Before, Detaching, Back, After, Midway, Undoes, Erased
  <2> QED BY <2>3, <2>4, <2>5, FitsRestStep DEF Resting
<1>10. ASSUME NEW S \in SUBSET Resource, Classify(S) PROVE SpareInv'
  <2>1. /\ me.at = "classify" /\ me'.at = "plan" /\ me'.tx = me.tx /\ me'.cmd = me.cmd
        /\ me'.goal = me.goal /\ rec' = rec /\ backup' = backup /\ tmp' = tmp /\ away' = away
        /\ link' = link /\ me'.links = External
    BY <1>10 DEF Classify, files, outside, record
  <2>2. ~Commits' /\ Calm' /\ RecordFits' /\ Struck' BY <1>4, <2>1 DEF Early, Before
  <2>3. PrepareFits'
    BY <1>2, <2>1, <2>2 DEF PrepareFits, Detaches, Detaching, Early, Before, Ready, Opening
  <2>4. Attaches'
    BY <1>2, <2>1 DEF Attaches, Detaches, Detaching, Early, Before, External, Free
  <2> QED BY <2>1, <2>2, <2>3, <2>4, FitsPrepareStep DEF Early, Before
<1>11. CASE PlanOne
  <2>1. PICK p : MakePlan(p) /\ (me.cmd = "install" => \E v \in Kit : p = PlanInstall(v))
    BY <1>11 DEF PlanOne
  <2>2. /\ me.at = "plan" /\ me'.at = "write-plan" /\ me'.tx = [me.tx EXCEPT !.plan = p]
        /\ me'.cmd = me.cmd /\ me'.links = me.links /\ me'.goal = me.goal /\ rec' = rec
        /\ backup' = backup /\ tmp' = tmp /\ away' = away /\ link' = link
    BY <2>1 DEF MakePlan, files, outside, record
  <2>3. me.tx \in Tx BY <1>2, <2>2 DEF Early, Before
  <2>4. /\ me'.tx.plan = p /\ me'.tx.kind = me.tx.kind /\ me'.tx.ext = me.tx.ext
        /\ me'.tx.status = me.tx.status
    BY <2>2, <2>3, TxTyped
  <2>5. ~Commits' /\ Calm' /\ RecordFits' /\ Struck' BY <1>4, <2>2, <2>4 DEF Early, Before
  <2>6. ASSUME NEW v \in Kit, p = PlanInstall(v) PROVE Manifest \in Replaced(p)
    <3>1. Manifest \notin Retired
      BY ResourceAssumption DEF Manifest
    <3>2. Manifest \in DOMAIN p /\ p[Manifest] = Replace(Manifest, v)
      BY <2>6, <3>1 DEF PlanInstall
    <3> QED BY <3>2 DEF Replaced, Replace
  <2>7. ManifestFit(me.tx)'
    BY <1>2, <2>1, <2>2, <2>4, <2>6 DEF ManifestFit, Early, Before
  <2>8. PrepareFits'
    BY <1>2, <2>2, <2>4, <2>5, <2>7
       DEF PrepareFits, Detaches, Detaching, Early, Before, Ready, Opening
  <2>9. Attaches'
    BY <1>2, <2>2, <2>4 DEF Attaches, Detaches, Detaching, Early, Before, Free
  <2> QED BY <2>2, <2>5, <2>8, <2>9, FitsPrepareStep DEF Early, Before
<1>12. CASE WritePlan
  <2>1. /\ me.at = "write-plan" /\ me'.at = "stage-on" /\ me'.tx = me.tx /\ me'.cmd = me.cmd
        /\ me'.links = me.links /\ me'.goal = me.goal /\ rec' = me.tx
        /\ backup' = backup /\ tmp' = tmp /\ away' = away /\ link' = link
    BY <1>12 DEF WritePlan, Write, files, outside
  <2>2. ~Commits' /\ Calm' /\ RecordFits' /\ Struck'
    BY <1>2, <1>4, <2>1 DEF Begun, Early, Before
  <2>3. ManifestFit(me.tx)' BY <1>2, <2>1 DEF PrepareFits, ManifestFit
  <2>4. PrepareFits'
    BY <1>2, <2>1, <2>2, <2>3
       DEF PrepareFits, Detaches, Detaching, Early, Before, Ready, Opening
  <2>5. Attaches'
    BY <1>2, <2>1 DEF Attaches, Detaches, Detaching, Early, Before, Free
  <2> QED BY <2>1, <2>2, <2>4, <2>5, FitsPrepareStep DEF Early, Before
<1>13. CASE StageOn
  <2>1. /\ me.at = "stage-on" /\ me'.at = "stage"
        /\ me'.tx = [me.tx EXCEPT !.status = "staging"] /\ rec' = me'.tx
        /\ me'.todo = Replaced(Plan) /\ me'.cmd = me.cmd
        /\ me'.links = me.links /\ me'.goal = me.goal
        /\ backup' = backup /\ tmp' = tmp /\ away' = away /\ link' = link
    BY <1>13 DEF StageOn, Write, files, outside
  <2>2. me.tx \in Tx BY <1>2, <2>1 DEF Early, Before
  <2>3. /\ me'.tx.plan = me.tx.plan /\ me'.tx.kind = me.tx.kind /\ me'.tx.ext = me.tx.ext
        /\ me'.tx.status = "staging"
    BY <2>1, <2>2, TxTyped
  <2>4. ~Commits' /\ Calm' /\ RecordFits' /\ Struck'
    BY <1>4, <2>1, <2>3 DEF Early, Before
  <2>5. ManifestFit(me.tx)' BY <1>2, <2>1, <2>3 DEF PrepareFits, ManifestFit
  <2>6. Replaced(Plan)' \ me'.todo = {} BY <2>1, <2>3 DEF Plan, Replaced
  <2>7. PrepareFits'
    BY <1>2, <2>1, <2>3, <2>4, <2>5, <2>6
       DEF PrepareFits, Detaches, Detaching, Early, Before, Ready, Opening
  <2>8. Attaches'
    BY <1>2, <2>1, <2>3 DEF Attaches, Detaches, Detaching, Early, Before, Free
  <2> QED BY <2>1, <2>4, <2>7, <2>8, FitsPrepareStep DEF Early, Before

<1>14. ASSUME NEW s \in Resource, StageOne(s) PROVE SpareInv'
  <2>1. /\ me.at = "stage" /\ me'.at = "stage" /\ me'.tx = me.tx /\ rec' = rec
        /\ me'.todo = me.todo \ {s} /\ me'.cmd = me.cmd /\ staged' = staged \cup {s}
        /\ me'.links = me.links /\ me'.goal = me.goal
        /\ backup' = backup /\ tmp' = tmp /\ away' = away /\ link' = link
    BY <1>14 DEF StageOne, outside, record
  <2>2. ~Commits' /\ Calm' /\ RecordFits' /\ Struck' BY <1>4, <2>1 DEF Early, Before
  <2>3. ManifestFit(me.tx)' BY <1>2, <2>1 DEF PrepareFits, ManifestFit
  <2>4. (Replaced(Plan) \ me.todo \subseteq staged)'
    BY <1>2, <2>1 DEF PrepareFits, Plan, Replaced
  <2>5. PrepareFits'
    BY <1>2, <2>1, <2>2, <2>3, <2>4
       DEF PrepareFits, Detaches, Detaching, Early, Before, Ready, Opening
  <2>6. Attaches'
    BY <1>2, <2>1 DEF Attaches, Detaches, Detaching, Early, Before, Free
  <2> QED BY <2>1, <2>2, <2>5, <2>6, FitsPrepareStep DEF Early, Before
<1>15. CASE StageInvalid
  BY <1>5, <1>15 DEF StageInvalid, CleanUp, Early, Before
<1>16. CASE StageDone
  <2>1. /\ me.at = "stage" /\ me'.at = "backup" /\ me'.tx = me.tx /\ rec' = rec
        /\ me.todo = {} /\ me'.todo = DOMAIN Plan /\ me'.cmd = me.cmd /\ staged' = staged
        /\ me'.links = me.links /\ me'.goal = me.goal
        /\ backup' = backup /\ tmp' = tmp /\ away' = away /\ link' = link
    BY <1>16 DEF StageDone, files, outside, record
  <2>2. ~Commits' /\ Calm' /\ RecordFits' /\ Struck' BY <1>4, <2>1 DEF Early, Before
  <2>3. ManifestFit(me.tx)' BY <1>2, <2>1 DEF PrepareFits, ManifestFit
  <2>4. (Replaced(Plan) \subseteq staged)'
    BY <1>2, <2>1 DEF PrepareFits, Plan, Replaced
  <2>5. (\A s \in DOMAIN Plan : s \in backup <=> s \notin me.todo /\ Plan[s].pre # Absent)'
    BY <1>2, <2>1 DEF PrepareFits, Plan, Opening
  <2>6. PrepareFits'
    BY <1>2, <2>1, <2>2, <2>3, <2>4, <2>5
       DEF PrepareFits, Detaches, Detaching, Early, Before, Ready, Opening
  <2>7. Attaches'
    BY <1>2, <2>1 DEF Attaches, Detaches, Detaching, Early, Before, Free
  <2> QED BY <2>1, <2>2, <2>6, <2>7, FitsPrepareStep DEF Early, Before
<1>17. ASSUME NEW s \in Resource, BackupOne(s) PROVE SpareInv'
  <2>1. /\ me.at = "backup" /\ me'.at = "backup" /\ me'.tx = me.tx /\ rec' = rec
        /\ s \in First(me.todo) /\ me'.todo = me.todo \ {s} /\ me'.cmd = me.cmd
        /\ staged' = staged /\ me'.links = me.links /\ me'.goal = me.goal
        /\ backup' = (IF Plan[s].pre = Absent THEN backup ELSE backup \cup {s})
        /\ tmp' = tmp /\ away' = away /\ link' = link
    BY <1>17 DEF BackupOne, outside, record
  <2>2. ~Commits' /\ Calm' /\ RecordFits' /\ Struck' BY <1>4, <2>1 DEF Early, Before
  <2>3. ManifestFit(me.tx)' BY <1>2, <2>1 DEF PrepareFits, ManifestFit
  <2>4. (Replaced(Plan) \subseteq staged)'
    BY <1>2, <2>1 DEF PrepareFits, Plan, Replaced
  <2>5. (\A r \in DOMAIN Plan : r \in backup <=> r \notin me.todo /\ Plan[r].pre # Absent)'
    <3>1. \A r \in DOMAIN Plan : r \in backup <=> r \notin me.todo /\ Plan[r].pre # Absent
      BY <1>2, <2>1 DEF PrepareFits
    <3>2. Plan' = Plan /\ s \in me.todo BY <2>1 DEF Plan, First
    <3> QED BY <2>1, <3>1, <3>2
  <2>6. PrepareFits'
    BY <1>2, <2>1, <2>2, <2>3, <2>4, <2>5
       DEF PrepareFits, Detaches, Detaching, Early, Before, Ready, Opening
  <2>7. Attaches'
    BY <1>2, <2>1 DEF Attaches, Detaches, Detaching, Early, Before, Free
  <2> QED BY <2>1, <2>2, <2>6, <2>7, FitsPrepareStep DEF Early, Before
<1>18. ASSUME NEW s \in Resource, BackupFails(s) PROVE SpareInv'
  BY <1>5, <1>18 DEF BackupFails, CleanUp, Early, Before
(* Everything is staged and backed up. *)
<1>19. ASSUME me.at \in {"backup", "mark", "mark-write"}, me.at = "backup" => me.todo = {},
              me'.at \in Ready,
              me'.tx.plan = me.tx.plan, me'.tx.kind = me.tx.kind, me'.tx.ext = me.tx.ext,
              me'.tx.status = me.tx.status, me'.cmd = me.cmd, me'.links = me.links,
              me'.goal = me.goal, rec' \in {rec, me'.tx},
              UNCHANGED <<files, link, away>>
       PROVE  SpareInv'
  <2>1. me.at \in Early /\ me'.at \in Early BY <1>19 DEF Early, Before, Ready
  <2>2. /\ disk' = disk /\ staged' = staged /\ backup' = backup /\ tmp' = tmp
        /\ link' = link /\ away' = away
    BY <1>19 DEF files
  <2>3. ~Commits' /\ Calm' /\ RecordFits' /\ Struck' BY <1>2, <1>4, <1>19, <2>1, <2>2 DEF Begun
  <2>4. ManifestFit(me.tx)'
    BY <1>2, <1>19 DEF PrepareFits, ManifestFit, Ready
  <2>5. (Replaced(Plan) \subseteq staged)'
    BY <1>2, <1>19, <2>2 DEF PrepareFits, Plan, Replaced, Ready
  <2>6. BackupsFit(Plan) BY <1>2, <1>19 DEF PrepareFits, Ready, BackupsFit
  <2>7. BackupsFit(Plan)' BY <1>19, <2>2, <2>6 DEF BackupsFit, Plan
  <2>8. PrepareFits'
    BY <1>2, <1>19, <2>1, <2>3, <2>4, <2>5, <2>7
       DEF PrepareFits, Detaches, Detaching, Early, Before, Ready, Opening
  <2>9. DOMAIN me.tx.ext = {} BY <1>2, <1>19 DEF Attaches, Early, Before
  <2>10. IF me.cmd = "install" THEN Free(me.links) ELSE \A k \in me.links : link[k] = "ours"
    BY <1>2, <1>19 DEF Attaches, Early, Before
  <2>11. LinksFit(me.tx)' BY <1>19, <2>9 DEF LinksFit
  <2>12. Attaches'
    BY <1>19, <2>1, <2>2, <2>9, <2>10, <2>11 DEF Attaches, Detaches, Detaching, Ready, Free
  <2> QED BY <2>1, <2>3, <2>8, <2>12, FitsPrepareStep
<1>20. CASE BackupDone
  <2>1. me.at = "backup" /\ me.todo = {} /\ me'.at \in Ready /\ me'.tx = me.tx
        /\ me'.cmd = me.cmd /\ me'.links = me.links /\ me'.goal = me.goal /\ rec' = rec
        /\ UNCHANGED <<files, link, away>>
    BY <1>20 DEF BackupDone, Ready, outside, record
  <2> QED BY <1>19, <2>1
<1>21. CASE Mark
  <2>1. PICK tx : /\ Write(tx) /\ me' = [me EXCEPT !.at = "mark-write", !.tx = tx]
                  /\ tx = [me.tx EXCEPT !.old = IF marker THEN "set" ELSE "unset"]
    BY <1>21, Zenon DEF Mark
  <2>2. me.tx \in Tx /\ me.at = "mark" BY <1>2, <1>21 DEF Mark, Early, Before
  <2>3. /\ tx.plan = me.tx.plan /\ tx.kind = me.tx.kind /\ tx.ext = me.tx.ext
        /\ tx.status = me.tx.status
    BY <2>1, <2>2, TxTyped
  <2>4. /\ rec' = tx /\ me'.tx = tx /\ me'.at = "mark-write" /\ me'.cmd = me.cmd
        /\ me'.links = me.links /\ me'.goal = me.goal /\ UNCHANGED <<files, link, away>>
    BY <1>21, <2>1 DEF Mark, Write, outside
  <2> QED BY <1>19, <2>2, <2>3, <2>4 DEF Ready
<1>22. CASE MarkWrite
  <2>1. me.at = "mark-write" /\ me'.at = "commit-on" /\ me'.tx = me.tx
        /\ me'.cmd = me.cmd /\ me'.links = me.links /\ me'.goal = me.goal /\ rec' = rec
        /\ UNCHANGED <<files, link, away>>
    BY <1>22 DEF MarkWrite, record
  <2> QED BY <1>19, <2>1 DEF Ready
<1> QED BY <1>6, <1>7, <1>8, <1>9, <1>10, <1>11, <1>12, <1>13, <1>14, <1>15, <1>16, <1>17,
           <1>18, <1>20, <1>21, <1>22 DEF Prepare

LEMMA FirstSkill ==
  ASSUME NEW S \in SUBSET Skill, NEW k \in First(S) PROVE k \in S /\ First(S) = {k}
<1>1. Skill \subseteq Int BY ResourceAssumption DEF Skill
<1>2. \A i, j \in S : i <= j /\ j <= i => i = j BY <1>1
<1>3. k \in S /\ \A j \in First(S) : j \in S /\ k <= j /\ j <= k BY DEF First
<1> QED BY <1>2, <1>3

(* What recording a link as applied changes. *)
LEMMA AppliedIs ==
  ASSUME NEW tx \in Tx, NEW k
  PROVE  LET new == [tx EXCEPT !.ext[k].state = "applied"]
         IN /\ new.plan = tx.plan /\ new.kind = tx.kind /\ new.status = tx.status
            /\ DOMAIN new.ext = DOMAIN tx.ext
            /\ \A j \in DOMAIN tx.ext : new.ext[j].prior = tx.ext[j].prior
<1> DEFINE new == [tx EXCEPT !.ext[k].state = "applied"]
<1>1. new.ext = [tx.ext EXCEPT ![k].state = "applied"] BY TxTyped
<1>2. new.plan = tx.plan /\ new.kind = tx.kind /\ new.status = tx.status BY TxTyped
<1>3. tx.ext \in [DOMAIN tx.ext -> Ext] BY TxTyped, PartialIs DEF Exts
<1>4. ASSUME NEW j \in DOMAIN tx.ext PROVE new.ext[j].prior = tx.ext[j].prior
  <2>1. tx.ext[j] \in Ext BY <1>3
  <2>2. [tx.ext[j] EXCEPT !.state = "applied"].prior = tx.ext[j].prior BY <2>1 DEF Ext
  <2> QED BY <1>1, <1>3, <2>2
<1>5. DOMAIN new.ext = DOMAIN tx.ext BY <1>1
<1> QED BY <1>2, <1>4, <1>5

LEMMA DetachFits == ASSUME AsideInv, FilesTrue, SpareInv, Detach PROVE SpareInv'
<1>1. me.at \in Settled /\ me.at \in Before \cup Detaching
  BY DEF Detach, DetachPlan, DetachDone, ReattachDone, DetachSkip, DetachStart, DetachOrphan,
         DetachMove, DetachFails, DetachDispose, DetachRestore, Detached, At, Settled, Before,
         Detaching
<1>2. me.tx \in Tx /\ me \in Me /\ World BY <1>1, SettledTx
<1>3. /\ Calm /\ PrepareFits /\ Attaches /\ CarryFits /\ RecordFits
      /\ tmp = {} /\ me.goal # "stuck" /\ me.tx.status # "needs_human"
  BY <1>1, CalmTemp
     DEF SpareInv, Calm, Engaged, Before, Detaching, Settled, Back, After, Midway, Undoes
<1>4. ~ReattachDone BY <1>3 DEF ReattachDone, At, Calm
<1>5. UNCHANGED files /\ crashes' = crashes
  BY DEF Detach, DetachPlan, DetachDone, ReattachDone, DetachSkip, DetachStart, DetachOrphan,
         DetachMove, DetachFails, DetachDispose, DetachRestore, Detached, env
<1>6. disk' = disk /\ staged' = staged /\ backup' = backup /\ tmp' = tmp BY <1>5 DEF files
<1>7. me.links \in SUBSET Skill BY <1>2 DEF Me, Names
<1> USE <1>2 DEF At, Goto, Me
(* While an uninstall takes its links away the files stay as prepared. *)
<1>8. ASSUME me.at \in Detaching \cup {"detach-plan"}, ~Forward,
             me'.at \in Detaching \cup {"commit-on"},
             me'.tx.plan = me.tx.plan, me'.tx.kind = me.tx.kind, me'.tx.status = me.tx.status,
             me'.cmd = me.cmd, me'.goal = me.goal, rec' \in {rec, me'.tx},
             \A k \in Skill : away'[k] # "theirs"
      PROVE  /\ ~Forward' /\ RecordFits' /\ Struck' /\ Calm' /\ PrepareFits'
             /\ me.cmd = "uninstall" /\ me.tx.kind = "uninstall"
  <2>1. me.cmd = "uninstall" /\ ~Forward'
    BY <1>8 DEF AsideInv, ProcessAims, OwnUninstall, Forward
  <2>2. /\ Begun /\ ~Commits /\ me.tx.kind = me.cmd /\ BackupsFit(Plan)
        /\ Replaced(Plan) \subseteq staged
    BY <1>3, <1>8 DEF FilesTrue, ProcessTrue, PrepareFits, Detaches, Ready, Early, Before
  <2>3. ~Commits' BY <1>8, <2>2 DEF Commits, Begun
  <2>4. RecordFits' /\ Struck' BY <1>8, <2>3, EarlyStep DEF Early, Before
  <2>5. Calm'
    BY <1>3, <1>6, <1>8, CalmStep
       DEF Calm, Engaged, Detaching
  <2>6. Plan' = Plan BY <1>8 DEF Plan
  <2>7. BackupsFit(Plan)' BY <1>6, <2>2, <2>6 DEF BackupsFit
  <2>8. (Replaced(Plan) \subseteq staged)' BY <1>6, <2>2, <2>6 DEF Replaced
  <2>9. ManifestFit(me.tx)' BY <1>8, <2>1, <2>2 DEF ManifestFit
  <2>10. PrepareFits'
    BY <1>8, <2>1, <2>2, <2>3, <2>7, <2>8, <2>9
       DEF PrepareFits, Detaches, Detaching, Early, Before, Ready, Opening
  <2> QED BY <2>1, <2>2, <2>4, <2>5, <2>10
<1>9. CASE DetachPlan
  <2> DEFINE ext == [k \in me.links |-> RemoveIntent(k)]
  <2>1. PICK tx : /\ Write(tx) /\ me' = [me EXCEPT !.at = "detach", !.tx = tx]
                  /\ tx = [me.tx EXCEPT !.ext = ext]
    BY <1>9, Zenon DEF DetachPlan
  <2>2. tx.plan = me.tx.plan /\ tx.kind = me.tx.kind /\ tx.status = me.tx.status
        /\ tx.ext = ext
    BY <2>1, TxTyped
  <2>3. /\ me.at = "detach-plan" /\ me'.at = "detach" /\ me'.tx = tx /\ rec' = tx
        /\ me'.cmd = me.cmd /\ me'.goal = me.goal /\ me'.links = me.links
        /\ link' = link /\ away' = away
    BY <1>9, <2>1 DEF DetachPlan, Write, outside
  <2>4. ~Forward BY <2>3 DEF AsideInv, ProcessAims, Forward, Before
  <2>5. /\ ~Forward' /\ RecordFits' /\ Struck' /\ Calm' /\ PrepareFits'
        /\ me.cmd = "uninstall" /\ me.tx.kind = "uninstall"
    BY <1>3, <1>8, <2>2, <2>3, <2>4 DEF Detaching, Calm
  <2>6. \A k \in me.links : link[k] = "ours"
    BY <1>3, <2>3, <2>5 DEF Attaches, Early, Before
  <2>7. \A k \in me.links : ext[k].prior = "ours" BY <2>6 DEF RemoveIntent
  <2>8. Attaches'
    BY <2>2, <2>3, <2>5, <2>6, <2>7 DEF Attaches, Detaches, Detaching, Early, Before
  <2> QED BY <2>3, <2>5, <2>8, FitsPrepareStep DEF Detaches, Detaching
(* An uninstall at work on its own links. *)
<1>10. ASSUME me.at \in Detaching, ~Forward
       PROVE  /\ me.links \subseteq DOMAIN me.tx.ext
              /\ \A k \in DOMAIN me.tx.ext :
                    /\ me.tx.ext[k].prior = "ours"
                    /\ IF k \notin me.links THEN Gone(k)
                       ELSE IF k \notin First(me.links) THEN link[k] = "ours"
                       ELSE /\ me.at \in {"detach", "aside"} => link[k] = "ours"
                            /\ me.at = "moved" => link[k] = "absent" /\ away[k] = "ours"
                            /\ me.at = "detached" => Gone(k)
  BY <1>3, <1>10 DEF Attaches, Detaches
(* A transaction that is carried on finds its links gone. *)
<1>11. ASSUME me.at \in Detaching, Forward
       PROVE  /\ me.at \in {"detach", "detached"} /\ Commits
              /\ rec.kind = "uninstall" /\ me.links \subseteq DOMAIN rec.ext
              /\ \A k \in me.links : Gone(k)
  <2>1. /\ me.at \in {"detach", "detached"} /\ Commits
        /\ rec.kind = "uninstall" /\ me.links \subseteq DOMAIN rec.ext
    BY <1>3, <1>11 DEF CarryFits
  <2>2. LinksFit(rec) BY <1>3, <2>1 DEF RecordFits, Fit, Spent, Undoes, Back
  <2> QED BY <2>1, <2>2 DEF LinksFit
<1>12. ASSUME Forward, me.at \in Detaching, rec' = rec, link' = link, away' = away,
              me'.at \in {"detach", "detached", "finish"}, me'.links \subseteq me.links,
              me'.goal = me.goal, me'.tx.status = me.tx.status
       PROVE  SpareInv'
  <2>1. Commits' /\ Fit(rec) /\ Fit(rec)'
    BY <1>3, <1>6, <1>11, <1>12, SameFit DEF RecordFits, Spent, Undoes, Back, Detaching
  <2>2. RecordFits' BY <2>1 DEF RecordFits
  <2>3. Struck' BY <1>12 DEF Struck, Undoes, Back
  <2>4. Calm' BY <1>3, <1>6, <1>12, CalmStep
  <2>5. CASE me'.at = "finish" BY <2>2, <2>3, <2>4, <2>5, FitsRestStep DEF Resting
  <2>6. CASE me'.at \in {"detach", "detached"}
    <3>1. Forward' BY <1>12 DEF Forward
    <3>2. CarryFits' BY <1>11, <1>12, <2>1, <2>6, <3>1 DEF CarryFits, Carrying, Midway
    <3> QED BY <2>2, <2>3, <2>4, <2>6, <3>1, <3>2, FitsCarryStep DEF Detaching
  <2> QED BY <1>12, <2>5, <2>6
<1>13. CASE DetachDone
  <2>1. /\ me.at = "detach" /\ me.links = {} /\ me'.tx = me.tx /\ me'.cmd = me.cmd
        /\ me'.goal = me.goal /\ me'.links = me.links
        /\ rec' = rec /\ link' = link /\ away' = away
        /\ me'.at = IF me.goal = "done" THEN "finish" ELSE "commit-on"
    BY <1>3, <1>13 DEF DetachDone, outside, record
  <2>2. CASE Forward BY <1>3, <1>12, <2>1, <2>2 DEF Forward, Detaching
  <2>3. CASE ~Forward
    <3>1. me'.at = "commit-on" BY <2>1, <2>3 DEF Forward
    <3>2. /\ RecordFits' /\ Struck' /\ Calm' /\ PrepareFits'
          /\ me.cmd = "uninstall" /\ me.tx.kind = "uninstall"
      BY <1>3, <1>8, <2>1, <2>3, <3>1 DEF Detaching, Calm
    <3>3. LinksFit(me.tx)' BY <1>10, <2>1, <2>3, <3>2 DEF LinksFit, Gone, Detaching
    <3>4. Attaches' BY <2>1, <3>1, <3>2, <3>3 DEF Attaches, Detaches, Detaching
    <3> QED BY <3>1, <3>2, <3>4, FitsPrepareStep DEF Early, Before
  <2> QED BY <2>2, <2>3
<1>14. ASSUME NEW k \in Skill, me.at \in Detaching, NextSkill(k)
       PROVE  k \in me.links /\ First(me.links) = {k}
  BY <1>7, <1>14, FirstSkill DEF NextSkill
(* One step of the removal of a link that leaves the others alone. *)
<1>15. ASSUME NEW k \in Skill, me.at \in Detaching, ~Forward, NextSkill(k),
              me'.tx = me.tx, me'.cmd = me.cmd, me'.goal = me.goal, me'.links = me.links,
              rec' = rec, me'.at \in Detaching,
              \A j \in Skill \ {k} : link'[j] = link[j] /\ away'[j] = away[j],
              away'[k] # "theirs",
              me'.at \in {"detach", "aside"} => link'[k] = "ours",
              me'.at = "moved" => link'[k] = "absent" /\ away'[k] = "ours",
              me'.at = "detached" => link'[k] = "absent" /\ away'[k] = "absent"
       PROVE  SpareInv'
  <2>1. k \in me.links /\ First(me.links) = {k} BY <1>14, <1>15
  <2>2. \A j \in Skill : away'[j] # "theirs" BY <1>3, <1>15 DEF Calm
  <2>3. ~Forward' /\ RecordFits' /\ Struck' /\ Calm' /\ PrepareFits'
    BY <1>8, <1>15, <2>2
  <2>4. DOMAIN me.tx.ext \subseteq Skill BY TxTyped, PartialIs DEF Exts
  <2>5. Attaches'
    BY <1>10, <1>15, <2>1, <2>4 DEF Attaches, Detaches, Detaching, Early, Before, Gone
  <2> QED BY <1>15, <2>3, <2>5, FitsPrepareStep DEF Detaches
<1>16. ASSUME NEW k \in Skill, DetachSkip(k) PROVE SpareInv'
  <2>1. /\ me.at = "detach" /\ NextSkill(k) /\ me'.at = "detached" /\ me'.links = me.links
        /\ me'.goal = me.goal /\ me'.tx = me.tx
        /\ rec' = rec /\ link' = link /\ away' = away
    BY <1>16 DEF DetachSkip, outside, record
  <2>2. k \in me.links BY <1>14, <2>1 DEF Detaching
  <2>3. Forward BY <1>10, <1>16, <2>1, <2>2 DEF DetachSkip, Attached, Detaching
  <2> QED BY <1>12, <2>1, <2>3 DEF Detaching
<1>17. ASSUME NEW k \in Skill, DetachStart(k) PROVE SpareInv'
  <2>1. /\ me.at = "detach" /\ NextSkill(k) /\ me'.at = "aside" /\ me'.links = me.links
        /\ me'.goal = me.goal /\ me'.tx = me.tx /\ me'.cmd = me.cmd
        /\ rec' = rec /\ link' = link /\ away' = away
    BY <1>17 DEF DetachStart, outside, record
  <2>2. k \in me.links /\ First(me.links) = {k} BY <1>14, <2>1 DEF Detaching
  <2>3. ~Forward BY <1>11, <1>17, <2>1, <2>2 DEF DetachStart, Gone, Detaching
  <2>4. link[k] = "ours" BY <1>10, <2>1, <2>2, <2>3 DEF Detaching
  <2>5. away[k] # "theirs" BY <1>3 DEF Calm
  <2> QED BY <1>15, <2>1, <2>3, <2>4, <2>5 DEF Detaching
<1>18. ASSUME me.at \in {"aside", "moved"} PROVE ~Forward BY <1>11, <1>18 DEF Detaching
<1>19. ASSUME NEW k \in Skill, DetachOrphan(k) PROVE SpareInv'
  <2>1. /\ me.at = "aside" /\ NextSkill(k) /\ me' = me /\ rec' = rec
        /\ away' = [away EXCEPT ![k] = "absent"] /\ link' = link
    BY <1>3, <1>19 DEF DetachOrphan, record, Calm
  <2>2. k \in me.links /\ First(me.links) = {k} BY <1>14, <2>1 DEF Detaching
  <2>3. link[k] = "ours" BY <1>10, <1>18, <2>1, <2>2 DEF Detaching
  <2>4. /\ away'[k] = "absent" /\ \A j \in Skill \ {k} : away'[j] = away[j]
    BY <2>1 DEF World
  <2> QED BY <1>15, <1>18, <2>1, <2>3, <2>4 DEF Detaching
<1>20. ASSUME NEW k \in Skill, DetachMove(k) PROVE SpareInv'
  <2>1. /\ me.at = "aside" /\ NextSkill(k) /\ me'.at = "moved" /\ me'.links = me.links
        /\ me'.goal = me.goal /\ me'.tx = me.tx /\ me'.cmd = me.cmd /\ rec' = rec
        /\ away' = [away EXCEPT ![k] = link[k]] /\ link' = [link EXCEPT ![k] = "absent"]
    BY <1>20 DEF DetachMove, record
  <2>2. k \in me.links /\ First(me.links) = {k} BY <1>14, <2>1 DEF Detaching
  <2>3. link[k] = "ours" BY <1>10, <1>18, <2>1, <2>2 DEF Detaching
  <2>4. /\ away'[k] = "ours" /\ link'[k] = "absent"
        /\ \A j \in Skill \ {k} : link'[j] = link[j] /\ away'[j] = away[j]
    BY <2>1, <2>3 DEF World
  <2> QED BY <1>15, <1>18, <2>1, <2>4 DEF Detaching
<1>21. ASSUME NEW k \in Skill PROVE ~DetachFails(k) /\ ~DetachRestore(k)
  <2>1. away[k] # "theirs" BY <1>3 DEF Calm
  <2>2. ASSUME DetachFails(k) PROVE FALSE
    <3>1. me.at = "aside" /\ NextSkill(k) BY <2>2 DEF DetachFails
    <3>2. k \in me.links /\ First(me.links) = {k} BY <1>14, <3>1 DEF Detaching
    <3>3. link[k] = "ours" BY <1>10, <1>18, <3>1, <3>2 DEF Detaching
    <3> QED BY <2>1, <2>2, <3>3 DEF DetachFails
  <2> QED BY <2>1, <2>2 DEF DetachRestore
<1>22. ASSUME NEW k \in Skill, DetachDispose(k) PROVE SpareInv'
  <2>1. /\ me.at = "moved" /\ NextSkill(k) /\ me'.at = "detached" /\ me'.links = me.links
        /\ me'.goal = me.goal /\ me'.tx = me.tx /\ me'.cmd = me.cmd /\ rec' = rec
        /\ away' = [away EXCEPT ![k] = "absent"] /\ link' = link
    BY <1>22 DEF DetachDispose, record
  <2>2. k \in me.links /\ First(me.links) = {k} BY <1>14, <2>1 DEF Detaching
  <2>3. link[k] = "absent" BY <1>10, <1>18, <2>1, <2>2 DEF Detaching
  <2>4. /\ away'[k] = "absent" /\ \A j \in Skill \ {k} : away'[j] = away[j]
    BY <2>1 DEF World
  <2> QED BY <1>15, <1>18, <2>1, <2>3, <2>4 DEF Detaching
<1>23. ASSUME NEW k \in Skill, Detached(k) PROVE SpareInv'
  <2>1. PICK tx : /\ me' = [me EXCEPT !.at = "detach", !.tx = tx, !.links = @ \ {k}]
                  /\ tx = [me.tx EXCEPT !.ext[k].state = "applied"]
                  /\ IF Forward THEN UNCHANGED record ELSE Write(tx)
    BY <1>23, Zenon DEF Detached
  <2>2. /\ me.at = "detached" /\ NextSkill(k) /\ link' = link /\ away' = away
        /\ me'.at = "detach" /\ me'.tx = tx /\ me'.links = me.links \ {k}
        /\ me'.goal = me.goal /\ me'.cmd = me.cmd
        /\ IF Forward THEN rec' = rec ELSE rec' = tx
    BY <1>23, <2>1 DEF Detached, outside, record, Write
  <2>3. /\ tx.plan = me.tx.plan /\ tx.kind = me.tx.kind /\ tx.status = me.tx.status
        /\ DOMAIN tx.ext = DOMAIN me.tx.ext
        /\ \A j \in DOMAIN me.tx.ext : tx.ext[j].prior = me.tx.ext[j].prior
    BY <2>1, AppliedIs
  <2>4. CASE Forward BY <1>12, <2>2, <2>3, <2>4 DEF Detaching
  <2>5. CASE ~Forward
    <3>1. k \in me.links /\ First(me.links) = {k} BY <1>14, <2>2 DEF Detaching
    <3>2. ~Forward' /\ RecordFits' /\ Struck' /\ Calm' /\ PrepareFits'
      BY <1>3, <1>8, <2>2, <2>3, <2>5 DEF Detaching, Calm
    <3>3. Attaches'
      BY <1>10, <2>2, <2>3, <2>5, <3>1
         DEF Attaches, Detaches, Detaching, Early, Before, Gone
    <3> QED BY <2>2, <3>2, <3>3, FitsPrepareStep DEF Detaches, Detaching
  <2> QED BY <2>4, <2>5
<1> QED BY <1>4, <1>9, <1>13, <1>16, <1>17, <1>19, <1>20, <1>21, <1>22, <1>23 DEF Detach

LEMMA CommitFits == ASSUME AsideInv, FilesTrue, SpareInv, Commit PROVE SpareInv'
<1>1. me \in Me /\ World BY TypeIs DEF AsideInv
<1>2. /\ Calm /\ PrepareFits /\ Attaches /\ CarryFits /\ RecordFits
      /\ me.at \in Midway \cup {"commit-on"} =>
           me.tx \in Tx /\ tmp = {} /\ me.goal # "stuck" /\ me.tx.status # "needs_human"
  BY CalmTemp DEF SpareInv, Calm, AsideInv, HasTx, Engaged, Before, Midway
<1> USE <1>1 DEF At, Goto, Did, Me
<1>3. me.at \in Midway =>
        /\ rec = me.tx /\ rec.plan = Plan /\ Commits /\ Fit(rec) /\ CommitTrue
        /\ me.todo \in SUBSET Resource /\ me.todo \subseteq DOMAIN Plan
        /\ DOMAIN Plan \subseteq Resource
        /\ me.cmd = "install" => me.tx.kind = "install" /\ Free(me.links)
        /\ \A s \in Replaced(Plan) \cap me.todo :
              s \in staged \/ (me.at = "swapped" /\ s \in First(me.todo))
  <2> SUFFICES ASSUME me.at \in Midway
               PROVE  /\ rec = me.tx /\ rec.plan = Plan /\ Commits /\ Fit(rec) /\ CommitTrue
                      /\ me.todo \in SUBSET Resource /\ me.todo \subseteq DOMAIN Plan
                      /\ DOMAIN Plan \subseteq Resource
                      /\ me.cmd = "install" => me.tx.kind = "install" /\ Free(me.links)
                      /\ \A s \in Replaced(Plan) \cap me.todo :
                            s \in staged \/ (me.at = "swapped" /\ s \in First(me.todo))
    OBVIOUS
  <2>1. rec = me.tx /\ rec.plan = Plan BY <1>2 DEF CarryFits, Carrying, Plan
  <2>2. Commits BY <1>2 DEF AsideInv, ProcessAside, Carries, Interrupted, Calm, Commits
  <2>3. Fit(rec) BY <1>2, <2>2 DEF RecordFits, Spent, Undoes, Back, Midway
  <2>4. CommitTrue BY DEF FilesTrue, ProcessTrue
  <2>5. me.todo \subseteq DOMAIN Plan BY DEF AsideInv, HasTx
  <2>6. DOMAIN Plan \subseteq Resource BY <1>2, PlanTyped DEF Todos
  <2> QED BY <1>2, <2>1, <2>2, <2>3, <2>4, <2>5, <2>6 DEF CarryFits
<1>4. \A s \in First(me.todo) :
        me.at \in Midway => s \in me.todo /\ First(me.todo) = {s} /\ s \in Resource
                            /\ s \in DOMAIN Plan
  BY <1>3, FirstIsOne
(* The next file of the list is as the commit expects it. *)
<1>5. \A s \in First(me.todo) :
        /\ me.at \in {"commit", "swap", "isolate"} => Old(Plan, s)
        /\ me.at = "swapped" => New(Plan, s)
        /\ me.at = "isolated" => Moved(Plan, s)
  BY <1>3 DEF CommitTrue, Midway
<1>6. ASSUME NEW s \in Resource PROVE ~CommitConflict(s)
  BY <1>5 DEF CommitConflict, Committing, Old
<1>7. ASSUME NEW s \in Resource PROVE ~CommitUnstaged(s)
  BY <1>3, <1>4 DEF CommitUnstaged, Committing, Replaced, Midway
<1>8. ASSUME NEW s \in Resource PROVE ~IsolateFails(s)
  BY <1>2, <1>5 DEF IsolateFails, Old, CarryFits
<1>9. ASSUME NEW s \in Resource PROVE ~Reinstate(s) /\ ~ReinstateFails(s)
  BY <1>5 DEF Reinstate, ReinstateFails, Moved
(* A step that goes on with the commit. *)
<1>10. ASSUME me.at \in Midway, me'.at \in Midway, me'.tx = me.tx, me'.cmd = me.cmd,
              me'.links = me.links, me'.goal = me.goal, rec' = rec, link' = link,
              away' = away, backup' = backup, tmp' = tmp,
              \A s \in Replaced(Plan) : s \in staged' \/ disk'[s] = Plan[s].post,
              \A s \in Replaced(Plan) \cap me'.todo :
                 s \in staged' \/ (me'.at = "swapped" /\ s \in First(me'.todo)),
              me'.at = "isolate" => \A s \in First(me'.todo) : disk'[s] # Absent
       PROVE  SpareInv'
  <2>1. Commits' BY <1>3, <1>10 DEF Commits
  <2>2. Plan' = Plan BY <1>10 DEF Plan
  <2>3. Fit(rec)'
    BY <1>3, <1>10 DEF Fit, BackupsFit, StagedFit, ManifestFit, LinksFit, Gone, Replaced
  <2>4. RecordFits' BY <2>3 DEF RecordFits
  <2>5. Struck' BY <1>10 DEF Struck, Midway, Undoes, Back
  <2>6. Calm' BY <1>2, <1>10, CalmStep DEF Midway
  <2>7. (\A s \in Replaced(Plan) \cap me.todo :
           s \in staged \/ (me.at = "swapped" /\ s \in First(me.todo)))'
    BY <1>10, <2>2 DEF Replaced
  <2>8. CarryFits'
    BY <1>3, <1>10, <2>7 DEF CarryFits, Carrying, Midway, Detaching, Free
  <2> QED BY <1>10, <2>4, <2>5, <2>6, <2>8, FitsCarryStep DEF Carrying
<1>11. CASE CommitOn
  <2>1. /\ me.at = "commit-on" /\ me'.at = "commit"
        /\ rec' = [me.tx EXCEPT !.status = "committing"] /\ me'.tx = rec'
        /\ me'.todo = DOMAIN Plan /\ me'.cmd = me.cmd /\ me'.links = me.links
        /\ me'.goal = me.goal /\ disk' = disk /\ staged' = staged /\ backup' = backup
        /\ tmp' = tmp /\ link' = link /\ away' = away
    BY <1>11 DEF CommitOn, Write, files, outside
  <2>2. me.tx \in Tx BY <1>2, <2>1
  <2>3. /\ rec'.plan = me.tx.plan /\ rec'.kind = me.tx.kind /\ rec'.ext = me.tx.ext
        /\ rec'.status = "committing"
    BY <2>1, <2>2, TxTyped
  <2>4. /\ BackupsFit(Plan) /\ Replaced(Plan) \subseteq staged /\ ManifestFit(me.tx)
        /\ me.tx.kind = me.cmd /\ LinksFit(me.tx) /\ (me.cmd = "install" => Free(me.links))
    BY <1>2, <2>1 DEF PrepareFits, Attaches, Ready, Early, Before
  <2>5. BackupsFit(rec.plan)' BY <2>1, <2>3, <2>4 DEF BackupsFit, Plan
  <2>6. StagedFit(rec.plan)' BY <2>1, <2>3, <2>4 DEF StagedFit, Replaced, Plan
  <2>7. ManifestFit(rec)' BY <2>3, <2>4 DEF ManifestFit, Replaced
  <2>8. LinksFit(rec)' BY <2>1, <2>3, <2>4 DEF LinksFit, Gone
  <2>9. RecordFits' BY <2>5, <2>6, <2>7, <2>8 DEF RecordFits, Fit
  <2>10. Struck' BY <2>1 DEF Struck, Undoes, Back
  <2>11. Calm' BY <1>2, <2>1, <2>3, CalmStep
  <2>12. (\A s \in Replaced(Plan) \cap me.todo : s \in staged)'
    BY <2>1, <2>3, <2>4 DEF Replaced, Plan
  <2>13. CarryFits'
    BY <2>1, <2>3, <2>4, <2>12 DEF CarryFits, Carrying, Midway, Detaching, Free
  <2> QED BY <2>1, <2>9, <2>10, <2>11, <2>13, FitsCarryStep DEF Carrying, Midway
<1>12. ASSUME NEW s \in Resource, CommitAbsent(s) PROVE SpareInv'
  <2>1. /\ me.at = "commit" /\ me'.at = "commit" /\ me'.todo = me.todo \ {s}
        /\ me'.tx = me.tx /\ me'.cmd = me.cmd /\ me'.links = me.links /\ me'.goal = me.goal
        /\ rec' = rec /\ link' = link /\ away' = away /\ backup' = backup /\ tmp' = tmp
        /\ disk' = disk /\ staged' = staged
    BY <1>12 DEF CommitAbsent, Committing, files, outside, record
  <2>2. me.at \in Midway /\ me'.at \in Midway BY <2>1 DEF Midway
  <2>3. \A r \in Replaced(Plan) : r \in staged' \/ disk'[r] = Plan[r].post
    BY <1>3, <2>1, <2>2 DEF Fit, StagedFit
  <2>4. \A r \in Replaced(Plan) \cap me'.todo : r \in staged'
    BY <1>3, <2>1, <2>2
  <2> QED BY <1>10, <2>1, <2>2, <2>3, <2>4
<1>13. ASSUME NEW s \in Resource, CommitChecked(s) PROVE SpareInv'
  <2>1. /\ me.at = "commit" /\ me'.at \in {"isolate", "swap"} /\ me'.todo = me.todo
        /\ me'.tx = me.tx /\ me'.cmd = me.cmd /\ me'.links = me.links /\ me'.goal = me.goal
        /\ rec' = rec /\ link' = link /\ away' = away /\ backup' = backup /\ tmp' = tmp
        /\ disk' = disk /\ staged' = staged /\ s \in First(me.todo)
        /\ me'.at = "isolate" => disk[s] # Absent
    BY <1>13 DEF CommitChecked, Committing, files, outside, record
  <2>2. me.at \in Midway /\ me'.at \in Midway BY <2>1 DEF Midway
  <2>3. \A r \in Replaced(Plan) : r \in staged' \/ disk'[r] = Plan[r].post
    BY <1>3, <2>1, <2>2 DEF Fit, StagedFit
  <2>4. \A r \in Replaced(Plan) \cap me'.todo : r \in staged'
    BY <1>3, <2>1, <2>2
  <2>5. First(me'.todo) = {s} BY <1>4, <2>1, <2>2
  <2> QED BY <1>10, <2>1, <2>2, <2>3, <2>4, <2>5
<1>14. ASSUME NEW s \in Resource, Swap(s) PROVE SpareInv'
  <2>1. /\ me.at = "swap" /\ me'.at = "swapped" /\ me'.todo = me.todo
        /\ me'.tx = me.tx /\ me'.cmd = me.cmd /\ me'.links = me.links /\ me'.goal = me.goal
        /\ rec' = rec /\ link' = link /\ away' = away /\ backup' = backup /\ tmp' = tmp
        /\ disk' = [disk EXCEPT ![s] = Plan[s].post] /\ staged' = staged \ {s}
        /\ s \in First(me.todo)
    BY <1>14 DEF Swap, outside, record
  <2>2. me.at \in Midway /\ me'.at \in Midway BY <2>1 DEF Midway
  <2>3. disk'[s] = Plan[s].post /\ \A r \in Resource \ {s} : disk'[r] = disk[r]
    BY <2>1 DEF World
  <2>4. \A r \in Replaced(Plan) : r \in staged' \/ disk'[r] = Plan[r].post
    BY <1>3, <2>1, <2>2, <2>3 DEF Fit, StagedFit, Replaced
  <2>5. \A r \in Replaced(Plan) \cap me'.todo : r \in staged' \/ r \in First(me'.todo)
    BY <1>3, <2>1, <2>2
  <2> QED BY <1>10, <2>1, <2>2, <2>4, <2>5
<1>15. ASSUME NEW s \in Resource, Swapped(s) PROVE SpareInv'
  <2>1. me.at = "swapped" /\ s \in First(me.todo) BY <1>15 DEF Swapped
  <2>2. disk[s] = Plan[s].post BY <1>5, <2>1 DEF New
  <2>3. /\ me'.at = "commit" /\ me'.todo = me.todo \ {s}
        /\ me'.tx = me.tx /\ me'.cmd = me.cmd /\ me'.links = me.links /\ me'.goal = me.goal
        /\ rec' = rec /\ link' = link /\ away' = away /\ backup' = backup /\ tmp' = tmp
        /\ disk' = disk /\ staged' = staged
    <3>1. /\ me' = [me EXCEPT !.at = "commit", !.todo = @ \ {s}]
          /\ UNCHANGED <<files, outside, record, env>>
      BY <1>15, <2>2, Zenon DEF Swapped
    <3> QED BY <3>1, LookStep
  <2>4. me.at \in Midway /\ me'.at \in Midway BY <2>1, <2>3 DEF Midway
  <2>5. First(me.todo) = {s} BY <1>4, <2>1, <2>4
  <2>6. \A r \in Replaced(Plan) : r \in staged' \/ disk'[r] = Plan[r].post
    BY <1>3, <2>3, <2>4 DEF Fit, StagedFit
  <2>7. \A r \in Replaced(Plan) \cap me'.todo : r \in staged'
    BY <1>3, <2>3, <2>4, <2>5
  <2> QED BY <1>10, <2>3, <2>4, <2>6, <2>7
<1>16. ASSUME NEW s \in Resource, Isolate(s) PROVE SpareInv'
  <2>1. /\ me.at = "isolate" /\ me'.at = "isolated" /\ me'.todo = me.todo
        /\ me'.tx = me.tx /\ me'.cmd = me.cmd /\ me'.links = me.links /\ me'.goal = me.goal
        /\ rec' = rec /\ link' = link /\ away' = away /\ backup' = backup /\ tmp' = tmp
        /\ disk' = [disk EXCEPT ![s] = Absent] /\ staged' = staged
        /\ s \in First(me.todo)
    BY <1>16 DEF Isolate, outside, record
  <2>2. me.at \in Midway /\ me'.at \in Midway BY <2>1 DEF Midway
  <2>3. s \in Deleted(Plan) BY <2>1, <2>2 DEF AsideInv, ProcessAside
  <2>4. s \notin Replaced(Plan) BY <2>3 DEF Deleted, Replaced
  <2>5. \A r \in Replaced(Plan) : r \in staged' \/ disk'[r] = Plan[r].post
    BY <1>3, <2>1, <2>2, <2>4 DEF Fit, StagedFit, World
  <2>6. \A r \in Replaced(Plan) \cap me'.todo : r \in staged'
    BY <1>3, <2>1, <2>2
  <2> QED BY <1>10, <2>1, <2>2, <2>5, <2>6
<1>17. ASSUME NEW s \in Resource, Dispose(s) PROVE SpareInv'
  <2>1. /\ me.at = "isolated" /\ me'.at = "commit" /\ me'.todo = me.todo \ {s}
        /\ me'.tx = me.tx /\ me'.cmd = me.cmd /\ me'.links = me.links /\ me'.goal = me.goal
        /\ rec' = rec /\ link' = link /\ away' = away /\ backup' = backup /\ tmp' = tmp
        /\ disk' = disk /\ staged' = staged
    BY <1>17 DEF Dispose, outside, record
  <2>2. me.at \in Midway /\ me'.at \in Midway BY <2>1 DEF Midway
  <2>3. \A r \in Replaced(Plan) : r \in staged' \/ disk'[r] = Plan[r].post
    BY <1>3, <2>1, <2>2 DEF Fit, StagedFit
  <2>4. \A r \in Replaced(Plan) \cap me'.todo : r \in staged'
    BY <1>3, <2>1, <2>2
  <2> QED BY <1>10, <2>1, <2>2, <2>3, <2>4
<1>18. CASE CommitDone
  <2>1. /\ me.at = "commit" /\ me'.at \in {"complete", "link", "finish"}
        /\ me'.at = "link" => me.cmd = "install"
        /\ me'.tx = me.tx /\ me'.cmd = me.cmd /\ me'.links = me.links /\ me'.goal = me.goal
        /\ UNCHANGED <<files, outside, record, env>>
    BY <1>18 DEF CommitDone
  <2>2. me.at \in Midway BY <2>1 DEF Midway
  <2>3. rec' = rec /\ link' = link /\ Fit(rec)' BY <1>3, <2>1, <2>2, LookStep
  <2>4. tmp' = tmp /\ away' = away BY <2>1, LookStep
  <2>5. RecordFits' BY <2>3 DEF RecordFits
  <2>6. Struck' BY <2>1 DEF Struck, Undoes, Back
  <2>7. Calm' BY <1>2, <2>1, <2>2, <2>3, <2>4, CalmStep
  <2>8. CASE me'.at = "finish" BY <2>5, <2>6, <2>7, <2>8, FitsRestStep DEF Resting
  <2>9. CASE me'.at \in {"complete", "link"}
    <3>1. CarryFits'
      BY <1>3, <2>1, <2>2, <2>3, <2>9 DEF CarryFits, Carrying, Midway, Detaching, Free
    <3> QED BY <2>5, <2>6, <2>7, <2>9, <3>1, FitsCarryStep DEF Carrying
  <2> QED BY <2>1, <2>8, <2>9
<1> QED BY <1>6, <1>7, <1>8, <1>9, <1>11, <1>12, <1>13, <1>14, <1>15, <1>16, <1>17, <1>18
        DEF Commit

(* A transaction carried on past its files is on disk as committing. *)
LEMMA CarriedFit ==
  ASSUME AsideInv, FilesTrue, SpareInv,
         me.at \in {"link", "symlink", "linked", "relink", "complete"}
  PROVE  /\ rec = me.tx /\ rec.plan = Plan /\ me.tx \in Tx /\ rec # NoTx /\ Commits /\ Fit(rec)
         /\ tmp = {} /\ me.goal # "stuck" /\ me.tx.status # "needs_human" /\ Calm /\ CarryFits
<1>1. /\ rec = me.tx /\ rec.plan = Plan /\ me.goal # "stuck" /\ tmp = {} /\ Calm /\ CarryFits
  BY CalmTemp DEF SpareInv, CarryFits, Carrying, Plan, Calm
<1>2. me.tx \in Tx /\ me.tx.status # "needs_human"
  BY DEF SpareInv, Calm, AsideInv, HasTx, Engaged, After
<1>3. Committed BY DEF FilesTrue, ProcessTrue, After
<1>4. rec # NoTx BY <1>1, <1>2, NoTxAssumption
<1>5. Commits BY <1>1, <1>2, <1>3, <1>4 DEF Committed, Commits
<1>6. Fit(rec) BY <1>5 DEF SpareInv, RecordFits, Spent, Undoes, Back
<1> QED BY <1>1, <1>2, <1>4, <1>5, <1>6

LEMMA ExposeFits == ASSUME AsideInv, FilesTrue, SpareInv, Expose PROVE SpareInv'
<1>1. me.at \in {"link", "symlink", "linked"}
  BY DEF Expose, LinksDone, LinkIntent, Symlink, SymlinkRaises, Linked, At
<1>2. me \in Me /\ World BY TypeIs DEF AsideInv
<1>3. /\ rec = me.tx /\ rec.plan = Plan /\ me.tx \in Tx /\ rec # NoTx /\ Commits /\ Fit(rec)
      /\ tmp = {} /\ me.goal # "stuck" /\ me.tx.status # "needs_human" /\ Calm /\ CarryFits
  BY <1>1, CarriedFit
<1>4. me.tx.kind = "install" /\ Free(me.links) /\ me.links \in SUBSET Skill
  BY <1>1, <1>2, <1>3 DEF CarryFits, Me, Names
<1>5. /\ disk' = disk /\ staged' = staged /\ backup' = backup /\ tmp' = tmp /\ away' = away
      /\ crashes' = crashes
  BY DEF Expose, LinksDone, LinkIntent, Symlink, SymlinkRaises, Linked, files, outside, env
<1> USE <1>2 DEF At, Goto, Me
<1>6. DOMAIN me.tx.ext \subseteq Skill BY <1>3, TxTyped, PartialIs DEF Exts
<1>7. \A k \in DOMAIN me.tx.ext : me.tx.ext[k].prior # "theirs" /\ link[k] # "theirs"
  BY <1>3, <1>4 DEF Fit, LinksFit
(* A step that goes on with the links. *)
<1>8. ASSUME me'.at \in {"link", "symlink", "linked", "finish"}, rec' = me'.tx,
             me'.tx.plan = me.tx.plan, me'.tx.kind = me.tx.kind, me'.tx.status = me.tx.status,
             me'.goal = me.goal, Free(me.links)',
             \A k \in DOMAIN me'.tx.ext : me'.tx.ext[k].prior # "theirs" /\ link'[k] # "theirs",
             me'.at = "symlink" => \A k \in First(me'.links) : link'[k] = "absent"
      PROVE  SpareInv'
  <2>1. BackupsFit(rec.plan)' BY <1>3, <1>5, <1>8 DEF Fit, BackupsFit
  <2>2. StagedFit(rec.plan)' BY <1>3, <1>5, <1>8 DEF Fit, StagedFit, Replaced
  <2>3. ManifestFit(rec)' BY <1>3, <1>8 DEF Fit, ManifestFit, Replaced
  <2>4. LinksFit(rec)' BY <1>4, <1>8 DEF LinksFit
  <2>5. RecordFits' BY <2>1, <2>2, <2>3, <2>4 DEF RecordFits, Fit
  <2>6. Struck' BY <1>8 DEF Struck, Undoes, Back
  <2>7. Calm' BY <1>3, <1>5, <1>8, CalmStep
  <2>8. CASE me'.at = "finish" BY <2>5, <2>6, <2>7, <2>8, FitsRestStep DEF Resting
  <2>9. CASE me'.at \in {"link", "symlink", "linked"}
    <3>1. CarryFits' BY <1>4, <1>8, <2>9 DEF CarryFits, Carrying, Midway, Detaching
    <3> QED BY <2>5, <2>6, <2>7, <2>9, <3>1, FitsCarryStep DEF Carrying
  <2> QED BY <1>8, <2>8, <2>9
<1>9. CASE LinksDone
  <2>1. /\ me'.at = "finish" /\ me'.tx = me.tx /\ me'.goal = me.goal /\ me'.links = me.links
        /\ rec' = rec /\ link' = link
    BY <1>7, <1>9 DEF LinksDone, record
  <2> QED BY <1>3, <1>4, <1>7, <1>8, <2>1 DEF Free
<1>10. ASSUME NEW k \in Skill, NextSkill(k) PROVE k \in me.links /\ First(me.links) = {k}
  BY <1>4, <1>10, FirstSkill DEF NextSkill
<1>11. ASSUME NEW k \in Skill, LinkIntent(k) PROVE SpareInv'
  <2> DEFINE ext == [j \in {k} \cup DOMAIN me.tx.ext |->
                        IF j = k THEN Intent(k) ELSE me.tx.ext[j]]
  <2>1. PICK tx : /\ Write(tx) /\ tx = [me.tx EXCEPT !.ext = ext]
                  /\ IF link[k] = "absent"
                     THEN me' = [me EXCEPT !.at = "symlink", !.tx = tx]
                     ELSE me' = [me EXCEPT !.tx = tx, !.links = @ \ {k}]
    BY <1>11, Zenon DEF LinkIntent
  <2>2. me.at = "link" /\ NextSkill(k) /\ link' = link BY <1>11 DEF LinkIntent, outside
  <2>3. tx.plan = me.tx.plan /\ tx.kind = me.tx.kind /\ tx.status = me.tx.status
        /\ tx.ext = ext
    BY <1>3, <2>1, TxTyped
  <2>4. k \in me.links /\ First(me.links) = {k} /\ link[k] # "theirs"
    BY <1>4, <1>10, <2>2 DEF Free
  <2>5. \A j \in DOMAIN ext : ext[j].prior # "theirs" /\ link[j] # "theirs"
    BY <1>7, <2>4 DEF Intent
  <2> HIDE DEF ext
  <2>6. /\ rec' = tx /\ me'.tx = tx /\ me'.goal = me.goal /\ me'.at \in {"link", "symlink"}
        /\ me'.links \subseteq me.links
        /\ me'.at = "symlink" => me'.links = me.links /\ link[k] = "absent"
    <3>1. rec' = tx BY <2>1 DEF Write
    <3>2. CASE link[k] = "absent"
      <4>1. me' = [me EXCEPT !.at = "symlink", !.tx = tx] BY <2>1, <3>2
      <4> QED BY <3>1, <3>2, <4>1
    <3>3. CASE link[k] # "absent"
      <4>1. me' = [me EXCEPT !.tx = tx, !.links = @ \ {k}] BY <2>1, <3>3
      <4> QED BY <2>2, <3>1, <4>1
    <3> QED BY <3>2, <3>3
  <2>7. Free(me.links)' BY <1>4, <2>2, <2>6 DEF Free
  <2> QED BY <1>8, <2>2, <2>3, <2>4, <2>5, <2>6, <2>7
<1>12. ASSUME NEW k \in Skill, Symlink(k) PROVE SpareInv'
  <2>1. /\ me.at = "symlink" /\ me'.at = "linked" /\ me'.tx = me.tx /\ me'.goal = me.goal
        /\ me'.links = me.links /\ rec' = rec /\ link' = [link EXCEPT ![k] = "ours"]
    BY <1>12 DEF Symlink, record
  <2>2. \A j \in Skill : link[j] # "theirs" => link'[j] # "theirs" BY <2>1 DEF World
  <2>3. Free(me.links)' BY <1>4, <2>1, <2>2 DEF Free
  <2> QED BY <1>3, <1>6, <1>7, <1>8, <2>1, <2>2, <2>3
<1>13. ASSUME NEW k \in Skill PROVE ~SymlinkRaises(k)
  BY <1>3 DEF SymlinkRaises, NextSkill, CarryFits
<1>14. ASSUME NEW k \in Skill, Linked(k) PROVE SpareInv'
  <2>1. PICK tx : /\ Write(tx) /\ tx = [me.tx EXCEPT !.ext[k].state = "applied"]
                  /\ me' = [me EXCEPT !.at = "link", !.tx = tx, !.links = @ \ {k}]
    BY <1>14, Zenon DEF Linked
  <2>2. /\ tx.plan = me.tx.plan /\ tx.kind = me.tx.kind /\ tx.status = me.tx.status
        /\ DOMAIN tx.ext = DOMAIN me.tx.ext
        /\ \A j \in DOMAIN me.tx.ext : tx.ext[j].prior = me.tx.ext[j].prior
    BY <1>3, <2>1, AppliedIs
  <2>3. /\ rec' = tx /\ me'.tx = tx /\ me'.at = "link" /\ me'.goal = me.goal
        /\ me'.links = me.links \ {k} /\ link' = link
    BY <1>14, <2>1 DEF Linked, Write, outside
  <2>4. Free(me.links)' BY <1>4, <2>3 DEF Free
  <2> QED BY <1>7, <1>8, <2>2, <2>3, <2>4
<1> QED BY <1>9, <1>11, <1>12, <1>13, <1>14 DEF Expose

LEMMA RollForwardFits == ASSUME AsideInv, FilesTrue, SpareInv, RollForward PROVE SpareInv'
<1>1. me.at \in {"complete", "relink", "finish"}
  BY DEF RollForward, Complete, CompleteFails, RelinkDone, Finish, CompleteDeletion, Relink,
         RelinkOccupied, At
<1>2. me \in Me /\ World BY TypeIs DEF AsideInv
<1>3. me.at # "finish" =>
        /\ rec = me.tx /\ rec.plan = Plan /\ me.tx \in Tx /\ rec # NoTx /\ Commits /\ Fit(rec)
        /\ tmp = {} /\ me.goal # "stuck" /\ me.tx.status # "needs_human" /\ Calm /\ CarryFits
  BY <1>1, CarriedFit
<1> USE <1>2 DEF At, Goto, Me
<1>4. CASE Finish
  <2>1. /\ me.at = "finish" /\ me'.at = "clean" /\ rec' = [me.tx EXCEPT !.status = "done"]
        /\ me'.goal = "done" /\ me'.tx = rec' /\ tmp' = tmp /\ away' = away
    BY <1>4 DEF Finish, Write, files, outside
  <2>2. me.tx \in Tx BY <2>1 DEF AsideInv, HasTx, Engaged, After
  <2>3. rec'.status = "done" BY <2>1, <2>2, StatusIs DEF Statuses
  <2>4. ~Commits' BY <2>3 DEF Commits
  <2>5. RecordFits' /\ Struck' BY <2>1, <2>4, EarlyStep
  <2>6. Calm /\ tmp = {} BY <2>1, CalmTemp DEF SpareInv
  <2>7. Calm' BY <2>1, <2>3, <2>6, CalmStep
  <2> QED BY <2>1, <2>5, <2>7, FitsRestStep DEF Resting
<1>5. ASSUME me.at = "complete", NoDeletionLeft
      PROVE  ~Stuck
  <2>1. \A s \in DOMAIN Plan : Done(Plan, s) BY <1>5 DEF FilesTrue, ProcessTrue
  <2>2. \A s \in DOMAIN Plan : New(Plan, s) BY <1>5, <2>1 DEF NoDeletionLeft, Done, Moved
  <2>3. me.tx.kind = "install" => Manifest \in DOMAIN Plan
    BY <1>3, <1>5 DEF Fit, ManifestFit, Replaced
  <2> QED BY <2>2, <2>3 DEF Stuck, New
<1>6. ~CompleteFails BY <1>5 DEF CompleteFails
(* A step that neither moves bytes nor records anything. *)
<1>7. ASSUME me.at # "finish", rec' = rec, disk' = disk, staged' = staged, backup' = backup,
             tmp' = tmp, away' = away, me'.tx = me.tx, me'.goal \in {me.goal, "done"},
             me'.at \in {"complete", "relink", "detach", "finish"},
             link' = link \/ (me.tx.kind = "install" /\ \A k \in Skill :
                                 link[k] # "theirs" => link'[k] # "theirs"),
             me'.at = "relink" => me.tx.kind = "install",
             me'.at = "detach" => /\ me.tx.kind = "uninstall" /\ me'.goal = "done"
                                  /\ me'.links \subseteq DOMAIN me.tx.ext
      PROVE  SpareInv'
  <2>1. BackupsFit(rec.plan)' BY <1>3, <1>7 DEF Fit, BackupsFit
  <2>2. StagedFit(rec.plan)' BY <1>3, <1>7 DEF Fit, StagedFit, Replaced
  <2>3. ManifestFit(rec)' BY <1>3, <1>7 DEF Fit, ManifestFit, Replaced
  <2>4. DOMAIN me.tx.ext \subseteq Skill BY <1>3, <1>7, TxTyped, PartialIs DEF Exts
  <2>5. LinksFit(rec)' BY <1>3, <1>7, <2>4 DEF Fit, LinksFit, Gone
  <2>6. RecordFits' BY <2>1, <2>2, <2>3, <2>5 DEF RecordFits, Fit
  <2>7. Struck' BY <1>7 DEF Struck, Undoes, Back
  <2>8. Calm' BY <1>3, <1>7, CalmStep
  <2>9. CASE me'.at = "finish" BY <2>6, <2>7, <2>8, <2>9, FitsRestStep DEF Resting
  <2>10. CASE me'.at # "finish"
    <3>1. Commits' BY <1>3, <1>7 DEF Commits
    <3>2. CarryFits'
      BY <1>3, <1>7, <2>10, <3>1 DEF CarryFits, Carrying, Midway, Detaching
    <3> QED BY <1>7, <2>6, <2>7, <2>8, <2>10, <3>2, FitsCarryStep
            DEF Carrying, Detaching, Forward
  <2> QED BY <2>9, <2>10
<1>8. CASE Complete
  <2>1. /\ me.at = "complete" /\ rec' = rec /\ disk' = disk /\ staged' = staged
        /\ backup' = backup /\ tmp' = tmp /\ away' = away /\ link' = link
    BY <1>8, LookStep DEF Complete
  <2>2. /\ me'.tx = me.tx /\ me'.goal = "done"
        /\ me'.at = (IF me.tx.kind = "install" THEN "relink" ELSE "detach")
        /\ me.tx.kind # "install" => me'.links = Unfinished
    BY <1>8 DEF Complete
  <2>3. me.tx.kind \in Kinds BY <1>3, <2>1, TxTyped
  <2>4. Unfinished \subseteq DOMAIN me.tx.ext BY DEF Unfinished
  <2> QED BY <1>7, <2>1, <2>2, <2>3, <2>4 DEF Kinds
<1>9. ASSUME NEW s \in Resource, CompleteDeletion(s) PROVE SpareInv'
  <2>1. /\ me.at = "complete" /\ rec' = rec /\ disk' = disk /\ staged' = staged
        /\ backup' = backup /\ tmp' = tmp /\ away' = away /\ link' = link /\ me' = me
    BY <1>9 DEF CompleteDeletion, outside, record
  <2> QED BY <1>7, <2>1
<1>10. ASSUME me.at = "relink" PROVE me.tx.kind = "install"
  BY <1>3, <1>10 DEF CarryFits
<1>11. ASSUME NEW k \in Skill, Relink(k) PROVE SpareInv'
  <2>1. /\ me.at = "relink" /\ me'.at = "relink" /\ rec' = rec /\ disk' = disk
        /\ staged' = staged /\ backup' = backup /\ tmp' = tmp /\ away' = away
        /\ me'.tx = me.tx /\ me'.goal = me.goal /\ link' = [link EXCEPT ![k] = "ours"]
    BY <1>11 DEF Relink, files, record
  <2>2. \A j \in Skill : link[j] # "theirs" => link'[j] # "theirs" BY <2>1 DEF World
  <2> QED BY <1>7, <1>10, <2>1, <2>2
<1>12. ASSUME NEW k \in Skill, RelinkOccupied(k) PROVE SpareInv'
  <2>1. /\ me.at = "relink" /\ me'.at = "relink" /\ rec' = rec /\ disk' = disk
        /\ staged' = staged /\ backup' = backup /\ tmp' = tmp /\ away' = away /\ link' = link
        /\ me'.tx = me.tx
        /\ me'.goal = (IF k \in DOMAIN me.tx.ext THEN "stuck" ELSE me.goal)
        /\ link[k] = "theirs"
    BY <1>12 DEF RelinkOccupied, files, outside, record
  <2>2. k \notin DOMAIN me.tx.ext BY <1>3, <1>10, <2>1 DEF Fit, LinksFit
  <2> QED BY <1>7, <1>10, <2>1, <2>2
<1>13. CASE RelinkDone
  <2>1. /\ me.at = "relink" /\ rec' = rec /\ disk' = disk /\ staged' = staged
        /\ backup' = backup /\ tmp' = tmp /\ away' = away /\ link' = link
    BY <1>13, LookStep DEF RelinkDone
  <2>2. me'.tx = me.tx /\ me'.goal = me.goal /\ me'.at = "finish"
    BY <1>3, <1>13, <2>1 DEF RelinkDone
  <2> QED BY <1>7, <2>1, <2>2
<1> QED BY <1>4, <1>6, <1>8, <1>9, <1>11, <1>12, <1>13 DEF RollForward

LEMMA UndoFits == ASSUME AsideInv, FilesTrue, SpareInv, Undo PROVE SpareInv'
<1>1. me.at \in Undoes
  BY DEF Undo, UndoDone, UndoNothing, UndoIsolated, UndoTemporary, UndoRemovable, UndoFails,
         Undoing, Restore, Restored, Remove, At, Undoes
<1>2. me \in Me /\ World BY TypeIs DEF AsideInv
<1>3. me.tx \in Tx /\ me.todo \in SUBSET Resource /\ me.todo \subseteq DOMAIN Plan
  BY <1>1, <1>2 DEF AsideInv, HasTx, Engaged, Me, Todos
<1>4. /\ Calm /\ BackupsFit(Plan) /\ crashes > 0 /\ me.tx.status # "needs_human"
      /\ me.goal # "stuck" /\ (me.at # "restore" => tmp = {})
  BY <1>1, CalmTemp DEF SpareInv, Struck, BackFits, Calm, Engaged
<1>5. UndoTrue BY <1>1 DEF FilesTrue, ProcessTrue
<1> USE <1>2 DEF At, Goto, Did, Me
<1>6. rec' = rec /\ crashes' = crashes /\ backup' = backup /\ away' = away
  BY DEF Undo, UndoDone, UndoNothing, UndoIsolated, UndoTemporary, UndoRemovable, UndoFails,
         Restore, Restored, Remove, files, outside, record, env
(* A step that goes on with the undoing, or ends it. *)
<1>7. ASSUME me'.at \in Undoes \cup {"unmark"}, me'.tx = me.tx, me'.goal = me.goal,
             IF me'.at = "restore" THEN tmp' \subseteq Final(me'.todo) ELSE tmp' = {}
      PROVE  SpareInv'
  <2>1. RecordFits' BY <1>7 DEF RecordFits, Spent, Back
  <2>2. Struck' BY <1>4, <1>6, <1>7 DEF Struck, Undoes, Back
  <2>3. Calm' BY <1>4, <1>6, <1>7 DEF Calm, Undoes
  <2>4. CASE me'.at = "unmark" BY <2>1, <2>2, <2>3, <2>4, FitsRestStep DEF Resting
  <2>5. CASE me'.at \in Undoes
    <3>1. BackupsFit(Plan)' BY <1>4, <1>6, <1>7 DEF BackupsFit, Plan
    <3>2. BackFits' BY <2>5, <3>1 DEF BackFits, Undoes
    <3> QED BY <2>1, <2>2, <2>3, <2>5, <3>2, FitsBackStep
  <2> QED BY <1>7, <2>4, <2>5
<1>8. \A s \in Final(me.todo) : s \in me.todo /\ Final(me.todo) = {s} /\ s \in DOMAIN Plan
  BY <1>3, FirstIsOne
<1>9. CASE UndoDone
  <2>1. /\ me.at = "undo" /\ me'.at = "unmark" /\ me'.tx = me.tx /\ me'.goal = me.goal
        /\ tmp' = tmp
    BY <1>9 DEF UndoDone, files
  <2> QED BY <1>4, <1>7, <2>1
<1>10. ASSUME NEW s \in Resource, UndoNothing(s) \/ UndoIsolated(s) PROVE SpareInv'
  <2>1. /\ me.at = "undo" /\ me'.at = "undo" /\ me'.tx = me.tx /\ me'.goal = me.goal
        /\ tmp' = tmp
    BY <1>10 DEF UndoNothing, UndoIsolated, Undoing, files
  <2> QED BY <1>4, <1>7, <2>1 DEF Undoes
<1>11. ASSUME NEW s \in Resource, UndoTemporary(s) PROVE SpareInv'
  <2>1. /\ me.at = "undo" /\ me'.at = "restore" /\ me'.tx = me.tx /\ me'.goal = me.goal
        /\ me'.todo = me.todo /\ tmp' = tmp \cup {s} /\ s \in Final(me.todo)
    BY <1>11 DEF UndoTemporary, Undoing
  <2>2. tmp' \subseteq Final(me'.todo) BY <1>4, <2>1
  <2> QED BY <1>7, <2>1, <2>2 DEF Undoes
<1>12. ASSUME NEW s \in Resource, UndoRemovable(s) PROVE SpareInv'
  <2>1. /\ me.at = "undo" /\ me'.at = "remove" /\ me'.tx = me.tx /\ me'.goal = me.goal
        /\ tmp' = tmp
    BY <1>12 DEF UndoRemovable, Undoing, files
  <2> QED BY <1>4, <1>7, <2>1 DEF Undoes
<1>13. ASSUME NEW s \in Resource PROVE ~UndoFails(s)
  <2> SUFFICES ASSUME UndoFails(s) PROVE FALSE OBVIOUS
  <2>1. me.at = "undo" /\ s \in Final(me.todo) /\ ~Undone(s)
    BY DEF UndoFails, Undoing
  <2>2. Done(Plan, s) BY <1>5, <2>1 DEF UndoTrue
  <2>3. ~Moved(Plan, s) BY BytesAssumption DEF UndoFails, Moved
  <2>4. InForce(s) BY <2>1, <2>2, <2>3 DEF Done, New, InForce
  <2>5. s \in backup <=> Plan[s].pre # Absent BY <1>4, <1>8, <2>1 DEF BackupsFit
  <2>6. s \notin tmp BY <1>4, <2>1
  <2> QED BY <2>4, <2>5, <2>6 DEF UndoFails, Restorable, Removable
<1>14. ASSUME NEW s \in Resource, Restore(s) PROVE SpareInv'
  <2>1. /\ me.at = "restore" /\ me'.at = "restored" /\ me'.tx = me.tx /\ me'.goal = me.goal
        /\ tmp' = tmp \ {s} /\ s \in Final(me.todo)
    BY <1>14 DEF Restore
  <2>2. tmp \subseteq Final(me.todo) BY <1>4, <2>1 DEF Calm
  <2>3. tmp' = {} BY <1>8, <2>1, <2>2
  <2> QED BY <1>7, <2>1, <2>3 DEF Undoes
<1>15. ASSUME NEW s \in Resource, Restored(s) PROVE SpareInv'
  <2>1. me.at = "restored" /\ s \in Final(me.todo) /\ tmp' = tmp
    BY <1>15 DEF Restored, files
  <2>2. disk[s] = Plan[s].pre BY <1>5, <2>1 DEF UndoTrue, Old
  <2>3. me' = [me EXCEPT !.at = "undo", !.todo = @ \ {s}] BY <1>15, <2>2 DEF Restored
  <2>4. me'.at = "undo" /\ me'.tx = me.tx /\ me'.goal = me.goal BY <2>3
  <2> QED BY <1>4, <1>7, <2>1, <2>4 DEF Undoes
<1>16. ASSUME NEW s \in Resource, Remove(s) PROVE SpareInv'
  <2>1. /\ me.at = "remove" /\ me'.at = "undo" /\ me'.tx = me.tx /\ me'.goal = me.goal
        /\ tmp' = tmp
    BY <1>16 DEF Remove
  <2> QED BY <1>4, <1>7, <2>1 DEF Undoes
<1> QED BY <1>9, <1>10, <1>11, <1>12, <1>13, <1>14, <1>15, <1>16 DEF Undo

LEMMA EndFits == ASSUME AsideInv, FilesTrue, SpareInv, End PROVE SpareInv'
<1>1. me \in Me /\ World BY TypeIs DEF AsideInv
<1>2. /\ Calm /\ me.at \notin {"giveup", "reattach"} /\ me.goal # "stuck"
      /\ me.at # "restore" => tmp = {}
      /\ me.at \in Engaged => me.tx.status # "needs_human"
      /\ me.at \in Back \cup {"clean"} /\ Commits => crashes > 0
  BY CalmTemp DEF SpareInv, Calm, Struck
<1> USE <1>1 DEF At, Goto, Did, Me
(* A step towards the end of a transaction that is taken back. *)
<1>3. ASSUME me.at \in Back \cup {"clean"}, rec' = rec, crashes' = crashes, tmp' = tmp,
             away' = away, me'.tx = me.tx, me'.goal = me.goal, me'.at \in Back \cup {"clean"}
      PROVE  RecordFits' /\ Struck' /\ Calm'
  <2>1. Commits' <=> Commits BY <1>3 DEF Commits
  <2>2. RecordFits' BY <1>3 DEF RecordFits, Spent
  <2>3. Struck' BY <1>2, <1>3, <2>1 DEF Struck, Undoes, Back
  <2>4. me.at \in Engaged /\ me.at # "restore" /\ me'.at \notin {"giveup", "reattach"}
    BY <1>3 DEF Engaged, Back
  <2>5. Calm' BY <1>2, <1>3, <2>4, CalmStep
  <2> QED BY <2>2, <2>3, <2>5
<1>4. ASSUME me.at \in Back \cup {"clean"}, rec' = rec, crashes' = crashes, tmp' = tmp,
             away' = away, me'.tx = me.tx, me'.goal = me.goal,
             me'.at \in {"compensate", "clean"}
      PROVE  SpareInv'
  <2>1. RecordFits' /\ Struck' /\ Calm' BY <1>3, <1>4 DEF Back
  <2> QED BY <1>4, <2>1, FitsRestStep DEF Resting
(* A step of a transaction whose record is gone, or says how it ended. *)
<1>5. ASSUME me.at \in Erased \cup {"clean"}, tmp' = tmp, away' = away,
             rec' = NoTx \/ rec'.status \in {"failed", "rolled_back"},
             me'.at \in Erased \cup {"idle", "open", "forget"}, me'.goal # "stuck",
             me'.at \in Erased => me'.tx = me.tx
      PROVE  SpareInv'
  <2>1. RecordFits' /\ Struck'
    BY <1>5 DEF RecordFits, Struck, Commits, Erased, Undoes, Back
  <2>2. /\ me.at # "restore" /\ me'.at \notin {"giveup", "reattach"} /\ me.at \in Engaged
        /\ me'.at \in Engaged => me'.at \in Erased
    BY <1>5 DEF Engaged, Erased, Before, Detaching, Back, After, Midway, Undoes
  <2>3. rec' = NoTx \/ rec'.status # "needs_human" BY <1>5
  <2>4. Calm' BY <1>2, <1>5, <2>2, <2>3, CalmStep
  <2> QED BY <1>5, <2>1, <2>4, FitsRestStep DEF Resting
<1>6. CASE Unmark
  <2>1. /\ me.at = "unmark" /\ me'.at = "compensate" /\ me'.tx = me.tx /\ me'.goal = me.goal
        /\ rec' = rec /\ crashes' = crashes /\ tmp' = tmp /\ away' = away
    BY <1>6 DEF Unmark, files, record, env
  <2> QED BY <1>4, <2>1 DEF Back
<1>7. CASE CompensateDone
  <2>1. /\ me.at = "compensate" /\ rec' = rec /\ crashes' = crashes /\ tmp' = tmp
        /\ away' = away
    BY <1>7, LookStep DEF CompensateDone
  <2>2. me'.at = "clean" /\ me'.tx = me.tx /\ me'.goal = me.goal
    BY <1>2, <1>7 DEF CompensateDone, CleanUp
  <2> QED BY <1>4, <2>1, <2>2 DEF Back
<1>8. CASE CleanRecord
  <2>1. /\ me.at = "clean" /\ me'.at = "rmdir" /\ me'.tx = me.tx /\ me'.goal = me.goal
        /\ rec' = NoTx /\ tmp' = tmp /\ away' = away
    BY <1>8 DEF CleanRecord, files, outside
  <2> QED BY <1>2, <1>5, <2>1 DEF Erased
<1>9. me.at \in Erased => rec = NoTx /\ me.tx \in Tx
  BY DEF AsideInv, ProcessAside, HasTx, Engaged
<1>10. CASE Rmdir
  <2>1. me.at = "rmdir" /\ rec' = rec /\ tmp' = tmp /\ away' = away
    BY <1>10 DEF Rmdir, files, outside
  <2>2. /\ me'.at \in {"reopen", "forget", "open", "idle"} /\ me'.goal \in {me.goal, "none"}
        /\ me'.at = "reopen" => me'.tx = me.tx
    BY <1>10 DEF Rmdir, Recovered, Idle
  <2> QED BY <1>2, <1>5, <1>9, <2>1, <2>2 DEF Erased
<1>11. CASE Reopen
  <2>1. /\ me.at = "reopen" /\ me'.at = "conclude" /\ me'.tx = me.tx /\ me'.goal = me.goal
        /\ rec' = rec /\ tmp' = tmp /\ away' = away
    BY <1>11 DEF Reopen, files, outside
  <2> QED BY <1>2, <1>5, <1>9, <2>1 DEF Erased
<1>12. CASE Conclude
  <2>1. me.at = "conclude" /\ me.goal \in {"failed", "rolled_back"}
    BY <1>12 DEF Conclude, AsideInv, ProcessAims, Taken
  <2>2. me.tx \in Tx BY <1>9, <2>1 DEF Erased
  <2>3. rec' = [me.tx EXCEPT !.status = me.goal] /\ tmp' = tmp /\ away' = away
    BY <1>12 DEF Conclude, Write, files, outside
  <2>4. rec'.status = me.goal BY <2>1, <2>2, <2>3, StatusIs DEF Statuses
  <2>5. me'.at \in {"open", "idle"} /\ me'.goal = "none"
    BY <1>12 DEF Conclude, Recovered, Idle
  <2> QED BY <1>5, <2>1, <2>3, <2>4, <2>5 DEF Erased
<1>13. CASE Forget
  <2>1. me.at = "forget" /\ me' = Idle /\ UNCHANGED <<files, link, away, record, env>>
    BY <1>13 DEF Forget
  <2>2. /\ disk' = disk /\ staged' = staged /\ backup' = backup /\ tmp' = tmp /\ link' = link
        /\ away' = away /\ rec' = rec /\ crashes' = crashes
    BY <2>1 DEF files, record, env
  <2>3. me'.at = "idle" /\ me'.goal = "none" BY <2>1 DEF Idle
  <2>4. Commits => Fit(rec) BY <2>1 DEF SpareInv, RecordFits, Spent, Undoes, Back
  <2>5. RecordFits' BY <2>2, <2>4, SameFit DEF RecordFits
  <2>6. Struck' BY <2>1, <2>2, <2>3 DEF SpareInv, Struck, Undoes, Back
  <2>7. Calm'
    BY <1>2, <2>1, <2>2, <2>3, CalmStep
       DEF Engaged, Before, Detaching, Back, After, Midway, Undoes, Erased
  <2> QED BY <2>3, <2>5, <2>6, <2>7, FitsRestStep DEF Resting
<1>14. me.at \in Back => me.links \in SUBSET Skill BY DEF Me, Names
<1>15. ASSUME NEW k \in Skill, CompensateSkip(k) PROVE SpareInv'
  <2>1. /\ me.at = "compensate" /\ me'.at = "compensate" /\ me'.tx = me.tx
        /\ me'.goal = me.goal /\ rec' = rec /\ crashes' = crashes /\ tmp' = tmp
        /\ away' = away
    BY <1>2, <1>15, LookStep DEF CompensateSkip, Compensating
  <2> QED BY <1>4, <2>1 DEF Back
<1>16. ASSUME NEW k \in Skill, CompensateStart(k) PROVE SpareInv'
  <2>1. /\ me.at = "compensate" /\ NextSkill(k) /\ Outstanding(k) /\ rec' = rec
        /\ crashes' = crashes /\ tmp' = tmp /\ away' = away /\ link' = link
    BY <1>2, <1>16, LookStep DEF CompensateStart, Compensating
  <2>2. /\ me'.at = (IF me.tx.ext[k].op = "create" THEN "unlink" ELSE "recreate")
        /\ me'.tx = me.tx /\ me'.goal = me.goal /\ me'.links = me.links
        /\ me'.own = me.own /\ me'.cmd = me.cmd
    BY <1>16 DEF CompensateStart
  <2>3. First(me.links) = {k} BY <1>14, <2>1, FirstSkill DEF NextSkill, Back
  <2>4. IF me.tx.ext[k].op = "create" THEN link[k] = "ours" ELSE link[k] = "absent"
    BY <2>1 DEF Outstanding
  <2>5. ~OwnUninstall BY <2>1 DEF AsideInv, ProcessAims
  <2>6. BackFits'
    BY <2>1, <2>2, <2>3, <2>4, <2>5 DEF BackFits, Undoes, OwnUninstall
  <2>7. me'.at \in {"unlink", "recreate"} BY <2>2
  <2>8. RecordFits' /\ Struck' /\ Calm' BY <1>3, <2>1, <2>2, <2>7 DEF Back
  <2> QED BY <2>6, <2>7, <2>8, FitsBackStep
<1>17. ASSUME me.at \in {"unlink", "recreate"}
       PROVE  /\ ~OwnUninstall
              /\ \A k \in First(me.links) : link[k] = "absent" <=> me.at = "recreate"
  BY <1>17 DEF SpareInv, BackFits
<1>18. ASSUME NEW k \in Skill PROVE ~CompensateFails(k)
  BY <1>17 DEF CompensateFails, NextSkill
<1>19. ASSUME NEW k \in Skill, CompensateUnlink(k) \/ CompensateRecreate(k) PROVE SpareInv'
  <2>1. /\ me.at \in {"unlink", "recreate"} /\ rec' = rec /\ crashes' = crashes /\ tmp' = tmp
        /\ away' = away /\ Compensated(k, me.goal)
    BY <1>19 DEF CompensateUnlink, CompensateRecreate, files, record, env
  <2>2. me'.at = "compensate" /\ me'.tx = me.tx /\ me'.goal = me.goal
    BY <1>17, <2>1 DEF Compensated, OwnUninstall
  <2> QED BY <1>4, <2>1, <2>2 DEF Back
<1>20. ASSUME NEW s \in Resource, Clean(s) PROVE SpareInv'
  <2>1. /\ me.at = "clean" /\ me'.at = "clean" /\ me'.tx = me.tx /\ me'.goal = me.goal
        /\ rec' = rec /\ crashes' = crashes /\ tmp' = tmp /\ away' = away
    BY <1>20 DEF Clean, outside, record, env
  <2> QED BY <1>4, <2>1
<1> QED BY <1>6, <1>7, <1>8, <1>10, <1>11, <1>12, <1>13, <1>15, <1>16, <1>18, <1>19, <1>20
        DEF End

LEMMA SpareHolds == ASSUME MaxCrashes <= 1 PROVE Spec => []SpareInv
<1>1. Init => SpareInv
  <2> SUFFICES ASSUME Init PROVE SpareInv OBVIOUS
  <2>1. me.at = "idle" /\ me.goal = "none" /\ rec = NoTx /\ tmp = {} BY DEF Init, Idle
  <2>2. \A k \in Skill : away[k] # "theirs" BY DEF Init
  <2>3. Calm
    BY <2>1, <2>2 DEF Calm, Engaged, Before, Detaching, Back, After, Midway, Undoes, Erased
  <2>4. RecordFits /\ Struck BY <2>1 DEF RecordFits, Struck, Commits, Undoes, Back
  <2> QED BY <2>1, <2>3, <2>4, FitsRest DEF SpareInv, Resting
<1>2. AsideInv /\ FilesTrue /\ SpareInv /\ [Next]_vars => SpareInv'
  <2> SUFFICES ASSUME AsideInv, FilesTrue, SpareInv, [Next]_vars PROVE SpareInv' OBVIOUS
  <2>1. me \in Me /\ World BY TypeIs DEF AsideInv
  <2>2. ASSUME NEW c \in Commands, NEW root \in BOOLEAN, Begin(c, root) PROVE SpareInv'
    <3>1. /\ me.at = "idle" /\ me'.at = "recover" /\ me'.goal = me.goal
          /\ UNCHANGED <<files, outside, record, env>>
      BY <2>1, <2>2 DEF Begin, At, Me
    <3>2. /\ rec' = rec /\ crashes' = crashes /\ tmp' = tmp /\ away' = away
          /\ (Commits' <=> Commits) /\ (Fit(rec) => Fit(rec)')
      BY <3>1, LookStep
    <3>3. RecordFits' BY <3>1, <3>2 DEF SpareInv, RecordFits, Spent, Undoes, Back
    <3>4. Struck' BY <3>1, <3>2 DEF SpareInv, Struck, Undoes, Back
    <3>5. Calm'
      BY <3>1, <3>2
         DEF SpareInv, Calm, Engaged, Before, Detaching, Back, After, Midway, Undoes, Erased
    <3> QED BY <3>1, <3>3, <3>4, <3>5, FitsRestStep DEF Resting
  <2>3. CASE Proceed
    BY <2>3, DecideFits, PrepareFitsNext, DetachFits, CommitFits, ExposeFits, UndoFits,
       EndFits, RollForwardFits DEF Proceed
  <2>4. CASE Abort
    <3>1. /\ crashes < MaxCrashes /\ crashes' = crashes + 1 /\ me'.at = "idle"
          /\ me'.goal = "none" /\ rec' = rec /\ UNCHANGED <<files, link, away>>
      BY <2>4 DEF Abort, Idle
    <3>2. /\ disk' = disk /\ staged' = staged /\ backup' = backup /\ tmp' = tmp
          /\ link' = link /\ away' = away
      BY <3>1 DEF files
    <3>3. crashes \in Nat /\ crashes = 0 /\ crashes' > 0
      BY <2>1, <3>1, BoundsAssumption DEF World
    <3>4. me.at \notin Undoes /\ (Commits => me.at \notin Back \cup {"clean"})
      BY <3>3 DEF SpareInv, Struck
    <3>5. Commits => Fit(rec) BY <3>4 DEF SpareInv, RecordFits, Spent
    <3>6. RecordFits' BY <3>1, <3>2, <3>5, SameFit DEF RecordFits
    <3>7. Struck' BY <3>1, <3>3 DEF Struck, Undoes, Back
    <3>8. Calm'
      BY <3>1, <3>2, <3>4
         DEF SpareInv, Calm, Engaged, Before, Detaching, Back, After, Midway, Undoes, Erased
    <3> QED BY <3>1, <3>6, <3>7, <3>8, FitsRestStep DEF Resting
  <2>5. CASE UNCHANGED vars
    <3>1. /\ me' = me /\ UNCHANGED <<files, outside, record, env>> BY <2>5 DEF vars
    <3>2. /\ disk' = disk /\ iso' = iso /\ staged' = staged /\ backup' = backup /\ tmp' = tmp
          /\ link' = link /\ away' = away /\ rec' = rec /\ crashes' = crashes
          /\ (Commits' <=> Commits) /\ (Fit(rec) => Fit(rec)')
      BY <3>1, LookStep
    <3>3. RecordFits' /\ Struck' /\ Calm' /\ BackFits'
      BY <3>1, <3>2
         DEF SpareInv, RecordFits, Struck, Calm, BackFits, BackupsFit, Plan, OwnUninstall
    <3>4. PrepareFits'
      BY <3>1, <3>2
         DEF SpareInv, PrepareFits, Detaches, Forward, BackupsFit, ManifestFit, Plan, Replaced
    <3>5. Attaches' BY <3>1, <3>2 DEF SpareInv, Attaches, Detaches, Forward, LinksFit, Gone, Free
    <3>6. CarryFits' BY <3>1, <3>2 DEF SpareInv, CarryFits, Forward, Plan, Replaced, Free
    <3> QED BY <3>3, <3>4, <3>5, <3>6 DEF SpareInv
  <2> QED BY <2>2, <2>3, <2>4, <2>5 DEF Next
<1> QED BY <1>1, <1>2, TrueHolds, PTL DEF Spec

(* Automatic recovery never has to ask a person: as long as nobody edits the  *)
(* target and at most one command is killed, whichever commands are issued,   *)
(* no transaction is ever left for a person to decide.  The one kill is       *)
(* essential: the bytes a rollback or a cleanup uses up are not there for a   *)
(* second one.                                                               *)
THEOREM OneKillIsRecovered == ASSUME MaxCrashes <= 1 PROVE Spec => []NeverNeedsHuman
<1>1. SpareInv => NeverNeedsHuman BY DEF SpareInv, Calm, NeverNeedsHuman
<1> QED BY <1>1, SpareHolds, PTL

(* As long as a transaction is on disk as committing, each file it already    *)
(* changed can be put back, its old bytes in the backup or moved aside, as    *)
(* long as nobody edits the target -- for any number of kills if nobody rolls *)
(* forward by hand, and for one whatever is ordered.  With both the manual    *)
(* commands and two kills it is not so: a rollback killed in its cleanup      *)
(* leaves a record without the backups, and rolling that record forward       *)
(* changes the files again.                                                  *)
THEOREM UndoStaysPossible ==
  ASSUME "roll-forward" \notin Commands \/ MaxCrashes <= 1
  PROVE  Spec => []UndoAvailable
<1> DEFINE OneKill == "roll-forward" \in Commands => SpareInv
<1>1. Init => KeptInv
  <2> SUFFICES ASSUME Init PROVE KeptInv OBVIOUS
  <2>1. me.at = "idle" /\ rec = NoTx BY DEF Init, Idle
  <2> QED BY <2>1, KeptRest DEF KeptInv, RecordKept, Commits
<1>2. AsideInv /\ FilesTrue /\ OneKill /\ KeptInv /\ [Next]_vars => KeptInv'
  <2> SUFFICES ASSUME AsideInv, FilesTrue, OneKill, KeptInv, [Next]_vars PROVE KeptInv'
    OBVIOUS
  <2>1. me \in Me /\ World BY TypeIs DEF AsideInv
  <2>2. RecoverRedo => BackedUp(rec.plan)
    <3> SUFFICES ASSUME RecoverRedo PROVE BackedUp(rec.plan) OBVIOUS
    <3>1. /\ me.at = "recover" /\ me.cmd = "roll-forward" /\ rec # NoTx
          /\ rec.status \in {"committing", "needs_human"}
      BY DEF RecoverRedo, Classified, Recovering, Status, At
    <3>2. SpareInv BY <2>1, <3>1 DEF Me, Cmds
    <3>3. Commits BY <3>1, <3>2 DEF SpareInv, Calm, Commits
    <3>4. Fit(rec) BY <3>1, <3>2, <3>3 DEF SpareInv, RecordFits, Spent, Undoes, Back
    <3> QED BY <3>4 DEF Fit, BackupsFit, BackedUp
  <2>3. ASSUME NEW c \in Commands, NEW root \in BOOLEAN, Begin(c, root) PROVE KeptInv'
    <3>1. /\ disk' = disk /\ iso' = iso /\ backup' = backup /\ rec' = rec
          /\ me'.at = "recover"
      BY <2>1, <2>3 DEF Begin, Me, files, record
    <3> QED BY <3>1, KeptRestStep
  <2>4. CASE Proceed
    BY <2>2, <2>4, DecideKept, PrepareKept, DetachKept, CommitKept, ExposeKept, UndoKept,
       EndKept, RollForwardKept DEF Proceed
  <2>5. CASE Abort
    <3>1. /\ disk' = disk /\ iso' = iso /\ backup' = backup /\ rec' = rec /\ me'.at = "idle"
      BY <2>5 DEF Abort, files, Idle
    <3> QED BY <3>1, KeptRestStep
  <2>6. CASE UNCHANGED vars
    <3>1. disk' = disk /\ iso' = iso /\ backup' = backup /\ rec' = rec /\ me' = me
      BY <2>6 DEF vars, files, record
    <3> QED BY <3>1 DEF KeptInv, RecordKept, ProcessKept, Commits, Kept, BackedUp, AllOld, Old,
                        Plan, Forward
  <2> QED BY <2>3, <2>4, <2>5, <2>6 DEF Next
<1>3. FilesTrue /\ KeptInv => UndoAvailable
  BY DEF FilesTrue, RecordTrue, KeptInv, RecordKept, Commits, Kept, BackedUp, AllOld, Old,
         UndoAvailable, Undoable
<1>4. Spec => []OneKill
  <2>1. CASE "roll-forward" \notin Commands
    <3>1. OneKill BY <2>1
    <3> QED BY <3>1, PTL
  <2>2. CASE MaxCrashes <= 1
    <3>1. SpareInv => OneKill OBVIOUS
    <3>2. Spec => []SpareInv BY <2>2, SpareHolds
    <3> QED BY <3>1, <3>2, PTL
  <2> QED BY <2>1, <2>2
<1> QED BY <1>1, <1>2, <1>3, <1>4, TrueHolds, PTL DEF Spec

-----------------------------------------------------------------------------
(* What a given up transaction leaves of the links, as long as nobody edits   *)
(* the target: first where nobody ordered a rollback.                        *)

(* An uninstall has recorded links of the kit, and nobody else's is there.    *)
Removes(tx) == \A k \in DOMAIN tx.ext :
                  tx.ext[k].op = "remove" /\ tx.ext[k].prior = "ours" /\ link[k] # "theirs"

(* An install has recorded links and is still to be finished.                 *)
Linking == Commits /\ rec.kind = "install" /\ DOMAIN rec.ext # {}

(* It does so when every file is in place: recovery will not turn back.       *)
RecordLinks ==
    rec # NoTx =>
        /\ rec.kind = "uninstall" => Removes(rec)
        /\ rec.kind = "install" /\ rec.status \in {"planning", "staging"} => DOMAIN rec.ext = {}
        /\ Commits => Manifest \in DOMAIN rec.plan
        /\ Linking => AllNew(rec.plan)

(* The record in memory, until the commit ... *)
Prepares ==
    /\ me.at \in Engaged /\ me.tx.kind = "uninstall" => Removes(me.tx)
    /\ me.at \in Early \cup {"first"} => /\ me.tx.kind = me.cmd
                                         /\ me.cmd = "install" => DOMAIN me.tx.ext = {}
    /\ me.at \in (Early \ {"commit-on"}) \cup {"first"} => DOMAIN me.tx.ext = {}
    /\ me.at \in Early \ {"classify", "commit-on"} /\ me.cmd = "uninstall" =>
          \A k \in me.links : link[k] = "ours"
    /\ me.at \in (Early \ {"classify", "plan"}) \/ (me.at \in Detaching /\ ~Forward) =>
          Manifest \in DOMAIN Plan
    /\ me.at \in Detaching => me.tx.kind = "uninstall" /\ me.links \subseteq DOMAIN me.tx.ext

(* ... from then on ... *)
Carried ==
    /\ me.at \in Midway \cup Undoes \cup {"complete"} => rec = me.tx
    /\ me.at \in Midway /\ me.cmd \in Kinds => me.tx.kind = me.cmd
    /\ me.at \in Midway /\ Linking => me.at = "commit" /\ me.todo = {}
    /\ me.at \in {"link", "symlink", "linked"} =>
          /\ me.tx.kind = "install"
          /\ me.tx.status = "committing" => Manifest \in DOMAIN Plan

(* ... and on the way back: which links are as they were. *)
Reverting == {"compensate", "unlink", "recreate", "reattach"}
Reverted  == \A k \in DOMAIN me.tx.ext : link[k] = "ours"

Returns ==
    /\ me.at \in Undoes \cup Back \cup {"reattach"} \/ (me.at \in Erased \cup {"clean"} /\ Taken) =>
          (me.tx.kind = "install" => DOMAIN me.tx.ext = {})
    /\ me.at \in Reverting =>
          /\ me.at # "unlink" /\ me.links \subseteq DOMAIN me.tx.ext
          /\ me.goal # "stuck" => \A k \in DOMAIN me.tx.ext \ me.links : link[k] = "ours"
    /\ me.at \in Erased \cup {"clean"} /\ Taken => Reverted

NoneAside == \A k \in Skill : away[k] # "theirs"

LinkInv == RecordLinks /\ Prepares /\ Carried /\ Returns /\ NoneAside

(* Which of them a place asks for. *)
LEMMA LinkRest ==
  me.at \in {"idle", "recover", "open", "forget"} => Prepares /\ Carried /\ Returns
BY DEF Prepares, Carried, Returns, Reverting, Engaged, Before, Early, Back, Detaching, Erased,
       After, Midway, Undoes

LEMMA LinkEarly ==
  me.at \in (Early \cup {"first"}) \cup Detaching => Carried /\ Returns
BY DEF Carried, Returns, Reverting, Before, Early, Back, Detaching, Erased, Midway, Undoes

LEMMA LinkMidway ==
  (me.tx.kind = "uninstall" => Removes(me.tx))
    /\ me.at \in Midway \cup {"link", "symlink", "linked", "complete"}
  => Prepares /\ Returns
BY DEF Prepares, Returns, Reverting, Before, Early, Back, Detaching, Erased, Midway, Undoes

LEMMA LinkAfter ==
  (me.tx.kind = "uninstall" => Removes(me.tx)) /\ me.at \in {"relink", "finish", "giveup"}
  => Prepares /\ Carried /\ Returns
BY DEF Prepares, Carried, Returns, Reverting, Before, Early, Back, Detaching, Erased, Midway,
       Undoes

LEMMA LinkBack ==
  (me.tx.kind = "uninstall" => Removes(me.tx))
    /\ me.at \in Back \cup Erased \cup {"clean"}
  => Prepares /\ Carried
BY DEF Prepares, Carried, Before, Early, Back, Detaching, Erased, Midway, Undoes

LEMMA LinkUndoes ==
  (me.tx.kind = "uninstall" => Removes(me.tx)) /\ me.at \in Undoes /\ rec = me.tx
    /\ (me.tx.kind = "install" => DOMAIN me.tx.ext = {})
  => Prepares /\ Carried /\ Returns
BY DEF Prepares, Carried, Returns, Reverting, Before, Early, Back, Detaching, Erased, Midway,
       Undoes

(* Nobody's link comes where none was. *)
Spares == \A k \in Skill : link[k] # "theirs" => link'[k] # "theirs"

LEMMA SameLinks ==
  ASSUME NEW tx \in Tx, Spares PROVE Removes(tx) => Removes(tx)'
<1>1. DOMAIN tx.ext \in SUBSET Skill BY TxTyped, PartialIs DEF Exts
<1> QED BY <1>1 DEF Removes, Spares

LEMMA SameRecord ==
  ASSUME TypeOK, RecordLinks, Spares, rec' = rec, Linking => disk' = disk /\ iso' = iso
  PROVE  RecordLinks' /\ (Linking' <=> Linking) /\ (Commits' <=> Commits)
<1>1. (Linking' <=> Linking) /\ (Commits' <=> Commits) BY DEF Linking, Commits
<1>2. CASE rec = NoTx BY <1>1, <1>2 DEF RecordLinks
<1>3. CASE rec # NoTx
  <2>1. PICK tx \in Tx : tx = rec BY <1>3, TypeIs DEF World, Held
  <2>2. Removes(rec) => Removes(rec)' BY <2>1, SameLinks DEF Removes
  <2>3. Linking /\ AllNew(rec.plan) => AllNew(rec.plan)' BY DEF AllNew, New
  <2> QED BY <1>1, <1>3, <2>2, <2>3 DEF RecordLinks
<1> QED BY <1>2, <1>3

(* A step to a place that asks for nothing. *)
LEMMA RestLinks ==
  ASSUME RecordLinks', NoneAside', me'.at \in {"idle", "recover", "open", "forget"}
  PROVE  LinkInv'
<1>1. (me.at \in {"idle", "recover", "open", "forget"} => Prepares /\ Carried /\ Returns)'
  BY LinkRest, PTL
<1> QED BY <1>1 DEF LinkInv

(* What is left for a person is over as far as the links are concerned. *)
LEMMA GivesUpLinks ==
  ASSUME GiveUp, me.tx \in Tx, me.tx.kind = "uninstall" => Removes(me.tx), NoneAside
  PROVE  LinkInv'
<1>1. PICK tx : tx = [me.tx EXCEPT !.status = "needs_human"] OBVIOUS
<1>2. tx.status = "needs_human" /\ tx.ext = me.tx.ext /\ tx.kind = me.tx.kind
  BY <1>1, TxTyped DEF Statuses
<1>3. rec' = tx /\ link' = link /\ away' = away /\ me'.at = "idle"
  BY <1>1 DEF GiveUp, Write, Idle, outside
<1>4. tx.kind = "uninstall" => Removes(tx) BY <1>2 DEF Removes
<1>5. RecordLinks' BY <1>2, <1>3, <1>4 DEF RecordLinks, Linking, Commits, Removes
<1>6. NoneAside' BY <1>3 DEF NoneAside
<1> QED BY <1>3, <1>5, <1>6, RestLinks

LEMMA DecideLinks ==
  ASSUME AsideInv, FilesTrue, LinkInv, Decide, me.cmd # "rollback" PROVE LinkInv'
<1>1. me \in Me /\ World BY TypeIs DEF AsideInv
<1>2. rec # NoTx => rec \in Tx BY <1>1 DEF World, Held
<1> USE <1>1 DEF At, Goto, Me
<1>3. ASSUME UNCHANGED <<files, outside, record, env>>
      PROVE  /\ rec' = rec /\ disk' = disk /\ iso' = iso /\ link' = link
             /\ RecordLinks' /\ NoneAside' /\ (Linking' <=> Linking)
  <2>1. rec' = rec /\ disk' = disk /\ iso' = iso /\ link' = link /\ away' = away
    BY <1>3 DEF files, outside, record
  <2>2. RecordLinks' /\ (Linking' <=> Linking)
    BY <2>1, SameRecord DEF AsideInv, LinkInv, Spares
  <2> QED BY <2>1, <2>2 DEF LinkInv, NoneAside
<1>4. rec # NoTx /\ rec.kind = "uninstall" => Removes(rec) BY DEF LinkInv, RecordLinks
(* The process takes over the record on disk. *)
<1>5. ASSUME UNCHANGED <<files, outside, record, env>>, me'.tx = rec, rec # NoTx
      PROVE  (me.tx.kind = "uninstall" => Removes(me.tx))'
  <2>1. rec' = rec /\ link' = link BY <1>3, <1>5
  <2> QED BY <1>4, <1>5, <2>1 DEF Removes
<1>6. CASE RecoverNothing BY <1>3, <1>6, RestLinks DEF RecoverNothing, Recovered, Idle
<1>7. CASE RecoverBlocked BY <1>3, <1>7, RestLinks DEF RecoverBlocked, Idle
<1>8. CASE RecoverClean
  <2>1. /\ UNCHANGED <<files, outside, record, env>> /\ me'.tx = rec /\ rec # NoTx
        /\ me'.at = "unmark" /\ rec.status \in {"planning", "staging"}
    BY <1>8 DEF RecoverClean, Recovering, Status
  <2>2. rec.kind = "install" => DOMAIN rec.ext = {} BY <2>1 DEF LinkInv, RecordLinks
  <2>3. Returns' BY <2>1, <2>2 DEF Returns, Reverting, Erased
  <2>4. ((me.tx.kind = "uninstall" => Removes(me.tx))
           /\ me.at \in Back \cup Erased \cup {"clean"}
         => Prepares /\ Carried)'
    BY LinkBack, PTL
  <2> QED BY <1>3, <1>5, <2>1, <2>3, <2>4 DEF LinkInv, Back
<1>9. CASE RecoverConflict
  <2>1. /\ UNCHANGED <<files, outside, record, env>> /\ me'.tx = rec /\ rec # NoTx
        /\ me'.at = "giveup"
    BY <1>9 DEF RecoverConflict, Classified, Recovering
  <2>2. ((me.tx.kind = "uninstall" => Removes(me.tx)) /\ me.at \in {"relink", "finish", "giveup"}
         => Prepares /\ Carried /\ Returns)'
    BY LinkAfter, PTL
  <2> QED BY <1>3, <1>5, <2>1, <2>2 DEF LinkInv
<1>10. CASE RecoverUndo
  <2>1. /\ UNCHANGED <<files, outside, record, env>> /\ me'.tx = rec /\ rec # NoTx
        /\ me'.at = "undo" /\ ~Manual
        /\ NewSteps(rec.plan) = {} \/ OldSteps(rec.plan) # {}
    BY <1>10 DEF RecoverUndo, Classified, Recovering, Manual
  <2>2. Commits
    BY <1>10, <2>1 DEF RecoverUndo, Classified, Recovering, Status, Commits
  <2>3. ~Linking
    <3> SUFFICES ASSUME Linking PROVE FALSE OBVIOUS
    <3>1. Manifest \in DOMAIN rec.plan /\ AllNew(rec.plan)
      BY <2>1, <2>2 DEF LinkInv, RecordLinks
    <3>2. NewSteps(rec.plan) = DOMAIN rec.plan BY <3>1 DEF NewSteps, AllNew, New
    <3> QED BY <2>1, <3>1, <3>2 DEF OldSteps
  <2>4. rec.kind = "install" => DOMAIN rec.ext = {} BY <2>2, <2>3 DEF Linking
  <2>5. ((me.tx.kind = "uninstall" => Removes(me.tx)) /\ me.at \in Undoes /\ rec = me.tx
           /\ (me.tx.kind = "install" => DOMAIN me.tx.ext = {})
         => Prepares /\ Carried /\ Returns)'
    BY LinkUndoes, PTL
  <2> QED BY <1>3, <1>5, <2>1, <2>4, <2>5 DEF LinkInv, Undoes
<1>11. ((me.tx.kind = "uninstall" => Removes(me.tx))
          /\ me.at \in Midway \cup {"link", "symlink", "linked", "complete"}
        => Prepares /\ Returns)'
  BY LinkMidway, PTL
<1>12. CASE RecoverRedo
  <2>1. /\ UNCHANGED <<files, outside, record, env>> /\ me'.tx = rec /\ rec # NoTx
        /\ me'.at = "commit" /\ me'.cmd = "roll-forward" /\ me'.todo = OldSteps(rec.plan)
    BY <1>12 DEF RecoverRedo, Classified, Recovering
  <2>2. Linking => OldSteps(rec.plan) = {}
    <3> SUFFICES ASSUME Linking PROVE OldSteps(rec.plan) = {} OBVIOUS
    <3>1. AllNew(rec.plan) BY <2>1 DEF LinkInv, RecordLinks
    <3>2. NewSteps(rec.plan) = DOMAIN rec.plan BY <3>1 DEF NewSteps, AllNew, New
    <3> QED BY <3>2 DEF OldSteps
  <2>3. Carried' BY <1>3, <2>1, <2>2 DEF Carried, Kinds
  <2> QED BY <1>3, <1>5, <1>11, <2>1, <2>3 DEF LinkInv, Midway
<1>13. CASE RecoverFinish
  <2>1. /\ UNCHANGED <<files, outside, record, env>> /\ me'.tx = rec /\ rec # NoTx
        /\ me'.at = "complete"
    BY <1>13 DEF RecoverFinish, Classified, Recovering
  <2>2. Carried' BY <1>3, <2>1 DEF Carried, Midway, Undoes
  <2> QED BY <1>3, <1>5, <1>11, <2>1, <2>2 DEF LinkInv
<1>14. CASE GiveUp
  <2>1. me.tx \in Tx /\ me.at = "giveup" BY <1>14 DEF GiveUp, AsideInv, HasTx, Engaged
  <2>2. (me.tx.kind = "uninstall" => Removes(me.tx)) /\ NoneAside
    BY <2>1 DEF LinkInv, Prepares, Engaged
  <2> QED BY <1>14, <2>1, <2>2, GivesUpLinks
<1> QED BY <1>6, <1>7, <1>8, <1>9, <1>10, <1>12, <1>13, <1>14 DEF Decide

LEMMA PrepareLinks == ASSUME AsideInv, FilesTrue, LinkInv, Prepare PROVE LinkInv'
<1>1. me \in Me /\ World BY TypeIs DEF AsideInv
<1>2. me.at \in Early => me.tx \in Tx /\ Begun
  BY SettledTx DEF FilesTrue, ProcessTrue, Settled, Early
<1>3. link' = link /\ away' = away /\ Spares /\ NoneAside'
  <2>1. link' = link /\ away' = away
    BY DEF Prepare, OpenRefuse, Open, FirstRecord, PlanFails, PlanOne, MakePlan, WritePlan, StageOn,
           StageInvalid, StageDone, BackupDone, Mark, MarkWrite, Classify, StageOne, BackupOne,
           BackupFails, outside
  <2> QED BY <2>1 DEF LinkInv, NoneAside, Spares
<1> USE <1>1 DEF At, Goto, Did, Me
<1>4. (me.at \in (Early \cup {"first"}) \cup Detaching => Carried /\ Returns)'
  BY LinkEarly, PTL
<1>5. ASSUME rec' = rec, disk' = disk /\ iso' = iso
      PROVE  RecordLinks' /\ (Linking' <=> Linking) /\ (Commits' <=> Commits)
  BY <1>3, <1>5, SameRecord DEF AsideInv, LinkInv
(* From one place of the preparation to the next. *)
<1>6. ASSUME me.at \in Early, me'.at \in Early \ {"classify", "commit-on"}, RecordLinks',
             me'.tx.kind = me.tx.kind, me'.tx.ext = me.tx.ext, me'.cmd = me.cmd,
             me.at # "classify" => me'.links = me.links,
             me.at = "classify" => /\ me'.at = "plan"
                                   /\ me.cmd = "uninstall" => \A k \in me'.links : link[k] = "ours",
             me'.at = "plan" \/ Manifest \in DOMAIN Plan', me.at # "commit-on"
      PROVE  LinkInv'
  <2>1. me.tx.kind = me.cmd /\ DOMAIN me.tx.ext = {} BY <1>6 DEF LinkInv, Prepares
  <2>2. me.cmd = "uninstall" => \A k \in me'.links : link[k] = "ours"
    BY <1>6 DEF LinkInv, Prepares
  <2>3. Prepares'
    BY <1>3, <1>6, <2>1, <2>2 DEF Prepares, Removes, Early, Before, Detaching
  <2> QED BY <1>3, <1>4, <1>6, <2>3 DEF LinkInv
<1>7. me.at \in Early \ {"classify", "plan"} => Manifest \in DOMAIN Plan
  BY DEF LinkInv, Prepares
<1>8. CASE OpenRefuse
  <2>1. rec' = rec /\ disk' = disk /\ iso' = iso /\ me'.at = "idle"
    BY <1>8 DEF OpenRefuse, Idle, files, record
  <2> QED BY <1>3, <1>5, <2>1, RestLinks
<1>9. CASE Open
  <2>1. /\ me'.tx = [kind |-> me.cmd, status |-> "planning", plan |-> [s \in {} |-> 0],
                     ext |-> [k \in {} |-> 0], old |-> "none"]
        /\ me'.at = "first" /\ me'.cmd = me.cmd /\ rec' = NoTx
    BY <1>9 DEF Open
  <2>2. me'.tx.kind = me.cmd /\ DOMAIN me'.tx.ext = {} BY <2>1
  <2>3. Prepares' BY <2>1, <2>2 DEF Prepares, Removes, Early, Before, Detaching
  <2>4. RecordLinks' BY <2>1 DEF RecordLinks, Linking, Commits
  <2> QED BY <1>3, <1>4, <2>1, <2>3, <2>4 DEF LinkInv
(* A record of nothing but a plan. *)
<1>10. ASSUME NEW tx \in Tx, rec' = tx, DOMAIN tx.ext = {}, tx.status # "committing"
       PROVE  RecordLinks'
  BY <1>10 DEF RecordLinks, Linking, Commits, Removes
<1>11. CASE FirstRecord
  <2>1. me.tx \in Tx /\ me.at = "first" /\ Begun
    BY <1>11 DEF FirstRecord, AsideInv, HasTx, Engaged, FilesTrue, ProcessTrue
  <2>2. /\ rec' = me.tx /\ me'.tx = me.tx /\ me'.at = "classify" /\ me'.cmd = me.cmd
    BY <1>11 DEF FirstRecord, Write
  <2>3. me.tx.kind = me.cmd /\ DOMAIN me.tx.ext = {} BY <2>1 DEF LinkInv, Prepares
  <2>4. RecordLinks' BY <1>10, <2>1, <2>2, <2>3 DEF Begun
  <2>5. Prepares' BY <2>2, <2>3 DEF Prepares, Removes, Early, Before, Detaching
  <2> QED BY <1>3, <1>4, <2>2, <2>4, <2>5 DEF LinkInv, Early, Before
<1>12. CASE PlanFails
  <2>1. me.tx \in Tx /\ DOMAIN me.tx.ext = {}
    BY <1>2, <1>12 DEF PlanFails, Early, Before, LinkInv, Prepares
  <2>2. PICK tx : tx = [me.tx EXCEPT !.status = "failed"] OBVIOUS
  <2>3. tx \in Tx /\ tx.status = "failed" /\ tx.ext = me.tx.ext
    BY <2>1, <2>2, TxTyped DEF Statuses
  <2>4. rec' = tx /\ me'.at = "idle" BY <1>12, <2>2 DEF PlanFails, Write, Idle
  <2>5. RecordLinks' BY <1>10, <2>1, <2>3, <2>4
  <2> QED BY <1>3, <2>4, <2>5, RestLinks
<1>13. CASE PlanOne
  <2>1. PICK p : MakePlan(p) /\ Manifest \in DOMAIN p
    <3>1. \A v : Manifest \in DOMAIN PlanInstall(v) BY DEF PlanInstall
    <3>2. \A r : Manifest \in DOMAIN PlanUninstall(r) BY DEF PlanUninstall
    <3> QED BY <1>13, <3>1, <3>2 DEF PlanOne
  <2>2. /\ me.at = "plan" /\ UNCHANGED <<files, record>> /\ me'.at = "write-plan"
        /\ me'.cmd = me.cmd /\ me'.links = me.links /\ me'.tx = [me.tx EXCEPT !.plan = p]
    BY <2>1 DEF MakePlan
  <2>3. me.tx \in Tx BY <1>2, <2>2 DEF Early, Before
  <2>4. me'.tx.plan = p /\ me'.tx.ext = me.tx.ext /\ me'.tx.kind = me.tx.kind
    BY <2>2, <2>3, TxTyped
  <2>5. RecordLinks' BY <1>5, <2>2 DEF files, record
  <2> QED BY <1>6, <2>1, <2>2, <2>4, <2>5 DEF Early, Before, Plan
<1>14. CASE WritePlan
  <2>1. me.at = "write-plan" /\ me.tx \in Tx /\ Begun BY <1>2, <1>14 DEF WritePlan, Early, Before
  <2>2. /\ rec' = me.tx /\ me'.at = "stage-on" /\ me'.tx = me.tx /\ me'.cmd = me.cmd
        /\ me'.links = me.links
    BY <1>14 DEF WritePlan, Write
  <2>3. DOMAIN me.tx.ext = {} BY <2>1 DEF LinkInv, Prepares, Early, Before
  <2>4. RecordLinks' BY <1>10, <2>1, <2>2, <2>3 DEF Begun
  <2> QED BY <1>6, <1>7, <2>1, <2>2, <2>4 DEF Early, Before, Plan
<1>15. ASSUME NEW S \in SUBSET Resource, Classify(S) PROVE LinkInv'
  <2>1. /\ me.at = "classify" /\ me'.at = "plan" /\ me'.tx = me.tx /\ me'.cmd = me.cmd
        /\ me'.links = External /\ UNCHANGED <<files, record>>
    BY <1>15 DEF Classify
  <2>2. me.cmd = "uninstall" => \A k \in External : link[k] = "ours" BY DEF External
  <2>3. RecordLinks' BY <1>5, <2>1 DEF files, record
  <2> QED BY <1>6, <2>1, <2>2, <2>3 DEF Early, Before
<1>16. CASE StageOn
  <2>1. me.at = "stage-on" /\ me.tx \in Tx BY <1>2, <1>16 DEF StageOn, Early, Before
  <2>2. PICK tx : tx = [me.tx EXCEPT !.status = "staging"] OBVIOUS
  <2>3. /\ tx \in Tx /\ tx.status = "staging" /\ tx.ext = me.tx.ext /\ tx.kind = me.tx.kind
        /\ tx.plan = me.tx.plan
    BY <2>1, <2>2, TxTyped DEF Statuses
  <2>4. /\ rec' = tx /\ me'.at = "stage" /\ me'.tx = tx /\ me'.cmd = me.cmd
        /\ me'.links = me.links
    BY <1>16, <2>2 DEF StageOn, Write
  <2>5. DOMAIN me.tx.ext = {} BY <2>1 DEF LinkInv, Prepares, Early, Before
  <2>6. RecordLinks' BY <1>10, <2>3, <2>4, <2>5
  <2> QED BY <1>6, <1>7, <2>1, <2>3, <2>4, <2>6 DEF Early, Before, Plan
(* Steps that leave the transaction as it is. *)
<1>17. ASSUME me.at \in Early \ {"classify", "plan", "commit-on"}, rec' = rec,
              disk' = disk /\ iso' = iso, me'.tx = me.tx, me'.cmd = me.cmd,
              me'.links = me.links,
              me'.at \in Early \ {"classify", "commit-on"}
       PROVE  LinkInv'
  <2>1. Manifest \in DOMAIN Plan' BY <1>7, <1>17 DEF Plan
  <2>2. RecordLinks' BY <1>5, <1>17
  <2> QED BY <1>6, <1>17, <2>1, <2>2
<1>18. ASSUME me.at \in {"stage", "backup"}, CleanUp("failed"), UNCHANGED <<files, record>>
       PROVE  LinkInv'
  <2>1. DOMAIN me.tx.ext = {} BY <1>18 DEF LinkInv, Prepares, Early, Before
  <2>2. me'.at = "clean" /\ me'.tx = me.tx BY <1>18 DEF CleanUp
  <2>3. Returns' BY <2>1, <2>2 DEF Returns, Reverting, Reverted, Back, Undoes
  <2>4. ((me.tx.kind = "uninstall" => Removes(me.tx))
           /\ me.at \in Back \cup Erased \cup {"clean"}
         => Prepares /\ Carried)'
    BY LinkBack, PTL
  <2>5. RecordLinks' BY <1>5, <1>18 DEF files, record
  <2> QED BY <1>3, <2>1, <2>2, <2>3, <2>4, <2>5 DEF LinkInv, Removes
<1>19. CASE StageInvalid BY <1>18, <1>19 DEF StageInvalid
<1>20. CASE StageDone BY <1>17, <1>20 DEF StageDone, files, record, Early, Before
<1>21. ASSUME NEW s \in Resource, StageOne(s) PROVE LinkInv'
  BY <1>17, <1>21 DEF StageOne, record, Early, Before
<1>22. ASSUME NEW s \in Resource, BackupOne(s) PROVE LinkInv'
  BY <1>17, <1>22 DEF BackupOne, record, Early, Before
<1>23. ASSUME NEW s \in Resource, BackupFails(s) PROVE LinkInv'
  BY <1>18, <1>23 DEF BackupFails
(* An install is ready to commit. *)
<1>24. ASSUME me.at \in Early \ {"classify", "plan", "commit-on"}, rec' = rec,
              disk' = disk /\ iso' = iso, me'.tx = me.tx, me'.cmd = me.cmd,
              me'.links = me.links, me'.at = "commit-on"
       PROVE  LinkInv'
  <2>1. Manifest \in DOMAIN Plan' BY <1>7, <1>24 DEF Plan
  <2>2. RecordLinks' BY <1>5, <1>24
  <2>3. /\ me.tx.kind = me.cmd /\ DOMAIN me.tx.ext = {}
        /\ me.cmd = "uninstall" => \A k \in me.links : link[k] = "ours"
    BY <1>24 DEF LinkInv, Prepares
  <2>4. Prepares' BY <1>3, <1>24, <2>1, <2>3 DEF Prepares, Removes, Early, Before, Detaching
  <2> QED BY <1>3, <1>4, <1>24, <2>2, <2>4 DEF LinkInv, Early, Before
<1>25. CASE BackupDone
  <2>1. /\ me.at = "backup" /\ me'.at \in {"detach-plan", "mark", "commit-on"}
        /\ me'.tx = me.tx /\ me'.cmd = me.cmd /\ me'.links = me.links
        /\ rec' = rec /\ disk' = disk /\ iso' = iso
    BY <1>25 DEF BackupDone, files, record
  <2> QED BY <1>17, <1>24, <2>1 DEF Early, Before
<1>26. CASE Mark
  <2>1. PICK tx : /\ Write(tx) /\ me' = [me EXCEPT !.at = "mark-write", !.tx = tx]
                  /\ tx = [me.tx EXCEPT !.old = IF marker THEN "set" ELSE "unset"]
    BY <1>26, Zenon DEF Mark
  <2>2. me.at = "mark" /\ me.tx \in Tx /\ Begun BY <1>2, <1>26 DEF Mark, Early, Before
  <2>3. /\ tx \in Tx /\ tx.ext = me.tx.ext /\ tx.kind = me.tx.kind /\ tx.plan = me.tx.plan
        /\ tx.status = me.tx.status
    BY <2>1, <2>2, TxTyped DEF Olds
  <2>4. DOMAIN me.tx.ext = {} BY <2>2 DEF LinkInv, Prepares, Early, Before
  <2>5. RecordLinks' BY <1>10, <2>1, <2>2, <2>3, <2>4 DEF Write, Begun
  <2>6. me'.tx = tx /\ me'.at = "mark-write" /\ me'.cmd = me.cmd /\ me'.links = me.links
    BY <2>1
  <2> QED BY <1>6, <1>7, <2>2, <2>3, <2>5, <2>6 DEF Early, Before, Plan
<1>27. CASE MarkWrite
  BY <1>24, <1>27 DEF MarkWrite, files, record, Early, Before
<1> QED BY <1>8, <1>9, <1>11, <1>12, <1>13, <1>14, <1>15, <1>16, <1>19, <1>20, <1>21, <1>22,
           <1>23, <1>25, <1>26, <1>27 DEF Prepare

(* What recording a link as applied leaves. *)
LEMMA AppliedKeeps ==
  ASSUME NEW tx \in Tx, NEW k
  PROVE  LET new == [tx EXCEPT !.ext[k].state = "applied"]
         IN \A j \in DOMAIN tx.ext : new.ext[j].op = tx.ext[j].op
<1> DEFINE new == [tx EXCEPT !.ext[k].state = "applied"]
<1>1. new.ext = [tx.ext EXCEPT ![k].state = "applied"] BY TxTyped
<1>2. tx.ext \in [DOMAIN tx.ext -> Ext] BY TxTyped, PartialIs DEF Exts
<1>3. ASSUME NEW j \in DOMAIN tx.ext PROVE new.ext[j].op = tx.ext[j].op
  <2>1. tx.ext[j] \in Ext BY <1>2
  <2>2. [tx.ext[j] EXCEPT !.state = "applied"].op = tx.ext[j].op BY <2>1 DEF Ext
  <2> QED BY <1>1, <1>2, <2>2
<1> QED BY <1>3

LEMMA DetachLinks == ASSUME AsideInv, FilesTrue, LinkInv, Detach PROVE LinkInv'
<1>1. me.at \in Settled /\ me.at \in Before \cup Detaching
  BY DEF Detach, DetachPlan, DetachDone, ReattachDone, DetachSkip, DetachStart, DetachOrphan,
         DetachMove, DetachFails, DetachDispose, DetachRestore, Detached, At, Settled, Before,
         Detaching
<1>2. me.tx \in Tx /\ me \in Me /\ World BY <1>1, SettledTx
<1>3. disk' = disk /\ iso' = iso
  BY DEF Detach, DetachPlan, DetachDone, ReattachDone, DetachSkip, DetachStart, DetachOrphan,
         DetachMove, DetachFails, DetachDispose, DetachRestore, Detached, files
<1>4. /\ me.at \in Detaching => /\ me.tx.kind = "uninstall" /\ me.links \subseteq DOMAIN me.tx.ext
                                /\ Removes(me.tx)
      /\ me.at \in Detaching /\ ~Forward =>
            Manifest \in DOMAIN Plan /\ Begun /\ me.cmd = "uninstall" /\ me.goal = "none"
  <2>1. me.at \in Detaching => me.at \in Engaged BY DEF Engaged
  <2> QED BY <2>1 DEF LinkInv, Prepares, FilesTrue, ProcessTrue, AsideInv, ProcessAims, OwnUninstall
<1> USE <1>2, <1>3 DEF At, Goto, Me
<1>5. Spares /\ NoneAside'
  <2>1. \A k \in Skill : away[k] # "theirs" BY DEF LinkInv, NoneAside
  <2>2. CASE link' = link /\ away' = away BY <2>1, <2>2 DEF Spares, NoneAside
  <2>3. ASSUME NEW k \in Skill, away' = [away EXCEPT ![k] = "absent"], link' = link
        PROVE  Spares /\ NoneAside'
    BY <2>1, <2>3 DEF Spares, NoneAside, World
  <2>4. ASSUME NEW k \in Skill, DetachOrphan(k) PROVE Spares /\ NoneAside'
    BY <2>1, <2>3, <2>4 DEF DetachOrphan
  <2>5. ASSUME NEW k \in Skill, DetachMove(k) PROVE Spares /\ NoneAside'
    <3>1. /\ me.at = "aside" /\ k \in First(me.links)
          /\ away' = [away EXCEPT ![k] = link[k]] /\ link' = [link EXCEPT ![k] = "absent"]
      BY <2>5 DEF DetachMove, NextSkill
    <3>2. link[k] # "theirs" BY <1>4, <3>1 DEF Detaching, First, Removes
    <3> QED BY <2>1, <3>1, <3>2 DEF Spares, NoneAside, World
  <2>6. ASSUME NEW k \in Skill, DetachDispose(k) PROVE Spares /\ NoneAside'
    BY <2>3, <2>6 DEF DetachDispose
  <2>7. ASSUME NEW k \in Skill, DetachRestore(k) PROVE FALSE BY <2>1, <2>7 DEF DetachRestore
  <2>8. \/ link' = link /\ away' = away
        \/ \E k \in Skill : DetachOrphan(k) \/ DetachMove(k) \/ DetachDispose(k) \/ DetachRestore(k)
    BY DEF Detach, DetachPlan, DetachDone, ReattachDone, DetachSkip, DetachStart, DetachFails,
           Detached, outside
  <2> QED BY <2>2, <2>4, <2>5, <2>6, <2>7, <2>8
<1>6. me'.tx = me.tx /\ Removes(me.tx) => Removes(me.tx)'
  <2>1. PICK tx \in Tx : tx = me.tx OBVIOUS
  <2>2. Removes(tx) => Removes(tx)' BY <1>5, SameLinks
  <2> QED BY <2>1, <2>2 DEF Removes
<1>7. (me.at \in (Early \cup {"first"}) \cup Detaching => Carried /\ Returns)'
  BY LinkEarly, PTL
<1>8. rec' = rec => RecordLinks' BY <1>5, SameRecord DEF AsideInv, LinkInv
(* From one place of the loop to the next. *)
<1>9. ASSUME me'.at \in Detaching, RecordLinks', Removes(me.tx)', me'.tx.kind = "uninstall",
             me'.links \subseteq DOMAIN me'.tx.ext, ~Forward' => Manifest \in DOMAIN Plan'
      PROVE  LinkInv'
  <2>1. Prepares' BY <1>9 DEF Prepares, Early, Before, Detaching
  <2> QED BY <1>5, <1>7, <1>9, <2>1 DEF LinkInv
<1>10. ASSUME me.at \in Detaching, rec' = rec, me'.tx = me.tx, me'.at \in Detaching,
              me'.links = me.links, me'.goal = me.goal
       PROVE  LinkInv'
  <2>1. Forward' <=> Forward BY <1>10 DEF Forward
  <2>2. Plan' = Plan BY <1>10 DEF Plan
  <2> QED BY <1>4, <1>6, <1>8, <1>9, <1>10, <2>1, <2>2
<1>11. CASE DetachPlan
  <2>1. PICK tx : /\ Write(tx) /\ me' = [me EXCEPT !.at = "detach", !.tx = tx]
                  /\ tx = [me.tx EXCEPT !.ext = [k \in me.links |-> RemoveIntent(k)]]
    BY <1>11, Zenon DEF DetachPlan
  <2>2. /\ tx.plan = me.tx.plan /\ tx.status = me.tx.status /\ tx.kind = me.tx.kind
        /\ tx.ext = [k \in me.links |-> RemoveIntent(k)]
    BY <2>1, TxTyped
  <2>3. me.at = "detach-plan" /\ link' = link BY <1>11 DEF DetachPlan, outside
  <2>4. me.tx.kind = "uninstall" /\ Begun /\ Manifest \in DOMAIN Plan
        /\ \A k \in me.links : link[k] = "ours"
    BY <2>3 DEF LinkInv, Prepares, Early, Before, FilesTrue, ProcessTrue, AsideInv, ProcessAims,
                OwnUninstall
  <2>5. Removes(tx)' BY <2>2, <2>3, <2>4 DEF Removes, RemoveIntent
  <2>6. rec' = tx /\ me'.tx = tx /\ me'.at = "detach" /\ me'.links = me.links BY <2>1 DEF Write
  <2>7. RecordLinks'
    BY <2>2, <2>4, <2>5, <2>6 DEF RecordLinks, Linking, Commits, Begun, Removes
  <2> QED BY <1>9, <2>2, <2>4, <2>5, <2>6, <2>7 DEF Removes, Detaching, Plan
<1>12. CASE DetachDone
  <2>1. /\ me.at = "detach" /\ rec' = rec /\ me'.tx = me.tx /\ me'.cmd = me.cmd
        /\ me'.links = me.links /\ me.links = {}
        /\ me'.at = IF me.goal = "stuck" THEN "giveup"
                    ELSE IF me.goal = "done" THEN "finish" ELSE "commit-on"
    BY <1>12 DEF DetachDone, record
  <2>2. Removes(me.tx)' /\ RecordLinks' BY <1>4, <1>6, <1>8, <2>1 DEF Detaching
  <2>3. CASE Forward
    <3>1. me'.at \in {"giveup", "finish"} BY <2>1, <2>3 DEF Forward
    <3>2. ((me.tx.kind = "uninstall" => Removes(me.tx)) /\ me.at \in {"relink", "finish", "giveup"}
           => Prepares /\ Carried /\ Returns)'
      BY LinkAfter, PTL
    <3> QED BY <1>5, <2>2, <3>1, <3>2 DEF LinkInv
  <2>4. CASE ~Forward
    <3>1. me'.at = "commit-on" BY <2>1, <2>4 DEF Forward
    <3>2. Prepares'
      BY <1>4, <2>1, <2>2, <2>4, <3>1 DEF Prepares, Early, Before, Detaching, Plan
    <3> QED BY <1>5, <1>7, <2>2, <3>1, <3>2 DEF LinkInv, Early, Before
  <2> QED BY <2>3, <2>4
<1>13. CASE ReattachDone
  <2>1. PICK s \in {"needs_human", "failed"} : Write([me.tx EXCEPT !.status = s])
    BY <1>13 DEF ReattachDone
  <2>2. PICK tx : tx = [me.tx EXCEPT !.status = s] OBVIOUS
  <2>3. tx.status = s /\ tx.ext = me.tx.ext /\ tx.kind = me.tx.kind
    BY <2>2, TxTyped DEF Statuses
  <2>4. rec' = tx /\ me'.at = "idle" /\ link' = link
    BY <1>13, <2>1, <2>2 DEF ReattachDone, Write, Idle, outside
  <2>5. tx.kind = "uninstall" => Removes(tx)
    BY <1>13, <2>3 DEF ReattachDone, LinkInv, Prepares, Removes, Engaged, Before
  <2>6. RecordLinks' BY <2>3, <2>4, <2>5 DEF RecordLinks, Linking, Commits, Removes
  <2> QED BY <1>5, <2>4, <2>6, RestLinks
<1>14. ASSUME NEW k \in Skill, DetachFailed(k), me.at \in Detaching, rec' = rec
       PROVE  LinkInv'
  <2>1. me'.tx = me.tx /\ Removes(me.tx)' /\ RecordLinks'
    BY <1>4, <1>6, <1>8, <1>14 DEF DetachFailed
  <2>2. CASE Forward
    <3>1. me'.at = "detach" /\ me'.goal = "stuck" /\ me'.links = me.links \ {k}
      BY <1>14, <2>2 DEF DetachFailed
    <3> QED BY <1>4, <1>9, <1>14, <2>1, <3>1 DEF Detaching, Forward
  <2>3. CASE ~Forward
    <3>1. me'.at = "reattach" /\ me'.links = DOMAIN me.tx.ext BY <1>14, <2>3 DEF DetachFailed
    <3>2. Prepares' BY <2>1, <3>1 DEF Prepares, Early, Before, Detaching
    <3>3. Carried' BY <3>1 DEF Carried, Midway, Undoes
    <3>4. Returns' BY <1>4, <1>14, <2>1, <3>1 DEF Returns, Reverting, Back, Undoes, Erased
    <3> QED BY <1>5, <2>1, <3>2, <3>3, <3>4 DEF LinkInv
  <2> QED BY <2>2, <2>3
<1>15. ASSUME NEW k \in Skill,
              \/ DetachSkip(k) \/ DetachStart(k) \/ DetachOrphan(k)
              \/ DetachMove(k) \/ DetachDispose(k)
       PROVE  LinkInv'
  <2>1. /\ me.at \in {"detach", "aside", "moved"} /\ rec' = rec
        /\ me'.at \in {"detached", "aside", "moved"}
        /\ me'.tx = me.tx /\ me'.links = me.links /\ me'.goal = me.goal
    BY <1>15 DEF DetachSkip, DetachStart, DetachOrphan, DetachMove, DetachDispose, record
  <2> QED BY <1>10, <2>1 DEF Detaching
<1>16. ASSUME NEW k \in Skill, DetachFails(k) \/ DetachRestore(k) PROVE LinkInv'
  BY <1>14, <1>16 DEF DetachFails, DetachRestore, Detaching, record
<1>17. ASSUME NEW k \in Skill, Detached(k) PROVE LinkInv'
  <2>1. PICK tx : /\ me' = [me EXCEPT !.at = "detach", !.tx = tx, !.links = @ \ {k}]
                  /\ tx = [me.tx EXCEPT !.ext[k].state = "applied"]
                  /\ IF Forward THEN UNCHANGED record ELSE Write(tx)
    BY <1>17, Zenon DEF Detached
  <2>2. /\ tx.plan = me.tx.plan /\ tx.status = me.tx.status /\ tx.kind = me.tx.kind
        /\ DOMAIN tx.ext = DOMAIN me.tx.ext
        /\ \A j \in DOMAIN me.tx.ext : tx.ext[j].prior = me.tx.ext[j].prior
        /\ \A j \in DOMAIN me.tx.ext : tx.ext[j].op = me.tx.ext[j].op
    BY <2>1, AppliedIs, AppliedKeeps
  <2>3. me.at \in Detaching /\ link' = link BY <1>17 DEF Detached, Detaching, outside
  <2>4. /\ me'.tx = tx /\ me'.at = "detach" /\ me'.links = me.links \ {k}
        /\ (Forward' <=> Forward)
    BY <2>1 DEF Forward
  <2>5. Removes(tx) BY <1>4, <2>2, <2>3 DEF Removes
  <2>6. Removes(me.tx)' BY <2>3, <2>4, <2>5 DEF Removes
  <2>7. RecordLinks'
    <3>1. CASE Forward BY <1>8, <2>1, <3>1 DEF record
    <3>2. CASE ~Forward
      <4>1. rec' = tx /\ Begun BY <1>4, <2>1, <2>3, <3>2 DEF Write
      <4> QED BY <1>4, <2>2, <2>3, <2>5, <4>1 DEF RecordLinks, Linking, Commits, Begun, Removes
    <3> QED BY <3>1, <3>2
  <2> QED BY <1>4, <1>9, <2>2, <2>3, <2>4, <2>6, <2>7 DEF Detaching, Plan
<1> QED BY <1>11, <1>12, <1>13, <1>15, <1>16, <1>17 DEF Detach

LEMMA CommitLinks == ASSUME AsideInv, FilesTrue, LinkInv, Commit PROVE LinkInv'
<1>1. me \in Me /\ World BY TypeIs DEF AsideInv
<1>2. link' = link /\ away' = away
  BY DEF Commit, CommitOn, CommitDone, CommitConflict, CommitAbsent, CommitChecked, CommitUnstaged,
         Stop, Swap, Swapped, Isolate, IsolateFails, Dispose, Reinstate, ReinstateFails, outside
<1>3. Spares /\ NoneAside' BY <1>2 DEF LinkInv, NoneAside, Spares
<1> USE <1>1 DEF At, Goto, Did, Me
<1>4. ((me.tx.kind = "uninstall" => Removes(me.tx))
         /\ me.at \in Midway \cup {"link", "symlink", "linked", "complete"}
       => Prepares /\ Returns)'
  BY LinkMidway, PTL
<1>5. CASE CommitOn
  <2>1. me.at = "commit-on" /\ me.at \in Early /\ me.at \in Engaged
    BY <1>5 DEF CommitOn, Early, Before, Engaged
  <2>2. me.tx \in Tx BY <2>1, SettledTx DEF Settled, Early
  <2>3. PICK tx : tx = [me.tx EXCEPT !.status = "committing"] OBVIOUS
  <2>4. /\ tx.status = "committing" /\ tx.ext = me.tx.ext /\ tx.kind = me.tx.kind
        /\ tx.plan = me.tx.plan /\ tx.kind \in Kinds
    BY <2>2, <2>3, TxTyped DEF Statuses
  <2>5. rec' = tx /\ me'.tx = tx /\ me'.at = "commit" /\ me'.cmd = me.cmd
    BY <1>5, <2>3 DEF CommitOn, Write
  <2>6. /\ me.tx.kind = me.cmd /\ (me.cmd = "install" => DOMAIN me.tx.ext = {})
        /\ Manifest \in DOMAIN me.tx.plan
        /\ me.tx.kind = "uninstall" => Removes(me.tx)
    BY <2>1 DEF LinkInv, Prepares, Plan
  <2>7. tx.kind = "uninstall" => Removes(tx)' BY <1>2, <2>4, <2>6 DEF Removes
  <2>8. RecordLinks' BY <2>4, <2>5, <2>6, <2>7 DEF RecordLinks, Linking, Commits, Removes
  <2>9. ~Linking' BY <2>4, <2>5, <2>6 DEF Linking
  <2>10. Carried' BY <2>4, <2>5, <2>6, <2>9 DEF Carried
  <2> QED BY <1>3, <1>4, <2>5, <2>7, <2>8, <2>10 DEF LinkInv, Removes, Midway
<1>6. me.at \in Midway =>
        /\ rec = me.tx /\ (me.cmd \in Kinds => me.tx.kind = me.cmd)
        /\ me.tx.kind = "uninstall" => Removes(me.tx)
        /\ Linking => me.at = "commit" /\ me.todo = {}
  <2>1. me.at \in Midway => me.at \in Engaged BY DEF Engaged
  <2> QED BY <2>1 DEF LinkInv, Prepares, Carried
(* Whatever the record says, it stays. *)
<1>7. ASSUME me.at \in Midway, rec' = rec, Linking => disk' = disk /\ iso' = iso,
             \/ me'.at \in {"recover", "complete", "finish", "link", "giveup"}
             \/ /\ me'.at \in Midway /\ me'.cmd = me.cmd
                /\ Linking => me'.at = "commit" /\ me'.todo = {},
             me'.tx = me.tx, me'.at = "link" => me.cmd = "install"
      PROVE  LinkInv'
  <2>1. RecordLinks' /\ (Linking' <=> Linking)
    BY <1>3, <1>7, SameRecord DEF AsideInv, LinkInv
  <2>2. (me.tx.kind = "uninstall" => Removes(me.tx))' BY <1>2, <1>6, <1>7 DEF Removes
  <2>3. CASE me'.at = "recover" BY <1>3, <2>1, <2>3, RestLinks
  <2>4. CASE me'.at \in {"finish", "giveup"}
    <3>1. ((me.tx.kind = "uninstall" => Removes(me.tx)) /\ me.at \in {"relink", "finish", "giveup"}
           => Prepares /\ Carried /\ Returns)'
      BY LinkAfter, PTL
    <3> QED BY <1>3, <2>1, <2>2, <2>4, <3>1 DEF LinkInv
  <2>5. CASE me'.at = "complete"
    <3>1. Carried' BY <1>6, <1>7, <2>5 DEF Carried, Midway, Undoes
    <3> QED BY <1>3, <1>4, <2>1, <2>2, <2>5, <3>1 DEF LinkInv
  <2>6. CASE me'.at = "link"
    <3>1. me.tx.kind = "install" BY <1>6, <1>7, <2>6 DEF Kinds
    <3>2. rec # NoTx BY <1>7 DEF AsideInv, ProcessAside, Carries, Interrupted
    <3>3. me.tx.status = "committing" => Manifest \in DOMAIN Plan
      BY <1>6, <1>7, <3>2 DEF LinkInv, RecordLinks, Commits, Plan
    <3>4. Carried' BY <1>7, <2>6, <3>1, <3>3 DEF Carried, Midway, Undoes, Plan
    <3> QED BY <1>3, <1>4, <2>1, <2>2, <2>6, <3>4 DEF LinkInv
  <2>7. CASE me'.at \in Midway
    <3>1. Carried' BY <1>6, <1>7, <2>1, <2>7 DEF Carried, Midway, Undoes
    <3> QED BY <1>3, <1>4, <2>1, <2>2, <2>7, <3>1 DEF LinkInv
  <2> QED BY <1>7, <2>3, <2>4, <2>5, <2>6, <2>7
(* A step of a file: the install is not among those with links. *)
<1>8. ASSUME me.at \in Midway, rec' = rec, me.todo # {} \/ me.at # "commit",
             me'.tx = me.tx, \/ me'.at \in {"recover", "giveup"}
                             \/ me'.at \in Midway /\ me'.cmd = me.cmd
      PROVE  LinkInv'
  <2>1. ~Linking BY <1>6, <1>8
  <2>2. me'.at # "link" BY <1>8 DEF Midway
  <2>3. \/ me'.at \in {"recover", "complete", "finish", "link", "giveup"}
        \/ me'.at \in Midway /\ me'.cmd = me.cmd
    BY <1>8
  <2> QED BY <1>7, <1>8, <2>1, <2>2, <2>3
<1>9. ASSUME NEW conflict, Stop(conflict), me.at \in Midway, me.todo # {} PROVE LinkInv'
  <2>1. me'.tx = me.tx /\ me'.at \in {"recover", "giveup"} /\ rec' = rec
    BY <1>9 DEF Stop, record
  <2> QED BY <1>8, <1>9, <2>1
<1>10. CASE CommitDone
  <2>1. /\ me.at = "commit" /\ disk' = disk /\ iso' = iso /\ rec' = rec /\ me'.tx = me.tx
        /\ me'.at \in {"complete", "link", "finish"}
        /\ me'.at = "link" => me.cmd = "install"
    BY <1>10 DEF CommitDone, files, record
  <2> QED BY <1>7, <2>1 DEF Midway
<1>11. \A s \in First(me.todo) : me.todo # {} BY DEF First
<1>12. ASSUME NEW s \in Resource, CommitConflict(s) \/ CommitUnstaged(s) PROVE LinkInv'
  BY <1>9, <1>11, <1>12 DEF CommitConflict, CommitUnstaged, Committing, Midway
<1>13. ASSUME NEW s \in Resource, CommitAbsent(s) \/ CommitChecked(s) PROVE LinkInv'
  <2>1. /\ me.at = "commit" /\ s \in First(me.todo) /\ rec' = rec /\ me'.tx = me.tx
        /\ me'.cmd = me.cmd /\ me'.at \in {"commit", "isolate", "swap"}
    BY <1>13 DEF CommitAbsent, CommitChecked, Committing, record
  <2> QED BY <1>8, <1>11, <2>1 DEF Midway
<1>14. ASSUME NEW s \in Resource, Swap(s) \/ Isolate(s) \/ Dispose(s) PROVE LinkInv'
  <2>1. /\ me.at \in {"swap", "isolate", "isolated"} /\ rec' = rec /\ me'.tx = me.tx
        /\ me'.cmd = me.cmd /\ me'.at \in {"swapped", "isolated", "commit"}
    BY <1>14 DEF Swap, Isolate, Dispose, record
  <2> QED BY <1>8, <2>1 DEF Midway
<1>15. ASSUME NEW s \in Resource, Swapped(s) PROVE LinkInv'
  <2>1. me.at = "swapped" /\ s \in First(me.todo) BY <1>15 DEF Swapped
  <2>2. CASE disk[s] = Plan[s].post
    <3>1. rec' = rec /\ me'.tx = me.tx /\ me'.cmd = me.cmd /\ me'.at = "commit"
      BY <1>15, <2>2 DEF Swapped, record
    <3> QED BY <1>8, <2>1, <3>1 DEF Midway
  <2>3. CASE disk[s] # Plan[s].post BY <1>9, <1>11, <1>15, <2>1, <2>3 DEF Swapped, Midway
  <2> QED BY <2>2, <2>3
<1>16. ASSUME NEW s \in Resource, IsolateFails(s) \/ ReinstateFails(s) PROVE LinkInv'
  BY <1>9, <1>11, <1>16 DEF IsolateFails, ReinstateFails, Midway
<1>17. ASSUME NEW s \in Resource, Reinstate(s) PROVE LinkInv'
  <2>1. me.at = "isolated" /\ rec' = rec /\ me'.tx = me.tx /\ me'.at \in {"giveup", "recover"}
    BY <1>17 DEF Reinstate, record
  <2> QED BY <1>8, <2>1 DEF Midway
<1> QED BY <1>5, <1>10, <1>12, <1>13, <1>14, <1>15, <1>16, <1>17 DEF Commit

LEMMA ExposeLinks == ASSUME AsideInv, FilesTrue, LinkInv, Expose PROVE LinkInv'
<1>1. me.at \in {"link", "symlink", "linked"} /\ me.at \in Settled /\ me.at \in After
  BY DEF Expose, LinksDone, LinkIntent, Symlink, SymlinkRaises, Linked, At, Settled, After
<1>2. me.tx \in Tx /\ me \in Me /\ World BY <1>1, SettledTx
<1>3. disk' = disk /\ iso' = iso /\ away' = away
  BY DEF Expose, LinksDone, LinkIntent, Symlink, SymlinkRaises, Linked, files, outside
<1>4. me.tx.kind = "install" /\ (me.tx.status = "committing" => Manifest \in DOMAIN Plan)
  BY <1>1 DEF LinkInv, Carried
<1>5. AllNew(Plan) /\ me.tx.status \in {"committing", "needs_human"}
  BY <1>1 DEF FilesTrue, ProcessTrue, InPlace, Committed
<1> USE <1>1, <1>2, <1>3 DEF At, Goto, Me
<1>6. Spares
  <2>1. CASE link' = link BY <2>1 DEF Spares
  <2>2. ASSUME NEW k \in Skill, Symlink(k) PROVE Spares BY <2>2 DEF Symlink, Spares, World
  <2> QED BY <2>1, <2>2 DEF Expose, LinksDone, LinkIntent, SymlinkRaises, Linked, outside
<1>7. NoneAside' BY DEF LinkInv, NoneAside
<1>8. rec' = rec => RecordLinks' BY <1>6, SameRecord DEF AsideInv, LinkInv
<1>9. ASSUME rec' = rec \/ rec' = me'.tx, me'.tx.plan = me.tx.plan, me'.tx.kind = me.tx.kind,
             me'.tx.status = me.tx.status,
             me'.at \in {"link", "symlink", "linked", "finish", "giveup"}
      PROVE  LinkInv'
  <2>1. RecordLinks'
    <3>1. CASE rec' = rec BY <1>8, <3>1
    <3>2. CASE rec' = me'.tx
      <4>1. /\ rec'.kind = "install" /\ rec'.plan = Plan
            /\ rec'.status \in {"committing", "needs_human"}
            /\ (rec'.status = "committing" => Manifest \in DOMAIN Plan)
        BY <1>4, <1>5, <1>9, <3>2 DEF Plan
      <4>2. AllNew(rec.plan)' BY <1>5, <4>1 DEF AllNew, New
      <4> QED BY <4>1, <4>2 DEF RecordLinks, Commits
    <3> QED BY <1>9, <3>1, <3>2
  <2>2. (me.tx.kind = "uninstall" => Removes(me.tx))' BY <1>4, <1>9
  <2>3. CASE me'.at \in {"finish", "giveup"}
    <3>1. ((me.tx.kind = "uninstall" => Removes(me.tx)) /\ me.at \in {"relink", "finish", "giveup"}
           => Prepares /\ Carried /\ Returns)'
      BY LinkAfter, PTL
    <3> QED BY <1>7, <2>1, <2>2, <2>3, <3>1 DEF LinkInv
  <2>4. CASE me'.at \in {"link", "symlink", "linked"}
    <3>1. ((me.tx.kind = "uninstall" => Removes(me.tx))
             /\ me.at \in Midway \cup {"link", "symlink", "linked", "complete"}
           => Prepares /\ Returns)'
      BY LinkMidway, PTL
    <3>2. Carried' BY <1>4, <1>9, <2>4 DEF Carried, Midway, Undoes, Plan
    <3> QED BY <1>7, <2>1, <2>2, <2>4, <3>1, <3>2 DEF LinkInv
  <2> QED BY <1>9, <2>3, <2>4
<1>10. CASE LinksDone
  <2>1. me'.tx = me.tx /\ me'.at \in {"giveup", "finish"} /\ rec' = rec
    BY <1>10 DEF LinksDone, record
  <2> QED BY <1>9, <2>1
<1>11. ASSUME NEW k \in Skill, LinkIntent(k) PROVE LinkInv'
  <2> DEFINE ext == [j \in {k} \cup DOMAIN me.tx.ext |->
                        IF j = k THEN Intent(k) ELSE me.tx.ext[j]]
  <2>1. PICK tx : /\ Write(tx) /\ tx = [me.tx EXCEPT !.ext = ext]
                  /\ \/ me' = [me EXCEPT !.at = "symlink", !.tx = tx]
                     \/ me' = [me EXCEPT !.tx = tx, !.links = @ \ {k}]
    BY <1>11, Zenon DEF LinkIntent
  <2>2. tx.plan = me.tx.plan /\ tx.kind = me.tx.kind /\ tx.status = me.tx.status
    BY <2>1, TxTyped
  <2>3. me'.tx = tx /\ rec' = tx BY <2>1 DEF Write
  <2>4. me.at = "link" BY <1>11 DEF LinkIntent
  <2>5. me'.at \in {"link", "symlink"} BY <2>1, <2>4
  <2> QED BY <1>9, <2>2, <2>3, <2>5
<1>12. ASSUME NEW k \in Skill, Symlink(k) PROVE LinkInv'
  BY <1>9, <1>12 DEF Symlink, record
<1>13. ASSUME NEW k \in Skill, SymlinkRaises(k) PROVE LinkInv'
  <2>1. rec' = rec /\ me'.at = "idle" BY <1>13 DEF SymlinkRaises, Idle, record
  <2> QED BY <1>7, <1>8, <2>1, RestLinks
<1>14. ASSUME NEW k \in Skill, Linked(k) PROVE LinkInv'
  <2>1. PICK tx : /\ Write(tx) /\ tx = [me.tx EXCEPT !.ext[k].state = "applied"]
                  /\ me' = [me EXCEPT !.at = "link", !.tx = tx, !.links = @ \ {k}]
    BY <1>14, Zenon DEF Linked
  <2>2. tx.plan = me.tx.plan /\ tx.kind = me.tx.kind /\ tx.status = me.tx.status
    BY <2>1, AppliedIs
  <2>3. me'.tx = tx /\ me'.at = "link" /\ rec' = tx BY <2>1 DEF Write
  <2> QED BY <1>9, <2>2, <2>3
<1> QED BY <1>10, <1>11, <1>12, <1>13, <1>14 DEF Expose

LEMMA UndoLinks == ASSUME AsideInv, FilesTrue, LinkInv, Undo PROVE LinkInv'
<1>1. me \in Me /\ World BY TypeIs DEF AsideInv
<1>2. me.at \in Undoes
  BY DEF Undo, UndoDone, UndoNothing, UndoIsolated, UndoTemporary, UndoRemovable, UndoFails,
         Undoing, Restore, Restored, Remove, At, Undoes
<1>3. link' = link /\ away' = away /\ rec' = rec
  BY DEF Undo, UndoDone, UndoNothing, UndoIsolated, UndoTemporary, UndoRemovable, UndoFails,
         Restore, Restored, Remove, outside, record
<1>4. /\ rec = me.tx /\ (me.tx.kind = "install" => DOMAIN me.tx.ext = {})
      /\ me.tx.kind = "uninstall" => Removes(me.tx)
  <2>1. me.at \in Engaged BY <1>2 DEF Engaged
  <2> QED BY <1>2, <2>1 DEF LinkInv, Prepares, Carried, Returns
<1>5. me'.tx = me.tx /\ me'.at \in Undoes \cup {"unmark", "giveup"}
  <2>1. ASSUME NEW s \in Resource, Restored(s) PROVE me'.tx = me.tx /\ me'.at \in {"undo", "giveup"}
    BY <1>1, <2>1 DEF Restored, Me
  <2> QED
    BY <1>1, <2>1 DEF Undo, UndoDone, UndoNothing, UndoIsolated, UndoTemporary, UndoRemovable,
           UndoFails, Undoing, Restore, Remove, At, Goto, Did, Me, Undoes
<1>6. ~Linking BY <1>4 DEF Linking
<1>7. Spares /\ NoneAside' BY <1>3 DEF LinkInv, NoneAside, Spares
<1>8. RecordLinks' BY <1>3, <1>6, <1>7, SameRecord DEF AsideInv, LinkInv
<1>9. (me.tx.kind = "uninstall" => Removes(me.tx))' BY <1>3, <1>4, <1>5 DEF Removes
<1>10. CASE me'.at \in Undoes
  <2>1. ((me.tx.kind = "uninstall" => Removes(me.tx)) /\ me.at \in Undoes /\ rec = me.tx
           /\ (me.tx.kind = "install" => DOMAIN me.tx.ext = {})
         => Prepares /\ Carried /\ Returns)'
    BY LinkUndoes, PTL
  <2> QED BY <1>3, <1>4, <1>5, <1>7, <1>8, <1>9, <1>10, <2>1 DEF LinkInv
<1>11. CASE me'.at = "unmark"
  <2>1. Returns' BY <1>4, <1>5, <1>11 DEF Returns, Reverting, Erased
  <2>2. ((me.tx.kind = "uninstall" => Removes(me.tx))
           /\ me.at \in Back \cup Erased \cup {"clean"}
         => Prepares /\ Carried)'
    BY LinkBack, PTL
  <2> QED BY <1>7, <1>8, <1>9, <1>11, <2>1, <2>2 DEF LinkInv, Back
<1>12. CASE me'.at = "giveup"
  <2>1. ((me.tx.kind = "uninstall" => Removes(me.tx)) /\ me.at \in {"relink", "finish", "giveup"}
         => Prepares /\ Carried /\ Returns)'
    BY LinkAfter, PTL
  <2> QED BY <1>7, <1>8, <1>9, <1>12, <2>1 DEF LinkInv
<1> QED BY <1>5, <1>10, <1>11, <1>12

LEMMA EndLinks == ASSUME AsideInv, FilesTrue, LinkInv, End PROVE LinkInv'
<1>1. me \in Me /\ World BY TypeIs DEF AsideInv
<1>2. disk' = disk /\ iso' = iso /\ away' = away
  BY DEF End, Unmark, CompensateDone, CleanRecord, Rmdir, Reopen, Conclude, Forget, CompensateSkip,
         CompensateStart, CompensateFails, CompensateUnlink, CompensateRecreate, Clean, files,
         outside
<1>3. NoneAside' BY <1>2 DEF LinkInv, NoneAside
<1>4. me.at \in Reverting \cup Back \cup Erased \cup {"clean"} =>
         me.tx \in Tx /\ (me.tx.kind = "uninstall" => Removes(me.tx))
  <2>1. me.at \in Reverting \cup Back \cup Erased \cup {"clean"} => me.at \in Engaged
    BY DEF Engaged, Reverting, Back, Before
  <2> QED BY <2>1 DEF AsideInv, HasTx, LinkInv, Prepares
<1>5. me.at \in Reverting \cup {"unmark"} =>
         (me.tx.kind = "install" => DOMAIN me.tx.ext = {})
  BY DEF LinkInv, Returns, Reverting, Back
<1>6. me.at \in Reverting =>
         /\ me.at # "unlink" /\ me.links \subseteq DOMAIN me.tx.ext
         /\ me.goal # "stuck" => \A k \in DOMAIN me.tx.ext \ me.links : link[k] = "ours"
  BY DEF LinkInv, Returns
<1>7. me.at \in Reverting => \A k \in DOMAIN me.tx.ext : me.tx.ext[k].op = "remove"
                                 /\ me.tx.ext[k].prior = "ours" /\ link[k] # "theirs"
  <2>1. me.at \in Reverting => me.tx.kind \in Kinds BY <1>4, TxTyped
  <2> QED BY <1>4, <1>5, <2>1 DEF Kinds, Removes
<1> USE <1>1, <1>2 DEF At, Goto, Did, Me
<1>8. ASSUME link' = link
      PROVE  /\ rec' = rec => RecordLinks'
             /\ me'.tx = me.tx /\ (me.tx.kind = "uninstall" => Removes(me.tx)) =>
                   (me.tx.kind = "uninstall" => Removes(me.tx))'
  <2>1. Spares BY <1>8 DEF Spares
  <2> QED BY <1>8, <2>1, SameRecord DEF AsideInv, LinkInv, Removes
<1>9. ((me.tx.kind = "uninstall" => Removes(me.tx))
         /\ me.at \in Back \cup Erased \cup {"clean"}
       => Prepares /\ Carried)'
  BY LinkBack, PTL
(* At the failure path of an uninstall nothing more is asked of the record. *)
<1>10. ASSUME (me.tx.kind = "uninstall" => Removes(me.tx))', me'.at = "reattach"
       PROVE  Prepares' /\ Carried'
  BY <1>10 DEF Prepares, Carried, Early, Before, Detaching, Midway, Undoes
<1>11. CASE Unmark
  <2>1. /\ me.at = "unmark" /\ link' = link /\ rec' = rec /\ me'.tx = me.tx
        /\ me'.at = "compensate" /\ me'.links = DOMAIN me.tx.ext
    BY <1>11 DEF Unmark, record
  <2>2. Returns' BY <1>5, <2>1 DEF Returns, Reverting, Erased
  <2> QED BY <1>3, <1>4, <1>8, <1>9, <2>1, <2>2 DEF LinkInv, Back
(* One link less to look at. *)
<1>12. ASSUME NEW k \in Skill, me.at \in Reverting, rec' = rec, me'.tx = me.tx,
              me'.links = me.links \ {k}, me'.at \in {"compensate", "reattach"},
              me'.goal # "stuck" => me.goal # "stuck" /\ (k \in me.links => link'[k] = "ours"),
              link' = link \/ (link' = [link EXCEPT ![k] = "ours"])
       PROVE  LinkInv'
  <2>1. Spares BY <1>12 DEF Spares, World
  <2>2. RecordLinks' BY <1>12, <2>1, SameRecord DEF AsideInv, LinkInv
  <2>3. (me.tx.kind = "uninstall" => Removes(me.tx))'
    <3>1. PICK tx \in Tx : tx = me.tx BY <1>4, <1>12
    <3>2. Removes(tx) => Removes(tx)' BY <2>1, SameLinks
    <3> QED BY <1>4, <1>12, <3>1, <3>2 DEF Removes
  <2>4. me'.goal # "stuck" => \A j \in DOMAIN me.tx.ext \ me'.links : link'[j] = "ours"
    <3> SUFFICES ASSUME me'.goal # "stuck", NEW j \in DOMAIN me.tx.ext \ me'.links
                 PROVE  link'[j] = "ours"
      OBVIOUS
    <3>1. CASE j \in me.links BY <1>12, <3>1
    <3>2. CASE j \notin me.links
      <4>1. link[j] = "ours" BY <1>6, <1>12, <3>2
      <4>2. CASE link' = link BY <4>1, <4>2
      <4>3. CASE link' = [link EXCEPT ![k] = "ours"]
        <5>1. DOMAIN me.tx.ext \subseteq Skill
          <6>1. me.tx.ext \in Exts BY <1>4, <1>12, TxTyped
          <6> QED BY <6>1, PartialIs DEF Exts
        <5>2. j \in Skill BY <5>1, <1>12
        <5> QED BY <1>1, <4>1, <4>3, <5>2 DEF World
      <4> QED BY <1>12, <4>2, <4>3
    <3> QED BY <3>1, <3>2
  <2>5. Returns' BY <1>5, <1>6, <1>12, <2>4 DEF Returns, Reverting, Erased
  <2>6. Prepares' /\ Carried' BY <1>9, <1>10, <1>12, <2>3 DEF Back
  <2> QED BY <1>3, <2>2, <2>5, <2>6 DEF LinkInv
<1>13. ASSUME NEW k \in Skill, CompensateSkip(k) PROVE LinkInv'
  <2>1. /\ me.at \in {"compensate", "reattach"} /\ k \in me.links /\ ~Outstanding(k) /\ rec' = rec
        /\ link' = link /\ me'.tx = me.tx /\ me'.links = me.links \ {k}
        /\ me'.at = me.at /\ me'.goal = me.goal
    BY <1>13 DEF CompensateSkip, Compensating, NextSkill, First, outside, record
  <2>2. k \in DOMAIN me.tx.ext BY <1>6, <2>1 DEF Reverting
  <2>3. link[k] = "ours"
    <3>1. link[k] \in Links BY DEF World
    <3> QED BY <1>7, <2>1, <2>2, <3>1 DEF Reverting, Outstanding, Links
  <2> QED BY <1>12, <2>1, <2>3 DEF Reverting
<1>14. ASSUME NEW k \in Skill, CompensateStart(k) PROVE LinkInv'
  <2>1. /\ me.at \in {"compensate", "reattach"} /\ k \in me.links /\ rec' = rec /\ link' = link
        /\ me' = [me EXCEPT !.at = IF me.tx.ext[k].op = "create" THEN "unlink" ELSE "recreate"]
    BY <1>14 DEF CompensateStart, Compensating, NextSkill, First, outside, record
  <2>2. me.tx.ext[k].op = "remove" BY <1>6, <1>7, <2>1 DEF Reverting
  <2>3. me'.at = "recreate" /\ me'.tx = me.tx /\ me'.links = me.links /\ me'.goal = me.goal
    BY <2>1, <2>2
  <2>4. Returns' BY <1>5, <1>6, <2>1, <2>3 DEF Returns, Reverting, Erased
  <2> QED BY <1>3, <1>4, <1>8, <1>9, <2>1, <2>3, <2>4 DEF LinkInv, Back, Reverting
<1>15. ASSUME NEW k \in Skill, NEW goal, Compensated(k, goal)
       PROVE  /\ me'.at \in {"compensate", "reattach"} /\ me'.tx = me.tx
              /\ me'.links = me.links \ {k} /\ me'.goal = goal
  BY <1>15 DEF Compensated
<1>16. ASSUME NEW k \in Skill, CompensateFails(k) PROVE LinkInv'
  <2>1. /\ me.at \in {"unlink", "recreate"} /\ Compensated(k, "stuck") /\ rec' = rec /\ link' = link
    BY <1>16 DEF CompensateFails, outside, record
  <2> QED BY <1>12, <1>15, <2>1 DEF Reverting
<1>17. ASSUME NEW k \in Skill, CompensateUnlink(k) PROVE LinkInv'
  BY <1>6, <1>17 DEF CompensateUnlink, Reverting
<1>18. ASSUME NEW k \in Skill, CompensateRecreate(k) PROVE LinkInv'
  <2>1. /\ me.at = "recreate" /\ link' = [link EXCEPT ![k] = "ours"] /\ Compensated(k, me.goal)
        /\ rec' = rec
    BY <1>18 DEF CompensateRecreate, record
  <2>2. link'[k] = "ours" BY <2>1 DEF World
  <2> QED BY <1>12, <1>15, <2>1, <2>2 DEF Reverting
<1>19. CASE CompensateDone
  <2>1. /\ me.at = "compensate" /\ me.links = {} /\ link' = link /\ rec' = rec /\ me'.tx = me.tx
        /\ IF me.goal = "stuck" THEN me'.at = "giveup" ELSE me'.at = "clean"
    BY <1>19 DEF CompensateDone, CleanUp, outside, record
  <2>2. (me.tx.kind = "uninstall" => Removes(me.tx))'
    BY <1>4, <1>8, <2>1 DEF Reverting
  <2>3. CASE me.goal = "stuck"
    <3>1. ((me.tx.kind = "uninstall" => Removes(me.tx)) /\ me.at \in {"relink", "finish", "giveup"}
           => Prepares /\ Carried /\ Returns)'
      BY LinkAfter, PTL
    <3> QED BY <1>3, <1>8, <2>1, <2>2, <2>3, <3>1 DEF LinkInv
  <2>4. CASE me.goal # "stuck"
    <3>1. \A k \in DOMAIN me.tx.ext : link[k] = "ours" BY <1>6, <2>1, <2>4 DEF Reverting
    <3>2. Returns' BY <1>5, <2>1, <2>4, <3>1 DEF Returns, Reverting, Reverted, Back, Undoes
    <3> QED BY <1>3, <1>8, <1>9, <2>1, <2>2, <2>4, <3>2 DEF LinkInv
  <2> QED BY <2>3, <2>4
(* What was put back stays so until it is recorded. *)
<1>20. ASSUME me.at \in Erased \cup {"clean"}, me'.at \in Erased \cup {"clean"}, me'.tx = me.tx,
              me'.goal = me.goal, link' = link, RecordLinks'
       PROVE  LinkInv'
  <2>1. Returns'
    BY <1>20 DEF LinkInv, Returns, Reverting, Reverted, Taken, Back, Undoes, Erased
  <2>2. (me.tx.kind = "uninstall" => Removes(me.tx))' BY <1>4, <1>8, <1>20
  <2> QED BY <1>3, <1>9, <1>20, <2>1, <2>2 DEF LinkInv
<1>21. CASE CleanRecord
  <2>1. /\ me.at = "clean" /\ me'.at = "rmdir" /\ me'.tx = me.tx /\ me'.goal = me.goal
        /\ link' = link /\ rec' = NoTx
    BY <1>21 DEF CleanRecord, outside
  <2>2. RecordLinks' BY <2>1 DEF RecordLinks, Linking, Commits
  <2> QED BY <1>20, <2>1, <2>2 DEF Erased
<1>22. CASE Rmdir
  <2>1. me.at = "rmdir" /\ link' = link /\ rec' = rec BY <1>22 DEF Rmdir, outside
  <2>2. CASE me.goal # "done"
    <3>1. me'.at = "reopen" /\ me'.tx = me.tx /\ me'.goal = me.goal
      BY <1>22, <2>2 DEF Rmdir
    <3> QED BY <1>8, <1>20, <2>1, <3>1 DEF Erased
  <2>3. CASE me.goal = "done"
    <3>1. me'.at \in {"forget", "idle", "open"} BY <1>22, <2>3 DEF Rmdir, Recovered, Idle
    <3> QED BY <1>3, <1>8, <2>1, <3>1, RestLinks
  <2> QED BY <2>2, <2>3
<1>23. CASE Reopen
  <2>1. /\ me.at = "reopen" /\ me'.at = "conclude" /\ me'.tx = me.tx /\ me'.goal = me.goal
        /\ link' = link /\ rec' = rec
    BY <1>23 DEF Reopen, outside
  <2> QED BY <1>8, <1>20, <2>1 DEF Erased
<1>24. CASE Conclude
  <2>1. me.at = "conclude" /\ link' = link /\ me'.at \in {"idle", "open"}
    BY <1>24 DEF Conclude, Recovered, Idle, outside
  <2>2. me.goal \in {"failed", "rolled_back"} /\ me.tx \in Tx
    BY <1>4, <2>1 DEF AsideInv, ProcessAims, Taken, Erased
  <2>3. PICK tx : tx = [me.tx EXCEPT !.status = me.goal] OBVIOUS
  <2>4. tx.status = me.goal /\ tx.ext = me.tx.ext /\ tx.kind = me.tx.kind
    BY <2>2, <2>3, TxTyped DEF Statuses
  <2>5. rec' = tx BY <1>24, <2>3 DEF Conclude, Write
  <2>6. tx.kind = "uninstall" => Removes(tx) BY <1>4, <2>1, <2>4 DEF Removes, Erased
  <2>7. RecordLinks'
    BY <2>1, <2>2, <2>4, <2>5, <2>6 DEF RecordLinks, Linking, Commits, Removes
  <2> QED BY <1>3, <2>1, <2>7, RestLinks
<1>25. CASE Forget
  <2>1. link' = link /\ rec' = rec /\ me'.at = "idle" BY <1>25 DEF Forget, Idle, record
  <2> QED BY <1>3, <1>8, <2>1, RestLinks
<1>26. ASSUME NEW s \in Resource, Clean(s) PROVE LinkInv'
  <2>1. /\ me.at = "clean" /\ me'.at = "clean" /\ me'.tx = me.tx /\ me'.goal = me.goal
        /\ link' = link /\ rec' = rec
    BY <1>26 DEF Clean, outside, record
  <2> QED BY <1>8, <1>20, <2>1
<1> QED BY <1>11, <1>13, <1>14, <1>16, <1>17, <1>18, <1>19, <1>21, <1>22, <1>23, <1>24, <1>25,
           <1>26 DEF End

LEMMA RollForwardLinks ==
  ASSUME AsideInv, FilesTrue, LinkInv, RollForward PROVE LinkInv'
<1>1. me \in Me /\ World BY TypeIs DEF AsideInv
<1>2. /\ me.at \in {"complete", "relink", "finish"} /\ me.tx \in Tx
      /\ me.tx.kind = "uninstall" => Removes(me.tx)
  <2>1. me.at \in {"complete", "relink", "finish"}
    BY DEF RollForward, Complete, CompleteFails, RelinkDone, Finish, CompleteDeletion, Relink,
           RelinkOccupied, At
  <2>2. me.at \in Engaged BY <2>1 DEF Engaged, After
  <2> QED BY <2>1, <2>2 DEF LinkInv, Prepares, AsideInv, HasTx
<1>3. me.at = "complete" => rec = me.tx BY DEF LinkInv, Carried
<1>4. disk' = disk /\ away' = away
  BY DEF RollForward, Complete, CompleteFails, RelinkDone, Finish, CompleteDeletion, Relink,
         RelinkOccupied, files, outside
<1>5. Spares /\ NoneAside'
  <2>1. link' = link \/ \E k \in Skill : link' = [link EXCEPT ![k] = "ours"]
    BY DEF RollForward, Complete, CompleteFails, RelinkDone, Finish, CompleteDeletion, Relink,
           RelinkOccupied, outside
  <2>2. ASSUME NEW k \in Skill, link' = [link EXCEPT ![k] = "ours"] PROVE Spares
    BY <1>1, <2>2 DEF Spares, World
  <2>3. Spares BY <2>1, <2>2 DEF Spares
  <2> QED BY <1>4, <2>3 DEF LinkInv, NoneAside
<1>6. me'.tx = me.tx => (me.tx.kind = "uninstall" => Removes(me.tx))'
  <2>1. PICK tx \in Tx : tx = me.tx BY <1>2
  <2>2. Removes(tx) => Removes(tx)' BY <1>5, SameLinks
  <2> QED BY <1>2, <2>1, <2>2 DEF Removes
<1>7. rec' = rec /\ (Linking => iso' = iso) => RecordLinks'
  BY <1>4, <1>5, SameRecord DEF AsideInv, LinkInv
<1>8. ((me.tx.kind = "uninstall" => Removes(me.tx)) /\ me.at \in {"relink", "finish", "giveup"}
       => Prepares /\ Carried /\ Returns)'
  BY LinkAfter, PTL
<1> USE <1>1 DEF At, Goto, Me
<1>9. ASSUME rec' = rec, iso' = iso, me'.tx = me.tx, me'.at \in {"relink", "finish", "giveup"}
      PROVE  LinkInv'
  BY <1>5, <1>6, <1>7, <1>8, <1>9 DEF LinkInv
<1>10. CASE Complete
  <2>1. /\ me.at = "complete" /\ iso' = iso /\ rec' = rec /\ me'.tx = me.tx /\ me'.goal = "done"
        /\ me'.at = IF me.tx.kind = "install" THEN "relink" ELSE "detach"
        /\ me'.links = IF /\ me.tx.kind = "install" /\ ~Manual
                          /\ DOMAIN me.tx.ext = {} /\ marker
                       THEN Skill ELSE Unfinished
    BY <1>10 DEF Complete, files, record
  <2>2. CASE me.tx.kind = "install" BY <1>9, <2>1, <2>2
  <2>3. CASE me.tx.kind # "install"
    <3>1. me'.at = "detach" /\ me'.links = Unfinished BY <2>1, <2>3
    <3>2. me.tx.kind = "uninstall" BY <1>2, <2>3, TxTyped DEF Kinds
    <3>3. me'.links \subseteq DOMAIN me'.tx.ext BY <2>1, <3>1 DEF Unfinished
    <3>4. Forward' BY <2>1 DEF Forward
    <3>5. Prepares'
      BY <1>6, <2>1, <3>1, <3>2, <3>3, <3>4 DEF Prepares, Early, Before, Detaching
    <3>6. (me.at \in (Early \cup {"first"}) \cup Detaching => Carried /\ Returns)'
      BY LinkEarly, PTL
    <3> QED BY <1>5, <1>7, <2>1, <3>1, <3>5, <3>6 DEF LinkInv, Detaching
  <2> QED BY <2>2, <2>3
<1>11. CASE CompleteFails BY <1>9, <1>11 DEF CompleteFails, files, record
<1>12. CASE RelinkDone BY <1>9, <1>12 DEF RelinkDone, files, record
<1>13. ASSUME NEW k \in Skill, Relink(k) PROVE LinkInv'
  BY <1>9, <1>13 DEF Relink, files, record
<1>14. ASSUME NEW k \in Skill, RelinkOccupied(k) PROVE LinkInv'
  BY <1>9, <1>14 DEF RelinkOccupied, files, record
(* A deletion still pending means that not every file is in place. *)
<1>15. ASSUME NEW s \in Resource, CompleteDeletion(s) PROVE LinkInv'
  <2>1. /\ me.at = "complete" /\ s \in DOMAIN Plan /\ iso[s] # Absent /\ rec' = rec /\ me' = me
    BY <1>15 DEF CompleteDeletion, record
  <2>2. ~Linking
    <3> SUFFICES ASSUME Linking PROVE FALSE OBVIOUS
    <3>1. AllNew(rec.plan) BY DEF LinkInv, RecordLinks, Linking, Commits
    <3> QED BY <1>3, <2>1, <3>1 DEF AllNew, New, Plan
  <2>3. RecordLinks' BY <1>7, <2>1, <2>2
  <2>4. ((me.tx.kind = "uninstall" => Removes(me.tx))
           /\ me.at \in Midway \cup {"link", "symlink", "linked", "complete"}
         => Prepares /\ Returns)'
    BY LinkMidway, PTL
  <2>5. Carried' BY <1>3, <2>1 DEF Carried, Midway, Undoes
  <2> QED BY <1>5, <1>6, <2>1, <2>3, <2>4, <2>5 DEF LinkInv
<1>16. CASE Finish
  <2>1. PICK tx : tx = [me.tx EXCEPT !.status = "done"] OBVIOUS
  <2>2. tx.status = "done" /\ tx.ext = me.tx.ext /\ tx.kind = me.tx.kind
    BY <1>2, <2>1, TxTyped DEF Statuses
  <2>3. /\ rec' = tx /\ me'.tx = tx /\ me'.at = "clean" /\ me'.goal = "done" /\ link' = link
    BY <1>2, <1>16, <2>1, TxTyped DEF Finish, Write, outside
  <2>4. tx.kind = "uninstall" => \A k \in DOMAIN tx.ext :
            tx.ext[k].op = "remove" /\ tx.ext[k].prior = "ours" /\ link'[k] # "theirs"
    BY <1>2, <2>2, <2>3 DEF Removes
  <2>5. RecordLinks' BY <2>2, <2>3, <2>4 DEF RecordLinks, Linking, Commits, Removes
  <2>6. (me.tx.kind = "uninstall" => Removes(me.tx))' BY <2>3, <2>4 DEF Removes
  <2>7. ((me.tx.kind = "uninstall" => Removes(me.tx))
           /\ me.at \in Back \cup Erased \cup {"clean"}
         => Prepares /\ Carried)'
    BY LinkBack, PTL
  <2>8. Returns'
    BY <2>3 DEF Returns, Reverting, Taken, Undoes, Back, Erased
  <2> QED BY <1>5, <2>3, <2>5, <2>6, <2>7, <2>8 DEF LinkInv
<1> QED BY <1>10, <1>11, <1>12, <1>13, <1>14, <1>15, <1>16 DEF RollForward

(* Which steps record that a transaction was given up. *)
LEMMA GivenUp ==
  ASSUME AsideInv, FilesTrue, Next, rec' # rec, rec' # NoTx,
         rec'.status \in {"failed", "rolled_back"}
  PROVE  PlanFails \/ ReattachDone \/ Conclude
<1>1. me.at \in Engaged => me.tx \in Tx BY DEF AsideInv, HasTx
<1>2. me.at \in Early \cup {"first"} \/ (me.at \in Detaching /\ ~Forward) => Begun
  BY DEF FilesTrue, ProcessTrue
<1>3. me.at \in After => Committed BY DEF FilesTrue, ProcessTrue
<1> USE DEF Write, At
<1>4. ~ \E c \in Commands : \E root \in BOOLEAN : Begin(c, root) BY DEF Begin, record
<1>5. CASE Decide
  <2>1. GiveUp
    BY <1>5 DEF Decide, RecoverNothing, RecoverBlocked, RecoverClean, RecoverConflict,
                RecoverUndo, RecoverRedo, RecoverFinish, record
  <2>2. me.tx \in Tx BY <1>1, <2>1 DEF GiveUp, Engaged
  <2>3. [me.tx EXCEPT !.status = "needs_human"].status = "needs_human"
    BY <2>2, TxTyped DEF Statuses
  <2> QED BY <2>1, <2>3 DEF GiveUp
<1>6. CASE Prepare
  <2>1. FirstRecord \/ PlanFails \/ WritePlan \/ StageOn \/ Mark
    BY <1>6 DEF Prepare, OpenRefuse, Open, PlanOne, MakePlan, Classify, StageInvalid, StageDone,
                BackupDone, MarkWrite, StageOne, BackupOne, BackupFails, record
  <2>2. CASE FirstRecord BY <1>2, <2>2 DEF FirstRecord, Begun
  <2>3. CASE WritePlan BY <1>2, <2>3 DEF WritePlan, Begun, Early, Before
  <2>4. CASE StageOn
    <3>1. me.tx \in Tx BY <1>1, <2>4 DEF StageOn, Engaged, Before
    <3>2. [me.tx EXCEPT !.status = "staging"].status = "staging" BY <3>1, TxTyped DEF Statuses
    <3> QED BY <2>4, <3>2 DEF StageOn
  <2>5. CASE Mark
    <3>1. me.tx \in Tx /\ Begun
      BY <1>1, <1>2, <2>5 DEF Mark, Engaged, Before, Early
    <3>2. PICK old : old = IF marker THEN "set" ELSE "unset" OBVIOUS
    <3>3. [me.tx EXCEPT !.old = old].status = me.tx.status BY <3>1, TxTyped
    <3> QED BY <2>5, <3>1, <3>2, <3>3 DEF Mark, Begun
  <2> QED BY <2>1, <2>2, <2>3, <2>4, <2>5
<1>7. CASE Detach
  <2>1. DetachPlan \/ ReattachDone \/ \E k \in Skill : Detached(k)
    BY <1>7 DEF Detach, DetachDone, DetachSkip, DetachStart, DetachOrphan, DetachMove,
                DetachFails, DetachDispose, DetachRestore, record
  <2>2. CASE DetachPlan
    <3>1. me.tx \in Tx /\ Begun
      BY <1>1, <1>2, <2>2 DEF DetachPlan, Engaged, Before, Early
    <3>2. PICK ext : ext = [k \in me.links |-> RemoveIntent(k)] OBVIOUS
    <3>3. [me.tx EXCEPT !.ext = ext].status = me.tx.status BY <3>1, TxTyped
    <3> QED BY <2>2, <3>1, <3>2, <3>3 DEF DetachPlan, Begun
  <2>3. ASSUME NEW k \in Skill, Detached(k) PROVE FALSE
    <3>1. me.at = "detached" /\ ~Forward BY <2>3 DEF Detached, record
    <3>2. me.tx \in Tx /\ Begun BY <1>1, <1>2, <3>1 DEF Engaged, Detaching
    <3>3. [me.tx EXCEPT !.ext[k].state = "applied"].status = me.tx.status BY <3>2, TxTyped
    <3> QED BY <2>3, <3>1, <3>2, <3>3 DEF Detached, Begun
  <2> QED BY <2>1, <2>2, <2>3
<1>8. CASE Commit
  <2>1. CommitOn
    BY <1>8 DEF Commit, CommitDone, CommitConflict, CommitAbsent, CommitChecked, CommitUnstaged,
                Swap, Swapped, Isolate, IsolateFails, Dispose, Reinstate, ReinstateFails, Stop,
                record
  <2>2. me.tx \in Tx BY <1>1, <2>1 DEF CommitOn, Engaged, Before
  <2>3. [me.tx EXCEPT !.status = "committing"].status = "committing"
    BY <2>2, TxTyped DEF Statuses
  <2> QED BY <2>1, <2>3 DEF CommitOn
<1>9. CASE Expose
  <2>1. PICK k \in Skill : LinkIntent(k) \/ Linked(k)
    BY <1>9 DEF Expose, LinksDone, Symlink, SymlinkRaises, record
  <2>2. me.tx \in Tx /\ Committed
    BY <1>1, <1>3, <2>1 DEF LinkIntent, Linked, Engaged, After
  <2>3. CASE LinkIntent(k)
    <3>1. PICK ext : ext = [j \in {k} \cup DOMAIN me.tx.ext |->
                               IF j = k THEN Intent(k) ELSE me.tx.ext[j]]
      OBVIOUS
    <3>2. [me.tx EXCEPT !.ext = ext].status = me.tx.status BY <2>2, TxTyped
    <3>3. rec' = [me.tx EXCEPT !.ext = ext] BY <2>3, <3>1 DEF LinkIntent
    <3> QED BY <2>2, <3>2, <3>3 DEF Committed
  <2>4. CASE Linked(k)
    <3>1. [me.tx EXCEPT !.ext[k].state = "applied"].status = me.tx.status BY <2>2, TxTyped
    <3> QED BY <2>2, <2>4, <3>1 DEF Linked, Committed
  <2> QED BY <2>1, <2>3, <2>4
<1>10. ~Undo
  BY DEF Undo, UndoDone, UndoNothing, UndoIsolated, UndoTemporary, UndoRemovable, UndoFails,
         Restore, Restored, Remove, record
<1>11. CASE End
  BY <1>11 DEF End, Unmark, CompensateDone, CleanRecord, Rmdir, Reopen, Forget, CompensateSkip,
               CompensateStart, CompensateFails, CompensateUnlink, CompensateRecreate, Clean,
               record
<1>12. CASE RollForward
  <2>1. Finish
    BY <1>12 DEF RollForward, Complete, CompleteFails, RelinkDone, CompleteDeletion, Relink,
                 RelinkOccupied, record
  <2>2. me.tx \in Tx BY <1>1, <2>1 DEF Finish, Engaged, After
  <2>3. [me.tx EXCEPT !.status = "done"].status = "done" BY <2>2, TxTyped DEF Statuses
  <2> QED BY <2>1, <2>3 DEF Finish
<1>13. ~Abort BY DEF Abort
<1> QED BY <1>4, <1>5, <1>6, <1>7, <1>8, <1>9, <1>10, <1>11, <1>12, <1>13 DEF Next, Proceed

(* They find each link as the transaction found it. *)
LEMMA GivenUpAsFound ==
  ASSUME AsideInv, FilesTrue, LinkInv, Next, rec' # rec, rec' # NoTx,
         rec'.status \in {"failed", "rolled_back"}, NEW k \in DOMAIN rec'.ext
  PROVE  link'[k] = rec'.ext[k].prior
<1>1. me.at \in Engaged =>
         me.tx \in Tx /\ me.tx.kind \in Kinds /\ (me.tx.kind = "uninstall" => Removes(me.tx))
  BY TxTyped DEF AsideInv, HasTx, LinkInv, Prepares
<1> USE DEF Write, At
<1>2. CASE PlanFails
  <2>1. me.at \in {"plan", "classify"} BY <1>2 DEF PlanFails
  <2>2. me.tx \in Tx BY <1>1, <2>1 DEF Engaged, Before
  <2>3. [me.tx EXCEPT !.status = "failed"].ext = me.tx.ext BY <2>2, TxTyped
  <2>4. DOMAIN me.tx.ext = {} BY <2>1 DEF LinkInv, Prepares, Early, Before
  <2> QED BY <1>2, <2>3, <2>4 DEF PlanFails
<1>3. CASE ReattachDone
  <2>1. me.at = "reattach" /\ me.links = {} /\ link' = link
    BY <1>3 DEF ReattachDone, outside
  <2>2. /\ me.tx \in Tx /\ me.tx.kind \in Kinds
        /\ me.tx.kind = "uninstall" => Removes(me.tx)
    BY <1>1, <2>1 DEF Engaged, Before
  <2>3. PICK st : st = IF me.goal = "stuck" THEN "needs_human" ELSE "failed" OBVIOUS
  <2>4. [me.tx EXCEPT !.status = st].ext = me.tx.ext /\ [me.tx EXCEPT !.status = st].status = st
    BY <2>2, TxTyped DEF Statuses
  <2>5. rec' = [me.tx EXCEPT !.status = st] BY <1>3, <2>3 DEF ReattachDone
  <2>6. me.goal # "stuck" /\ k \in DOMAIN me.tx.ext /\ rec'.ext[k] = me.tx.ext[k]
    BY <2>3, <2>4, <2>5
  <2>7. link[k] = "ours" /\ (me.tx.kind = "install" => DOMAIN me.tx.ext = {})
    BY <2>1, <2>6 DEF LinkInv, Returns, Reverting
  <2>8. me.tx.kind = "uninstall" BY <2>2, <2>6, <2>7 DEF Kinds
  <2> QED BY <2>1, <2>2, <2>6, <2>7, <2>8 DEF Removes
<1>4. CASE Conclude
  <2>1. me.at = "conclude" /\ link' = link BY <1>4 DEF Conclude, outside
  <2>2. /\ me.tx \in Tx /\ me.tx.kind \in Kinds
        /\ me.tx.kind = "uninstall" => Removes(me.tx)
    BY <1>1, <2>1 DEF Engaged, Erased
  <2>3. Taken BY <2>1 DEF AsideInv, ProcessAims
  <2>4. PICK st : st = me.goal OBVIOUS
  <2>5. [me.tx EXCEPT !.status = st].ext = me.tx.ext BY <2>2, TxTyped
  <2>6. k \in DOMAIN me.tx.ext /\ rec'.ext[k] = me.tx.ext[k]
    BY <1>4, <2>4, <2>5 DEF Conclude
  <2>7. link[k] = "ours" /\ (me.tx.kind = "install" => DOMAIN me.tx.ext = {})
    BY <2>1, <2>3, <2>6 DEF LinkInv, Returns, Reverted, Erased
  <2>8. me.tx.kind = "uninstall" BY <2>2, <2>6, <2>7 DEF Kinds
  <2> QED BY <2>1, <2>2, <2>6, <2>7, <2>8 DEF Removes
<1> QED BY <1>2, <1>3, <1>4, GivenUp

(* The places of a rollback that a person ordered: while it takes a finished   *)
(* install back, its links are already the kit's and its files not all new.   *)
(* It is there only because of a kill, and with one kill allowed the record   *)
(* is over before anybody else looks at it.                                  *)
Ordered == me.cmd = "rollback"
           /\ me.at \in Undoes \cup Back \cup Erased \cup {"clean", "giveup"}

OrderedLinks ==
    /\ rec # NoTx =>
          /\ rec.kind = "uninstall" => Removes(rec)
          /\ rec.kind = "install" /\ rec.status \in {"planning", "staging"} =>
                DOMAIN rec.ext = {}
    /\ me.tx.kind = "uninstall" => Removes(me.tx)
    /\ NoneAside

KnownLinks == LinkInv \/ (Ordered /\ OrderedLinks)

(* Entering such a rollback. *)
LEMMA OrderLinks ==
  ASSUME AsideInv, FilesTrue, LinkInv, Decide, me.cmd = "rollback" PROVE KnownLinks'
<1>1. me \in Me /\ World BY TypeIs DEF AsideInv
<1>2. rec # NoTx => rec \in Tx BY <1>1 DEF World, Held
<1> USE <1>1 DEF At, Goto, Me
<1>3. ASSUME UNCHANGED <<files, outside, record, env>>
      PROVE  /\ rec' = rec /\ link' = link /\ RecordLinks' /\ NoneAside'
  <2>1. rec' = rec /\ disk' = disk /\ iso' = iso /\ link' = link /\ away' = away
    BY <1>3 DEF files, outside, record
  <2> QED BY <2>1, SameRecord DEF AsideInv, LinkInv, Spares, NoneAside
<1>4. ASSUME UNCHANGED <<files, outside, record, env>>, me'.at \in {"idle", "open"}
      PROVE  KnownLinks'
  BY <1>3, <1>4, RestLinks DEF KnownLinks
<1>5. ASSUME UNCHANGED <<files, outside, record, env>>, me'.tx = rec, rec # NoTx,
             me'.cmd = "rollback", me'.at \in {"unmark", "giveup", "undo"}
      PROVE  KnownLinks'
  <2>1. rec' = rec /\ link' = link /\ RecordLinks' /\ NoneAside' BY <1>3, <1>5
  <2>2. (me.tx.kind = "uninstall" => Removes(me.tx))'
    BY <1>5, <2>1 DEF LinkInv, RecordLinks, Removes
  <2>3. OrderedLinks' BY <2>1, <2>2 DEF OrderedLinks, RecordLinks
  <2>4. Ordered' BY <1>5 DEF Ordered, Undoes, Back
  <2> QED BY <2>3, <2>4 DEF KnownLinks
<1>6. CASE RecoverNothing BY <1>4, <1>6 DEF RecoverNothing, Recovered, Idle
<1>7. CASE RecoverBlocked BY <1>4, <1>7 DEF RecoverBlocked, Idle
<1>8. CASE RecoverClean BY <1>5, <1>8 DEF RecoverClean, Recovering
<1>9. CASE RecoverConflict BY <1>5, <1>9 DEF RecoverConflict, Classified, Recovering
<1>10. CASE RecoverUndo BY <1>5, <1>10 DEF RecoverUndo, Classified, Recovering
<1>11. ~RecoverRedo BY DEF RecoverRedo
<1>12. ~RecoverFinish BY DEF RecoverFinish, Manual
<1>13. CASE GiveUp
  <2>1. me.tx \in Tx /\ me.at = "giveup" BY <1>13 DEF GiveUp, AsideInv, HasTx, Engaged
  <2>2. (me.tx.kind = "uninstall" => Removes(me.tx)) /\ NoneAside
    BY <2>1 DEF LinkInv, Prepares, Engaged
  <2> QED BY <1>13, <2>1, <2>2, GivesUpLinks DEF KnownLinks
<1> QED BY <1>6, <1>7, <1>8, <1>9, <1>10, <1>11, <1>12, <1>13 DEF Decide

(* Within it, and out of it. *)
LEMMA OrderedStep ==
  ASSUME AsideInv, Ordered, OrderedLinks, Proceed PROVE KnownLinks'
<1>1. me \in Me /\ World BY TypeIs DEF AsideInv
<1>2. me.tx \in Tx BY DEF AsideInv, HasTx, Ordered, Engaged
<1> USE <1>1 DEF At, Goto, Did, Me
<1> DEFINE Taking == Undoes \cup Back \cup Erased \cup {"clean", "giveup"}
<1>3. me.cmd = "rollback" /\ me.at \in Taking BY DEF Ordered
<1>4. ASSUME Spares, away' = away, rec' = rec \/ rec' = NoTx, me'.tx = me.tx,
             me'.cmd = me.cmd, me'.at \in Taking
      PROVE  KnownLinks'
  <2>1. NoneAside' BY <1>4 DEF OrderedLinks, NoneAside
  <2>2. (me.tx.kind = "uninstall" => Removes(me.tx))'
    <3>1. PICK tx \in Tx : tx = me.tx BY <1>2
    <3>2. Removes(tx) => Removes(tx)' BY <1>4, SameLinks
    <3> QED BY <1>4, <3>1, <3>2 DEF Removes, OrderedLinks
  <2>3. rec' # NoTx /\ rec'.kind = "uninstall" => Removes(rec)'
    <3>1. SUFFICES ASSUME rec' # NoTx, rec'.kind = "uninstall" PROVE Removes(rec)' OBVIOUS
    <3>2. rec' = rec /\ rec \in Tx BY <1>4, <3>1 DEF World, Held
    <3>3. PICK tx \in Tx : tx = rec BY <3>2
    <3>4. Removes(tx) => Removes(tx)' BY <1>4, SameLinks
    <3> QED BY <3>1, <3>2, <3>3, <3>4 DEF Removes, OrderedLinks
  <2>4. OrderedLinks' BY <1>4, <2>1, <2>2, <2>3 DEF OrderedLinks
  <2>5. Ordered' BY <1>3, <1>4 DEF Ordered
  <2> QED BY <2>4, <2>5 DEF KnownLinks
<1>5. link' = link => Spares BY DEF Spares
<1>6. ~Prepare
  BY <1>3
     DEF Prepare, OpenRefuse, Open, FirstRecord, PlanFails, PlanOne, MakePlan, WritePlan,
         Classify, StageOn, StageInvalid, StageDone, BackupDone, Mark, MarkWrite, StageOne,
         BackupOne, BackupFails, Undoes, Back, Erased
<1>7. ~Detach
  BY <1>3
     DEF Detach, DetachPlan, DetachDone, ReattachDone, DetachSkip, DetachStart, DetachOrphan,
         DetachMove, DetachFails, DetachDispose, DetachRestore, Detached, Undoes, Back, Erased
<1>8. ~Commit
  BY <1>3
     DEF Commit, CommitOn, CommitDone, CommitConflict, CommitAbsent, CommitChecked,
         CommitUnstaged, Committing, Swap, Swapped, Isolate, IsolateFails, Dispose, Reinstate,
         ReinstateFails, Undoes, Back, Erased
<1>9. ~Expose
  BY <1>3 DEF Expose, LinksDone, LinkIntent, Symlink, SymlinkRaises, Linked, Undoes, Back, Erased
<1>10. ~RollForward
  BY <1>3
     DEF RollForward, Complete, CompleteFails, RelinkDone, Finish, CompleteDeletion, Relink,
         RelinkOccupied, Undoes, Back, Erased
<1>11. CASE Decide
  <2>1. GiveUp
    BY <1>3, <1>11
       DEF Decide, RecoverNothing, RecoverBlocked, RecoverClean, RecoverConflict, RecoverUndo,
           RecoverRedo, RecoverFinish, Classified, Recovering, Undoes, Back, Erased
  <2> QED BY <1>2, <2>1, GivesUpLinks DEF KnownLinks, OrderedLinks
<1>12. CASE Undo
  <2>1. link' = link /\ away' = away /\ rec' = rec
    BY <1>12 DEF Undo, UndoDone, UndoNothing, UndoIsolated, UndoTemporary, UndoRemovable,
                 UndoFails, Restore, Restored, Remove, outside, record
  <2>2. ASSUME NEW s \in Resource, Restored(s)
        PROVE  me'.tx = me.tx /\ me'.cmd = me.cmd /\ me'.at \in {"undo", "giveup"}
    BY <2>2 DEF Restored
  <2>3. me'.tx = me.tx /\ me'.cmd = me.cmd /\ me'.at \in Undoes \cup {"unmark", "giveup"}
    BY <1>12, <2>2
       DEF Undo, UndoDone, UndoNothing, UndoIsolated, UndoTemporary, UndoRemovable, UndoFails,
           Undoing, Restore, Remove, Undoes
  <2> QED BY <1>4, <1>5, <2>1, <2>3 DEF Back
<1>13. CASE End
  <2>1. away' = away
    BY <1>13 DEF End, Unmark, CompensateDone, CleanRecord, Rmdir, Reopen, Conclude, Forget,
                 CompensateSkip, CompensateStart, CompensateFails, CompensateUnlink,
                 CompensateRecreate, Clean, outside
  <2>2. CASE Unmark
    BY <1>4, <1>5, <2>1, <2>2 DEF Unmark, record, Back
  <2>3. ASSUME NEW k \in Skill, CompensateSkip(k) PROVE KnownLinks'
    BY <1>3, <1>4, <1>5, <2>1, <2>3 DEF CompensateSkip, outside, record
  <2>4. ASSUME NEW k \in Skill, CompensateStart(k) PROVE KnownLinks'
    <3>1. /\ link' = link /\ rec' = rec /\ me'.tx = me.tx /\ me'.cmd = me.cmd
          /\ me' = [me EXCEPT !.at = IF me.tx.ext[k].op = "create" THEN "unlink" ELSE "recreate"]
      BY <2>4 DEF CompensateStart, outside, record
    <3>2. me'.at \in {"unlink", "recreate"} BY <3>1
    <3> QED BY <1>4, <1>5, <2>1, <3>1, <3>2 DEF Back
  <2>5. ASSUME NEW k \in Skill, NEW goal, Compensated(k, goal)
        PROVE  me'.tx = me.tx /\ me'.cmd = me.cmd /\ me'.at = "compensate"
    BY <1>3, <2>5 DEF Compensated
  <2>6. ASSUME NEW k \in Skill, CompensateFails(k) PROVE KnownLinks'
    BY <1>4, <1>5, <2>1, <2>5, <2>6 DEF CompensateFails, outside, record, Back
  <2>7. ASSUME NEW k \in Skill, CompensateUnlink(k) \/ CompensateRecreate(k) PROVE KnownLinks'
    <3>1. link' = [link EXCEPT ![k] = "absent"] \/ link' = [link EXCEPT ![k] = "ours"]
      BY <2>7 DEF CompensateUnlink, CompensateRecreate
    <3>2. Spares BY <3>1 DEF Spares, World
    <3>3. rec' = rec /\ Compensated(k, me.goal)
      BY <2>7 DEF CompensateUnlink, CompensateRecreate, record
    <3> QED BY <1>4, <2>1, <2>5, <3>2, <3>3 DEF Back
  <2>8. CASE CompensateDone
    <3>1. /\ link' = link /\ rec' = rec
          /\ IF me.goal = "stuck" THEN Goto("giveup") ELSE CleanUp(me.goal)
      BY <2>8 DEF CompensateDone, outside, record
    <3>2. CASE me.goal = "stuck" BY <1>4, <1>5, <2>1, <3>1, <3>2
    <3>3. CASE me.goal # "stuck" BY <1>4, <1>5, <2>1, <3>1, <3>3 DEF CleanUp
    <3> QED BY <3>2, <3>3
  <2>9. ASSUME NEW s \in Resource, Clean(s) PROVE KnownLinks'
    BY <1>3, <1>4, <1>5, <2>1, <2>9 DEF Clean, outside, record
  <2>10. CASE CleanRecord BY <1>4, <1>5, <2>1, <2>10 DEF CleanRecord, outside, Erased
  <2>11. NoneAside' BY <2>1 DEF OrderedLinks, NoneAside
  <2>12. CASE Rmdir
    <3>1. me.at = "rmdir" /\ link' = link /\ rec' = rec BY <2>12 DEF Rmdir, outside
    <3>2. CASE me.goal # "done"
      <4>1. me'.at = "reopen" /\ me'.tx = me.tx /\ me'.cmd = me.cmd BY <2>12, <3>2 DEF Rmdir
      <4> QED BY <1>4, <1>5, <2>1, <3>1, <4>1 DEF Erased
    <3>3. CASE me.goal = "done"
      <4>1. me'.at = "idle" BY <1>3, <2>12, <3>3 DEF Rmdir, Recovered, Idle
      <4>2. rec' = NoTx BY <3>1 DEF AsideInv, ProcessAside, Erased
      <4>3. RecordLinks' BY <4>2 DEF RecordLinks
      <4> QED BY <2>11, <4>1, <4>3, RestLinks DEF KnownLinks
    <3> QED BY <3>2, <3>3
  <2>13. CASE Reopen BY <1>4, <1>5, <2>1, <2>13 DEF Reopen, outside, Erased
  <2>14. CASE Conclude
    <3>1. me.at = "conclude" /\ link' = link /\ me'.at = "idle"
      BY <1>3, <2>14 DEF Conclude, Recovered, Idle, outside
    <3>2. me.goal \in {"failed", "rolled_back"} BY <3>1 DEF AsideInv, ProcessAims, Taken
    <3>3. PICK tx : tx = [me.tx EXCEPT !.status = me.goal] OBVIOUS
    <3>4. tx.status = me.goal /\ tx.ext = me.tx.ext /\ tx.kind = me.tx.kind
      BY <1>2, <3>2, <3>3, TxTyped DEF Statuses
    <3>5. rec' = tx BY <2>14, <3>3 DEF Conclude, Write
    <3>6. tx.kind = "uninstall" => Removes(tx) BY <3>4 DEF Removes, OrderedLinks
    <3>7. RecordLinks'
      BY <3>1, <3>2, <3>4, <3>5, <3>6 DEF RecordLinks, Linking, Commits, Removes
    <3> QED BY <2>11, <3>1, <3>7, RestLinks DEF KnownLinks
  <2>15. ~Forget BY <1>3 DEF Forget, Undoes, Back, Erased
  <2> QED BY <1>13, <2>2, <2>3, <2>4, <2>6, <2>7, <2>8, <2>9, <2>10, <2>12, <2>13, <2>14, <2>15
          DEF End
<1> QED BY <1>6, <1>7, <1>8, <1>9, <1>10, <1>11, <1>12, <1>13 DEF Proceed

(* A transaction that is recorded as failed or rolled back by a command other *)
(* than `rollback` leaves each link it recorded as it found it, as long as    *)
(* nobody edits the target -- for any number of kills if nobody orders a      *)
(* rollback, and for one whatever is ordered.  A rollback that a person       *)
(* ordered and that is killed on its way is completed by automatic recovery,  *)
(* which takes a link the kit had made long before for one the transaction    *)
(* made; it takes a first kill to have something to roll back.               *)
THEOREM RollbackRestoresLinks ==
  ASSUME "rollback" \notin Commands \/ MaxCrashes <= 1
  PROVE  Spec => LinksAsFound
<1> DEFINE OneKill == "rollback" \in Commands => SpareInv /\ MaxCrashes <= 1
<1>1. Init => KnownLinks
  <2> SUFFICES ASSUME Init PROVE KnownLinks OBVIOUS
  <2>1. me.at = "idle" /\ rec = NoTx BY DEF Init, Idle
  <2>2. NoneAside BY DEF Init, NoneAside
  <2>3. RecordLinks BY <2>1 DEF RecordLinks
  <2> QED BY <2>1, <2>2, <2>3, LinkRest DEF LinkInv, KnownLinks
<1>2. AsideInv /\ FilesTrue /\ OneKill /\ KnownLinks /\ [Next]_vars => KnownLinks'
  <2> SUFFICES ASSUME AsideInv, FilesTrue, OneKill, KnownLinks, [Next]_vars PROVE KnownLinks'
    OBVIOUS
  <2>1. me \in Me /\ World BY TypeIs DEF AsideInv
  <2>2. ASSUME link' = link, away' = away, rec' = rec, disk' = disk, iso' = iso, LinkInv
        PROVE  RecordLinks' /\ NoneAside'
    BY <2>2, SameRecord DEF AsideInv, LinkInv, Spares, NoneAside
  <2>3. ASSUME NEW c \in Commands, NEW root \in BOOLEAN, Begin(c, root) PROVE KnownLinks'
    <3>1. LinkInv BY <2>3 DEF Begin, At, KnownLinks, Ordered, Undoes, Back, Erased
    <3> QED BY <2>1, <2>2, <2>3, <3>1, RestLinks DEF Begin, Me, files, outside, record, KnownLinks
  <2>4. CASE Proceed
    <3>1. CASE Ordered /\ OrderedLinks BY <2>4, <3>1, OrderedStep
    <3>2. CASE LinkInv
      <4>1. CASE Decide /\ me.cmd = "rollback" BY <3>2, <4>1, OrderLinks
      <4>2. CASE ~(Decide /\ me.cmd = "rollback")
        BY <2>4, <3>2, <4>2, DecideLinks, PrepareLinks, DetachLinks, CommitLinks, ExposeLinks,
           UndoLinks, EndLinks, RollForwardLinks DEF Proceed, KnownLinks
      <4> QED BY <4>1, <4>2
    <3> QED BY <3>1, <3>2 DEF KnownLinks
  <2>5. CASE Abort
    <3>1. /\ link' = link /\ away' = away /\ rec' = rec /\ disk' = disk /\ iso' = iso
          /\ me'.at = "idle" /\ crashes < MaxCrashes
      BY <2>5 DEF Abort, Idle, files
    <3>2. CASE LinkInv BY <2>2, <3>1, <3>2, RestLinks DEF KnownLinks
    <3>3. CASE Ordered /\ OrderedLinks
      <4>1. SpareInv /\ MaxCrashes <= 1 BY <2>1, <3>3 DEF Ordered, Me, Cmds
      <4>2. crashes = 0 BY <2>1, <3>1, <4>1, BoundsAssumption DEF World
      <4>3. ~Commits
        BY <3>3, <4>1, <4>2
           DEF Ordered, SpareInv, Struck, Calm, AsideInv, ProcessAside, Commits, Erased
      <4>4. NoneAside' BY <3>1, <3>3 DEF OrderedLinks, NoneAside
      <4>5. RecordLinks'
        BY <3>1, <3>3, <4>3 DEF OrderedLinks, RecordLinks, Linking, Commits, Removes
      <4> QED BY <3>1, <4>4, <4>5, RestLinks DEF KnownLinks
    <3> QED BY <3>2, <3>3 DEF KnownLinks
  <2>6. CASE UNCHANGED vars
    <3>1. /\ me' = me /\ link' = link /\ away' = away /\ rec' = rec /\ disk' = disk
          /\ iso' = iso
      BY <2>6 DEF vars, files, outside, record
    <3>2. CASE LinkInv
      <4>1. (Linking' <=> Linking) BY <3>1 DEF Linking, Commits
      <4>2. LinkInv'
        BY <2>2, <3>1, <3>2, <4>1
           DEF LinkInv, Prepares, Carried, Returns, Reverted, Removes, Forward, Plan, Taken
      <4> QED BY <4>2 DEF KnownLinks
    <3>3. CASE Ordered /\ OrderedLinks
      BY <3>1, <3>3 DEF Ordered, OrderedLinks, NoneAside, Removes, KnownLinks
    <3> QED BY <3>2, <3>3 DEF KnownLinks
  <2> QED BY <2>3, <2>4, <2>5, <2>6 DEF Next
<1>3. AsideInv /\ FilesTrue /\ KnownLinks /\ [Next]_vars
        => [rec' # rec /\ rec' # NoTx /\ rec'.status \in {"failed", "rolled_back"}
              /\ me.cmd # "rollback"
            => \A k \in DOMAIN rec'.ext : link'[k] = rec'.ext[k].prior]_vars
  BY GivenUpAsFound DEF KnownLinks, Ordered
<1>4. Spec => []OneKill
  <2>1. CASE "rollback" \notin Commands
    <3>1. OneKill BY <2>1
    <3> QED BY <3>1, PTL
  <2>2. CASE MaxCrashes <= 1
    <3>1. SpareInv => OneKill BY <2>2
    <3>2. Spec => []SpareInv BY <2>2, SpareHolds
    <3> QED BY <3>1, <3>2, PTL
  <2> QED BY <2>1, <2>2
<1> QED BY <1>1, <1>2, <1>3, <1>4, TrueHolds, PTL DEF Spec, LinksAsFound
=============================================================================
