# A TLA+ model of agent-engineering-kit

The repository is a kit of command-line tools that a coding agent runs inside a
project: an installer, a gate for design documents, a frozen plan of the
documents a change needs, a life cycle for review issues, work units, memory
retrieval, security review. All of it is Python over files. There is no server
and no database: every component's state is a handful of files, every operation
is a process that may be killed, and several processes may work on one project
at once. What is hard in this code is therefore always the same: several files
must change together, somebody may die between two writes, somebody else may
write in between, and a file read once may be another file when it is used.

This directory models the components in which that matters most and which
everything else relies on, model-checks them with TLC, and proves most of what the
runs check with TLAPS, for every value of the constants.

    tlc -config InstallTx.cfg MCInstallTx.tla        # a run: X.cfg with the module named below
    tlapm PlanLifecycleProofs.tla                    # the proofs; also the other *Proofs modules

## The system

Paths are relative to `src/`. "Hard" names what a test hardly reaches.

| component | state | operations | interacts with | hard |
|---|---|---|---|---|
| plan store, `aek/adapters/plan_transaction.py` | plan, credential, stage bindings, gate records; `artifact-plan.tx.json`; a lock | snapshot, publish, rollback_all, gate_snapshot, recover | called by the next two under one lock file | kill between two replaces, stale snapshots, edits that ignore the lock |
| plan life cycle, `aek/application/planning.py`, `aek/core/artifact/plan.py` | what the files mean: planned, frozen, bound, invalid | prepare, freeze, bind, rollback, read_dynamic_state | plan store; gate records of doc-gate | read, compute, publish against a later snapshot |
| document gate, `doc-gate` | `<stage>.gate.json`, `gate.log`, `hard-checks.json`, freeze records, closeout | gate, review-input, freeze, check, closeout, plan-* | all of the above, the review store | documents read several times in one command, log appended after the gate |
| review life cycle, `aek/core/review/lifecycle.py`, `aek/application/review_lifecycle.py`, `aek/adapters/review_lifecycle_store.py` | `<stage>.issue-lifecycle.json` | prepare, publish (PASS or not), recover | gate; author's claims, reviewer's issues | VERIFIED, gate and CLOSED are three writes |
| review requests and verdict, `aek/application/review.py`, `aek/core/review/judge.py`, `incremental.py`, `scope.py` | `review-request`, `review-current`, `review-baseline`, receipt | build, validate, judge | gate | a part of the documents reviewed for the whole; answers that come late; requests repeated without end |
| installer transaction, `installer/transaction.py`, `install.py`, `uninstall.py` | managed files, `tx/<id>/record.json`, backups, staged and moved-aside files, workspace links, marker, `install.lock` | install, uninstall, recover, `--recover=rollback`, `--recover=roll-forward` | ownership rules, platform primitives | kill anywhere, recovery by bytes alone, users editing |
| ownership and planning, `installer/preflight.py`, `registry.py`, `manifest.py`, `legacy.py` | manifest; the kit's parts inside user files | find, merge, remove a part; decide whose it is; adopt | installer | wrong ownership deletes user text; files edited between releases |
| doctor, governance profile, zvec, `installer/doctor.py`, `governance.py`, `zvec.py`, `__init__.py` | index generations and their pointer | publish a generation, read under a shared lock, report | installer's lock | pointer switch against readers |
| work units and dispatch, `aek/*/work_unit*.py`, `aek/*/dispatch.py` | `state.json` and its lock; receipts | create, transition, takeover, resume; execute once | session identity | two writers, a retry of what was already done |
| security workflow, `aek/*/security*`, `security-check` | `record.json`, receipts of host events, evidence index | execute, claim, reverify, resolve, close, recover | work units, delivery gate | authority used after the record moved or the receipt lapsed |
| dependency decisions, `aek/core/security/{dependencies,delivery}.py`, `aek/application/security_review.py` | none: recomputed from registered evidence | design and delivery decision, requirements, closure | security workflow, delivery gate | evidence that ages, or that a proposal does not name |
| delivery gate, `aek/application/delivery_gate.py`, `document_gate.py` | none | aggregate stage, governance and security verdicts | every gate | a verdict joined from stale parts |
| context, memory, telemetry, `aek/core/context`, `aek/adapters/{telemetry,capsule,memory}.py`, `memory-build`, `memory-recall` | append log, index generations, capsule cache | append, recover a torn tail, build, recall | - | torn append, generation switch |
| UI material and observations, `skills/design-pipeline/scripts/ui-reference.py`, `ui_observation*.py`, `ui_filesystem.py` | index, images, snapshots, preparations, observations, bindings | scaffold, validate, record-review, bind-prototype, observation-prepare, -record, -query | people who replace images | bytes judged, stored and served that changed in between |
| UI preview, the other `aek/*/ui_*` | rendered previews | render, project | browser and database hosts | - |
| policy, planning facts, routing, `aek/core/{policy,planning}`, `aek/application/routing.py` | none | pure decisions over Git facts | plan life cycle | - |
| change scope, evidence, codebase context | none | read-only Git queries | routing | - |
| platform primitives, `installer/platform`, `atomic.py`, `aek/adapters/atomic_file.py` | - | atomic replace, rename without overwriting | everything | - |
| migration and evaluation scripts | documents | `spec-migrate` rewrites, the rest print | - | - |

What makes each modelled component correct, in words; the modules state it.

- **Plan store.** A publish is seen by every later call entirely or not at all,
  whoever dies where; a publish computed from an outdated snapshot changes
  nothing; an interrupted transaction is finished by the next call; bytes that
  the tool did not write stop a call that comes upon them, and what its caller was never
  shown is replaced only in three gaps of a call that no lock closes for an editor.
- **Plan life cycle.** No reader meets a credential of another plan or a binding
  of another credential; a gate record is written under the plan in force; a
  rollback leaves nothing.
- **Review.** A stage is accepted, for all readers, at one moment; an accepted
  stage has no unresolved issue above the policy; an issue is CLOSED only by a
  PASS that saw it VERIFIED; a PASS is for the documents that were reviewed.
- **Work unit and controlled execution.** A step that must not be repeated is
  started by at most one process, whoever retries, takes over or dies; the record
  adopts one outcome of it, evidence before record before work unit, and every
  answer is that outcome.
- **Installer.** A command that dies changes everything or nothing once it has
  been recovered; recovery needs no person unless somebody else wrote; user
  bytes and user links are never destroyed by a deletion; nothing stays behind
  under a name nobody looks at. Inside a file that is the user's, whatever was
  edited before or between releases, only the kit's part is touched.
- **Review scope.** A PASS over reviews of parts stands for the whole: every
  section was judged in its present text beside the present text of what it
  depends on. Silence verifies a fix only from somebody who was shown it. The
  same question is not asked again without anything having changed.
- **Security record.** A proof counts for the revision it was given for; writers
  in flight lose nothing of each other; a record is called closed only if every
  finding was claimed fixed and then verified, and only while somebody else's
  review of it stands, on evidence that stands; a closing that lapsed stays lapsed.
- **Dependency decisions.** Nothing becomes adoptable because what spoke against
  it aged, or beside a finding on advice the record holds; no closure holds against
  evidence the record knows.
- **UI.** A judgement is about the bytes its reviewer had open; what is bound is
  published with its image; a displaced observation stays away; what a command
  answers was true of the files when it ended.

## Modules

| module | what it is |
|---|---|
| `AtomicSidecars` | abstract: one register of files, a publish against the latest snapshot is one step |
| `PlanStore` | the lock, journal, apply and recovery protocol; refines `AtomicSidecars` |
| `UnlockedEdits` | what an edit without the lock can cost (EXTENDS `PlanStore`) |
| `PlanLifecycle` | the plan and gate commands on top of `PlanStore` (EXTENDS it) |
| `PlanLifecycleProofs` | the theorems about the three |
| `ReviewVerdict` | abstract: issue states and acceptance change together |
| `ReviewGate` | gate and review-input over lifecycle, gate and log; refines `ReviewVerdict` |
| `ReviewGateProofs` | the theorems about it |
| `InstallTx` | the installer transaction with its recoveries |
| `InstallTxProofs` | the theorems about it |
| `ReviewInput` | operators: what the parser finds, schema 1 impact, schema 2 scope, requests |
| `ReviewScope` | request, answer, gate and baseline of one stage (EXTENDS `ReviewInput`) |
| `ReviewScopeProofs` | the theorems about it and about its operators |
| `WorkUnit` | the work unit: transitions, takeover, and what resume allows |
| `OneOutcome` | abstract: a step is attempted once, settled once, and told as settled |
| `ControlledRun` | a scanner run as a step of a work unit (EXTENDS `WorkUnit`); refines `OneOutcome` |
| `ControlledRunProofs` | the theorems about it and about `WorkUnit` |
| `SecurityRecord` | the record, its two writers, and the receipts its changes rest on |
| `SecurityRecordProofs` | the theorems about it |
| `DeliveryGate` | operators: the verdict over route, identity, readiness and evidence |
| `DependencyCheck` | the decisions about a dependency and the closure on top of them (EXTENDS `DeliveryGate`) |
| `DependencyCase` | the data of an instance: a package, two declarations, what may be reported |
| `DependencyProofs` | the theorems about the decisions and the closure |
| `Containers` | operators: the kit's part of a text, a settings file, a whole file |
| `Ownership` | install, uninstall, adopt and a user over one file (EXTENDS `Containers`) |
| `UiMaterial` | the index of screenshots and the commands that write it |
| `UiObservation` | observations of screenshots: prepared, recorded, bound, served (EXTENDS `UiMaterial`) |
| `UiObservationProofs` | the theorems about it |
| `MCPlanStore`, `MCPlanLifecycle`, `MCReviewGate`, `MCReviewScope`, `MCInstallTx` | instances of one module for TLC |
| `MCSecurityWork`, `MCParts` | instances of several side by side |

`PROJECT.json` maps every definition to the lines it stands for.

### Plan store: `PlanStore`

`disk` is the consumer files, `journal` is `artifact-plan.tx.json`, `lock` the
exclusive lock, `orphan` a temporary a kill left behind; per process `pc`, the
call it is in (`kind`), its snapshot (`seen`), the changes it wants, the entries
it still has to apply, the journal it is about to write (`draft`) and the file it
has just compared (`checked`). A digest is modelled by the value it is a digest of, so
`digest(x) = digest(y)` reads `x = y`. One action is one durable step (a
`_atomic_write`, an `unlink`) or one run of reads under the lock in which no file is
read twice, so that an edit of a file falls before or after each reading of it;
`Abort` kills a process before or during any of them. `Read`, `Publish`, `RollbackAll`
are the calls, `Acquire` waits for the lock, `Recovery` is `_recover_locked`
(classification, and later the removal of the journal), `Replay` is `_apply`
(`ApplyCheck` compares, `ApplyReplace` writes or unlinks without another look) and the
COMMITTED mark, `Body` is what each call does after recovery: for a snapshot the files
and then their digest, for `_commit` the digest comparison, the effective changes, the
preimages and the journal, one step each. `GateStep` is a gate or freeze command inside
`gate_snapshot`. `Edit` (external) is an editor, a checkout or a script that
ignores the lock. `UnlockedEdits` adds history variables: what a snapshot showed its
caller, and the files edited after that and before the digest, after the digest
comparison and before the preimages, and after `_apply`'s comparison and before its
write. It states with them what such an edit can lose.

A gate record torn by a kill of `cmd_freeze`, which writes without a rename, is
a `GateWrite` of arbitrary content: no property reads what a gate says.

`AtomicSidecars` keeps only the files and each process's snapshot. The mapping
takes for the files what a recovery would make of the disk: the new content once
one entry is applied, the old one before. That is also the linearization point:
the first applied entry of a transaction.

### Plan life cycle: `PlanLifecycle`

Documents are records: a plan is its identity, a credential the plan it freezes
and the second it was written in, a binding the plan and the gate record it
binds. Each command is a call of `PlanStore` whose changes are computed from the
snapshot the process holds, as `prepare_git_current_plan`,
`freeze_git_current_plan`, `bind_frozen_stage` and `rollback_dynamic_state` do.
`bind_frozen_stage` reads the state first and takes the snapshot it publishes
against later: `prior` is what it read first. `read_dynamic_state` is
`Coherent`. How Git facts make a plan is an input.

### Review: `ReviewGate`

`lc`, `gate` and `log` are the three files of one stage; `me` is the running
command with what it has read so far; `doc`, `review` and `claims` belong to the
author and the reviewer, who need no lock. `Start` is the part of the gate up to
`_validate_issues`, `Hash` the second reading of the documents, `Recover` is
`LifecycleGateStore.recover`, `Prepare` is `prepare_lifecycle` with the verdict
of `judge_gate`, then `WriteLifecycle`, `WriteGate`, `WriteClosed`, `AppendLog`,
and `Abort` between any two. `project_pass_gate`, which undoes the last closings
of a snapshot to find the one the gate is bound to, is `Projects`: the snapshot
is the bound one or exactly its closing. An issue is a fingerprint with a fixed
severity; thresholds are zero for `Blocking` and infinite for `Tolerated`. Of
the event list only its length and the recorded claims can matter. The
compare-and-swap always succeeds, because every writer holds the plan lock.
Required-review stages only; requests, baselines and progress are `ReviewScope`'s,
and BLOCKED issues have no writer in the code.

The refinement: what a reader is entitled to conclude (`Accepted`,
`IssueStates`) behaves like one verdict that changes in one step. The gate
record is the commit point; lifecycle records written before it or not yet after
it make no difference.

### Review requests: `ReviewInput`, `ReviewScope`

A section is a number in reading order, its text a record of what the parser finds
in it: ids defined and mentioned, the boundary marker, whether it parses; a digest
is the text. `Read` is `parse_review_documents`, `Impact` with `NoBaseline` is
`plan_incremental_review` (schema 1), `Targets`, `References` with `NoScope` is
`scoped_sections` with `_full_boundary_evidence` (schema 2); `Plan1`, `Plan2`,
`WellFormed`, `Progress` are `plan_review`, `plan_review_v2`,
`_validate_v2_request`, `review_progress_digest`.

In `ReviewScope`, `base`, `req`, `cur`, `answer`, `claims`, `lc`, `gate` are the
stage's files. `Request` and `Hand` are the two writes of `review-input`;
`Validate` (`_validate_issues`, where schema 1 already writes its baseline),
`Commit` (lifecycle and gate) and `Publish` (the schema 2 baseline) are `gate`.
`Answer` is the reviewer, who may be late: it answers the request it was handed,
whatever was requested since. `reviews` is a history variable. The lifecycle moves
in one step, hard checks pass, every issue counts and documents rest while a
command runs, because `ReviewGate` has what happens otherwise. Left out: wording of
refusals, the 计划 stage's exemption from owners, a change of the document set, and
all of a dependency fingerprint but its schema and one state.

### Installer: `InstallTx`

Resources are `1..Last` in registry order, the manifest last. `disk`, `iso`
(moved aside for deletion), `staged`, `backup`, `tmp` (restore temporary),
`link`, `away` (a link moved aside), `marker`, and the record `dir`, `litter`,
`rec`. `install.lock` is exclusive and not waited for, so there is one process
`me`. Its places follow `run_install` (plan, stage, back up, marker, committing,
replace, links, clean up) and `run_uninstall` (plan, committing, delete, links,
clean up); recovery is `recover` (`Decide`) with `classify_committing` by bytes
alone, `Undo` for `rollback_one`, `RollForward` and `Relink` for the manual
roll-forward. Every record write (`Write`) is atomic by rename; a kill can leave
its temporary (`litter`). The user may change managed files and links at any
moment (`EditFile`, `EditLink`), in particular between a check and the step it
guards, which are separate actions where the code does not join them.

Simplifications: POSIX ("strict") deletion; symlinks, not the copies used where
links are unavailable; the record's HMAC and staged-content validation are not
modelled beyond "staging may fail"; a partially staged or backed-up file is one
that is missing; an I/O error in a step is a failing step where the code handles
it, else a kill; merged file contents are `Kit` (a release's), `Bare` (without
the kit's part) or `Mine` (the user's); empty-directory clean-up is left out;
one transaction directory at a time.

### Ownership: `Containers`, `Ownership`

One resource and its file, of any kind the registry knows but the Codex link: a
block in Markdown, TOML or `.gitignore`, a whole file, a seed, a session hook, a
server entry. A text is a sequence of tokens with its line ends, because what can
go wrong is a line joined to the next; JSON is a list of hook entries or a flag for
the user's other servers; a hash is its bytes. `Merged` is `build_final_content`,
`Removed` what `uninstall.py` makes of the file, `Fragment` `read_fragment`,
`Status` `determine_status`; `Install`, `Uninstall`, `Adopt` are a whole command's
decision and effect in one step (`InstallTx` has the transaction). `OtherRelease`
changes the kit, `Touch` is the user.

### Work unit: `WorkUnit`, `ControlledRun`

`unit` is `state.json`; a snapshot digest is modelled by the snapshot. Epochs and
applied events only grow, so no earlier snapshot returns, and a service call that
loads, computes and swaps under the lock is one step (`Open`, `Takeover`,
`Advance`): it finds what it expects at the swap or changes nothing. What a caller
holds between two calls is its own copy (`work` in `ControlledRun`), and
`Swap(work[s], ...)` is the comparison. `Decide` is `resume_work_unit` for one
step; `begun` is a history variable. An INVALID identity, answered with a person,
and work units with external carriers, which are not stored, are left out.

`ControlledRun` is `LocalSecurityWorkflow.execute`. A session reads the unit
(`LoadWork`, refused by `NotTheWriter`), then the security record (`LoadRecord`),
and takes one of two paths. A step nobody ever started is marked (`Start`), its
process launched (`Launch`), the result attested and kept in the evidence index
(`Observe`), adopted by the record (`Adopt`) and the step completed (`Complete`).
Any other step is answered from what was adopted (`Reuse`) or not at all. `GiveUp`
is every refusal, conflict and answer that asks for a person, and a kill, before
any of these. `Others` is everybody else using the unit, `Revise` the other
operations that write the record.

All sessions hold the record's identity, because `_current` refuses the others
before anything is written; the unit may have been opened for another one.
Authority, grants and material checks only ever refuse (`GiveUp`). Whether an
observation is attested at the moment is the "unknown" of `KnownOf`. `Revise` keeps
the runs: no other operation of the workflow removes one.

The refinement to `OneOutcome`: the outcome of a step is settled when the record
adopts its run; the unit's later "completed" only says so.

### Security record: `SecurityRecord`

`record` is `record.json`, `receipts` and `index` the durable receipts and evidence
index, `revoked` what the host withdrew, `handles` and `workers` what the control
session holds in memory, `draft` the revision a writer has built and not yet
written: two phases, so that time, withdrawals and the other writer come between
check and write. `Commit` is `SecurityStore.write`. The operations are
`claim_fixed`, `reverify`, `accept_risk`, `false_positive` and the closing;
`ClosedValid` is what `recover` recomputes. `Reopen` ends a control session (or
kills it) and opens another, perhaps over other code. Receipt lifetimes are bounded
by the session's. Findings here have no dependency (`DependencyCheck` has those);
scanner checks of a closing and the refusal of repeated event ids are left out.

### Dependencies: `DeliveryGate`, `DependencyCheck`

`held` is the evidence registered, each reference once, with the moment it was
gathered and the subject it is about; nothing else is state but consents, the
closing, and for the record its subject, whether it cites consents and whether it has a
finding about the dependency. `Design` is `evaluate_design_dependency`,
`Delivery` `evaluate_dependency_delivery`, `Resolution` the resolution of a dynamic
version, `Assessed` the two requirements, `Showing` the advice the report shows a finding by,
`Backed` `_check_gate_evidence`, `Verdict`
the delivery gate. One package is declared by several proposals; a producer mismatch
counts as a listing mismatch; receipts' lifetimes are `SecurityRecord`'s. An answer of
`evaluate` above its limit comes back without decisions (`security_review.py:33`), and
the requirements then take the record for one that proposes nothing: `cut` says of each
reading whether that happened. The answer's size is not modelled, so it may happen at any.

### Screenshots: `UiMaterial`, `UiObservation`

A digest is the content. All commands hold one lock for their whole run, so one
`cmd` runs at a time; it reads (`Take`), then writes or answers in later steps,
while people replace images, restore the index or upgrade the kit, and a kill drops
it in between. `Validated`, `RecordReview`, `BindPrototype` build the new index,
`Write` rechecks and replaces it. `PublishPreparation`, `PublishObservation`,
`Bind` are the store's publications, `Query` and `Answer` the two passes of
`observation-query`. `view` is what a reviewer has open, `looked` what was seen for
each judgement. The last recheck and the replacement that follows it are one step;
the window between them is left open by the code. A judgement's two halves are one
boolean; moments, areas of a query, baselines and size limits are left out, as are
temporaries that survive a kill. Version 1 of `validate` rechecks nothing, so what it
says is not claimed.

## Runs

| run | question | result |
|---|---|---|
| `PlanStoreEdits` (`MCPlanStore`) | one process, two kills, an edit behind the lock: what is overwritten unseen? | `ForeignStaysPut`, `OverwritesOnlySeen`, `LockReleased`, `RecoveryCompletes` hold |
| `PlanLifecycle` (`MCPlanLifecycle`) | two processes through prepare, freeze, bind, gate, rollback with a kill: one atomic register, no incoherent plan? | `JournalResolvable`, `NeverInvalid`, `GateUnderCurrentPlan`, `RollbackRemovesAll`, refinement `AtomicSpec` hold |
| `PlanRollbackRace` (`MCPlanLifecycle`) | the same when two freezes fall in one second | `RollbackRemovesAll` violated |
| `InstallTx` (`MCInstallTx`) | installs, uninstalls and the operator's two recoveries over two releases, a kill anywhere | `AllOrNothing`, `UndoAvailable`, `NothingStranded`, `NeverNeedsHuman`, `LinksAsFound` hold |
| `InstallEdits` (`MCInstallTx`) | a user edits a file or a link at any moment; does a command end, does a recovery resolve? | `DeletesSpareEdits`, `RemovalSparesLinks`, `CommandEnds`, `RecoveryResolves` hold |
| `InstallLeftover` (`MCInstallTx`) | is what a clean-up leaves behind harmless? | `CleanupHarmless` violated |
| `ReviewGate` (`MCReviewGate`) | gates, claims, edits, a kill: one verdict? | `AcceptedIsResolved`, `ClosedByAGate`, `FreshHitsBlock`, refinement `VerdictSpec` hold |
| `ReviewStaleFreeze` (`MCReviewGate`) | can an old review pass new documents? | `OldReviewNeverFreezes` violated |
| `ReviewScope` (`MCReviewScope`) | full and incremental requests of both schemas, late answers, edits, a kill: does a PASS add up? | `CoherentPass`, `VerifiedWasShown` hold |
| `ReviewRepeat` (`MCReviewScope`) | is a question asked again without any change? | `NeverRepeats` violated |
| `SecurityWork` (`MCSecurityWork`) | a work unit by itself; two sessions executing two plans of one step; two writers of the record with expiring receipts | `BegunNeedsProof`; `DurableInOrder`, refinement `OutcomeSpec`; `OneProofOneRevision`, `ClosedIsProved`, `RecordGrows`, `LapsedForGood` hold |
| `Parts` (`MCParts`) | dependency decisions; one installed file and its user; screenshots and observations | `FindingBlocksAdoption`, `ClosedUncontradicted`, `AdoptionNeverRipens`; `UserPartKept`, `InstallSettles`; `JudgedAsLooked`, `BoundHasEvidence`, `DisplacedForGood`, `ServedWasJudged` hold |

`SecurityWork` and `Parts` are several modules side by side: they share no file and
no process, so a behaviour chooses one in its first state and the others rest
(`part`). Every interleaving within a component is explored, none across them, of
which there is nothing to see. Type invariants are not run: theorems prove those of
the modules that have proofs, and in the others they are definitions for the reader
that TLC confirmed while the modules were written. Each run takes up to three minutes with
two workers.

**Bounds.** Kills: two in the plan store (one inside the recovery of the other),
one elsewhere. Two processes are enough for every pair of calls to overlap; the
lock makes a third indistinguishable from the second. One or two mutable files and
one gate give a transaction with a state between its entries and a file outside it;
the theorems remove this bound. Three resources in `InstallTx` are a shared
container, a retired state file and the manifest, so that replacing, merging and
deleting meet in one plan; it starts from every first contact with a target (user
files of the same name, leftovers of an old release). `InstallEdits` has two
resources and one release, and starts from an empty target; a second edit only
follows one that a deletion has just run into, which is when the deletion has to
put something back and finds its place taken, and the operator rolls forward only
after an edit. Three gate
records let an issue be opened, closed and reopened, with two issues so that one
blocks and one does not; two contents and one edit let a review be outdated.

In `ReviewScope` two documents have a global section each, an owner, a part of it
that uses the other document's owner, and a heading that may go away; an issue
names one section and is about two. One edit, two requests to an outside reviewer,
three validated reviews and a kill let an incremental review follow a full one, an
answer come after the next request and a report of one schema stand between two
reviews of the other; two edits, or three requests, passed as well, in more time than
the run has. The instance evaluates the hypothesis of `SilenceIsAsked`
(`InstanceAssumption`). `ReviewRepeat` needs less of the documents and one round more.

The unit by itself has four transitions: to begin a step, let it go stale, skip it
and begin it again. Two sessions of one author race in `ControlledRun`; one takeover, one
foreign transition and one foreign record revision are each enough to make any later
comparison of a session fail, and a third session would meet what the second meets.
The record has one finding, one piece of evidence for and one against, four events
(claim, reverify or resolve, close, and one too many), four receipts and one
withdrawal; a lease of one instant and one more instant let every receipt lapse. A
record that is closed twice needs five events and five receipts, and findings that
speak for each other need two: instances of these sizes (3.1 million states) passed
as well, and the theorems remove the bound.
The dependency case has a dynamic and a concrete declaration of one package, a
reference no proposal names that may report any of four bad news or that nothing
changed, another that only the finding names, records with and without a finding and
consents, answers cut and whole, two instants of age with a window of one, and one change of subject, after a closing only, because
before one it only takes evidence away as time does. The user touches a file twice,
from twelve first texts and seventeen lists of hooks, and releases change freely.
One screenshot, one context, two pictures, two contracts, two preparations and two
observations, two edits; an instance with two contexts (2.6 million states) passed
as well. Processes and contents are symmetric in the runs that say so; no liveness
property is checked with symmetry.

**Deadlock** is checked except in `ReviewScope`, `ReviewRepeat`, `SecurityWork` and
`Parts`: a unit whose steps all need a person, and a model that has used up its
edits, requests or instants, stay as they are.

**Fairness.** `LiveEditedSpec` gives weak fairness to `Held(p)`, the steps of a
process that holds the lock: the operating system keeps running a process that
is neither blocked nor dead, and a kill releases the lock. Nothing is assumed of
calls being made or of who gets the lock. `LiveSpec` gives weak fairness to
`Proceed`, the steps of the one running installer, for the same reason. A leads-to
property counts only while no further kill (or, in the plan store, edit) happens.

## Proofs

The first part of `PlanLifecycleProofs` proves of the store, for any processes, files,
contents, and numbers of kills and edits:

- `TypeCorrect`: `EditSpec => []TypeOK`.
- `JournalAlwaysResolvable`: `Spec => []JournalResolvable`. A journal on disk is
  always one that recovery can drop, finish or take for finished.
- `ImplementsAtomicSidecars`: `Spec => AtomicSpec`. Every step of the protocol is
  a step of the register or a stutter.
- `OverwritesOnlyWhatWasSeen`: `USpec => OverwritesOnlySeen`. With edits at any moment,
  the store changes only files its journal names, to the content the journal intends.
  It replaces bytes the journal has not kept only if they arrived between `_apply`'s
  comparison and its write, and bytes its caller was not shown only if they arrived
  there, between the digest comparison and the preimages, or between the caller's
  snapshot and its digest. The invariant adds to what the holder of the lock knows
  that a digest is of what was shown, but for the files edited in between (`Shows`).
- `ForeignStateKept`: `EditSpec => ForeignStaysPut`. A call that comes upon files that
  recovery does not recognise changes neither them nor the journal.

Assumptions: `FilesAssumption` (the names are distinct, the special values are
none of the contents) and `BoundsAssumption` (the bounds are naturals), both
evaluated by TLC in every run of the module.

The argument. `Base` says that variables are typed, that exactly the holder of
the lock is past it, and that a process which replays has a journal. It survives
edits, so the theorems under `EditSpec` need no more. `OverwritesOnlyWhatWasSeen`
adds what the holder knows of its draft, its journal and the file it has compared,
up to the files the two history variables name. Resolvability
and refinement hold only while everybody respects the lock; they need
`JournalShape` (each journalled file holds its old or its new content, files
outside the journal have not moved since it was written, a committed journal is
fully applied) and `HolderKnows` (what the holder has still to apply is what the
disk lacks, and its snapshot is the disk before the transaction). Their
conjunction `IInv` is inductive: `JournalResolvable` alone is not, because it
says nothing of the holder half-way through a replay. Each step lemma has one
case per action.

The second part adds the commands on top:

- `CommandsUseStore`: `LSpec => Spec`. Every command only does what the store
  allows any caller, so the theorems above hold of the commands.
- `CommandsSeeAtomicFiles`: `LSpec => AtomicSpec`.
- `CommandsTypeCorrect`: `LSpec => []LTypeOK`.
- `GateNamesCurrentPlan`: `LSpec => GateUnderCurrentPlan`. Only the step that
  records a gate changes a gate, and it holds the lock and has recovered, so the
  plan it read is the plan on disk.

- `SidecarsStayCoherent`: `LSpec => []NeverInvalid`, and
- `RollbackIsComplete`: `LSpec => RollbackRemovesAll`, both if no two freezes fall in
  one second (`DistinctSeconds = TRUE`). They need it: with `FALSE` the run
  `PlanRollbackRace` violates the second.

They also assume `DocsAssumption` and `SecondsAssumption`. The invariant behind the
first four, `LInv`, is that the clock is within its bound and that what a binding
command read first is a plan and a gate. The last two look at what is read and
computed before it is published. The clock never shows one second to two freezes, so
a credential that left never comes back (`NeverBefore`), one still to be written is
nowhere yet, and under one credential bindings only grow (`BindingsGrow`). A publish
is sound for the snapshot it was computed from (`SoundPublish`) and takes effect, at
its first applied entry, only on that snapshot; what a rollback measured covers its
snapshot, or its credential is out of date for good (`SoundRemoval`).

`ReviewGateProofs` proves of the review records of a stage, for any issues,
observations, policies, gates and kills:

- `GateTypeCorrect`: `Spec => []TypeOK`.
- `ClosingsAreOwned`: `Spec => []ClosedByAGate`.
- `FreshHitsStop`: `Spec => FreshHitsBlock`.
- `AcceptanceHolds`: `Spec => AcceptedIsResolved`.
- `ImplementsVerdict`: `Spec => VerdictSpec`. `WriteLifecycle` is `Record`, `WriteGate`
  is `Pass` or `Reject`; `Recover`, `WriteClosed` and the rest cannot be seen.

They assume `IssueAssumption`, `ObservationAssumption`, `PolicyAssumption`,
`BoundAssumption` and `NoneAssumption`, evaluated by TLC.

The argument. A PASS is bound to a snapshot that has no pending issue and closings of
earlier gates only (`SoundGate`). The lifecycle on disk is the snapshot the last PASS
is bound to until it is closed, and has at least the closing's events afterwards
(`Behind`, `Left`); once recovery was run it has left the snapshot (`Settled`). So a
later lifecycle is taken for accepted only if it equals the closing or changes no
state (`ProjectionIs`): this is why counting events is enough. `CommandKnows` says
what each place of a command, which alone holds the lock, implies of what it read,
and `Follows` relates the lifecycle it will write to the present one: each issue takes
an allowed step, events only grow, CLOSED is inherited together with its gate.

`ReviewScopeProofs` proves of reviews of parts, for any outline, documents, ids,
references, issues, places and bounds, and for either schema:

- `PartsAddUp`: `Spec => []CoherentPass`.
- `SilenceIsAsked`: `Spec => VerifiedWasShown`, if a report names a section of every
  owner it is about (`ReportsNameOwners`). Schema 2 sends what goes together with the
  sections a report named; about a section of an owner that no report named it sends
  nothing, and silence about it would verify the fix.

They assume `VersionAssumption` (the schemas in use are 1 and 2), evaluated by TLC;
the run evaluates `ReportsNameOwners` for its instance.

The argument. The queue of the code is the smallest set that holds its start and that
no reference leaves (`Closure` is defined so, `ClosureIs`). For schema 1 the impact is
closed in both directions: a section is sent with all that it uses, or neither it nor
any of that has changed (`ImpactCovers`). For schema 2 the targets are closed under
owners (`TargetsAreGrouped`) and under use, the references under what is used, and a
scope is refused if it touches a global section (`ScopeCovers`). So the latest review
and the one of the baseline make up the whole (`ReviewsAddUp`), provided that a
baseline was reviewed as a whole (`BaseReviewed`) and that a command that validated a
review is still about the documents it validated (`InFlight`); these two and
`CoherentPass` are inductive together.

For `VerifiedWasShown` that is not enough, because a schema 1 verdict also rests on the
reviews its baseline stands on, and those may have reported the issue. `ShownInv` adds
that one review saw the whole of a schema 1 baseline in the text it has and that no schema
1 review from then on reported anything (`BaseClean`), or nothing but what the answer in
hand reports, when a command is about to write the verdict on it (`FlightClean`). A schema 2 verdict settles only
issues whose sections are all among the targets of this one review (`CoveredIsSent`).

`InstallTxProofs` proves of the installer, for any resources, skills, releases and
numbers of kills and edits:

- `InstallTypeCorrect`: `EditSpec => []TypeOK`.
- `NothingIsStranded`: `EditSpec => []NothingStranded`.
- `WholeOrNot`: `Spec => []AllOrNothing`.
- `OneKillIsRecovered`: `Spec => []NeverNeedsHuman`, if at most one command is killed
  (`MaxCrashes <= 1`), whichever commands are issued. For two kills it is false (below).
- `UndoStaysPossible`: `Spec => []UndoAvailable`, if nobody rolls forward by hand or at
  most one command is killed (`"roll-forward" \notin Commands \/ MaxCrashes <= 1`). With
  both manual commands and two kills TLC refutes it: a rollback killed in its clean-up
  leaves a transaction without backups, which can then be rolled forward.
- `RollbackRestoresLinks`: `Spec => LinksAsFound`, if nobody orders a rollback or at most
  one command is killed (`"rollback" \notin Commands \/ MaxCrashes <= 1`). `LinksAsFound`
  itself leaves out what the command `rollback` does; with it and two kills TLC finds that
  automatic recovery, completing a rollback that was killed, also removes a link that is
  older than the transaction.
- `DeletionsSpareEdits`: `EditSpec => DeletesSpareEdits`.
- `RemovalsSpareLinks`: `EditSpec => RemovalSparesLinks`.

The argument has layers. `AsideInv` holds whoever edits: a record precedes the
first file that is moved aside and outlives the last. `FilesTrue` holds while nobody
edits: each file is the old one, the new one, or moved aside; the record's status
promises no more than the disk has; and a commit or an undo, at each of its places,
knows how far it is. `KeptInv` adds that a transaction on disk as committing has its
backups, or that they were removed only after everything had been put back; rolled
forward by hand, it has them if only one kill came before.

`SpareInv` says why one kill can always be recovered from. `NeverNeedsHuman` is about
every check the code may fail, so the invariant has to carry what makes them succeed:
the bytes of a transaction on disk as committing fit it in both directions (`Fit`: the
backups are those of the files that existed, each new file is staged or in place, the
manifest is planned, no link of it is somebody else's), and no place of a process leads
to a person (`Calm`). This fails while files are being put back, since the bytes are used
up then; but a process is only there because an earlier one was killed (`Struck`), and
with one kill allowed it cannot be killed itself.

`LinkInv` follows the links of a transaction. An uninstall records links that are the
kit's, nobody else's take their place (`Removes`), and all that it has put back are the
kit's again before the failure is recorded (`Returns`). An install records links only
when every file is in place (`RecordLinks`), and from there automatic recovery only rolls
forward: what is given up has recorded none. An ordered rollback takes even a finished
install back; `KnownLinks` sets it apart, and `SpareInv` shows that with one kill nobody
else meets a transaction in the middle of it. `GivenUp` shows that only three steps record
a failure, and each is reached with the links as they were found.

The first part of `ControlledRunProofs` proves of the work unit, for any steps, writers,
identities, receipts, events and takeovers:

- `UnitTypeCorrect`: `WSpec => []WTypeOK`.
- `NoSecondRun`: `WSpec => []BegunNeedsProof`. The property is not inductive: it
  speaks of what is decided, and a transition can lead out of every state that
  forbids a second run. What stays is the receipt (`ReceiptKept`): a transition
  that names none keeps the one it finds.

They assume `UnitAssumption` (special values are none of the data; at least one
epoch).

The second part proves of controlled execution, for any sessions, steps, plans,
authors and results:

- `ExecutionInOrder`: `RSpec => []DurableInOrder`.
- `ExecutionUsesUnit`: `RSpec => WSpec`, and from it and `NoSecondRun`,
  `ExecutionNeverOffersTwice`: `RSpec => []BegunNeedsProof`.
- `ImplementsOneOutcome`: `RSpec => OutcomeSpec`, the refinement of `OneOutcome`.

They assume `RunAssumption` (executions have their own receipts and events, special
values are none of the data), evaluated by TLC.

The argument. The three files are not enough: between `Start` and `Complete` only the
session knows how far its step is. `OwnerKnows` says what each place of a session
implies of the files: after `Start` no process ran and no run is adopted, after
`Launch` one process ran, after `Adopt` its own run is the one in the record. That is
safe from the others because a step has one owner (`OneOwner`): to own it a session
must win the swap from a unit in which the step was NOT_STARTED, and no
transition leads back there (`NeverBack`), so whatever remains of an execution keeps
its step begun (`Footprint`). A session that lost its process never comes back as an
owner; it is answered from the record (`Reuse`), or not at all.

`SecurityRecordProofs` proves of the security record, for any findings, evidence,
requests, reviewers, leases and bounds:

- `TypeCorrect`: `Spec => []TypeOK`.
- `OneProof`: `Spec => []OneProofOneRevision`.
- `Grows`: `Spec => RecordGrows`.
- `Closed`: `Spec => []ClosedIsProved`.
- `Lapsed`: `Spec => LapsedForGood`.

They assume `SRAssumption` (which evidence proves what, the author is among the
reviewers, the bounds are naturals), evaluated by TLC.

The argument. What is written was built earlier, so the invariant is about drafts as
much as about the record. Every revision, committed or not, is `Sound`: each event
rests on what was given for its own place (`Justified`), a reverification on one
review (`Attested`), the lifecycle of a gated record is what the gate leads to
(`Sealed`), the gap closes with the last verification (`GapClosed`), and what a
finding is said to be has its events (`Traced`). A draft is also `Fitting`: never more
than one revision ahead, and if it is just one ahead it was built on the present
record. The compare-and-swap makes the others harmless. That a gated record keeps its
lifecycle is not a check of any operation: it follows because a claim or a
reverification under a gate would not be sealed, and the validation of a record
refuses such a revision. For `Closed` the gate says that the gap was closed, so every
finding was verified, and `recover` looks at the last event that counts for each; that
there is a last one is `LastExists`.

`Lapsed` needs a second invariant, `Founded`: the host reported every decision that the
record or a draft cites and the gate itself (`Received`), what a receipt relies on was
registered before it (`Grounded`), and no draft under a gate ends in a reverification
(`NoLateReview`). So while a gate stands, what is live can only be lost, and the proofs
that `recover` finds stay the same (`SameLast`) or are gone.

`DependencyProofs` proves of the dependency decisions, for any references, reports,
versions, declarations, inventories, routes, ages and bounds:

- `ClosureIsUncontradicted`: `DCSpec => []ClosedUncontradicted`, if the route requires the
  delivery check, which is where the closure looks at regressions and inventories. The
  property is about closures that hold by an answer with its decisions.
- `FindingsReachDecisions`: `DCSpec => []FindingBlocksAdoption`, if the record lists the
  inventories that its proposals and its finding name (`InventoriesRecorded`). The
  property is about advice that the record lists or the proposal names, and about
  answers cut or whole.
- `NothingRipens`: `DCSpec => AdoptionNeverRipens`, if no row of an advice is dated after
  the advice (`RowsDated`) and there is a proposal; of answers with their decisions.

They assume `DCAssumption` (what an observation is made of, the record's references
are references). TLC evaluates it in the run `Parts`, with the hypotheses of the first
two. What the last two theorems ask for is needed, and nothing in the code enforces
it. Where a proposal alone names the inventory that resolves its version, the report
knows the version and the requirement does not, so the advice on it is not added: TLC
finds the dependency adopted beside its own finding. What the properties leave out is
real as well: with advice that only the finding names TLC finds the same, and a gate
composed on a cut answer, which the next whole one does not uphold. A row dated tomorrow keeps a
decision pending until tomorrow: TLC finds it ripen. With no proposals, an observation
that the dependencies changed can get too old beside one that says they did not
(`security_review.py:276`).

The argument. The decisions keep no history: `CaseInv` only says that what is registered
was reported under its reference, not later than now and for a subject that has been.
The work is in the operators. `AdoptableIs` and `DeliverableIs` say on exactly what
evidence a decision is favourable, `ResolvedIs` when a version is known. A closure is
recomputed over all the references of the record and must cite all it finds, so what
contradicts it would have been seen (`Delivered`); the version the proposal is decided
for is the one every other reading of it comes to, because a second candidate makes it
unknown (`DeliveryTarget`, `RecordKnowsVersion`). For time, every set that a favourable
decision reads is the same a moment earlier and what counts later counted then
(`SoundBefore`, `ResolutionBefore`), so a gap in it would have been one later too
(`AdoptedBefore`).

`UiObservationProofs` proves of the screenshots, for any number of screenshots,
contexts, pictures, contracts, edits and kills:

- `JudgementsFit`: `Spec => []JudgedAsLooked`.
- `BindingsRestOnEvidence`: `Spec => []BoundHasEvidence`.
- `DisplacedStaysAway`: `Spec => []DisplacedForGood`.
- `AnswersAreTrue`: `Spec => ServedWasJudged`.

They assume that the special value `None` is no judgement, no index
(`UiAssumption`, evaluated by TLC) and no observation (`NoneIsNoObservation`, a
statement about every record, which TLC could not enumerate). The bounds on edits
and on what is kept play no part.

The argument. A judgement is safe in the index only because it was safe in the
command that wrote it, so the invariant has to speak of the command: whoever is
about to write carries an index that is coherent with what was looked at, and
every screenshot it will report ready is among those it rechecks (`WriteReady`). A
reviewer's view shows the bytes its own index records; the comparison of digests
makes that index the present one. An observation is bound only if the bindings are
still those its preparation names. `NoReturn` turns this into a proof that it
happens once: whatever was displaced names bindings in which its own place held
something that is displaced by now, or nothing, while the place is taken. For the
answers, the invariant `CommandKnows` keeps what a query or a reuse read first
together; the last readings of the code carry it over to the moment of the answer.

Only model-checked, and why:

- Ownership (`UserPartKept`, `InstallSettles`): merging and splitting sequences needs
  induction over the text.
- What the violation runs refute (`CleanupHarmless`, `OldReviewNeverFreezes`,
  `NeverRepeats`).
- Liveness (`LockReleased`, `RecoveryCompletes`, `CommandEnds`, `RecoveryResolves`): out
  of the prover's reach.

What a recursive definition computes (`Owners`, the scan of a text) is used in proofs
only through what its shape gives, never by induction.

## What the runs found

- A rollback can leave a credential behind (`plan_transaction.py:409`): the list
  of files is made in one lock epoch and compared in another, and a credential
  frozen twice within one second is the same bytes.
- A PASS can be recorded for documents nobody reviewed (`doc-gate:2576`): they
  are read again after the review was validated.
- A record write killed at the wrong moment leaves a directory that blocks every
  later command and has no recovery (`transaction.py:1187`).

- After an issue of a stage was closed, the same review can be requested round
  after round (`doc-gate:2222`): the digest the gate records includes closed issues,
  the one it is compared with does not.

More is in the models and has no run of its own. A review delivered again byte for
byte does not reopen a closed issue (`lifecycle.py:391`), and the gate passes with the
blocker in its input: `FreshHitsBlock` speaks of the first time an observation is met.
A manual rollback removes a workspace link that was there before the install
(`transaction.py:1448`), and so does the recovery that completes one after a kill:
`LinksAsFound` leaves that command out, its theorem both. A fix may be verified by a
schema 1 review of parts whose baseline is older than a schema 2 report of the issue,
when the gate of that report was killed before its verdict (`doc-gate:1970`, `2763`; the
schema is chosen by each invocation, `4309`): `VerifiedWasShown` weighs a schema 1 verdict
against the reports of schema 1 only. In schema 1 a full review without findings makes a
baseline while the issue is still open, so that several reviews together verify the fix. A step begun without
a receipt that goes stale and is then skipped counts as never started
(`work_unit.py:248`): `BegunNeedsProof` speaks of steps begun under a receipt, which
is how `execute` begins them. A legacy section taken over becomes a block without a
line end, joined to the user's next line (`install.py:138`), and an uninstall takes an
empty line of the user's that stands before the block (`uninstall.py:76`); it also
drops a hook entry of the user's that has no hooks, and after a second install no
longer removes a file it created: `UserPartKept` speaks of lines that say something.
The delivery check passes when a failed regression becomes too old to count
(`delivery.py:194`): `AdoptionNeverRipens` speaks of the design check,
`ClosedUncontradicted` of evidence that counts. A dependency is adopted beside its own
finding when the finding alone names the advice: the report reads a finding's references
(`security_review.py:393`), the requirements read the record's sources (244), nothing
relates the two, and a new record has no sources (`record.py:342`).
`FindingBlocksAdoption` speaks of advice that the record lists or a proposal names. The
same happens when the version is resolved by an inventory that its proposal names and
the sources do not, and a row of an advice dated after the advice counts from its date
on (`dependencies.py:213`): `DependencyProofs` has both as hypotheses. An answer above
two megabytes loses its decisions (`security_review.py:33`), and a record with proposals
and without a finding then passes both checks on evidence that nothing changed (269);
`ClosedUncontradicted` and `AdoptionNeverRipens` speak of answers that keep them. An
editor that ignores the plan store's lock loses what it writes between `_apply`'s
comparison and the replacement (`plan_transaction.py:294`, 173), between the digest
comparison and the preimages (354, 370), and between a snapshot's files and its digest
(227, 232): `OverwritesOnlySeen` excepts exactly these, and
`ForeignStaysPut` a journal removed after it was found needless (321, 324). A security record may be closed a second
time, by a gate that takes the place of the first, and the review that `recover` finds
for a finding need not be the one that verified it: any live one that covered it
counts, one given before the fix was claimed too (`security_workflow.py:734`).
`RecordGrows` and `ClosedIsProved` say no more than that.

Beside these, two kills in one installer transaction defeat automatic recovery:
a restore temporary left by the first rollback stops the second, and a step
whose old and new bytes are equal is undone from a backup that is already gone.
`NeverNeedsHuman` is therefore checked and proved for one kill. Further windows
that the code leaves open are listed as hazards with a note.

## Plan

Next, in this order:

1. `dispatch`: a request executed on one preselected path, with a receipt before
   and after; retries of a started or committed request, over a receipt port that
   two callers may share.
2. Copies of skills in `InstallTx` (`transaction.py` 153-430), the record's key,
   `doctor` under the shared lock.
3. `zvec` and `memory-build` generations: a pointer switched against readers;
   the telemetry log with a torn tail.
4. Static verification and the report of `security_review.py`; scanner checks of a
   closing.
5. Stage inheritance, freeze records and the close-out of `doc-gate`; `spec-migrate`.

Theorems to prove next: `UserPartKept`, step by step over sequences.

## Not modelled

Left out for good: wording, rendering, parsing of Markdown and JSON, scanners,
browsers and other external hosts, Git itself, and the Windows file primitives,
whose effect is assumed to be that of the POSIX ones. Policy, routing, planning
facts, context selection and codebase queries are read-only or pure decisions over
Git facts with no state between two steps; a model of them would repeat the code.
The components under Plan are left for later, not because they could not be
modelled.
