---------------------------- MODULE ControlledRun ----------------------------
(* LocalSecurityWorkflow.execute of src/aek/application/security_workflow.py:  *)
(* one scanner run as a step of a work unit.  The unit says that the run       *)
(* started, the evidence index keeps what the process delivered, the security *)
(* record adopts it, and the unit says that it is committed: four durable      *)
(* writes by a session that can stop, or lose a race, before any of them.     *)
(*                                                                           *)
(* A session whose identity is not the record's gets nowhere, so all sessions *)
(* here hold the record's; plans are plans for it.  The unit may have been    *)
(* opened for another.                                                       *)
EXTENDS WorkUnit

CONSTANTS Sessions, Plans,
          Results,       \* what a process that ran can deliver
          Blocked,       \* what the adapter reports when it refuses
          ActsFor,       \* [Sessions -> Writers], the author a session acts for
          Recorded,      \* the identity the record and the sessions have
          None,
          MaxRevision    \* bound: record revisions written by other operations

VARIABLES runRecord,     \* record.json: its revision and the runs it adopted
          sources,       \* the evidence index, by reference
          attempts,      \* history: processes started, by step
          pc, job,       \* where each session is; the step and plan it executes
          work, seen,    \* the unit and the record it read
          result,        \* what its process delivered
          told           \* the outcome it was answered

xvars == <<runRecord, sources, attempts, pc, job, work, seen, result, told>>
rvars == <<wvars, xvars>>

Job     == [step : Step, plan : Plans]
Outcome == [plan : Plans, result : Results \cup {Blocked}]

Ref(j)       == <<j.step, j.plan>>
Started(j)   == <<"started", j.step, j.plan>>
Committed(j) == <<"committed", j.step, j.plan>>
Run(j, r)    == [step |-> j.step, plan |-> j.plan, result |-> r]

(* What an instance must satisfy. *)
ASSUME RunAssumption ==
    /\ {Ref(j) : j \in Job} \subseteq Receipts
    /\ {Started(j) : j \in Job} \cup {Committed(j) : j \in Job} \subseteq Events
    /\ Recorded \in Identities
    /\ ActsFor \in [Sessions -> Writers]
    /\ MaxRevision \in Nat
    /\ Blocked \notin Results /\ None \notin Results \cup {Blocked} \cup Outcome

(* Events and receipts that do not come from an execution. *)
ForeignEvents   == Events \ ({Started(j) : j \in Job} \cup {Committed(j) : j \in Job})
Places == {"idle", "loaded", "resume", "fresh", "started", "running",
           "observed", "recorded"}

XInit == /\ runRecord = [revision |-> 1, runs |-> {}]
         /\ sources = [x \in {Ref(j) : j \in Job} |-> None]
         /\ attempts = [st \in Step |-> 0]
         /\ pc = [s \in Sessions |-> "idle"]
         /\ job = [s \in Sessions |-> None]
         /\ work = [s \in Sessions |-> NoUnit]
         /\ seen = [s \in Sessions |-> None]
         /\ result = [s \in Sessions |-> None]
         /\ told = [s \in Sessions |-> None]

RInit == WInit /\ XInit

Goto(s, place) == pc' = [pc EXCEPT ![s] = place]

(* The session answers, or stops: what it held is gone. *)
Done(s, answer) == /\ Goto(s, "idle")
                   /\ job' = [job EXCEPT ![s] = None]
                   /\ work' = [work EXCEPT ![s] = NoUnit]
                   /\ seen' = [seen EXCEPT ![s] = None]
                   /\ result' = [result EXCEPT ![s] = None]
                   /\ told' = [told EXCEPT ![s] = answer]

-----------------------------------------------------------------------------

LoadWork(s, j) == /\ pc[s] = "idle"
                  /\ unit # NoUnit
                  /\ unit.writer = ActsFor[s]
                  /\ Goto(s, "loaded")
                  /\ job' = [job EXCEPT ![s] = j]
                  /\ work' = [work EXCEPT ![s] = unit]
                  /\ told' = [told EXCEPT ![s] = None]
                  /\ UNCHANGED <<wvars, runRecord, sources, attempts, seen, result>>

(* A takeover: the author is not the writer any more. *)
NotTheWriter(s) == /\ pc[s] = "idle"
                   /\ unit # NoUnit
                   /\ unit.writer # ActsFor[s]
                   /\ Done(s, None)
                   /\ UNCHANGED <<wvars, runRecord, sources, attempts>>

(* Mutant: a step that failed or went stale is taken for one never started. *)
RetriesStale(u, st) == u.state[st] \in {"NOT_STARTED", "STALE", "FAILED_RETRYABLE"}

(* Only a step that nobody ever started takes the path to a process. *)
NeverStarted(u, st) == u.state[st] = "NOT_STARTED" /\ u.receipt[st] = NoReceipt

LoadRecord(s) == /\ pc[s] = "loaded"
                 /\ seen' = [seen EXCEPT ![s] = runRecord]
                 /\ Goto(s, IF NeverStarted(work[s], job[s].step) THEN "fresh" ELSE "resume")
                 /\ UNCHANGED <<wvars, runRecord, sources, attempts, job, work, result, told>>

(* proof(ref): the index holds what this plan's process delivered, and the    *)
(* record the session read has adopted just that.                            *)
Provable(s, ref) == /\ ref = Ref(job[s])
                    /\ sources[ref] # None
                    /\ Run(job[s], sources[ref]) \in seen[s].runs

(* receipt_state: the observation may also be there and not be attested now.  *)
(* Whether the step is complete is what the session read first.               *)
KnownOf(s, ref) ==
    {"unknown"} \cup
    IF Provable(s, ref)
    THEN {IF work[s].state[job[s].step] = "COMPLETED" THEN "COMMITTED" ELSE "STARTED"}
    ELSE {}

(* A step that was started: reuse what it delivered, never run it again.     *)
Reuse(s) ==
    LET st == job[s].step
    IN /\ pc[s] = "resume"
       /\ \E known \in KnownOf(s, unit.receipt[st]) :
             Decide(unit, st, Recorded, known) = "reuse"
       /\ Provable(s, work[s].receipt[st])
       /\ Done(s, <<st, [plan |-> job[s].plan, result |-> sources[Ref(job[s])]]>>)
       /\ UNCHANGED <<wvars, runRecord, sources, attempts>>

Start(s) ==
    LET new == Moved(work[s], job[s].step, "IN_PROGRESS", Started(job[s]), Ref(job[s]))
    IN /\ pc[s] = "fresh"
       /\ Swap(work[s], new)
       /\ work' = [work EXCEPT ![s] = new]
       /\ Goto(s, "started")
       /\ UNCHANGED <<runRecord, sources, attempts, job, seen, result, told>>

Launch(s) == /\ pc[s] = "started"
             /\ attempts' = [attempts EXCEPT ![job[s].step] = @ + 1]
             /\ Goto(s, "running")
             /\ UNCHANGED <<wvars, runRecord, sources, job, work, seen, result, told>>

(* The process ends with a report, or the adapter refuses to start it or to   *)
(* take what it left.  The host attests that, and the index keeps it; a       *)
(* different body under the same reference is refused.                       *)
Observe(s, r) == /\ \/ pc[s] = "running"
                    \/ pc[s] = "started" /\ r = Blocked
                 /\ sources[Ref(job[s])] = None
                 /\ sources' = [sources EXCEPT ![Ref(job[s])] = r]
                 /\ result' = [result EXCEPT ![s] = r]
                 /\ Goto(s, "observed")
                 /\ UNCHANGED <<wvars, runRecord, attempts, job, work, seen, told>>

(* Mutant: a record that moved on is no reason to stop. *)
AdoptOrNot(s) ==
    /\ pc[s] = "observed"
    /\ runRecord' = IF runRecord # seen[s] THEN runRecord
                    ELSE [revision |-> runRecord.revision + 1,
                          runs |-> runRecord.runs \cup {Run(job[s], result[s])}]
    /\ Goto(s, "recorded")
    /\ UNCHANGED <<wvars, sources, attempts, job, work, seen, result, told>>

(* The record adopts the run, if it is still the revision the session read.  *)
Adopt(s) == /\ pc[s] = "observed"
            /\ runRecord = seen[s]
            /\ runRecord' = [revision |-> runRecord.revision + 1,
                             runs |-> runRecord.runs \cup {Run(job[s], result[s])}]
            /\ Goto(s, "recorded")
            /\ UNCHANGED <<wvars, sources, attempts, job, work, seen, result, told>>

Complete(s) ==
    LET st == job[s].step
    IN /\ pc[s] = "recorded"
       /\ MayMove(work[s], st, "COMPLETED", Ref(job[s]))
       /\ Swap(work[s], Moved(work[s], st, "COMPLETED", Committed(job[s]), Ref(job[s])))
       /\ Done(s, <<st, [plan |-> job[s].plan, result |-> result[s]]>>)
       /\ UNCHANGED <<runRecord, sources, attempts>>

(* A refusal, a conflict, an answer that asks for a person, or a kill.       *)
GiveUp(s) == /\ pc[s] # "idle"
             /\ Done(s, None)
             /\ UNCHANGED <<wvars, runRecord, sources, attempts>>

(* The other operations of the workflow write the record too. *)
Revise == /\ runRecord.revision < MaxRevision
          /\ runRecord' = [runRecord EXCEPT !.revision = @ + 1]
          /\ UNCHANGED <<wvars, sources, attempts, pc, job, work, seen, result, told>>

-----------------------------------------------------------------------------

Execute(s) == \/ \E j \in Job : LoadWork(s, j)
              \/ NotTheWriter(s) \/ LoadRecord(s) \/ Reuse(s) \/ Start(s) \/ Launch(s)
              \/ \E r \in Results \cup {Blocked} : Observe(s, r)
              \/ Adopt(s) \/ Complete(s) \/ GiveUp(s)

(* Somebody else opens, takes over or advances the unit. *)
Others == /\ \/ \E w \in Writers, i \in Identities, idem \in [Step -> BOOLEAN] : Open(w, i, idem)
             \/ \E w \in Writers : Takeover(w)
             \/ \E st \in Step, to \in States, e \in ForeignEvents, ref \in Receipts \cup {NoReceipt} :
                    Advance(st, to, e, ref)
          /\ UNCHANGED xvars

RNext == Others \/ Revise \/ \E s \in Sessions : Execute(s)
RSpec == RInit /\ [][RNext]_rvars

-----------------------------------------------------------------------------
(* Properties. *)

RTypeOK == /\ WTypeOK
           /\ runRecord.revision \in Nat /\ runRecord.runs \subseteq
                  [step : Step, plan : Plans, result : Results \cup {Blocked}]
           /\ sources \in [Step \X Plans -> Results \cup {Blocked, None}]
           /\ attempts \in [Step -> Nat]
           /\ pc \in [Sessions -> Places]
           /\ job \in [Sessions -> Job \cup {None}]
           /\ work \in [Sessions -> Units \cup {NoUnit}]
           /\ result \in [Sessions -> Results \cup {Blocked, None}]
           /\ told \in [Sessions -> (Step \X Outcome) \cup {None}]

(* The four writes reach three files in one order, whoever is killed, loses a *)
(* comparison or is taken over: a unit that says committed has its run in the *)
(* record, a run in the record has its evidence, evidence has a unit that     *)
(* says started.                                                             *)
DurableInOrder ==
    \A j \in Job :
        /\ unit # NoUnit /\ Committed(j) \in unit.events
               => sources[Ref(j)] # None /\ Run(j, sources[Ref(j)]) \in runRecord.runs
        /\ \A r \in Results \cup {Blocked} : Run(j, r) \in runRecord.runs => sources[Ref(j)] = r
        /\ sources[Ref(j)] # None => unit # NoUnit /\ Started(j) \in unit.events

(* However sessions, takeovers, other writers, conflicts and kills interleave, *)
(* a step's process is started at most once, the record adopts one outcome of *)
(* it, and an answer is that outcome.                                        *)
RunsOf(st) == {x \in runRecord.runs : x.step = st}

Adopted == [st \in Step |->
               IF RunsOf(st) = {} THEN None
               ELSE LET x == CHOOSE y \in RunsOf(st) : TRUE
                    IN [plan |-> x.plan, result |-> x.result]]

One == INSTANCE OneOutcome WITH outcome <- Adopted,
                                Ran <- {o \in Outcome : o.result # Blocked}

OutcomeSpec == One!OSpec
=============================================================================
