--------------------------- MODULE PlanLifecycle ---------------------------
(* The plan commands of src/aek/application/planning.py and the gate commands *)
(* of src/doc-gate, composed on top of PlanStore: what each command asks the  *)
(* store to change, given the snapshot it holds.                             *)
(*                                                                           *)
(* A plan document is identified by its plan; a credential by the plan it     *)
(* freezes and the second it was written in (frozen_at); a binding by the     *)
(* credential digest, which covers the plan and not the second, and by the    *)
(* gate record it binds; a gate record by the plan it was evaluated under.    *)
EXTENDS PlanStore

CONSTANTS Plans,            \* the plans Git facts can produce
          NoPlan,           \* a gate evaluated without dynamic state
          MaxSecond,        \* bound: the clock frozen_at reads
          DistinctSeconds   \* no two freezes happen within one second

PlanDoc(x)       == [plan |-> x]
CredentialDoc(x, s) == [freezes |-> x, at |-> s]
BindingDoc(x, g) == [binds |-> x, gate |-> g]
GateDoc(x)       == [basis |-> x]

GateDocs == {GateDoc(x) : x \in Plans \cup {NoPlan}}

Docs == {PlanDoc(x) : x \in Plans}
        \cup {CredentialDoc(x, s) : x \in Plans, s \in 0..MaxSecond}
        \cup {BindingDoc(x, g) : x \in Plans, g \in GateDocs}
        \cup GateDocs

ASSUME DocsAssumption == Docs \subseteq Content
ASSUME SecondsAssumption == MaxSecond \in Nat /\ DistinctSeconds \in BOOLEAN

VARIABLES now,     \* the clock, in seconds
          prior    \* what a binding command read before its last snapshot

lvars == <<vars, now, prior>>

NoPrior == [plan |-> NoPlan, gate |-> Absent]

(* A command other than the binding one has read nothing beforehand. *)
ForgetPrior(p) == prior' = [prior EXCEPT ![p] = NoPrior]

(* Everything but an empty directory is reached by calls. *)
LInit == /\ Init /\ now = 0 /\ prior = [p \in Proc |-> NoPrior]
         /\ disk = [c \in Consumers |-> Absent]

-----------------------------------------------------------------------------
(* What a snapshot means: read_dynamic_state. *)

PlanIn(v)      == {x \in Plans : v[Plan] = PlanDoc(x)}
FrozenFor(v)   == {x \in Plans : \E s \in 0..MaxSecond : v[Credential] = CredentialDoc(x, s)}
BoundFor(v, b) == {x \in Plans : \E g \in GateDocs : v[b] = BindingDoc(x, g)}
Bound(v)       == {b \in Bindings : v[b] # Absent}

(* Not one of the INVALID outcomes: no orphan credential or binding, a        *)
(* credential for this very plan, bindings under this very credential.        *)
Coherent(v) ==
    /\ v[Plan] = Absent => v[Credential] = Absent
    /\ v[Credential] = Absent => Bound(v) = {}
    /\ v[Credential] # Absent => FrozenFor(v) = PlanIn(v)
    /\ \A b \in Bound(v) : BoundFor(v, b) = FrozenFor(v)

Frozen(v) == Coherent(v) /\ v[Credential] # Absent

(* Mutant: bindings outlive the credential. *)
StaleCredential(v) == {n \in {Credential} : v[n] # Absent}

Stale(v) == {n \in {Credential} \cup Bindings : v[n] # Absent}

Replace(n, doc, gone) == [m \in {n} \cup gone |-> IF m = n THEN doc ELSE Absent]

-----------------------------------------------------------------------------
(* The commands.  Each starts from the snapshot the process holds. *)

(* prepare_git_current_plan: a different plan discards every later sidecar. *)
Prepare(p, x) ==
    /\ seen[p] # NoView
    /\ seen[p][Plan] # PlanDoc(x)
    /\ Publish(p, Replace(Plan, PlanDoc(x), Stale(seen[p])))
    /\ ForgetPrior(p)
    /\ UNCHANGED now

(* freeze_git_current_plan: a credential of this plan is kept as it is; a new *)
(* one discards the bindings made under the old.                             *)
Freeze(p, x) ==
    /\ seen[p] # NoView
    /\ x \in PlanIn(seen[p])
    /\ x \notin FrozenFor(seen[p])
    /\ Publish(p, Replace(Credential, CredentialDoc(x, now), Bound(seen[p])))
    /\ now' \in (IF DistinctSeconds THEN {now + 1} ELSE {now, now + 1}) \cap 0..MaxSecond
    /\ ForgetPrior(p)

(* bind_frozen_stage, first half: the plan is read frozen, the gate record is *)
(* hashed outside any lock, and a new snapshot is asked for.                 *)
ReadGate(p, x, g) ==
    /\ seen[p] # NoView
    /\ Frozen(seen[p]) /\ x \in PlanIn(seen[p])
    /\ disk[g] \in GateDocs
    /\ Read(p, "snapshot")
    /\ prior' = [prior EXCEPT ![p] = [plan |-> x, gate |-> disk[g]]]
    /\ UNCHANGED now

(* ... second half: that snapshot must still hold that plan and credential.  *)
BindStage(p, b) ==
    /\ seen[p] # NoView /\ prior[p] # NoPrior
    /\ LET doc == BindingDoc(prior[p].plan, prior[p].gate)
       IN /\ prior[p].plan \in PlanIn(seen[p]) \cap FrozenFor(seen[p])
          /\ seen[p][b] # doc
          /\ Publish(p, Replace(b, doc, {}))
    /\ ForgetPrior(p)
    /\ UNCHANGED now

(* rollback_dynamic_state *)
Rollback(p) == RollbackAll(p) /\ ForgetPrior(p) /\ UNCHANGED now

(* cmd_gate, cmd_freeze: the record is written only without any dynamic     *)
(* state or under a frozen plan, both read in the lock epoch of the write.    *)
RecordGate(p, g) ==
    /\ pc[p] = "gating"
    /\ \/ \A n \in Mutable : seen[p][n] = Absent
       \/ Frozen(seen[p])
    /\ \E x \in Plans \cup {NoPlan} :
          /\ IF seen[p][Plan] = Absent THEN x = NoPlan ELSE x \in PlanIn(seen[p])
          /\ GateWrite(p, g, GateDoc(x))
    /\ UNCHANGED <<now, prior>>

LCall(p) == \/ Read(p, "snapshot") /\ UNCHANGED <<now, prior>>
            \/ Read(p, "gate") /\ ForgetPrior(p) /\ UNCHANGED now
            \/ \E x \in Plans : Prepare(p, x) \/ Freeze(p, x)
            \/ \E x \in Plans : \E g \in Gates : ReadGate(p, x, g)
            \/ \E b \in Bindings : BindStage(p, b)
            \/ Rollback(p)

(* The store's own steps; a gate record is written only by RecordGate. *)
LHeld(p) == /\ \/ Recovery(p) \/ Replay(p) \/ Body(p)
               \/ GateOpen(p) \/ GateRefuse(p) \/ GateClose(p)
            /\ UNCHANGED <<now, prior>>

(* A crash loses what the process had read. *)
LAbort(p) == Abort(p) /\ ForgetPrior(p) /\ UNCHANGED now

LNext == \/ \E p \in Proc : \/ LCall(p)
                            \/ Acquire(p) /\ UNCHANGED <<now, prior>>
                            \/ LHeld(p)
                            \/ \E g \in Gates : RecordGate(p, g)
                            \/ LAbort(p)
         \/ Tidy /\ UNCHANGED <<now, prior>>

LSpec == LInit /\ [][LNext]_lvars

-----------------------------------------------------------------------------
(* Properties. *)

LTypeOK == /\ TypeOK
           /\ now \in 0..MaxSecond
           /\ prior \in [Proc -> [plan : Plans \cup {NoPlan}, gate : GateDocs \cup {Absent}]]

(* However prepares, freezes, bindings, rollbacks, gates, crashes and         *)
(* recoveries interleave, a reader never meets an orphan credential, a        *)
(* credential of another plan, or a binding that outlived its credential.     *)
NeverInvalid == Coherent(Files)

(* A gate record is only ever written under the plan that is in force at that *)
(* moment, by nobody's older reading of it.                                  *)
GateUnderCurrentPlan ==
    [][\A g \in Gates : disk'[g] # disk[g]
          => disk'[g] = GateDoc(CHOOSE x \in Plans \cup {NoPlan} :
                IF Files[Plan] = Absent THEN x = NoPlan ELSE Files[Plan] = PlanDoc(x))]_lvars

(* rollback_dynamic_state "removes all dynamic state": when a rollback        *)
(* transaction commits, no sidecar is left.                                  *)
RollbackRemovesAll ==
    [][\A p \in Proc : CommitDone(p) /\ kind[p] = "rollback-all"
          => \A n \in Mutable : disk[n] = Absent]_lvars
=============================================================================
