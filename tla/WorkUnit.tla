------------------------------ MODULE WorkUnit ------------------------------
(* The recoverable work unit of src/aek/core/work_unit.py, its service and    *)
(* its store: one state.json that several writers advance by compare-and-swap *)
(* under a lock, and the decision what a resumed step may do.                *)
(*                                                                           *)
(* A snapshot digest is modelled by the snapshot.  Epoch and events only      *)
(* grow, so no earlier snapshot comes back, and a call that loads, computes   *)
(* and swaps is one step: it either finds the snapshot it expects at the swap *)
(* or changes nothing.                                                       *)
EXTENDS Integers, FiniteSets

CONSTANTS Writers, Step, Identities,
          Receipts, NoReceipt, NoUnit,
          Events,         \* what identifies a transition, chosen by callers
          MaxEpoch        \* bound: takeovers

VARIABLES unit,           \* state.json, or NoUnit
          begun           \* history: the steps that were ever IN_PROGRESS
                          \* with a receipt of what they set going

wvars == <<unit, begun>>

States == {"NOT_STARTED", "IN_PROGRESS", "COMPLETED", "FAILED_RETRYABLE",
           "NEEDS_HUMAN", "STALE", "SKIPPED"}

(* _TRANSITIONS *)
Legal == [NOT_STARTED      |-> {"IN_PROGRESS", "SKIPPED", "NEEDS_HUMAN"},
          IN_PROGRESS      |-> {"COMPLETED", "FAILED_RETRYABLE", "NEEDS_HUMAN", "STALE"},
          FAILED_RETRYABLE |-> {"IN_PROGRESS", "NEEDS_HUMAN", "STALE"},
          COMPLETED        |-> {"STALE"},
          STALE            |-> {"IN_PROGRESS", "NEEDS_HUMAN", "SKIPPED"},
          SKIPPED          |-> {"STALE"},
          NEEDS_HUMAN      |-> {}]

Units == [writer : Writers, epoch : 1..MaxEpoch, identity : Identities,
          idempotent : [Step -> BOOLEAN], state : [Step -> States],
          receipt : [Step -> Receipts \cup {NoReceipt}], events : SUBSET Events]

ASSUME UnitAssumption == /\ MaxEpoch \in Nat \ {0}
                         /\ NoUnit \notin Units /\ NoReceipt \notin Receipts

WInit == unit = NoUnit /\ begun = {}

-----------------------------------------------------------------------------
(* transition_step: a repeated event changes nothing. *)

(* Mutant: a transition without a receipt forgets the one the step had. *)
ReceiptGiven(u, st, ref) == ref

EffectiveReceipt(u, st, ref) == IF ref = NoReceipt THEN u.receipt[st] ELSE ref

MayMove(u, st, to, ref) ==
    /\ to \in Legal[u.state[st]]
    /\ to = "COMPLETED" /\ ~u.idempotent[st] => EffectiveReceipt(u, st, ref) # NoReceipt

Moved(u, st, to, e, ref) ==
    IF e \in u.events THEN u
    ELSE [u EXCEPT !.state[st] = to,
                   !.receipt[st] = EffectiveReceipt(u, st, ref),
                   !.events = @ \cup {e}]

(* The store's compare-and-swap on the snapshot the caller expects. *)
Swap(expected, new) ==
    /\ unit = expected
    /\ unit' = new
    /\ begun' = begun \cup {st \in Step : /\ new.state[st] = "IN_PROGRESS"
                                          /\ new.receipt[st] # NoReceipt}

(* Mutant: epochs are counted from zero. *)
OpenAtZero(w, i, idem) ==
    /\ unit = NoUnit
    /\ Swap(NoUnit, [writer |-> w, epoch |-> 0, identity |-> i, idempotent |-> idem,
                     state |-> [st \in Step |-> "NOT_STARTED"],
                     receipt |-> [st \in Step |-> NoReceipt], events |-> {}])

(* open_or_create without a carrier; an existing unit is returned as it is. *)
Open(w, i, idem) ==
    /\ unit = NoUnit
    /\ Swap(NoUnit, [writer |-> w, epoch |-> 1, identity |-> i, idempotent |-> idem,
                     state |-> [st \in Step |-> "NOT_STARTED"],
                     receipt |-> [st \in Step |-> NoReceipt], events |-> {}])

(* takeover: the unit keeps the identity it was created for. *)
Takeover(w) ==
    /\ unit # NoUnit
    /\ unit.epoch < MaxEpoch
    /\ Swap(unit, [unit EXCEPT !.writer = w, !.epoch = @ + 1])

(* transition, by whoever is the writer. *)
Advance(st, to, e, ref) ==
    /\ unit # NoUnit
    /\ e \notin unit.events
    /\ MayMove(unit, st, to, ref)
    /\ Swap(unit, Moved(unit, st, to, e, ref))

WNext == \/ \E w \in Writers, i \in Identities, idem \in [Step -> BOOLEAN] : Open(w, i, idem)
         \/ \E w \in Writers : Takeover(w)
         \/ \E st \in Step, to \in States, e \in Events, ref \in Receipts \cup {NoReceipt} :
                Advance(st, to, e, ref)
WSpec == WInit /\ [][WNext]_wvars

-----------------------------------------------------------------------------
(* resume_work_unit: what a session that finds the unit may do with a step,    *)
(* given its identity now and what is known of the step's receipt.           *)

ReceiptStates == {"unknown", "STARTED", "COMMITTED"}

(* An external action that may have happened. *)
PossiblyDone(u, st) ==
    /\ ~u.idempotent[st]
    /\ u.receipt[st] # NoReceipt \/ u.state[st] \notin {"NOT_STARTED", "SKIPPED"}

Decide(u, st, now, known) ==
    IF u.state[st] = "NEEDS_HUMAN" THEN "human"
    ELSE IF PossiblyDone(u, st)
         THEN IF known = "COMMITTED" /\ now = u.identity THEN "reuse" ELSE "human"
    ELSE IF now = u.identity /\ u.state[st] \in {"COMPLETED", "SKIPPED"} THEN "reuse"
    ELSE "recompute"

-----------------------------------------------------------------------------
(* Properties. *)

WTypeOK == unit \in Units \cup {NoUnit} /\ begun \subseteq Step

(* A step that must not be repeated is never offered for a second run once it *)
(* was begun under a receipt, and what it did is reused only on proof that it *)
(* was committed for the same identity: whatever transitions, failures,       *)
(* invalidations and takeovers came in between.                              *)
BegunNeedsProof ==
    unit # NoUnit =>
        \A st \in begun : \A now \in Identities : \A known \in ReceiptStates :
            ~unit.idempotent[st] =>
                /\ Decide(unit, st, now, known) # "recompute"
                /\ Decide(unit, st, now, known) = "reuse"
                       => known = "COMMITTED" /\ now = unit.identity
=============================================================================
