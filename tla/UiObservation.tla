---------------------------- MODULE UiObservation ----------------------------
(* What a model or a person saw in a screenshot, kept for reuse: a           *)
(* preparation fixes the image, the extraction contract and the revision of  *)
(* the bindings; a record publishes an immutable observation and then binds  *)
(* it; a query serves bound observations of screenshots judged to fit.  A    *)
(* file named by its digest is its content, so a digest is the content here. *)
EXTENDS UiMaterial, FiniteSets

CONSTANTS Region,    \* areas of a screenshot
          Contract,  \* versions of the extraction prompt
          MaxKept    \* bound: preparations and observations each

VARIABLES contract,   \* the version installed now
          snapshots,  \* images copied into the store
          prepared,   \* published preparations
          store,      \* published observations
          bindings,   \* the observation each screenshot is bound to, or None
          displaced   \* history: observations that another took the place of

ovars == <<contract, snapshots, prepared, store, bindings, displaced>>
vars == <<mvars, ovars>>

Init == /\ MInit /\ contract \in Contract
        /\ snapshots = {} /\ prepared = {} /\ store = {} /\ displaced = {}
        /\ bindings = [e \in Evidence |-> None]

Baseline(e, regions) == [of |-> e, image |-> index[e].content, contract |-> contract,
                         regions |-> regions, from |-> index, revision |-> bindings]

CanReuse(o, e, regions) == /\ o # None /\ o \in store
                           /\ o.prep.of = e /\ o.prep.image = index[e].content
                           /\ o.prep.contract = contract /\ regions \subseteq o.observed

Hold(command) == cmd' = command
Release == cmd' = None

(* The last look before anything is told: index and contract as first read.  *)
Unmoved(i, c) == index = i /\ contract = c

(* observation-prepare finds a bound observation that covers what is asked.  *)
PrepareReuse(e, regions) ==
  /\ Idle /\ Current(index, e) /\ CanReuse(bindings[e], e, regions)
  /\ Take([op |-> "reuse", obs |-> bindings[e], from |-> index, contract |-> contract])
  /\ UNCHANGED <<image, index, view, looked, edits, ovars>>

Reuse ==
  /\ cmd # None /\ cmd.op = "reuse"
  /\ LET e == cmd.obs.prep.of
     IN  IF Current(cmd.from, e) /\ Unmoved(cmd.from, cmd.contract) /\ bindings[e] = cmd.obs
         THEN said' = [kind |-> "reused", about |-> {cmd.obs}] ELSE UNCHANGED said
  /\ Release /\ UNCHANGED <<image, index, view, looked, edits, ovars>>

(* Otherwise it copies the image, then publishes the preparation.            *)
Prepare(e, regions) ==
  /\ Idle /\ Current(index, e) /\ regions # {} /\ ~CanReuse(bindings[e], e, regions)
  /\ Cardinality(prepared) < MaxKept
  /\ Take([op |-> "prepare", prep |-> Baseline(e, regions)])
  /\ UNCHANGED <<image, index, view, looked, edits, ovars>>

Snapshot ==
  /\ cmd # None /\ cmd.op = "prepare"
  /\ IF image[cmd.prep.of] = cmd.prep.image
     THEN /\ snapshots' = snapshots \cup {cmd.prep.image}
          /\ Hold([cmd EXCEPT !.op = "publish"])
     ELSE Release /\ UNCHANGED snapshots
  /\ UNCHANGED <<image, index, view, looked, said, edits, contract, prepared, store, bindings, displaced>>

PublishPreparation ==
  /\ cmd # None /\ cmd.op = "publish"
  /\ IF Current(cmd.prep.from, cmd.prep.of) /\ index = cmd.prep.from
     THEN prepared' = prepared \cup {cmd.prep} ELSE UNCHANGED prepared
  /\ Release
  /\ UNCHANGED <<image, index, view, looked, said, edits, contract, snapshots, store, bindings, displaced>>

(* observation-record: nothing but the revision may differ from a preparation *)
(* made now, and what was seen is part of the observation with the           *)
(* preparation it answers.                                                   *)
Observation(p, observed) == [prep |-> p, observed |-> observed]
Matches(p) == [Baseline(p.of, p.regions) EXCEPT !.revision = p.revision] = p
Record(p, observed) ==
  /\ Idle /\ Current(index, p.of) /\ observed \subseteq p.regions /\ Matches(p)
  /\ p.image \in snapshots
  /\ Cardinality(store \cup {Observation(p, observed)}) <= MaxKept
  /\ Take([op |-> "record", obs |-> Observation(p, observed)])
  /\ UNCHANGED <<image, index, view, looked, edits, ovars>>

PublishLate ==  \* mutant: bound first, published afterwards
  /\ cmd # None /\ cmd.op = "record"
  /\ bindings' = [bindings EXCEPT ![cmd.obs.prep.of] = cmd.obs]
  /\ Hold([cmd EXCEPT !.op = "bind"])
  /\ UNCHANGED <<image, index, view, looked, said, edits, contract, snapshots, prepared, store, displaced>>
PublishObservation ==
  /\ cmd # None /\ cmd.op = "record"
  /\ store' = store \cup {cmd.obs}
  /\ Hold([cmd EXCEPT !.op = "bind"])
  /\ UNCHANGED <<image, index, view, looked, said, edits, contract, snapshots, prepared, bindings, displaced>>

(* bind: exact repetition, or the revision of the preparation is the current. *)
Fences(p) == /\ Current(p.from, p.of) /\ Unmoved(p.from, p.contract) /\ p.image \in snapshots
BindableAny(o) == o \in store  \* mutant: no comparison of the revision
Bindable(o) == /\ bindings[o.prep.of] # o => bindings = o.prep.revision
               /\ o \in store
Bind ==
  /\ cmd # None /\ cmd.op = "bind"
  /\ LET o == cmd.obs
         old == bindings[o.prep.of]
     IN  IF Fences(o.prep) /\ Bindable(o)
         THEN /\ bindings' = [bindings EXCEPT ![o.prep.of] = o]
              /\ displaced' = displaced \cup ({old} \ {None, o})
         ELSE UNCHANGED <<bindings, displaced>>
  /\ Release
  /\ UNCHANGED <<image, index, view, looked, said, edits, contract, snapshots, prepared, store>>

(* observation-query in one context: what may be served as first read.       *)
Loadable(e, c) == /\ Fits(index[e], {c}) /\ bindings[e] # None
                  /\ CanReuse(bindings[e], e, {}) /\ Current(index, e)
Query(c) ==
  /\ Idle
  /\ Take([op |-> "query", context |-> c, from |-> index, contract |-> contract,
           loaded |-> {bindings[e] : e \in {x \in Evidence : Loadable(x, c)}}])
  /\ UNCHANGED <<image, index, view, looked, edits, ovars>>

(* Before the answer everything it rests on is read again.                   *)
SameState(e, c) == /\ index[e].content = cmd.from[e].content
                   /\ index[e].judged[c] = cmd.from[e].judged[c]
StillGoodAsLoaded(o, c) == o \in store  \* mutant: trusts what was read first
StillGood(o, c) == /\ o \in store /\ SameState(o.prep.of, c) /\ Current(cmd.from, o.prep.of)
                   /\ bindings[o.prep.of] = o /\ contract = cmd.contract
Answer ==
  /\ cmd # None /\ cmd.op = "query"
  /\ said' = [kind |-> "hits", about |-> {o \in cmd.loaded : StillGood(o, cmd.context)} \X {cmd.context}]
  /\ Release /\ UNCHANGED <<image, index, view, looked, edits, ovars>>

(* Another version of the kit brings another extraction prompt.              *)
Upgrade == /\ Edit /\ \E c \in Contract \ {contract} : contract' = c
           /\ UNCHANGED <<image, index, cmd, view, looked, said, snapshots, prepared, store, bindings, displaced>>

Next == \/ MNext /\ UNCHANGED ovars
        \/ \E e \in Evidence, rs \in (SUBSET Region) \ {{}} : PrepareReuse(e, rs) \/ Prepare(e, rs)
        \/ Reuse \/ Snapshot \/ PublishPreparation
        \/ \E p \in prepared, rs \in SUBSET Region : Record(p, rs)
        \/ PublishObservation \/ Bind
        \/ \E c \in Context : Query(c)
        \/ Answer \/ Upgrade

Spec == Init /\ [][Next]_vars

(* Every judgement in the index is about the bytes the index records for its *)
(* screenshot, and those are the bytes the reviewer had open when giving it: *)
(* an image replaced, validated and judged in any order, by several callers, *)
(* never carries a judgement over to other bytes (validate's reset, the      *)
(* digests that record-review compares and rechecks).                        *)
JudgedAsLooked ==
  index # None => \A e \in Evidence, c \in Context :
    index[e].judged[c] # None =>
      /\ index[e].judged[c].of = index[e].content
      /\ looked[e][c] = index[e].content

(* A bound observation is published, answers a published preparation, and    *)
(* the image it was made from is kept, whichever command was killed between  *)
(* the copy, the publication and the replacement of the bindings.            *)
BoundHasEvidence ==
  \A e \in Evidence : LET o == bindings[e] IN
    o # None => /\ o \in store /\ o.prep \in prepared
                /\ o.prep.image \in snapshots /\ o.prep.of = e

(* An observation another one took the place of never comes back: a late     *)
(* retry of its record is refused, although the bindings are compared by     *)
(* digest only (observation-record, ObservationStore.bind).                  *)
DisplacedForGood == \A e \in Evidence : bindings[e] \notin displaced

(* What a command tells at its end was true of the files when it ended.  A   *)
(* query serves only bound observations of images that are in place, were    *)
(* made under the installed contract, and were judged to fit by somebody who *)
(* looked at these bytes; a screenshot reported ready was too; a reused      *)
(* observation is of the image in place.                                     *)
Vouched(e, c, bytes) == image[e] = bytes /\ looked'[e][c] = bytes
Truthful ==
  /\ said'.kind = "hits" /\ said # said' =>
       \A h \in said'.about : LET o == h[1] IN
         /\ Vouched(o.prep.of, h[2], o.prep.image)
         /\ bindings[o.prep.of] = o /\ o.prep.contract = contract
  /\ said'.kind = "reused" /\ said # said' =>
       \A o \in said'.about : image[o.prep.of] = o.prep.image /\ o.prep.contract = contract
  /\ said'.kind = "ready" /\ said # said' =>
       \A h \in said'.about : Vouched(h[1], h[2], index'[h[1]].content)

ServedWasJudged == [][Truthful]_vars
=============================================================================
