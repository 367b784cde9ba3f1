------------------------- MODULE UiObservationProofs -------------------------
(* Screenshots and observations for any number of screenshots, contexts,      *)
(* pictures, contracts, edits and kills: what a judgement is about, what a    *)
(* binding rests on, and what a command may tell.                            *)
EXTENDS UiObservation, TLAPS

-----------------------------------------------------------------------------
(* The material: types, and why a judgement stays with its bytes.  A command  *)
(* that writes carries an index that is coherent with the looks it would      *)
(* record, and it is the only thing that changes the two, together.          *)

Contents == Picture \cup {None}
Bytes == Contents \cup {Blank}
Row == [content : Contents, judged : [Context -> Judgement \cup {None}], refs : SUBSET Prototype]
Rows == [Evidence -> Row]
Looks == [Evidence -> [Context -> Bytes]]
Views == [index : Rows, of : Evidence, bytes : Bytes]
Tells == [kind : {"nothing", "ready"}, about : SUBSET (Evidence \X Context)]
Writes == [op : {"write"}, old : Rows, new : Rows, recheck : SUBSET Evidence,
           reread : BOOLEAN, tell : Tells, seen : Looks]

(* Every judgement of the index is about what was looked at. *)
Coherent(i, l) ==
  \A e \in Evidence, c \in Context :
    i[e].judged[c] # None => i[e].judged[c].of = i[e].content /\ l[e][c] = i[e].content

WriteReady ==
  cmd # None /\ cmd.op = "write" =>
    /\ cmd \in Writes
    /\ Coherent(cmd.new, cmd.seen)
    /\ \A h \in cmd.tell.about :
         h[1] \in cmd.recheck /\ Fits(cmd.new[h[1]], {h[2]})

MaterialInv ==
  /\ image \in [Evidence -> Picture \cup {Blank}]
  /\ index = None \/ (index \in Rows /\ Coherent(index, looked))
  /\ looked \in Looks
  /\ view = None \/ (view \in Views /\ view.bytes = view.index[view.of].content)
  /\ WriteReady

LEMMA FreshIsCoherent == Fresh \in Rows /\ \A l : Coherent(Fresh, l)
BY DEF Fresh, FreshRow, Unjudged, Rows, Row, Contents, Coherent

LEMMA ValidatedIsCoherent ==
  ASSUME MaterialInv, index # None, NEW rows \in SUBSET Evidence
  PROVE  Validated(rows) \in Rows /\ Coherent(Validated(rows), looked)
<1>1. index \in Rows /\ Coherent(index, looked)
  BY DEF MaterialInv
<1>2. \A e \in Evidence : Found(e) \in Contents
  BY DEF Found, Contents, MaterialInv
<1>3. ASSUME NEW row \in Row, NEW content \in Contents
      PROVE  LET new == Revalidated(row, content) IN
             /\ new \in Row
             /\ \A c \in Context : new.judged[c] # None => new = row
  BY DEF Revalidated, Row, Unjudged
<1>4. Validated(rows) \in Rows
  BY <1>1, <1>2, <1>3 DEF Validated, Rows
<1>5. ASSUME NEW e \in Evidence, NEW c \in Context, Validated(rows)[e].judged[c] # None
      PROVE  Validated(rows)[e] = index[e]
  BY <1>1, <1>2, <1>3, <1>5 DEF Validated, Rows
<1> QED BY <1>1, <1>4, <1>5 DEF Coherent

LEMMA WritingIsReady ==
  ASSUME MaterialInv, Idle,
         NEW new \in Rows, NEW recheck \in SUBSET Evidence, NEW reread \in BOOLEAN,
         NEW tell \in Tells, NEW seen \in Looks, Coherent(new, seen),
         \A h \in tell.about : h[1] \in recheck /\ Fits(new[h[1]], {h[2]}),
         Take(Writing(new, recheck, reread, tell, seen))
  PROVE  WriteReady'
<1>1. index \in Rows
  BY DEF Idle, MaterialInv
<1>2. cmd' = [op |-> "write", old |-> index, new |-> new, recheck |-> recheck,
              reread |-> reread, tell |-> tell, seen |-> seen]
  BY DEF Take, Writing
<1>3. cmd' \in Writes
  BY <1>1, <1>2 DEF Writes
<1>4. Coherent(cmd.new, cmd.seen)'
  BY <1>2 DEF Coherent
<1>5. \A h \in cmd'.tell.about : h[1] \in cmd'.recheck /\ Fits(cmd'.new[h[1]], {h[2]})
  BY <1>2
<1> QED BY <1>3, <1>4, <1>5 DEF WriteReady, Fits

LEMMA ReviewIsCoherent ==
  ASSUME MaterialInv, NEW contexts \in SUBSET Context, NEW fit \in BOOLEAN, NEW v2 \in BOOLEAN,
         RecordReview(contexts, fit, v2)
  PROVE  WriteReady'
<1> DEFINE e == view.of
           judgement == [fit |-> fit, of |-> index[e].content]
           On(j, what) == [c \in Context |-> IF c \in contexts THEN what ELSE j[c]]
           new == [index EXCEPT ![e].judged = On(@, judgement)]
           seen == [looked EXCEPT ![e] = On(@, view.bytes)]
<1>1. /\ Idle /\ view # None /\ view.index = index
      /\ Take(Writing(new, {e}, v2, Quiet, seen))
  BY DEF RecordReview, Expected
<1>2. /\ index \in Rows /\ Coherent(index, looked) /\ looked \in Looks
      /\ e \in Evidence /\ view.bytes = index[e].content
  BY <1>1 DEF MaterialInv, Idle, Views
<1>3. index[e] \in Row /\ judgement \in Judgement /\ view.bytes \in Bytes
  BY <1>2 DEF Rows, Row, Judgement, Contents, Bytes
<1>4. On(index[e].judged, judgement) \in [Context -> Judgement \cup {None}]
  BY <1>3 DEF Row
<1>5. new \in Rows
  BY <1>2, <1>3, <1>4 DEF Rows, Row
<1>6. seen \in Looks
  BY <1>2, <1>3 DEF Looks
<1>7. Coherent(new, seen)
  <2> SUFFICES ASSUME NEW x \in Evidence, NEW c \in Context, new[x].judged[c] # None
               PROVE  new[x].judged[c].of = new[x].content /\ seen[x][c] = new[x].content
    BY DEF Coherent
  <2>1. CASE x # e
    <3>1. new[x] = index[x] /\ seen[x] = looked[x]
      BY <1>2, <2>1 DEF Rows, Looks
    <3> QED BY <1>2, <3>1 DEF Coherent
  <2>2. CASE x = e
    <3>1. /\ new[e].content = index[e].content
          /\ new[e].judged = On(index[e].judged, judgement)
          /\ seen[e] = On(looked[e], view.bytes)
      BY <1>2, <1>3 DEF Rows, Row, Looks
    <3>2. CASE c \in contexts
      BY <1>2, <2>2, <3>1, <3>2
    <3>3. CASE c \notin contexts
      <4>1. new[e].judged[c] = index[e].judged[c] /\ seen[e][c] = looked[e][c]
        BY <3>1, <3>3
      <4> QED BY <1>2, <2>2, <3>1, <4>1 DEF Coherent
    <3> QED BY <3>2, <3>3
  <2> QED BY <2>1, <2>2
<1>8. Quiet \in Tells /\ Quiet.about = {}
  BY DEF Quiet, Tells
<1> HIDE DEF new, seen
<1> QED BY <1>1, <1>2, <1>5, <1>6, <1>7, <1>8, WritingIsReady

LEMMA SelectionIsCoherent ==
  ASSUME MaterialInv, NEW rows \in SUBSET Evidence, NEW contexts \in SUBSET Context,
         ValidateSelected(rows, contexts)
  PROVE  WriteReady'
<1> DEFINE new == Validated(rows)
           ready == {e \in rows : Fits(new[e], contexts)}
           recheck == {e \in rows : new[e].content # None}
           tell == [kind |-> "ready", about |-> ready \X contexts]
<1>1. Idle /\ index # None /\ Take(Writing(new, recheck, TRUE, tell, looked))
  BY DEF ValidateSelected, Idle
<1>2. new \in Rows /\ Coherent(new, looked) /\ looked \in Looks
  BY <1>1, ValidatedIsCoherent DEF MaterialInv
<1>3. tell \in Tells /\ recheck \in SUBSET Evidence
  BY DEF Tells
<1>4. \A h \in tell.about : h[1] \in recheck /\ Fits(new[h[1]], {h[2]})
  BY DEF Fits
<1> HIDE DEF new
<1> QED BY <1>1, <1>2, <1>3, <1>4, WritingIsReady

LEMMA MaterialStep ==
  ASSUME MaterialInv, MNext
  PROVE  MaterialInv'
<1> USE DEF MaterialInv
<1>0. Quiet \in Tells /\ Quiet.about = {}
  BY DEF Quiet, Tells
<1>1. CASE Scaffold
  BY <1>1, FreshIsCoherent DEF Scaffold, WriteReady, Coherent, Fits
<1>2. CASE Validate
  <2>1. Idle /\ index # None /\ Take(Writing(Validated(Evidence), {}, FALSE, Quiet, looked))
    BY <1>2 DEF Validate, Idle
  <2>2. WriteReady'
    BY <1>0, <2>1, ValidatedIsCoherent, WritingIsReady
  <2> QED BY <1>2, <2>2 DEF Validate, Coherent
<1>3. CASE Write
  <2>1. cmd \in Writes /\ Coherent(cmd.new, cmd.seen) /\ cmd' = None
    BY <1>3 DEF Write, WriteReady
  <2>2. UNCHANGED <<index, looked>> \/ (index' = cmd.new /\ looked' = cmd.seen)
    BY <1>3 DEF Write
  <2>3. WriteReady'
    BY <2>1 DEF WriteReady
  <2>4. looked' \in Looks /\ (index' = None \/ (index' \in Rows /\ Coherent(index', looked')))
    BY <2>1, <2>2 DEF Writes
  <2> QED BY <1>3, <2>3, <2>4 DEF Write, Coherent
<1>4. CASE Kill
  BY <1>4 DEF Kill, WriteReady, Coherent
<1>5. CASE Restore
  BY <1>5, FreshIsCoherent DEF Restore, WriteReady, Coherent, Fits
<1>6. ASSUME NEW rows \in SUBSET Evidence, NEW cs \in SUBSET Context, ValidateSelected(rows, cs)
      PROVE  MaterialInv'
  <2>1. WriteReady'
    BY <1>6, SelectionIsCoherent
  <2> QED BY <1>6, <2>1 DEF ValidateSelected, Coherent
<1>7. ASSUME NEW e \in Evidence, Look(e) PROVE MaterialInv'
  <2>1. view' \in Views /\ view'.bytes = view'.index[view'.of].content
    BY <1>7 DEF Look, Views, Current, Bytes, Contents
  <2> QED BY <1>7, <2>1 DEF Look, WriteReady, Coherent, Fits
<1>8. ASSUME NEW cs \in SUBSET Context, NEW fit \in BOOLEAN, NEW v2 \in BOOLEAN,
             RecordReview(cs, fit, v2)
      PROVE  MaterialInv'
  <2>1. WriteReady'
    BY <1>8, ReviewIsCoherent
  <2> QED BY <1>8, <2>1 DEF RecordReview, Coherent
<1>9. ASSUME NEW rows \in SUBSET Evidence, NEW p \in Prototype, NEW v2 \in BOOLEAN,
             BindPrototype(rows, p, v2)
      PROVE  MaterialInv'
  <2> DEFINE new == [e \in Evidence |-> IF e \in rows
                       THEN [index[e] EXCEPT !.refs = @ \cup {p}] ELSE index[e]]
  <2>1. Idle /\ Take(Writing(new, rows, v2, Quiet, looked)) /\ index \in Rows
    BY <1>9 DEF BindPrototype, Idle
  <2>2. ASSUME NEW e \in Evidence
        PROVE  new[e] \in Row /\ new[e].content = index[e].content /\ new[e].judged = index[e].judged
    BY <2>1 DEF Rows, Row
  <2>3. new \in Rows /\ Coherent(new, looked)
    BY <2>1, <2>2 DEF Rows, Coherent, Idle
  <2>4. WriteReady'
    <3> HIDE DEF new
    <3> QED BY <1>0, <2>1, <2>3, WritingIsReady
  <2> QED BY <1>9, <2>4 DEF BindPrototype, Coherent
<1>10. ASSUME NEW e \in Evidence, NEW b \in Picture \cup {Blank}, Replace(e, b) PROVE MaterialInv'
  BY <1>10 DEF Replace, WriteReady, Coherent, Fits
<1> QED BY <1>1, <1>2, <1>3, <1>4, <1>5, <1>6, <1>7, <1>8, <1>9, <1>10 DEF MNext

-----------------------------------------------------------------------------
(* The commands about observations leave the material alone, and none of them *)
(* is one that writes it.                                                    *)

Elsewhere == UNCHANGED <<image, index, view, looked>> /\ (cmd' = None \/ cmd'.op # "write" \/ cmd' = cmd)

LEMMA ElsewhereKeepsMaterial == ASSUME MaterialInv, Elsewhere PROVE MaterialInv'
<1>1. WriteReady'
  BY DEF MaterialInv, Elsewhere, WriteReady, Fits, Coherent
<1> QED BY <1>1 DEF MaterialInv, Elsewhere, Coherent

LEMMA MaterialCommands ==
  ASSUME MNext PROVE cmd' = None \/ cmd' = cmd \/ cmd'.op = "write"
<1>1. Scaffold \/ Kill \/ Restore \/ Write => cmd' = None \/ cmd' = cmd
  BY DEF Scaffold, Kill, Restore, Write
<1>2. ASSUME NEW new, NEW recheck, NEW reread, NEW tell, NEW seen,
             Take(Writing(new, recheck, reread, tell, seen))
      PROVE  cmd'.op = "write"
  BY <1>2 DEF Take, Writing
<1>3. Validate => cmd'.op = "write"
  BY <1>2 DEF Validate
<1>4. ASSUME NEW rows, NEW cs, ValidateSelected(rows, cs) PROVE cmd'.op = "write"
  BY <1>2, <1>4 DEF ValidateSelected
<1>5. ASSUME NEW cs, NEW fit, NEW v2, RecordReview(cs, fit, v2) PROVE cmd'.op = "write"
  BY <1>2, <1>5 DEF RecordReview
<1>6. ASSUME NEW rows, NEW p, NEW v2, BindPrototype(rows, p, v2) PROVE cmd'.op = "write"
  BY <1>2, <1>6 DEF BindPrototype
<1>7. ASSUME NEW e, NEW b, Look(e) \/ Replace(e, b) PROVE cmd' = cmd
  BY <1>7 DEF Look, Replace
<1> QED BY <1>1, <1>3, <1>4, <1>5, <1>6, <1>7 DEF MNext

-----------------------------------------------------------------------------
(* The observations: what the command under way has established, and why a    *)
(* displaced observation stays away.  Its preparation names bindings that it  *)
(* or its successors displaced themselves, so they never come back.          *)

CommandKnows ==
  cmd # None =>
    /\ cmd.op \in {"prepare", "publish"} => cmd = [op |-> cmd.op, prep |-> cmd.prep] /\ cmd.prep.of \in Evidence
    /\ cmd.op \in {"record", "bind"} => /\ cmd = [op |-> cmd.op, obs |-> cmd.obs]
                                       /\ cmd.obs.prep \in prepared /\ cmd.obs # None
    /\ cmd.op = "reuse" => /\ cmd.obs.prep.image = cmd.from[cmd.obs.prep.of].content
                           /\ cmd.obs.prep.contract = cmd.contract
    /\ cmd.op = "query" =>
         \A o \in cmd.loaded :
           /\ o.prep.of \in Evidence /\ cmd.context \in Context
           /\ Fits(cmd.from[o.prep.of], {cmd.context})
           /\ o.prep.image = cmd.from[o.prep.of].content /\ o.prep.contract = cmd.contract

DisplacedBefore(o, gone) ==
  o.prep.of \in Evidence /\ o.prep.revision[o.prep.of] \in gone \cup {None}

NoReturn ==
  /\ \A e \in Evidence : bindings[e] # None =>
       bindings[e] \notin displaced /\ DisplacedBefore(bindings[e], displaced)
  /\ \A o \in displaced : DisplacedBefore(o, displaced) /\ bindings[o.prep.of] # None
  /\ None \notin displaced

(* None is no observation either; whatever an observation answers. *)
NoneIsNoObservation == \A p, regions : Observation(p, regions) # None

ObservationInv ==
  /\ bindings = [e \in Evidence |-> bindings[e]]
  /\ \A p \in prepared : p.of \in Evidence
  /\ CommandKnows
  /\ None \notin store
  /\ BoundHasEvidence
  /\ NoReturn

(* Whatever lets the bindings alone only adds to what they rest on. *)
LEMMA BindingsRest ==
  ASSUME ObservationInv, UNCHANGED <<bindings, displaced>>,
         store \subseteq store', prepared \subseteq prepared', snapshots \subseteq snapshots',
         \A p \in prepared' : p.of \in Evidence, None \notin store', CommandKnows'
  PROVE  ObservationInv'
BY DEF ObservationInv, BoundHasEvidence, NoReturn, DisplacedBefore

LEMMA OtherCommandKnows ==
  ASSUME CommandKnows, cmd' = None \/ cmd' = cmd \/ cmd'.op = "write", prepared \subseteq prepared'
  PROVE  CommandKnows'
BY DEF CommandKnows, Fits

LEMMA BindStep ==
  ASSUME ObservationInv, Bind PROVE ObservationInv'
<1> DEFINE o == cmd.obs
           e == o.prep.of
<1>0. CommandKnows' /\ UNCHANGED <<snapshots, prepared, store>>
  BY DEF Bind, Release, CommandKnows
<1>1. o.prep \in prepared /\ e \in Evidence
  BY DEF Bind, ObservationInv, CommandKnows
<1>2. CASE UNCHANGED <<bindings, displaced>>
  BY <1>0, <1>2, BindingsRest DEF ObservationInv
<1>3. CASE ~UNCHANGED <<bindings, displaced>>
  <2>1. /\ Fences(o.prep) /\ Bindable(o)
        /\ bindings' = [bindings EXCEPT ![e] = o]
        /\ displaced' = displaced \cup ({bindings[e]} \ {None, o})
    BY <1>3 DEF Bind
  <2>2. \A x \in Evidence : bindings'[x] = IF x = e THEN o ELSE bindings[x]
    BY <1>1, <2>1 DEF ObservationInv
  <2>3. bindings' = [x \in Evidence |-> bindings'[x]]
    BY <2>1 DEF ObservationInv
  <2>4. BoundHasEvidence'
    BY <1>0, <1>1, <2>1, <2>2 DEF ObservationInv, BoundHasEvidence, Fences, Bindable
  <2>5. CASE bindings[e] = o
    <3>1. displaced' = displaced /\ \A x \in Evidence : bindings'[x] = bindings[x]
      BY <2>1, <2>2, <2>5
    <3>2. NoReturn'
      BY <3>1 DEF ObservationInv, NoReturn, DisplacedBefore
    <3> QED BY <1>0, <2>3, <2>4, <3>2 DEF ObservationInv
  <2>6. CASE bindings[e] # o
    <3>1. bindings = o.prep.revision
      BY <2>1, <2>6 DEF Bindable
    <3>2. o \notin displaced
      BY <1>1, <3>1 DEF ObservationInv, NoReturn, DisplacedBefore
    <3>3. displaced \subseteq displaced' /\ o \notin displaced' /\ None \notin displaced'
      BY <2>1, <3>2 DEF ObservationInv, NoReturn
    <3>4. DisplacedBefore(o, displaced')
      BY <1>1, <2>1, <2>6, <3>1 DEF DisplacedBefore
    <3>5. \A x : DisplacedBefore(x, displaced) => DisplacedBefore(x, displaced')
      BY <3>3 DEF DisplacedBefore
    <3>6. ASSUME NEW x \in Evidence, bindings'[x] # None
          PROVE  bindings'[x] \notin displaced' /\ DisplacedBefore(bindings'[x], displaced')
      <4>1. CASE x = e
        BY <2>2, <3>3, <3>4, <4>1
      <4>2. CASE x # e
        <5>1. bindings'[x] = bindings[x] /\ bindings[x].prep.of = x /\ bindings[x] # None
          BY <2>2, <3>6, <4>2 DEF ObservationInv, BoundHasEvidence
        <5>2. bindings[x] \notin displaced /\ DisplacedBefore(bindings[x], displaced)
          BY <5>1 DEF ObservationInv, NoReturn
        <5>3. bindings[x] # bindings[e] \/ bindings[e] = None
          BY <1>1, <4>2, <5>1 DEF ObservationInv, BoundHasEvidence
        <5> QED BY <2>1, <3>5, <5>1, <5>2, <5>3
      <4> QED BY <4>1, <4>2
    <3>8. o # None
      BY <2>1 DEF Bindable, ObservationInv
    <3>7. ASSUME NEW d \in displaced'
          PROVE  DisplacedBefore(d, displaced') /\ bindings'[d.prep.of] # None
      <4>1. CASE d \in displaced
        <5>1. DisplacedBefore(d, displaced) /\ bindings[d.prep.of] # None
          BY <4>1 DEF ObservationInv, NoReturn
        <5> QED BY <2>2, <3>5, <5>1, <3>8 DEF DisplacedBefore
      <4>2. CASE d \notin displaced
        <5>1. d = bindings[e] /\ d # None
          BY <2>1, <3>7, <4>2
        <5>2. DisplacedBefore(d, displaced) /\ d.prep.of = e
          BY <1>1, <5>1 DEF ObservationInv, NoReturn, BoundHasEvidence
        <5> QED BY <1>1, <2>2, <3>5, <5>2, <3>8
      <4> QED BY <4>1, <4>2
    <3>9. NoReturn'
      BY <3>3, <3>6, <3>7 DEF NoReturn
    <3> QED BY <1>0, <2>3, <2>4, <3>9 DEF ObservationInv
  <2> QED BY <2>5, <2>6
<1> QED BY <1>2, <1>3

LEMMA StorePublished ==
  ASSUME ObservationInv, PublishObservation PROVE ObservationInv'
<1>1. cmd = [op |-> "record", obs |-> cmd.obs] /\ cmd.obs.prep \in prepared /\ cmd.obs # None
  BY DEF PublishObservation, ObservationInv, CommandKnows
<1>2. cmd' = [op |-> "bind", obs |-> cmd.obs]
  BY <1>1 DEF PublishObservation, Hold
<1>3. CommandKnows'
  BY <1>1, <1>2 DEF PublishObservation, CommandKnows
<1> QED BY <1>1, <1>3, BindingsRest DEF PublishObservation, ObservationInv

LEMMA PreparationPublished ==
  ASSUME ObservationInv, Snapshot \/ PublishPreparation PROVE ObservationInv'
<1>1. CASE Snapshot
  <2>1. cmd # None /\ cmd = [op |-> "prepare", prep |-> cmd.prep] /\ cmd.prep.of \in Evidence
    BY <1>1 DEF Snapshot, ObservationInv, CommandKnows
  <2>2. cmd' = None \/ cmd' = [op |-> "publish", prep |-> cmd.prep]
    BY <1>1, <2>1 DEF Snapshot, Hold, Release
  <2>3. CommandKnows'
    BY <2>1, <2>2 DEF CommandKnows
  <2> QED BY <1>1, <2>3, BindingsRest DEF Snapshot, ObservationInv
<1>2. CASE PublishPreparation
  <2>1. cmd' = None /\ cmd.prep.of \in Evidence
    BY <1>2 DEF PublishPreparation, Release, ObservationInv, CommandKnows
  <2>2. CommandKnows'
    BY <2>1 DEF CommandKnows
  <2> QED BY <1>2, <2>1, <2>2, BindingsRest DEF PublishPreparation, ObservationInv
<1> QED BY <1>1, <1>2

LEMMA Begun ==
  ASSUME ObservationInv, UNCHANGED <<contract, snapshots, prepared, store, bindings, displaced>>,
         CommandKnows'
  PROVE  ObservationInv'
BY BindingsRest DEF ObservationInv

LEMMA ObservationStep ==
  ASSUME MaterialInv, ObservationInv, NoneIsNoObservation, [Next]_vars PROVE ObservationInv'
<1>1. CASE MNext /\ UNCHANGED ovars
  BY <1>1, MaterialCommands, OtherCommandKnows, Begun DEF ObservationInv, ovars
<1>2. ASSUME NEW e \in Evidence, NEW rs, PrepareReuse(e, rs) PROVE ObservationInv'
  <2>1. /\ cmd' = [op |-> "reuse", obs |-> bindings[e], from |-> index, contract |-> contract]
        /\ CanReuse(bindings[e], e, rs)
    BY <1>2 DEF PrepareReuse, Take
  <2>2. CommandKnows'
    BY <2>1 DEF CommandKnows, CanReuse
  <2> QED BY <1>2, <2>2, Begun DEF PrepareReuse, ovars
<1>3. ASSUME NEW e \in Evidence, NEW rs, Prepare(e, rs) PROVE ObservationInv'
  <2>1. cmd' = [op |-> "prepare", prep |-> Baseline(e, rs)] /\ Baseline(e, rs).of = e
    BY <1>3 DEF Prepare, Take, Baseline
  <2>2. CommandKnows'
    BY <2>1 DEF CommandKnows
  <2> QED BY <1>3, <2>2, Begun DEF Prepare, ovars
<1>4. ASSUME NEW p \in prepared, NEW rs, Record(p, rs) PROVE ObservationInv'
  <2>1. /\ cmd' = [op |-> "record", obs |-> Observation(p, rs)]
        /\ Observation(p, rs).prep = p /\ Observation(p, rs) # None /\ prepared' = prepared
    BY <1>4 DEF Record, Take, Observation, NoneIsNoObservation, ovars
  <2>2. CommandKnows'
    BY <2>1 DEF CommandKnows
  <2> QED BY <1>4, <2>2, Begun DEF Record, ovars
<1>5. ASSUME NEW c \in Context, Query(c) PROVE ObservationInv'
  <2> DEFINE loaded == {bindings[e] : e \in {x \in Evidence : Loadable(x, c)}}
  <2>1. cmd' = [op |-> "query", context |-> c, from |-> index, contract |-> contract, loaded |-> loaded]
    BY <1>5 DEF Query, Take
  <2>2. ASSUME NEW o \in loaded
        PROVE  /\ o.prep.of \in Evidence /\ Fits(index[o.prep.of], {c})
               /\ o.prep.image = index[o.prep.of].content /\ o.prep.contract = contract
    <3>1. PICK e \in Evidence : Loadable(e, c) /\ o = bindings[e]
      OBVIOUS
    <3> QED BY <3>1 DEF Loadable, CanReuse
  <2>3. CommandKnows'
    <3> HIDE DEF loaded
    <3> QED BY <2>1, <2>2 DEF CommandKnows, Fits
  <2> QED BY <1>5, <2>3, Begun DEF Query, ovars
<1>6. CASE Reuse \/ Answer
  <2>1. cmd' = None
    BY <1>6 DEF Reuse, Answer, Release
  <2>2. CommandKnows'
    BY <2>1 DEF CommandKnows
  <2> QED BY <1>6, <2>2, Begun DEF Reuse, Answer, ovars
<1>7. CASE Upgrade
  <2>1. CommandKnows'
    BY <1>7 DEF Upgrade, ObservationInv, CommandKnows, Fits
  <2> QED BY <1>7, <2>1, BindingsRest DEF Upgrade, ObservationInv
<1>8. CASE UNCHANGED vars
  <2>1. CommandKnows'
    BY <1>8 DEF vars, mvars, ovars, ObservationInv, CommandKnows, Fits
  <2> QED BY <1>8, <2>1, Begun DEF vars, mvars, ovars
<1> QED BY <1>1, <1>2, <1>3, <1>4, <1>5, <1>6, <1>7, <1>8,
           BindStep, StorePublished, PreparationPublished DEF Next

LEMMA MaterialKept ==
  ASSUME MaterialInv, ObservationInv, [Next]_vars PROVE MaterialInv'
<1>1. CASE UNCHANGED vars
  BY <1>1, ElsewhereKeepsMaterial DEF vars, mvars, Elsewhere
<1>2. ASSUME NEW e, NEW rs, PrepareReuse(e, rs) \/ Prepare(e, rs) PROVE Elsewhere
  BY <1>2 DEF PrepareReuse, Prepare, Take, Elsewhere
<1>3. ASSUME NEW p, NEW rs, Record(p, rs) PROVE Elsewhere
  BY <1>3 DEF Record, Take, Elsewhere
<1>4. ASSUME NEW c, Query(c) PROVE Elsewhere
  BY <1>4 DEF Query, Take, Elsewhere
<1>5. Reuse \/ Answer \/ Bind \/ PublishPreparation \/ Upgrade => Elsewhere
  BY DEF Reuse, Answer, Bind, PublishPreparation, Upgrade, Release, Elsewhere
<1>6. Snapshot \/ PublishObservation => Elsewhere
  BY DEF Snapshot, PublishObservation, Hold, Release, Elsewhere, ObservationInv, CommandKnows
<1> QED BY <1>1, <1>2, <1>3, <1>4, <1>5, <1>6, MaterialStep, ElsewhereKeepsMaterial DEF Next

(* A command runs on an index. *)
Underway == cmd # None => index # None

LEMMA UnderwayKept ==
  ASSUME Underway, UiAssumption, [Next]_vars PROVE Underway'
<1> USE DEF Underway
<1>1. CASE MNext
  <2>1. ASSUME NEW rs, NEW cs, NEW fit, NEW v2, NEW p,
               \/ ValidateSelected(rs, cs) \/ RecordReview(cs, fit, v2) \/ BindPrototype(rs, p, v2)
        PROVE  Underway'
    BY <2>1 DEF ValidateSelected, RecordReview, BindPrototype, Idle
  <2>2. ASSUME NEW e, NEW b, Look(e) \/ Replace(e, b) PROVE Underway'
    BY <2>2 DEF Look, Replace
  <2>3. Scaffold \/ Validate \/ Write \/ Kill \/ Restore => Underway'
    BY DEF Scaffold, Validate, Write, Kill, Restore, Idle, UiAssumption
  <2> QED BY <1>1, <2>1, <2>2, <2>3 DEF MNext
<1>2. ASSUME NEW e, NEW p, NEW c, NEW rs,
             PrepareReuse(e, rs) \/ Prepare(e, rs) \/ Record(p, rs) \/ Query(c)
      PROVE  Underway'
  BY <1>2 DEF PrepareReuse, Prepare, Record, Query, Idle
<1>3. CASE Snapshot \/ PublishPreparation \/ PublishObservation \/ Bind \/ Reuse \/ Answer
  BY <1>3 DEF Snapshot, PublishPreparation, PublishObservation, Bind, Reuse, Answer
<1>4. CASE Upgrade \/ UNCHANGED vars
  BY <1>4 DEF Upgrade, vars, mvars
<1> QED BY <1>1, <1>2, <1>3, <1>4 DEF Next

UiInv == MaterialInv /\ ObservationInv /\ Underway

LEMMA UiStart == Init => UiInv
<1> SUFFICES ASSUME Init PROVE UiInv
  OBVIOUS
<1>1. MaterialInv
  BY DEF Init, MInit, MaterialInv, WriteReady, Looks, Unjudged, Bytes, Contents
<1>2. ObservationInv
  BY DEF Init, MInit, ObservationInv, CommandKnows, BoundHasEvidence, NoReturn
<1>3. Underway
  BY DEF Init, MInit, Underway
<1> QED BY <1>1, <1>2, <1>3 DEF UiInv

LEMMA UiStep ==
  ASSUME NoneIsNoObservation, UiAssumption, UiInv, [Next]_vars PROVE UiInv'
BY MaterialKept, ObservationStep, UnderwayKept DEF UiInv

(* A judgement in the index is about the bytes the index records, and about   *)
(* the bytes the reviewer had open.                                          *)
THEOREM JudgementsFit ==
  ASSUME NoneIsNoObservation, UiAssumption PROVE Spec => []JudgedAsLooked
<1>1. UiInv => JudgedAsLooked
  BY DEF UiInv, MaterialInv, Coherent, JudgedAsLooked
<1> QED BY <1>1, UiStart, UiStep, PTL DEF Spec

(* What is bound is published, with its preparation and its image. *)
THEOREM BindingsRestOnEvidence ==
  ASSUME NoneIsNoObservation, UiAssumption PROVE Spec => []BoundHasEvidence
<1>1. UiInv => BoundHasEvidence
  BY DEF UiInv, ObservationInv
<1> QED BY <1>1, UiStart, UiStep, PTL DEF Spec

(* An observation that was displaced is never bound again. *)
THEOREM DisplacedStaysAway ==
  ASSUME NoneIsNoObservation, UiAssumption PROVE Spec => []DisplacedForGood
<1>1. UiInv => DisplacedForGood
  BY DEF UiInv, ObservationInv, NoReturn, DisplacedForGood
<1> QED BY <1>1, UiStart, UiStep, PTL DEF Spec

-----------------------------------------------------------------------------
(* What a command tells. *)

LEMMA JudgementIsSome ==
  ASSUME UiAssumption, NEW b \in Contents, NEW j, j = [fit |-> TRUE, of |-> b] PROVE j # None
<1>1. j \in Judgement
  BY DEF Judgement, Contents
<1> QED BY <1>1 DEF UiAssumption

LEMMA WriteTellsTruth ==
  ASSUME UiInv, UiAssumption, Write, said' # said PROVE Truthful
<1>1. /\ cmd \in Writes /\ Coherent(cmd.new, cmd.seen)
      /\ \A h \in cmd.tell.about : h[1] \in cmd.recheck /\ Fits(cmd.new[h[1]], {h[2]})
  BY DEF Write, UiInv, MaterialInv, WriteReady
<1>2. /\ said' = cmd.tell /\ index' = cmd.new /\ looked' = cmd.seen
      /\ \A e \in cmd.recheck : Current(cmd.new, e)
  BY DEF Write
<1>3. said'.kind \in {"nothing", "ready"} /\ said'.about \subseteq Evidence \X Context
  BY <1>1, <1>2 DEF Writes, Tells
<1>4. ASSUME NEW h \in said'.about PROVE Vouched(h[1], h[2], index'[h[1]].content)
  <2>1. h[1] \in Evidence /\ h[2] \in Context
    BY <1>3, <1>4
  <2>2. image[h[1]] = cmd.new[h[1]].content
    BY <1>1, <1>2, <1>4 DEF Current
  <2>3. /\ cmd.new[h[1]].content \in Contents
        /\ cmd.new[h[1]].judged[h[2]] = [fit |-> TRUE, of |-> cmd.new[h[1]].content]
    BY <1>1, <1>2, <1>4, <2>1 DEF Fits, Writes, Rows, Row
  <2>4. cmd.new[h[1]].judged[h[2]] # None
    BY <2>3, JudgementIsSome
  <2>5. cmd.seen[h[1]][h[2]] = cmd.new[h[1]].content
    BY <1>1, <2>1, <2>4 DEF Coherent
  <2> QED BY <1>2, <2>2, <2>5 DEF Vouched
<1> QED BY <1>3, <1>4 DEF Truthful

LEMMA AnswerTellsTruth ==
  ASSUME UiInv, UiAssumption, Answer PROVE Truthful
<1> DEFINE c == cmd.context
<1>0. index \in Rows /\ Coherent(index, looked)
  BY DEF Answer, UiInv, Underway, MaterialInv
<1>1. said' = [kind |-> "hits", about |-> {o \in cmd.loaded : StillGood(o, c)} \X {c}]
  BY DEF Answer
<1>2. ASSUME NEW o \in cmd.loaded, StillGood(o, c)
      PROVE  /\ Vouched(o.prep.of, c, o.prep.image)
             /\ bindings[o.prep.of] = o /\ o.prep.contract = contract
  <2> DEFINE e == o.prep.of
  <2>1. /\ e \in Evidence /\ c \in Context /\ Fits(cmd.from[e], {c})
        /\ o.prep.image = cmd.from[e].content /\ o.prep.contract = cmd.contract
    BY <1>2 DEF Answer, UiInv, ObservationInv, CommandKnows
  <2>2. /\ index[e].content = cmd.from[e].content /\ index[e].judged[c] = cmd.from[e].judged[c]
        /\ image[e] = cmd.from[e].content /\ bindings[e] = o /\ contract = cmd.contract
    BY <1>2 DEF StillGood, SameState, Current
  <2>3. /\ index[e].content \in Contents
        /\ index[e].judged[c] = [fit |-> TRUE, of |-> index[e].content]
    BY <1>0, <2>1, <2>2 DEF Fits, Rows, Row
  <2>4. index[e].judged[c] # None
    BY <2>3, JudgementIsSome
  <2>5. looked[e][c] = index[e].content
    BY <1>0, <2>1, <2>4 DEF Coherent
  <2>6. looked' = looked
    BY DEF Answer
  <2> QED BY <2>1, <2>2, <2>5, <2>6 DEF Vouched
<1>3. said'.kind = "hits"
  BY <1>1
<1>4. ASSUME NEW h \in said'.about
      PROVE  h[1] \in cmd.loaded /\ StillGood(h[1], c) /\ h[2] = c
  BY <1>1, <1>4
<1> QED BY <1>2, <1>3, <1>4 DEF Truthful

LEMMA ReuseTellsTruth ==
  ASSUME UiInv, Reuse, said' # said PROVE Truthful
<1> DEFINE o == cmd.obs
<1>1. /\ said' = [kind |-> "reused", about |-> {o}]
      /\ Current(cmd.from, o.prep.of) /\ Unmoved(cmd.from, cmd.contract)
  BY DEF Reuse
<1>2. o.prep.image = cmd.from[o.prep.of].content /\ o.prep.contract = cmd.contract
  BY DEF Reuse, UiInv, ObservationInv, CommandKnows
<1>3. image[o.prep.of] = o.prep.image /\ o.prep.contract = contract
  BY <1>1, <1>2 DEF Current, Unmoved
<1> QED BY <1>1, <1>3 DEF Truthful

(* Nothing else tells anything. *)
LEMMA OthersAreQuiet ==
  ASSUME [Next]_vars PROVE Write \/ Reuse \/ Answer \/ said' \in {said, Quiet}
<1>1. CASE MNext
  <2>1. ASSUME NEW rs, NEW cs, NEW fit, NEW v2, NEW p,
               \/ ValidateSelected(rs, cs) \/ RecordReview(cs, fit, v2) \/ BindPrototype(rs, p, v2)
        PROVE  said' = Quiet
    BY <2>1 DEF ValidateSelected, RecordReview, BindPrototype, Take
  <2>2. ASSUME NEW e, NEW b, Look(e) \/ Replace(e, b) PROVE said' = said
    BY <2>2 DEF Look, Replace
  <2>3. Scaffold \/ Validate \/ Kill \/ Restore => said' \in {said, Quiet}
    BY DEF Scaffold, Validate, Kill, Restore, Take
  <2> QED BY <1>1, <2>1, <2>2, <2>3 DEF MNext
<1>2. ASSUME NEW e, NEW p, NEW c, NEW rs,
             PrepareReuse(e, rs) \/ Prepare(e, rs) \/ Record(p, rs) \/ Query(c)
      PROVE  said' = Quiet
  BY <1>2 DEF PrepareReuse, Prepare, Record, Query, Take
<1>3. CASE Snapshot \/ PublishPreparation \/ PublishObservation \/ Bind
  BY <1>3 DEF Snapshot, PublishPreparation, PublishObservation, Bind
<1>4. CASE Upgrade \/ UNCHANGED vars
  BY <1>4 DEF Upgrade, vars, mvars
<1> QED BY <1>1, <1>2, <1>3, <1>4 DEF Next

(* Every answer is true of the files when the command ends: hits, reuse and   *)
(* readiness rest on images in place, judged by somebody who saw them.       *)
THEOREM AnswersAreTrue ==
  ASSUME NoneIsNoObservation, UiAssumption PROVE Spec => ServedWasJudged
<1>1. ASSUME UiInv, [Next]_vars PROVE Truthful
  <2>1. CASE said' = said
    BY <2>1 DEF Truthful
  <2>2. CASE said' = Quiet
    BY <2>2 DEF Truthful, Quiet
  <2>3. CASE said' # said /\ (Write \/ Reuse \/ Answer)
    BY <1>1, <2>3, WriteTellsTruth, ReuseTellsTruth, AnswerTellsTruth
  <2> QED BY <1>1, <2>1, <2>2, <2>3, OthersAreQuiet
<1>2. UiInv /\ [Next]_vars => [Truthful]_vars
  BY <1>1
<1> QED BY <1>2, UiStart, UiStep, PTL DEF Spec, ServedWasJudged
=============================================================================
