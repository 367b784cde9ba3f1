----------------------------- MODULE UiMaterial -----------------------------
(* The screenshots of one requirement: the index of the material directory,  *)
(* the images people put beside it, and the commands of ui-reference.py that *)
(* write the index under its lock.  A command loads the index and looks at   *)
(* the images, then rechecks some of them and replaces the index; people     *)
(* replace images whenever they like, and a kill releases the lock.          *)
EXTENDS Naturals

CONSTANTS Evidence,   \* screenshots of the index
          Context,    \* contexts (permissions, version, viewport) one applies to
          Picture,    \* contents that decode as an image
          Blank,      \* any other content: the placeholder, a missing file
          Prototype,  \* prototypes that may be bound to a screenshot
          None,
          MaxEdits    \* bound: images replaced, prototypes bound, indexes restored

Judgement == [fit : BOOLEAN, of : Picture \cup {None}]

VARIABLES image,   \* what is in the image files
          index,   \* the index, or None before the scaffold
          cmd,     \* the command that holds the lock, or None
          view,    \* what a reviewer has open: an index and one image, or None
          looked,  \* history: what was looked at for the judgement of a context
          said,    \* what the last command that succeeded tells its caller
          edits

mvars == <<image, index, cmd, view, looked, said, edits>>

Unjudged == [c \in Context |-> None]
FreshRow == [content |-> None, judged |-> Unjudged, refs |-> {}]
Fresh == [e \in Evidence |-> FreshRow]

(* None is neither a judgement nor an index. *)
UiAssumption == None \notin Judgement /\ None # Fresh

(* The file of a validated row still has the recorded bytes. *)
Current(i, e) == i[e].content # None /\ image[e] = i[e].content

(* Every context named was judged to fit, for the bytes recorded now. *)
Fits(row, contexts) ==
  row.content # None /\ \A c \in contexts : row.judged[c] = [fit |-> TRUE, of |-> row.content]

Quiet == [kind |-> "nothing", about |-> {}]

MInit == /\ image = [e \in Evidence |-> Blank]
         /\ index = None /\ cmd = None /\ view = None
         /\ looked = [e \in Evidence |-> Unjudged]
         /\ said = Quiet /\ edits = 0

(* A command starts when nobody holds the lock.                              *)
Idle == cmd = None /\ index # None
Take(command) == cmd' = command /\ said' = Quiet

(* The staging directory becomes the material directory by one rename. *)
Scaffold == /\ index = None /\ index' = Fresh
            /\ UNCHANGED <<image, cmd, view, looked, said, edits>>

(* A row found to have other content than it records loses its judgements.   *)
Found(e) == IF image[e] \in Picture THEN image[e] ELSE None
Revalidated(row, content) ==
  IF row.content = content THEN row ELSE [row EXCEPT !.content = content, !.judged = Unjudged]
Validated(rows) ==
  [e \in Evidence |-> IF e \in rows THEN Revalidated(index[e], Found(e)) ELSE index[e]]

(* A command about to write: what it read, what it writes, the images it     *)
(* rechecks, whether it rereads the index, and what it will tell.            *)
Writing(new, recheck, reread, tell, seen) ==
  [op |-> "write", old |-> index, new |-> new, recheck |-> recheck,
   reread |-> reread, tell |-> tell, seen |-> seen]

(* validate: the whole index, and nothing is rechecked.                      *)
Validate == /\ Idle
            /\ Take(Writing(Validated(Evidence), {}, FALSE, Quiet, looked))
            /\ UNCHANGED <<image, index, view, looked, edits>>

(* validate, version 2: selected screenshots and contexts.                   *)
ValidateSelected(rows, contexts) ==
  LET new == Validated(rows)
      ready == {e \in rows : Fits(new[e], contexts)}
  IN  /\ Idle /\ rows # {} /\ contexts # {}
      /\ Take(Writing(new, {e \in rows : new[e].content # None}, TRUE,
                        [kind |-> "ready", about |-> ready \X contexts], looked))
      /\ UNCHANGED <<image, index, view, looked, edits>>

(* A reviewer opens the index and one screenshot that it describes.          *)
Look(e) == /\ index # None /\ Current(index, e)
           /\ view' = [index |-> index, of |-> e, bytes |-> image[e]]
           /\ UNCHANGED <<image, index, cmd, looked, said, edits>>

(* The index is the one the caller names by its digest.                      *)
ExpectedAny(i) == i # None  \* mutant: the digest is not compared
Expected(i) == i = index

(* record-review: the judgement is about the recorded digest.                *)
RecordReview(contexts, fit, v2) ==
  LET e == view.of
      judgement == [fit |-> fit, of |-> index[e].content]
      On(j, what) == [c \in Context |-> IF c \in contexts THEN what ELSE j[c]]
  IN  /\ Idle /\ view # None /\ Expected(view.index) /\ Current(index, e)
      /\ contexts # {}
      /\ Take(Writing([index EXCEPT ![e].judged = On(@, judgement)], {e}, v2, Quiet,
                        [looked EXCEPT ![e] = On(@, view.bytes)]))
      /\ UNCHANGED <<image, index, view, looked, edits>>

Edit == edits < MaxEdits /\ edits' = edits + 1

(* bind-prototype: each screenshot the prototype depends on refers to it.    *)
BindPrototype(rows, p, v2) ==
  /\ Idle /\ Edit /\ rows # {} /\ \A e \in rows : Current(index, e)
  /\ Take(Writing([e \in Evidence |-> IF e \in rows
                       THEN [index[e] EXCEPT !.refs = @ \cup {p}] ELSE index[e]],
                    rows, v2, Quiet, looked))
  /\ UNCHANGED <<image, index, view, looked>>

Write == /\ cmd # None /\ cmd.op = "write"
         /\ LET ok == /\ \A e \in cmd.recheck : Current(cmd.new, e)
                      /\ cmd.reread => index = cmd.old
            IN  IF ok THEN index' = cmd.new /\ looked' = cmd.seen /\ said' = cmd.tell
                      ELSE UNCHANGED <<index, looked, said>>
         /\ cmd' = None
         /\ UNCHANGED <<image, view, edits>>

(* The process dies; the system drops its lock and nothing was replaced.     *)
Kill == /\ cmd # None /\ cmd' = None
        /\ UNCHANGED <<image, index, view, looked, said, edits>>

(* People: another image in a file, or the index put back as it was made.    *)
Replace(e, bytes) == /\ Edit /\ index # None /\ image[e] # bytes
                     /\ image' = [image EXCEPT ![e] = bytes]
                     /\ UNCHANGED <<index, cmd, view, looked, said>>
Restore == /\ Edit /\ index # None /\ index # Fresh /\ index' = Fresh
           /\ UNCHANGED <<image, cmd, view, looked, said>>

MNext == \/ Scaffold \/ Validate \/ Write \/ Kill \/ Restore
         \/ \E rows \in SUBSET Evidence, cs \in SUBSET Context : ValidateSelected(rows, cs)
         \/ \E e \in Evidence : Look(e)
         \/ \E cs \in SUBSET Context, fit, v2 \in BOOLEAN : RecordReview(cs, fit, v2)
         \/ \E rows \in SUBSET Evidence, p \in Prototype, v2 \in BOOLEAN : BindPrototype(rows, p, v2)
         \/ \E e \in Evidence, b \in Picture \cup {Blank} : Replace(e, b)
=============================================================================
