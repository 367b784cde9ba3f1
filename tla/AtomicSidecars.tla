--------------------------- MODULE AtomicSidecars ---------------------------
(* What src/aek/adapters/plan_transaction.py promises to its callers: the    *)
(* plan sidecars and the gate records of one reviews directory behave as one *)
(* register.  A publish replaces any number of sidecars in a single step and *)
(* only if nothing changed since the caller's snapshot; a snapshot returns   *)
(* the register whole; a gate record is written from the current register.   *)
(* There is no journal, no lock and no crash at this level.                  *)
EXTENDS Integers

CONSTANTS Proc,        \* callers: command-line processes
          Consumers,   \* every file the consumer digest covers
          Mutable,     \* the consumers a publish may change
          Value,       \* what a file may hold, "no such file" included
          NoView       \* a caller without a snapshot

VARIABLES files,       \* [Consumers -> Value]
          view         \* [Proc -> snapshot of files, or NoView]

avars == <<files, view>>

AInit == /\ files \in [Consumers -> Value]
         /\ view = [p \in Proc |-> NoView]

(* One locked, recovered read of every consumer. *)
ASnapshot(p) == /\ view' = [view EXCEPT ![p] = files]
                /\ UNCHANGED files

(* The caller exits, is killed, or its call is over. *)
AForget(p) == /\ view' = [view EXCEPT ![p] = NoView]
              /\ UNCHANGED files

(* All-or-nothing replacement, guarded by the caller's snapshot. *)
APublish(p) ==
    /\ view[p] = files
    /\ files' \in [Consumers -> Value]
    /\ \A c \in Consumers \ Mutable : files'[c] = files[c]
    /\ UNCHANGED view

(* A gate record written from a snapshot that is still the current state. *)
AGateWrite(p, g, v) ==
    /\ view[p] = files
    /\ files' = [files EXCEPT ![g] = v]
    /\ view' = [view EXCEPT ![p] = NoView]

ANext == \E p \in Proc :
            \/ ASnapshot(p)
            \/ AForget(p)
            \/ APublish(p)
            \/ \E g \in Consumers \ Mutable : \E v \in Value :
                   AGateWrite(p, g, v)

ASpec == AInit /\ [][ANext]_avars
=============================================================================
