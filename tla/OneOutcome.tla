----------------------------- MODULE OneOutcome -----------------------------
(* What a controlled execution promises its callers: a step is attempted at   *)
(* most once, its outcome is settled at most once and never changes, and      *)
(* nobody is ever told anything but the settled outcome.  There are no files, *)
(* no crashes and no conflicts at this level: who fails is told nothing.      *)
EXTENDS Naturals

CONSTANTS Sessions, Step,
          Outcome,      \* what can be settled
          Ran,          \* the outcomes only an attempt can have
          None

VARIABLES attempts,     \* processes started, by step
          outcome,      \* [Step -> Outcome, or None]
          told          \* what each session was answered last

ovars == <<attempts, outcome, told>>

OInit == /\ attempts = [st \in Step |-> 0]
         /\ outcome = [st \in Step |-> None]
         /\ told = [s \in Sessions |-> None]

Attempt(st) == /\ attempts[st] = 0
               /\ outcome[st] = None
               /\ attempts' = [attempts EXCEPT ![st] = 1]
               /\ UNCHANGED <<outcome, told>>

Settle(st, o) == /\ outcome[st] = None
                 /\ o \in Ran => attempts[st] = 1
                 /\ outcome' = [outcome EXCEPT ![st] = o]
                 /\ UNCHANGED <<attempts, told>>

Tell(s, st) == /\ outcome[st] # None
               /\ told' = [told EXCEPT ![s] = <<st, outcome[st]>>]
               /\ UNCHANGED <<attempts, outcome>>

Forget(s) == /\ told' = [told EXCEPT ![s] = None]
             /\ UNCHANGED <<attempts, outcome>>

ONext == \/ \E st \in Step : Attempt(st) \/ \E o \in Outcome : Settle(st, o)
         \/ \E s \in Sessions : Forget(s) \/ \E st \in Step : Tell(s, st)

OSpec == OInit /\ [][ONext]_ovars
=============================================================================
