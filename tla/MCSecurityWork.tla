---------------------------- MODULE MCSecurityWork ----------------------------
(* TLC instance: the two halves of src/aek/application/security_workflow.py,  *)
(* which share no steps: the execution of scanners (ControlledRun) and the    *)
(* verification of findings (SecurityRecord); and a work unit by itself, with *)
(* transitions that no execution makes.  A behaviour is a behaviour of one of *)
(* the three, the others rest.                                               *)
EXTENDS ControlledRun, SecurityRecord, TLC

VARIABLE part

(* ControlledRun: the receipts and events of executions, and those of people. *)
(* Both sessions act for one writer; the other takes over.                    *)
ScanReceipts == Step \X Plans
ScanEvents == {"started", "committed"} \X Step \X Plans
PeopleEvents == {"m1", "m2"} \X {"by"} \X {"hand"}
AllEvents == ScanEvents \cup PeopleEvents
OneAuthor == [s \in Sessions |-> "w1"]

Symmetry == Permutations(Sessions) \cup Permutations(Plans)

(* SecurityRecord: one report proves the repair, another refutes the finding. *)
RepairProves == [s \in Sources |-> IF s = "repair" THEN Findings ELSE {}]
CounterRefutes == [s \in Sources |-> IF s = "counter" THEN Findings ELSE {}]
Asked == {[op |-> "reverify", findings |-> Findings, refs |-> {"repair"}],
          [op |-> "false-positive", findings |-> Findings, refs |-> {"counter"}]}

(* Bounds: a unit by itself has four transitions, which may be called started *)
(* but not committed, and three epochs; beside executions people have one     *)
(* transition and one takeover.                                              *)
UnitAlone(u) == u # NoUnit => u.events \cap {Committed(j) : j \in Job} = {}
UnitAmongRuns(u) == u # NoUnit => u.epoch <= 2 /\ <<"m2", "by", "hand">> \notin u.events

SWInit == part \in {"unit", "run", "record"} /\ RInit /\ Init
SWNext == /\ UNCHANGED part
          /\ \/ part = "unit" /\ WNext /\ UnitAlone(unit') /\ UNCHANGED <<xvars, vars>>
             \/ part = "run" /\ RNext /\ UnitAmongRuns(unit') /\ UNCHANGED vars
             \/ part = "record" /\ Next /\ UNCHANGED rvars
SWSpec == SWInit /\ [][SWNext]_<<part, rvars, vars>>
===============================================================================
