----------------------------- MODULE MCPlanStore -----------------------------
(* TLC instance of UnlockedEdits: a plan, a credential and one gate record.   *)
EXTENDS UnlockedEdits, TLC

(* Start from an empty reviews directory: everything else is reached by calls. *)
EmptyInit == UInit /\ disk = [c \in Consumers |-> Absent]

EditedSpec == EmptyInit /\ [][UNext]_uvars
LiveEditedSpec == EditedSpec /\ \A p \in Proc : WF_vars(Held(p))
=============================================================================
