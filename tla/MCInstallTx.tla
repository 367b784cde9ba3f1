---------------------------- MODULE MCInstallTx ----------------------------
(* TLC instances of InstallTx. *)
EXTENDS InstallTx

(* A target that never saw the kit: the user may have files of the same name, *)
(* an old release may have left its state file.                              *)
FirstContact == /\ Init
                /\ disk[Manifest] = Absent
                /\ \A s \in Resource \ ({Manifest} \cup Retired) : disk[s] \in {Absent, Mine}
                /\ \A s \in Retired : disk[s] # Bare

ToolSpec == FirstContact /\ [][Next]_vars

(* A target and a workspace without anything: the rest is reached by steps. *)
Empty      == Init /\ \A s \in Resource : disk[s] = Absent /\ \A k \in Skill : link[k] = "absent"
EditedSpec == Empty /\ [][EditNext]_vars
LiveEdits  == EditedSpec /\ WF_vars(Proceed)
=============================================================================
