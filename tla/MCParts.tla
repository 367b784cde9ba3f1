------------------------------- MODULE MCParts -------------------------------
(* TLC instance: three components that share neither files nor processes,     *)
(* side by side.  A behaviour is a behaviour of one of them, the others rest. *)
(* The variables of Ownership are below; those of the others are their own.   *)
EXTENDS DependencyCase, DependencyCheck, UiObservation, Sequences, TLC

CONSTANTS Absent, Garbled, Odd

VARIABLES part, kind, content, manifest, release, touches

(* DependencyCheck: the rest of its data is in DependencyCase.  The advice    *)
(* `late` may be dated after it was gathered (RowsDated is false here).       *)
CaseRequirements == CaseRoute(DesignCheck, DeliveryCheck)

(* Ownership: texts and settings a user may have before the kit comes.       *)
Files == INSTANCE Containers
Old == Files!Body("memory", "old")
Unclosed == Files!Unclosed
UserTexts == {<<>>, <<"nl">>, <<"mine">>, <<"start", "nl">>, Old, Unclosed} \cup
  {<<"mine", "nl">> \o t : t \in {Unclosed, <<"nl">>, Files!Block("memory", "old")}} \cup
  {t \o <<"section", "nl">> : t \in {Old, Unclosed, Files!Block("ignore", "old")}}
UserHooks == {<<>>} \cup {<<[matcher |-> m, hooks |-> h, noted |-> n]>> :
  m \in {"kit", "other"}, h \in {<<>>, <<"mine">>, <<"kit">>, <<"mine", "kit">>}, n \in BOOLEAN}
Owned == INSTANCE Ownership WITH
  FirstTexts <- UserTexts, FirstHooks <- UserHooks, MaxTouches <- 2

ASSUME InstanceAssumption ==
  /\ DCAssumption /\ InventoriesRecorded /\ DeliveryCheck \in Route.risk
  /\ UiAssumption

Symmetry == Permutations(Picture) \cup Permutations(Contract)

ownershipVars == <<kind, content, manifest, release, touches>>

(* A part that rests is in one of its initial states. *)
AtRest == /\ part # "dependency" => drafted.risk = FALSE /\ drafted.finding = FALSE
          /\ part # "ownership" => kind = "owned" /\ content = "mine" /\ release = "new"
PInit == /\ part \in {"dependency", "ownership", "ui"}
         /\ DCInit /\ Owned!OInit /\ Init
         /\ AtRest
PNext ==
  /\ UNCHANGED part
  /\ \/ part = "dependency" /\ DCNext /\ UNCHANGED <<ownershipVars, vars>>
     \/ part = "ownership" /\ Owned!ONext /\ UNCHANGED <<dcVars, vars>>
     \/ part = "ui" /\ Next /\ UNCHANGED <<dcVars, ownershipVars>>
PSpec == PInit /\ [][PNext]_<<part, dcVars, ownershipVars, vars>>

(* Ownership: no command of the installer loses what is the user's.          *)
UserPartKept == Owned!UserPartKept

(* Ownership: an install recognises its own work and can be taken back.      *)
InstallSettles == Owned!InstallSettles
==============================================================================
