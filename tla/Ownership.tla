----------------------------- MODULE Ownership -----------------------------
(***************************************************************************)
(* Who owns a file the kit installs into: src/installer/preflight.py and   *)
(* the planning halves of install.py, uninstall.py and legacy.py, over the *)
(* manifest.  One managed resource, its user, and kit releases that come   *)
(* and go.  A command reads, decides and replaces in one step: InstallTx   *)
(* has the transaction between.                                            *)
(***************************************************************************)
EXTENDS Containers

CONSTANTS
  None,       \* no manifest; one that does not record the resource is {}
  FirstTexts, \* texts a user may have before the kit comes
  FirstHooks, \* and settings
  MaxTouches  \* bound: changes by the user

VARIABLES
  kind,      \* which resource this is
  content,   \* the file
  manifest,  \* None, or what it records of the resource: at most one entry
  release,   \* the kit release the operator runs
  touches    \* changes by the user so far

ownership == <<kind, content, manifest, release, touches>>

FirstContents(k) ==
  {Absent} \cup CASE k \in Texts -> FirstTexts \cup {Garbled}
                  [] k \in {"owned", "seed"} -> {"old", "mine"}
                  [] k = "hook" -> FirstHooks \cup {Garbled, Odd}
                  [] k = "server" -> Servers \cup {Garbled, Odd}

OInit ==
  /\ kind \in Kinds
  /\ content \in FirstContents(kind)
  /\ manifest = None
  /\ release \in Releases
  /\ touches = 0

Recorded == IF manifest = None THEN {} ELSE manifest
Entry(part, created) == {[part |-> p, created |-> created] : p \in part}

(***************************************************************************)
(* The status of the resource, by what the file says, what the manifest    *)
(* says and what this release takes for its own                            *)
(***************************************************************************)
\* A file the user was given once is theirs, whatever is in it.
SeedStatus == IF content = Absent /\ Recorded # {} THEN "drifted" ELSE "managed"

TrustAnything(part) == TRUE  \* mutant: whatever stands there is taken for the kit's
Trust(part) == part \subseteq Trusted(kind, release)

StatusOf(part) ==
  IF Recorded = {}
    THEN CASE part = {} -> "managed"
           [] part = {Current(kind, release)} -> "managed"
           [] part # {Current(kind, release)} /\ Trust(part) -> "adopted_legacy"
           [] OTHER -> "conflict"
    ELSE CASE part = {} -> "drifted"
           [] part # {} /\ Trust(part) -> IF \E e \in Recorded : part = {e.part} THEN "managed" ELSE "drifted"
           [] OTHER -> "conflict"

Status == IF kind = "seed" THEN SeedStatus ELSE StatusOf(Fragment(kind, content))

Unreadable == content = Garbled

\* Only .gitignore is left alone when there is none.
Installable(repair) ==
  /\ ~Unreadable
  /\ ~(kind = "ignore" /\ content = Absent)
  /\ Status # "conflict"
  /\ Status = "drifted" => repair

(***************************************************************************)
(* Commands                                                                *)
(***************************************************************************)
\* An outer structure the kit did not expect stops the whole command.
Install(repair) ==
  /\ IF ~Installable(repair)
       THEN manifest' = Recorded /\ UNCHANGED content
     ELSE IF content = Odd
       THEN UNCHANGED <<manifest, content>>
     ELSE /\ content' = Merged(kind, content, release)
          /\ manifest' = Entry(Fragment(kind, content'), kind \in Texts /\ content = Absent)
  /\ UNCHANGED <<kind, release, touches>>

Removable == ~Unreadable /\ kind # "seed" /\ Recorded # {} /\ Status = "managed"

\* What stays keeps its record; without records, of this resource or of any
\* other, the manifest goes too.
Uninstall ==
  /\ manifest # None
  /\ IF Removable
       THEN /\ \E e \in Recorded : content' = Removed(kind, content, e.created)
            /\ manifest' \in {None, {}}
       ELSE /\ UNCHANGED content
            /\ IF Recorded = {} THEN manifest' \in {None, {}} ELSE UNCHANGED manifest
  /\ UNCHANGED <<kind, release, touches>>

\* A lost manifest is rebuilt from what is recognised, without touching it.
\* Without anything recognised there is none.
Adopt ==
  /\ manifest = None
  /\ LET part == Fragment(kind, content)
     IN IF part # {} /\ Trust(part) THEN manifest' = Entry(part, FALSE) ELSE manifest' \in {None, {}}
  /\ UNCHANGED <<kind, content, release, touches>>

OtherRelease == /\ release' \in Releases \ {release}
                /\ UNCHANGED <<kind, content, manifest, touches>>

(***************************************************************************)
(* The user                                                                *)
(***************************************************************************)
WithLine(t, i) == Upto(t, i) \o <<"mine", "nl">> \o From(t, i)
WithoutLine(t, i) ==
  LET ends == {j \in Spots(t, {"nl"}) : j >= i}
  IN Upto(t, i) \o IF ends = {} THEN <<>> ELSE From(t, 1 + CHOOSE j \in Least(ends) : TRUE)

TouchedTexts(t) == {WithLine(t, i) : i \in LineStarts(t)} \cup {WithoutLine(t, i) : i \in LineStarts(t)}

TouchedHooks(es) ==
  {[es EXCEPT ![i].hooks = Append(@, "mine")] : i \in DOMAIN es}
  \cup UNION {{[es EXCEPT ![i].hooks[j] = "changed"] : j \in DOMAIN es[i].hooks} : i \in DOMAIN es}
  \cup {Append(es, [matcher |-> "other", hooks |-> <<"mine">>, noted |-> FALSE])}

Touched ==
  {Absent} \cup IF content \in {Absent, Garbled, Odd} THEN FirstContents(kind)
                ELSE CASE kind \in Texts -> TouchedTexts(content)
                       [] kind = "hook" -> TouchedHooks(content)
                       [] OTHER -> FirstContents(kind)

Touch == /\ touches < MaxTouches /\ touches' = touches + 1
         /\ \/ content' \in Touched /\ UNCHANGED manifest
            \/ manifest' = None /\ UNCHANGED content
         /\ UNCHANGED <<kind, release>>

ONext ==
  \/ \E repair \in BOOLEAN : Install(repair)
  \/ Uninstall
  \/ Adopt
  \/ OtherRelease
  \/ Touch

OSpec == OInit /\ [][ONext]_ownership

(***************************************************************************)
(* Properties                                                              *)
(***************************************************************************)
\* What is the user's in a file.
IsTheirs(token) == token \in {"mine", "section"}
HookOfTheirs(e) == e.noted \/ \E j \in DOMAIN e.hooks : e.hooks[j] = "mine"
HooksOfTheirs(es) ==
  [i \in DOMAIN SelectSeq(es, HookOfTheirs) |->
     LET e == SelectSeq(es, HookOfTheirs)[i] IN
     <<e.matcher, e.noted, Cardinality(Spots(e.hooks, {"mine"}))>>]

Theirs(k, c) ==
  IF c \in {Absent, Garbled, Odd} THEN <<>>
  ELSE CASE k \in Texts -> SelectSeq(c, IsTheirs)
         [] k \in {"owned", "seed"} -> IF c = "mine" THEN <<c>> ELSE <<>>
         [] k = "hook" -> HooksOfTheirs(c)
         [] k = "server" -> IF c.others THEN <<"others">> ELSE <<>>

Written(k, part) == part \subseteq Trusted(k, "new")

\* Whatever the user did to a file, before the kit came or after, and whatever
\* release runs: no command loses a line, a hook or a setting of the user's,
\* and none touches a part no release ever wrote or a file it cannot read.
UserPartKept ==
  [][content' # content /\ touches' = touches =>
       /\ Theirs(kind, content') = Theirs(kind, content)
       /\ content \notin {Garbled, Odd}
       /\ kind # "seed" => Written(kind, Fragment(kind, content))]_ownership

\* The lines that say something.
Lines(t) ==
  LET starts == LineStarts(t) \cap DOMAIN t
      nth(n) == CHOOSE i \in starts : Cardinality({j \in starts : j <= i}) = n
      line(i) == LET ends == {j \in Spots(t, {"nl"}) : j >= i}
                 IN SubSeq(t, i, IF ends = {} THEN Len(t) ELSE (CHOOSE j \in Least(ends) : TRUE) - 1)
  IN SelectSeq([n \in 1 .. Cardinality(starts) |-> line(nth(n))], LAMBDA l : l # <<>>)

Visible(k, c) == IF k \in Texts /\ c \notin {Absent, Garbled} THEN Lines(c) ELSE Theirs(k, c)

\* An install recognises its own work: run again it changes nothing, a newer
\* release will take the file over, and an uninstall right after gives back,
\* line by line, a file the kit had no part in.
InstallSettles ==
  [][content' # content /\ (\E repair \in BOOLEAN : Install(repair)) =>
       /\ Status' = "managed"
       /\ Merged(kind, content', release) = content'
       /\ Fragment(kind, content') \subseteq Trusted(kind, "new")
       /\ Fragment(kind, content) = {} /\ kind \notin {"owned", "seed"} =>
            \A e \in manifest' : Visible(kind, Removed(kind, content', e.created)) = Visible(kind, content)]_ownership
=============================================================================
