----------------------------- MODULE Containers -----------------------------
(***************************************************************************)
(* What the installer does to one file: how it finds its own part, puts it *)
(* in and takes it out again (src/installer/registry.py, install.py and    *)
(* uninstall.py), for the kinds of resource of the registry.               *)
(*                                                                         *)
(* A text is a sequence of tokens, line ends among them, because a line    *)
(* can be joined to the next one.  A hash is the bytes it is the hash of.  *)
(***************************************************************************)
EXTENDS Naturals, Sequences, FiniteSets, SequencesExt

CONSTANTS Absent, Garbled,  \* no file; a file that does not decode or parse
          Odd               \* JSON whose outer structure is not the expected one

\* "memory": a block in CLAUDE.md or AGENTS.md.  "codex": the block in
\* .codex/config.toml.  "ignore": the block in .gitignore.
Texts == {"memory", "codex", "ignore"}
Kinds == Texts \cup {"owned", "seed", "hook", "server"}
Releases == {"old", "new"}

Tokens == {"nl", "start", "end", "head", "section", "mine"} \cup Releases
Text == Seq(Tokens)

(***************************************************************************)
(* Texts                                                                   *)
(***************************************************************************)
\* The positions of a token, and the first of a set of positions as a set.
Spots(t, tokens) == {i \in DOMAIN t : t[i] \in tokens}
Least(S) == {i \in S : \A j \in S : i <= j}

LineStarts(t) == {i \in 1 .. Len(t) + 1 : i = 1 \/ t[i - 1] = "nl"}
Upto(t, i) == SubSeq(t, 1, i - 1)
From(t, i) == SubSeq(t, i, Len(t))

\* Without the line ends at its end.
Trimmed(t) == SubSeq(t, 1, Cardinality({i \in DOMAIN t : \E j \in DOMAIN t : j >= i /\ t[j] # "nl"}))

\* The kit's own text.  A block of .codex/config.toml never changed.
Body(kind, v) ==
  CASE kind = "memory" -> <<"head", "nl", v, "nl">>
    [] kind = "codex"  -> <<"head", "nl", "new", "nl">>
    [] kind = "ignore" -> <<v, "nl">>
Block(kind, v) == <<"start", "nl">> \o Body(kind, v) \o <<"end">>
Unclosed == <<"start", "nl", "old", "nl">>

\* Where the kit's part is: between the markers, or from an unclosed marker to
\* the end, or the section an installer before the markers wrote.
Marked(t) ==
  {[from |-> i, to |-> IF Spots(From(t, i), {"end"}) = {} THEN Len(t) + 1
                       ELSE i + CHOOSE e \in Least(Spots(From(t, i), {"end"})) : TRUE] :
     i \in Least(Spots(t, {"start"}))}

WholeLine(t, i) == i \in LineStarts(t) /\ (i = Len(t) \/ t[i + 1] = "nl")

Section(kind, t) ==
  IF kind = "ignore" THEN {}
  ELSE {[from |-> i,
         to |-> LET after == {j \in Spots(t, {"head", "section"}) \cap LineStarts(t) : j > i}
                IN IF after = {} THEN Len(t) + 1 ELSE CHOOSE j \in Least(after) : TRUE] :
          i \in Least({i \in Spots(t, {"head"}) : WholeLine(t, i)})}

Span(kind, t) == IF Marked(t) # {} THEN Marked(t) ELSE Section(kind, t)

\* The blank lines after a section of config.toml do not count.
Part(kind, t, s) ==
  LET part == SubSeq(t, s.from, s.to - 1)
  IN IF kind = "codex" /\ Marked(t) = {} THEN Trimmed(part) \o <<"nl">> ELSE part

TextAppended(kind, t, v) == t \o <<"nl">> \o Block(kind, v)

TextMerged(kind, t, v) ==
  LET block == Block(kind, v)
      line == IF t # <<>> /\ Last(t) # "nl" THEN t \o <<"nl">> ELSE t
  IN IF Span(kind, t) = {} THEN IF t = <<>> THEN block ELSE line \o <<"nl">> \o block
     ELSE LET s == CHOOSE s \in Span(kind, t) : TRUE
          IN Upto(t, s.from) \o block \o From(t, s.to)

\* The empty line before the block goes with it, and one of two line ends
\* at the end of the file.
TextRemoved(kind, t) ==
  LET s == CHOOSE s \in Span(kind, t) : TRUE
      blank == s.from > 1 /\ t[s.from - 1] = "nl" /\ (s.from = 2 \/ t[s.from - 2] = "nl")
      rest == Upto(t, IF blank THEN s.from - 1 ELSE s.from) \o From(t, s.to)
      n == Len(rest)
  IN IF Span(kind, t) = {} THEN t
     ELSE IF n >= 2 /\ rest[n] = "nl" /\ rest[n - 1] = "nl" THEN Front(rest) ELSE rest

(***************************************************************************)
(* The session hook: entries, each a list of hooks under a matcher         *)
(***************************************************************************)
\* The hook with the kit's command, as the kit writes it or changed; a hook of
\* the user's.  An entry is noted when it is not just a matcher and its hooks.
Ours == {"kit", "changed"}
HookEntry == [matcher: {"kit", "other"}, hooks: Seq(Ours \cup {"mine"}), noted: BOOLEAN]

Holding(es, hooks) == {i \in DOMAIN es : \E j \in DOMAIN es[i].hooks : es[i].hooks[j] \in hooks}

HookFound(es) ==
  {LET hs == es[i].hooks IN hs[CHOOSE j \in Least(Spots(hs, Ours)) : TRUE] : i \in Least(Holding(es, Ours))}

HookMerged(es) ==
  LET mine == Holding(es, Ours)
      same == {i \in DOMAIN es : es[i].matcher = "kit"}
  IN IF mine # {}
       THEN LET i == CHOOSE i \in Least(mine) : TRUE
                j == CHOOSE j \in Least(Spots(es[i].hooks, Ours)) : TRUE
            IN [es EXCEPT ![i].hooks[j] = "kit"]
     ELSE IF same # {}
       THEN LET i == CHOOSE i \in Least(same) : TRUE IN [es EXCEPT ![i].hooks = Append(@, "kit")]
     ELSE Append(es, [matcher |-> "kit", hooks |-> <<"kit">>, noted |-> FALSE])

\* An entry left without a hook goes, unless there is more in it.
HookRemoved(es) ==
  LET Mine(h) == h = "mine"
      bare == [i \in DOMAIN es |-> [es[i] EXCEPT !.hooks = SelectSeq(@, Mine)]]
      Stays(e) == e.hooks # <<>> \/ e.noted
  IN SelectSeq(bare, Stays)

(***************************************************************************)
(* The server entry of .mcp.json                                           *)
(***************************************************************************)
Servers == [server: {"none", "kit", "changed"}, others: BOOLEAN]

(***************************************************************************)
(* One interface for all kinds                                             *)
(***************************************************************************)
\* The kit's part of a file, as a set of at most one.
Fragment(kind, content) ==
  IF content \in {Absent, Garbled, Odd} THEN {}
  ELSE CASE kind \in {"owned", "seed"} -> {content}
         [] kind \in Texts -> {Part(kind, content, s) : s \in Span(kind, content)}
         [] kind = "hook"  -> HookFound(content)
         [] kind = "server" -> {content.server} \ {"none"}

\* What a release writes, and the parts of earlier releases it takes for its own.
Current(kind, v) ==
  CASE kind \in Texts -> Block(kind, v)
    [] kind \in {"owned", "seed"} -> v
    [] OTHER -> "kit"

Released(v) == IF v = "new" THEN Releases ELSE {"old"}

Trusted(kind, v) ==
  {Current(kind, w) : w \in Released(v)}
  \cup CASE kind \in {"memory", "codex"} -> {Body(kind, w) : w \in Released(v)}
         [] kind = "ignore" -> {Unclosed}
         [] OTHER -> {}

Merged(kind, content, v) ==
  CASE kind = "owned" -> v
    [] kind = "seed" -> IF content = Absent THEN v ELSE content
    [] kind \in Texts -> TextMerged(kind, IF content = Absent THEN <<>> ELSE content, v)
    [] kind = "hook" -> HookMerged(IF content = Absent THEN <<>> ELSE content)
    [] kind = "server" -> IF content = Absent THEN [server |-> "kit", others |-> FALSE]
                          ELSE [content EXCEPT !.server = "kit"]

\* A text the kit created goes when nothing is left in it.
Removed(kind, content, created) ==
  CASE kind = "owned" -> Absent
    [] kind \in Texts -> IF created /\ Trimmed(TextRemoved(kind, content)) = <<>> THEN Absent
                         ELSE TextRemoved(kind, content)
    [] kind = "hook" -> HookRemoved(content)
    [] kind = "server" -> [content EXCEPT !.server = "none"]
=============================================================================
