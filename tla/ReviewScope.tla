----------------------------- MODULE ReviewScope ----------------------------
(* What the review gate of a stage knows when it has only sent a part of the  *)
(* documents: doc-gate review-input and gate over <stage>.review-request,     *)
(* review-current, review-receipt with issues, and review-baseline.json.      *)
(*                                                                           *)
(* ReviewGate has the verdict and its crash-safe record; here the lifecycle   *)
(* is one step, the hard checks pass, every issue counts, and the documents   *)
(* stay as they are while a command runs (ReviewGate lets them move).         *)
EXTENDS ReviewInput, Sequences

CONSTANTS Texts,          \* Section -> what its author may write there, None: no heading
          FirstText,      \* the documents at the start
          Deps, FirstDep, \* states of everything else a request depends on
          Versions,       \* request schemas in use: 1, 2
          Issue,
          Where,          \* Issue -> sections its report names, {} when it names none
          At,             \* Issue -> the sections it is about
          MaxIterations,  \* policy
          MaxEdits, MaxSent, MaxReviews, MaxCrashes   \* bounds

ASSUME PlaceAssumption == \A i \in Issue : Where[i] \subseteq At[i] /\ At[i] \subseteq Section
(* What the documents of the stage can be. *)
Documents == {x \in [Section -> UNION {Texts[s] : s \in Section}] :
                \A s \in Section : x[s] \in Texts[s]}

ASSUME TextAssumption == FirstText \in Documents
ASSUME VersionAssumption == Versions \subseteq {1, 2}
ASSUME ScopeBoundAssumption == {MaxIterations, MaxEdits, MaxSent, MaxReviews, MaxCrashes} \subseteq Nat

VARIABLES text, dep,      \* the documents; plan, policy, upstream stages, context
          base,           \* review-baseline.json
          req, cur,       \* review-request.json, review-current.json
          task,           \* the request the reviewer was last handed
          answer,         \* issues.json with its receipt
          claims,         \* issue-claims.json
          lc, gate,       \* issue-lifecycle.json, gate.json with gate.log
          at,             \* where the running command is
          reviews,        \* history: the validated reviews
          edits, sent, crashes

files  == <<base, req, cur, lc, gate>>
people == <<text, dep, task, answer, claims, edits, sent>>
vars   == <<files, people, at, reviews, crashes>>

Snap(v) == Read(text, <<v, dep>>)
Unsettled == {"OPEN", "FIXED", "REOPENED"}

Init == /\ text = FirstText /\ dep = FirstDep
        /\ base = None /\ req = None /\ cur = None /\ task = None
        /\ answer = None /\ claims = None
        /\ lc = [state |-> [i \in Issue |-> "none"], iteration |-> 1, applied |-> None]
        /\ gate = [status |-> "none", fails |-> 0, req |-> None, text |-> FirstText,
                   claims |-> None, progress |-> None]
        /\ at = "idle" /\ reviews = <<>>
        /\ edits = 0 /\ sent = 0 /\ crashes = 0

-----------------------------------------------------------------------------
(* _v2_review_bindings and review_issue_locations. *)

Named(q, i) == IF Where[i] \subseteq Present(q) THEN Where[i] ELSE {}

(* A locator of the reviewer counts for known issues and sections with an     *)
(* owner, in an answer to a full request about these very documents.          *)
Locates(a, q, known) ==
    a.locates = {} \/ /\ a.req.mode = "full" /\ a.req.snap = q
                      /\ a.locates \subseteq known
                      /\ \A i \in a.locates : /\ At[i] \subseteq Present(q) \ Globals(Evidence(q))
                                              /\ Named(q, i) \subseteq At[i]

Raised(l, closedToo) ==
    {i \in Issue : l.state[i] \notin {"none"} \cup (IF closedToo THEN {} ELSE {"CLOSED"})}

(* The files on disk still are the ones the baseline was accepted with. *)
Accepted(q, known) == /\ base # None /\ base.version = 2 /\ answer # None
                      /\ base.answer = answer /\ req = answer.req
                      /\ Locates(answer, q, known)

Bound(l, q, closedToo) ==
    LET known == Raised(l, closedToo)
    IN [i \in known |->
          [state |-> l.state[i],
           keys  |-> IF Accepted(q, known) /\ i \in answer.locates THEN At[i] ELSE Named(q, i)]]

(* pending_fix_claims: claims are for these documents, and for this lifecycle *)
(* unless it has recorded them already.                                      *)
Base(l) == [l EXCEPT !.applied = None]
ClaimsFit == claims # None => /\ claims.text = text
                              /\ claims = lc.applied \/ claims.base = Base(lc)
Pending(l) == IF claims = None \/ claims = l.applied THEN {} ELSE claims.issues

-----------------------------------------------------------------------------
(* Author, upstream and reviewer. *)

Edit(s, t) == /\ at = "idle" /\ edits < MaxEdits /\ t # text[s]
              /\ text' = [text EXCEPT ![s] = t] /\ edits' = edits + 1
              /\ UNCHANGED <<files, dep, task, answer, claims, sent, at, reviews, crashes>>

Upstreamed(d) == /\ at = "idle" /\ edits < MaxEdits /\ d # dep
                 /\ dep' = d /\ edits' = edits + 1
                 /\ UNCHANGED <<files, text, task, answer, claims, sent, at, reviews, crashes>>

Claim(S) == /\ at = "idle" /\ S # {} /\ \A i \in S : lc.state[i] \in {"OPEN", "REOPENED"}
            /\ claims' = [text |-> text, base |-> Base(lc), issues |-> S]
            /\ claims' # claims
            /\ UNCHANGED <<files, text, dep, task, answer, edits, sent, at, reviews, crashes>>

Unclaim == /\ at = "idle" /\ claims # None
           /\ claims' = None
           /\ UNCHANGED <<files, text, dep, task, answer, edits, sent, at, reviews, crashes>>

(* An answer is to the request the reviewer was handed, however late. *)
Answer(R, L) == /\ at = "idle" /\ task # None
                /\ L \subseteq DOMAIN task.bound
                /\ answer' = [req |-> task, reports |-> R, locates |-> L]
                /\ answer' # answer
                /\ UNCHANGED <<files, text, dep, task, claims, edits, sent, at, reviews, crashes>>

-----------------------------------------------------------------------------
(* doc-gate review-input: the request, then the snapshot it was made from.    *)

Plan(v, q) == IF v = 1 THEN Plan1(base, q) ELSE Plan2(base, q, Bound(lc, q, FALSE))
NoWork(v, q) == v = 2 /\ Nothing(base, q, Bound(lc, q, FALSE))

(* Stopped before delivery: out of rounds, or nothing has changed since the   *)
(* gate that left the issues open.                                           *)
Stuck(q) == LET bound == Bound(lc, q, FALSE)
            IN /\ DOMAIN bound # {}
               /\ \/ lc.iteration >= MaxIterations
                  \/ Progress(q, bound, Pending(lc)) = gate.progress

Request(v) == /\ at = "idle" /\ sent < MaxSent
              /\ ~NoWork(v, Snap(v))
              /\ v = 2 => ClaimsFit /\ ~Stuck(Snap(v))
              /\ WellFormed(Plan(v, Snap(v)))
              /\ req' = Plan(v, Snap(v))
              /\ at' = "current"
              /\ UNCHANGED <<base, cur, lc, gate, people, reviews, crashes>>

Hand == /\ at = "current"
        /\ cur' = req.snap /\ task' = req /\ sent' = sent + 1
        /\ at' = "idle"
        /\ UNCHANGED <<base, req, lc, gate, text, dep, answer, claims, edits, reviews, crashes>>

-----------------------------------------------------------------------------
(* doc-gate gate. *)

(* _validate_issues *)
ValidReview ==
    /\ answer # None /\ req # None /\ cur # None /\ WellFormed(req)
    /\ req.snap = Snap(req.version) /\ cur = req.snap
    /\ req.mode = "incremental" => /\ ~NoWork(req.version, req.snap)
                                   /\ req = Plan(req.version, req.snap)
    /\ answer.req = req
    /\ req.version = 2 => Locates(answer, req.snap, Raised(lc, TRUE))

Baseline1 == IF answer.reports # {} THEN None
             ELSE IF req.mode = "full" THEN [version |-> 1, snap |-> cur] ELSE base

(* Schema 1 keeps its baseline while it validates, before any verdict. *)
Validate == /\ at = "idle" /\ ValidReview /\ ClaimsFit
            /\ Len(reviews) < MaxReviews
            /\ base' = IF req.version = 1 THEN Baseline1 ELSE base
            /\ reviews' = Append(reviews, [version |-> req.version, text |-> text,
                                           targets |-> req.targets, shown |-> Shown(req),
                                           reports |-> answer.reports])
            /\ at' = "commit"
            /\ UNCHANGED <<req, cur, lc, gate, people, crashes>>

(* A fix is only verified by a review that was sent all its sections; schema  *)
(* 1 does not ask.                                                           *)
Covered ==
    IF req.version = 1 THEN Issue
    ELSE LET bound == Bound(lc, req.snap, TRUE)
             keys(i) == IF bound[i].keys = {} /\ i \in answer.locates THEN At[i] ELSE bound[i].keys
         IN {i \in DOMAIN bound : keys(i) # {} /\ keys(i) \subseteq req.targets}

(* prepare_lifecycle, in the order it applies things. *)
Reviewed(i) ==
    LET was     == lc.state[i]
        claimed == IF i \in Pending(lc) THEN "FIXED" ELSE was
    IN IF i \in answer.reports THEN
         IF claimed = "none" THEN "OPEN"
         ELSE IF claimed \in {"FIXED", "VERIFIED", "CLOSED"} THEN "REOPENED" ELSE claimed
       ELSE IF claimed = "FIXED" /\ i \in Covered THEN "VERIFIED" ELSE claimed

Rounds == LET n == IF gate.fails + 1 > lc.iteration THEN gate.fails + 1 ELSE lc.iteration
          IN IF n > MaxIterations THEN MaxIterations ELSE n

Prepared == [state |-> [i \in Issue |-> Reviewed(i)], iteration |-> Rounds,
             applied |-> IF claims = None THEN lc.applied ELSE claims]
Passes(l) == \A i \in Issue : l.state[i] \notin Unsettled
Closed(l) == [l EXCEPT !.state = [i \in Issue |-> IF @[i] = "VERIFIED" THEN "CLOSED" ELSE @[i]]]

(* _v2_progress of the gate: about the next request, with the locations this  *)
(* answer gave.                                                              *)
GateProgress(l) ==
    LET bound == Bound(l, req.snap, TRUE)
        found == [i \in DOMAIN bound |->
                    IF i \in answer.locates THEN [bound[i] EXCEPT !.keys = At[i]] ELSE bound[i]]
    IN IF req.version = 1 THEN None ELSE Progress(req.snap, found, {})

Commit == /\ at = "commit"
          /\ lc' = IF Passes(Prepared) THEN Closed(Prepared) ELSE Prepared
          /\ gate' = [status |-> IF Passes(Prepared) THEN "PASS" ELSE "REVISE",
                      fails  |-> IF Passes(Prepared) THEN 0 ELSE gate.fails + 1,
                      req |-> req, text |-> text, claims |-> claims,
                      progress |-> GateProgress(Prepared)]
          /\ at' = IF req.version = 2 /\ req.mode = "full" THEN "publish" ELSE "idle"
          /\ UNCHANGED <<base, req, cur, people, reviews, crashes>>

(* _publish_full_v2_material_baseline: what was sent, not whether it passed.  *)
Publish == /\ at = "publish"
           /\ base' = [version |-> 2, snap |-> cur, answer |-> answer, evidence |-> Evidence(cur)]
           /\ at' = "idle"
           /\ UNCHANGED <<req, cur, lc, gate, people, reviews, crashes>>

Abort == /\ at # "idle" /\ crashes < MaxCrashes
         /\ at' = "idle" /\ crashes' = crashes + 1
         /\ UNCHANGED <<files, people, reviews>>

Next == \/ \E s \in Section : \E t \in Texts[s] : Edit(s, t)
        \/ \E d \in Deps : Upstreamed(d)
        \/ \E S \in SUBSET Issue : Claim(S)
        \/ Unclaim
        \/ \E R, L \in SUBSET Issue : Answer(R, L)
        \/ \E v \in Versions : Request(v)
        \/ Hand \/ Validate \/ Commit \/ Publish \/ Abort

Spec == Init /\ [][Next]_vars

-----------------------------------------------------------------------------
(* Properties. *)

(* What a section is judged by: the sections whose ids it uses, and in schema *)
(* 2 also the rest of its owner and the global constraints.                  *)
Context(v, q, s) ==
    {s} \cup {r \in Present(q) : <<r, s>> \in Edges(q)}
        \cup (IF v = 1 THEN {} ELSE Group(Evidence(q), {s}) \cup Globals(Evidence(q)))

(* A stage passes on reviews that add up: every section, sent now or left     *)
(* out, was judged in its present text beside the present text of all it      *)
(* depends on.                                                               *)
CoherentPass ==
    gate.status = "PASS" =>
      LET q == gate.req.snap
      IN \A s \in Present(q) : \E k \in DOMAIN reviews :
            /\ s \in reviews[k].targets
            /\ \A t \in Context(gate.req.version, q, s) :
                  t \in reviews[k].shown /\ reviews[k].text[t] = q.text[t]

(* Review k was sent section s as it is now, and no review from then on that   *)
(* was asked in the same schema reported issue i.  Schema 2 looks at the      *)
(* review that verifies, schema 1 also at those its baseline stands on.       *)
ShownSince(k, i, s, version) ==
    /\ s \in reviews[k].targets /\ reviews[k].text[s] = text[s]
    /\ \A m \in k..Len(reviews) : i \in reviews[m].reports => reviews[m].version # version
    /\ version = 2 => k = Len(reviews)

(* A fix is verified only when all that the issue is about has been sent to a  *)
(* reviewer in its present text, and was not reported again from then on.     *)
VerifiedWasShown ==
    [][\A i \in Issue :
         lc.state[i] \in Unsettled /\ lc'.state[i] \in {"VERIFIED", "CLOSED"} =>
           \A s \in At[i] : text[s] # None =>
              \E k \in DOMAIN reviews : ShownSince(k, i, s, gate'.req.version)]_vars

(* What makes that so in schema 2, where a report may name only some of the   *)
(* sections it is about: it names one of every owner, so that what goes       *)
(* together with those it names is all of them, whatever the author wrote.    *)
ReportsNameOwners ==
    \A x \in Documents :
      LET own == Owners(Read(x, FirstDep))
      IN \A i \in Issue : Where[i] # {} /\ Where[i] \subseteq DOMAIN own =>
           \A s \in At[i] \cap DOMAIN own :
              \E r \in Where[i] : r = s \/ (own[s] # None /\ own[r] = own[s])

(* review-input does not hand out again what the gate has already judged and  *)
(* left open, with the same documents and the same claims (the comment where  *)
(* the gate records its progress says so).                                   *)
NeverRepeats ==
    [][sent' > sent /\ task'.version = 2 /\ gate.status = "REVISE" /\ gate.req.version = 2
       => \/ text # gate.text \/ task'.snap # gate.req.snap
          \/ claims # gate.claims]_vars
=============================================================================
