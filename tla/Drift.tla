------------------------------- MODULE Drift --------------------------------
(***************************************************************************)
(* How an article follows Wikipedia: the drift cron of wiki/src/drift.ts,  *)
(* the work queue of GET /api/work, and the pipeline runs that take work   *)
(* from it (stage-0 re-pins of site/update_from_upstream.py, reviews of    *)
(* site/moderate.py) and save through POST /api/article, each awaited read *)
(* and write a step.                                                       *)
(*                                                                         *)
(* One article: the sweep and the queue treat articles independently.  An  *)
(* article always has a pin (creates require one) and a moderation_state   *)
(* row (creates write it).  Sweeps do not overlap (one cron a day); one    *)
(* that fails before its writes, or does not reach the article, has no     *)
(* effect on it and is no step.  Annotations and proposals are those of    *)
(* ArticlePlane; here a save is its version, its pin and its review stamp. *)
(***************************************************************************)
EXTENDS Naturals

CONSTANTS
  Runs,        \* pipeline runs that may work on the article at a time
  Reviewers,   \* those of moderate.py, which review; the others run stage 0
  MaxRev,      \* bound on upstream revisions
  MaxVersion,  \* bound on the article's version
  MaxFails     \* bound on sweeps that die between two of their batches

ASSUME DriftAssumption ==
  Reviewers \subseteq Runs /\ {MaxRev, MaxVersion, MaxFails} \subseteq Nat

Unknown == 0   \* latest_revid NULL; upstream revisions count from 1

VARIABLES
  page,      \* the Wikipedia page: what it is and its newest revision
  article,   \* version, revid (the pin), latest (latest_revid), and the pins
             \* its stored revisions hold
  mod,       \* its moderation_state: state, wp_drifted, last_reviewed_version
  cron,      \* the sweep: the pin it read and what MediaWiki answered
  run,       \* the pipeline runs
  fails,     \* sweeps that died so far
  lastEdit,  \* version of the newest save by a person or an agent
  read,      \* newest version a pipeline run has read
  marked     \* somebody parked the article as needs_human

vars == <<page, article, mod, cron, run, fails, lastEdit, read, marked>>

Jobs == {"wp-update", "review"}
Parked == {"moved", "deleted", "needs_human"}
GoneStates == {"moved", "deleted"}

IdleCron == [pc |-> "idle", pin |-> 0, outcome |-> "none", rev |-> 0]
IdleRun == [pc |-> "idle", job |-> "review", base |-> 0, target |-> 0,
            rebased |-> FALSE, row |-> [version |-> 0, revid |-> 0, latest |-> 0]]

TypeOK ==
  /\ page \in [kind : {"page", "redirect", "missing"}, rev : Nat]
  /\ article \in [version : Nat, revid : Nat, latest : Nat, pins : SUBSET Nat]
  /\ mod \in [state : Parked \cup {"none"}, drifted : BOOLEAN, reviewed : Nat]
  /\ cron \in [pc : {"idle", "swept", "article", "state"}, pin : Nat, rev : Nat,
               outcome : {"none", "drifted", "unchanged", "missing", "moved"}]
  /\ run \in [Runs -> [pc : {"idle", "queued", "read", "posted"}, job : Jobs,
                       base : Nat, target : Nat, rebased : BOOLEAN,
                       row : [version : Nat, revid : Nat, latest : Nat]]]
  /\ {fails, lastEdit, read} \subseteq Nat /\ marked \in BOOLEAN
  /\ article.revid \in article.pins /\ mod.reviewed <= article.version

\* PUT /api/article has created the article, pinned to what was then current.
Init ==
  /\ page = [kind |-> "page", rev |-> 1]
  /\ article = [version |-> 1, revid |-> 1, latest |-> Unknown, pins |-> {1}]
  /\ mod = [state |-> "none", drifted |-> FALSE, reviewed |-> 1]
  /\ cron = IdleCron /\ run = [r \in Runs |-> IdleRun]
  /\ fails = 0 /\ lastEdit = 0 /\ read = 1 /\ marked = FALSE

-----------------------------------------------------------------------------
(* Wikipedia and people.                                                   *)

Upstream ==
  /\ \/ page.kind = "page" /\ page.rev < MaxRev
        /\ page' = [page EXCEPT !.rev = @ + 1]
     \/ \E k \in {"page", "redirect", "missing"} \ {page.kind} :
          page' = [page EXCEPT !.kind = k]
  /\ UNCHANGED <<article, mod, cron, run, fails, lastEdit, read, marked>>

\* A person's or an agent's save, an approval: the pin stays.
Edit ==
  /\ article.version < MaxVersion
  /\ article' = [article EXCEPT !.version = @ + 1]
  /\ lastEdit' = article.version + 1
  /\ UNCHANGED <<page, mod, cron, run, fails, read, marked>>

\* A revert restores a revision with the pin it was saved under.
Revert ==
  /\ article.version < MaxVersion
  /\ \E pin \in article.pins :
       article' = [article EXCEPT !.version = @ + 1, !.revid = pin]
  /\ lastEdit' = article.version + 1
  /\ UNCHANGED <<page, mod, cron, run, fails, read, marked>>

\* Anchors regressed: the article needs a human and leaves the queue.
MarkNeedsHuman ==
  /\ mod.state = "none"
  /\ mod' = [mod EXCEPT !.state = "needs_human"] /\ marked' = TRUE
  /\ UNCHANGED <<page, article, cron, run, fails, lastEdit, read>>

-----------------------------------------------------------------------------
(* The cron.                                                               *)

SweepReads ==
  /\ cron.pc = "idle"
  /\ cron' = [IdleCron EXCEPT !.pc = "swept", !.pin = article.revid]
  /\ UNCHANGED <<page, article, mod, run, fails, lastEdit, read, marked>>

\* classifyBatch: the page against the pin as it was read.
Classify(p, pin) ==
  CASE p.kind = "missing"  -> "missing"
    [] p.kind = "redirect" -> "moved"
    [] OTHER -> IF p.rev > pin THEN "drifted" ELSE "unchanged"

SweepAsks ==
  /\ cron.pc = "swept"
  /\ LET o == Classify(page, cron.pin)
     IN cron' = [cron EXCEPT !.outcome = o, !.rev = page.rev,
                             !.pc = IF o = "drifted" THEN "article" ELSE "state"]
  /\ UNCHANGED <<page, article, mod, run, fails, lastEdit, read, marked>>

\* The statements go out in batches of 100, so the article's own update and
\* its moderation_state upsert may be committed apart (after an odd number of
\* the single statements that never-pinned articles of the sweep get).
SweepWritesArticle ==
  /\ cron.pc = "article"
  /\ article' = [article EXCEPT !.latest = cron.rev]
  /\ cron' = [cron EXCEPT !.pc = "state"]
  /\ UNCHANGED <<page, mod, run, fails, lastEdit, read, marked>>

\* Mutant: a drifted page keeps its parking.
SweptKeepsParking(m, o) ==
  CASE o = "drifted"   -> [m EXCEPT !.drifted = TRUE]
    [] o = "missing"   -> [m EXCEPT !.state = "deleted"]
    [] o = "moved"     -> [m EXCEPT !.state = "moved"]
    [] o = "unchanged" -> [m EXCEPT !.state = IF @ \in GoneStates THEN "none" ELSE @]

Swept(m, o) ==
  LET unparked == IF m.state \in GoneStates THEN "none" ELSE m.state
  IN CASE o = "drifted"   -> [m EXCEPT !.drifted = TRUE, !.state = unparked]
       [] o = "missing"   -> [m EXCEPT !.state = "deleted"]
       [] o = "moved"     -> [m EXCEPT !.state = "moved"]
       [] o = "unchanged" -> [m EXCEPT !.state = unparked]

SweepWritesState ==
  /\ cron.pc = "state"
  /\ mod' = Swept(mod, cron.outcome)
  /\ cron' = IdleCron
  /\ UNCHANGED <<page, article, run, fails, lastEdit, read, marked>>

SweepDies ==
  /\ cron.pc \in {"article", "state"} /\ fails < MaxFails
  /\ cron' = IdleCron /\ fails' = fails + 1
  /\ UNCHANGED <<page, article, mod, run, lastEdit, read, marked>>

-----------------------------------------------------------------------------
(* The queue and the runs.                                                 *)

\* GET /api/work.
ListedForUpdate ==
  mod.state \notin Parked /\ (mod.drifted \/ article.latest > article.revid)
Listed(job) == IF job = "review" THEN mod.state \notin Parked ELSE ListedForUpdate

Idles(r) == run' = [run EXCEPT ![r] = IdleRun]

TakeJob(r, job) ==
  /\ run[r].pc = "idle" /\ Listed(job)
  /\ (job = "review") <=> (r \in Reviewers)
  /\ run' = [run EXCEPT ![r] = [IdleRun EXCEPT !.pc = "queued", !.job = job]]
  /\ UNCHANGED <<page, article, mod, cron, fails, lastEdit, read, marked>>

\* The article is fetched.  Stage 0 goes on only when there is a newer revision
\* to move the pin to.
ReadArticle(r) ==
  LET behind == article.latest # Unknown /\ article.latest # article.revid
  IN /\ run[r].pc = "queued"
     /\ read' = IF article.version > read THEN article.version ELSE read
     /\ \/ /\ run[r].job = "review" \/ behind
           /\ run' = [run EXCEPT ![r].pc = "read", ![r].base = article.version,
                                 ![r].target =
                  IF run[r].job = "review" THEN Unknown ELSE article.latest]
        \/ run[r].job = "wp-update" /\ ~behind /\ Idles(r)
     /\ UNCHANGED <<page, article, mod, cron, fails, lastEdit, marked>>

\* An anchor no longer matches, the agent fails, the run dies, the save is lost.
GiveUp(r) ==
  /\ run[r].pc \in {"read", "posted"} /\ Idles(r)
  /\ UNCHANGED <<page, article, mod, cron, fails, lastEdit, read, marked>>

\* Mutant: whatever version the article has, the save goes through.
AnyVersion(a, b) == TRUE

\* The test of the base_version a save brings, and of the guarded update.
SameVersion(a, b) == a = b

\* 409: a review rebases once on the article as it is then; stage 0 stops.
Refuse(r) ==
  \/ /\ run[r].job = "review" /\ ~run[r].rebased
     /\ run' = [run EXCEPT ![r] = [IdleRun EXCEPT !.pc = "queued", !.rebased = TRUE]]
  \/ (run[r].job = "wp-update" \/ run[r].rebased) /\ Idles(r)

\* The Worker reads the row.
Post(r) ==
  LET fresh == SameVersion(article.version, run[r].base)
  IN /\ run[r].pc = "read"
     /\ \/ /\ fresh
           /\ run' = [run EXCEPT ![r].pc = "posted", ![r].row =
                [version |-> article.version, revid |-> article.revid,
                 latest |-> article.latest]]
        \/ ~fresh /\ Refuse(r)
     /\ UNCHANGED <<page, article, mod, cron, fails, lastEdit, read, marked>>

\* The pin the save asks for: a review posts none and keeps the row's.
Pin(r) == IF run[r].job = "review" THEN run[r].row.revid ELSE run[r].target

\* wp_drifted is reset when the new pin has caught up with the row's
\* latest_revid, as that was read.
StillDrifted(row, pin) == row.latest # Unknown /\ pin < row.latest

\* The version last_reviewed_version is set to.
Stamp(row, noop) == IF noop THEN row.version ELSE row.version + 1

\* The client is done, or a 5xx hides the commit and it posts again.
Answered(r) ==
  \/ Idles(r)
  \/ run' = [run EXCEPT ![r].pc = "read", ![r].row = IdleRun.row]

\* The guarded batch: a save that changes neither annotations nor pin only
\* stamps the review.  The guard also fails when the article's proposals
\* changed (ArticlePlane), which may be so at any version.
Commit(r, changes) ==
  LET row == run[r].row
      noop == ~changes /\ Pin(r) = row.revid
  IN /\ run[r].pc = "posted"
     /\ run[r].job = "wp-update" => ~changes
     /\ \/ /\ SameVersion(article.version, row.version) /\ Answered(r)
           /\ \/ noop /\ mod' = [mod EXCEPT !.reviewed = Stamp(row, noop)]
                 /\ UNCHANGED article
              \/ /\ ~noop /\ row.version < MaxVersion
                 /\ article' = [article EXCEPT !.version = row.version + 1,
                                  !.revid = Pin(r), !.pins = @ \cup {Pin(r)}]
                 /\ mod' = [mod EXCEPT !.reviewed = Stamp(row, noop),
                              !.drifted = @ /\ StillDrifted(row, Pin(r))]
        \/ Refuse(r) /\ UNCHANGED <<article, mod>>
     /\ UNCHANGED <<page, cron, fails, lastEdit, read, marked>>

-----------------------------------------------------------------------------
Sweep == SweepReads \/ SweepAsks \/ SweepWritesArticle \/ SweepWritesState

Next ==
  \/ Upstream \/ Edit \/ Revert \/ MarkNeedsHuman
  \/ Sweep \/ SweepDies
  \/ \E r \in Runs :
       \/ \E job \in Jobs : TakeJob(r, job)
       \/ ReadArticle(r) \/ GiveUp(r) \/ Post(r)
       \/ \E changes \in BOOLEAN : Commit(r, changes)

Spec == Init /\ [][Next]_vars

\* The cron fires every day and its batches are executed.
FairSpec == Spec /\ WF_vars(Sweep)

-----------------------------------------------------------------------------
(* What must hold.                                                         *)

\* A pipeline save never moves the pin to an older revision than the one the
\* article shows, whatever the cron, reverts and other runs did meanwhile.
PinsOnlyAdvance ==
  [][\A r \in Runs : (run[r].pc = "posted" /\ run'[r].pc # "posted")
                       => article'.revid >= article.revid]_vars

\* An edit leaves the human-edited tier of the queue only by a save of a run
\* that had read the article with it.
ReviewsReadTheEdits == lastEdit > read => mod.reviewed < lastEdit

\* A page that moved past the pin is listed for update in the end, or the pin
\* catches up, unless the page goes away or the article waits for a human.
UpstreamChangesAreListed ==
  (page.kind = "page" /\ article.revid < page.rev) ~>
    (\/ ListedForUpdate \/ article.revid >= page.rev
     \/ page.kind # "page" \/ mod.state = "needs_human")

\* The cron never takes an article out of needs_human (drift.ts:13-14).
NeedsHumanIsKept == marked => mod.state \in Parked

\* What is listed for update trails upstream (index.ts:2858-2859).
WpUpdateTrails == ListedForUpdate => page.kind # "page" \/ article.revid < page.rev
=============================================================================
