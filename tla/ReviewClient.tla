---------------------------- MODULE ReviewClient ----------------------------
(***************************************************************************)
(* The pipeline client of site/moderate.py on one article: a run flushes   *)
(* the checkpoint an earlier run left, reviews the article with agents,    *)
(* writes its finished work to a checkpoint, posts it, posts it again when *)
(* no answer comes, and rebases it once when the answer is 409.            *)
(*                                                                         *)
(* A statement of the article is known by its anchor, and has at most one  *)
(* annotation: identity by id is ArticlePlane's.  The Worker's save is one *)
(* step, which it is by its guard on the version.  A request that got no   *)
(* answer may have been handled, or be handled at any later moment.  The   *)
(* runs of a host take turns (the lock of site/ops/nightly-moderate.sh).   *)
(* Jobs of other articles, creates, budgets and native items are left out. *)
(***************************************************************************)
EXTENDS Naturals

CONSTANTS
  Statements,  \* of the article
  Near,        \* pairs of statements so close that a veto of one covers the other
  Backoffs,    \* retries of a post that gets no usable answer
  MaxWorks,    \* bound on reviews the agents finish
  MaxEdits,    \* bound on saves by people
  MaxFaults    \* bound on lost answers, failed reads, refusals and deaths

ASSUME ClientAssumption ==
  /\ Near \subseteq Statements \X Statements
  /\ {Backoffs, MaxWorks, MaxEdits, MaxFaults} \subseteq Nat

VARIABLES
  stored,      \* the article: its version and the annotation of each statement
  past,        \* the annotations its revisions hold
  client,      \* the run: its place, what it is about to post, what it was told
  checkpoint,  \* the file of finished work that is not known to be saved
  late,        \* requests without an answer
  works, edits, faults,
  saved,       \* works the Worker saved
  refused,     \* works it refused with 409 or 422
  barred,      \* works it refuses every time with another 4xx (too large, not valid ...)
  made,        \* how many versions each work made
  overtaken    \* works under which the article changed, by another hand, since their agents read it

clientVars == <<stored, past, client, checkpoint, late, works, edits, faults,
                saved, refused, barred, made, overtaken>>

-----------------------------------------------------------------------------
(* Annotations.                                                            *)

\* What an annotation says: as created (0), what a work wrote, what a person wrote,
\* that it is rejected.
Works == 0..MaxWorks
Noted == MaxWorks + 1
Rejected == MaxWorks + 2
Items == [by : {"nobody", "agent", "person"}, text : 0..Rejected]
By(who, text) == [by |-> who, text |-> text]
Absent == By("nobody", 0)
Contents == [Statements -> Items]

Person(item) == item.by = "person"

\* A new annotation that near-misses a tombstone.
NearAVeto(existing, s) ==
  existing[s] = Absent /\ \E t \in Statements : <<s, t>> \in Near /\ existing[t].text = Rejected

\* Mutant: what is new near a veto is posted.
FinalizedPeople(existing, produced) ==
  [s \in Statements |->
     IF Person(existing[s]) THEN existing[s]
     ELSE IF Person(produced[s]) THEN By("agent", produced[s].text)
     ELSE produced[s]]

\* finalize_for_post: what people wrote is posted as it is stored, whatever the
\* agents made of it; what is new near a veto is dropped; nobody becomes human.
Finalize(existing, produced) ==
  [s \in Statements |->
     IF Person(existing[s]) THEN existing[s]
     ELSE IF NearAVeto(existing, s) THEN Absent
     ELSE IF Person(produced[s]) THEN By("agent", produced[s].text)
     ELSE produced[s]]

NoBody == [work |-> 0, base |-> 0, anns |-> [s \in Statements |-> Absent]]
Bodies == [work : Works, base : Nat, anns : Contents]
Idle == [pc |-> "idle", mode |-> "flush", code |-> "none", body |-> NoBody,
         tries |-> 0, rebased |-> FALSE]

ClientTypeOK ==
  /\ stored \in [version : Nat, anns : Contents] /\ past \subseteq Contents
  /\ client \in [pc : {"idle", "flush", "ready", "agents", "post", "rebase", "answered"},
                 mode : {"flush", "review"}, code : {"none", "ok", "stale", "lost", "barred", "transient"},
                 body : Bodies, tries : 0..Backoffs, rebased : BOOLEAN]
  /\ checkpoint \in Bodies /\ late \subseteq Bodies
  /\ works \in Works /\ edits \in 0..MaxEdits /\ faults \in 0..MaxFaults
  /\ saved \cup refused \cup barred \cup overtaken \subseteq 1..works
  /\ made \in [1..MaxWorks -> Nat]
  /\ (client.pc \in {"agents", "post", "rebase", "answered"}) <=> (client.body # NoBody)

ClientInit ==
  /\ stored = [version |-> 1, anns |-> [s \in Statements |-> By("agent", 0)]]
  /\ past = {stored.anns}
  /\ client = Idle /\ checkpoint = NoBody /\ late = {}
  /\ works = 0 /\ edits = 0 /\ faults = 0
  /\ saved = {} /\ refused = {} /\ barred = {} /\ overtaken = {}
  /\ made = [w \in 1..MaxWorks |-> 0]

-----------------------------------------------------------------------------
(* People, who save through the Worker.                                    *)

Replaced(anns) ==
  /\ edits < MaxEdits /\ edits' = edits + 1
  /\ anns # stored.anns
  /\ stored' = [version |-> stored.version + 1, anns |-> anns]
  /\ past' = past \cup {anns} /\ overtaken' = 1..works
  /\ UNCHANGED <<client, checkpoint, late, works, faults, saved, refused, barred, made>>

\* A statement gets a note, a veto, or loses its annotation.
PersonSaves ==
  \E s \in Statements, item \in {Absent, By("person", Noted), By("person", Rejected)} :
    Replaced([stored.anns EXCEPT ![s] = item])

PersonReverts == \E anns \in past : Replaced(anns)

-----------------------------------------------------------------------------
(* The Worker: POST /api/article/:slug with the pipeline's token.          *)

Accepted(b) == b.base = stored.version

LosesAPerson(b) ==
  \E s \in Statements : Person(stored.anns[s]) /\ b.anns[s] # stored.anns[s]

\* Mutant: every save makes a version.
NeverTheSame(a, b) == FALSE

\* A save that changes nothing makes no version.
TheSame(a, b) == a = b

\* The body is validated first, and its version is looked at before what people
\* wrote.
AnswerTo(b) ==
  IF b.work \in barred THEN "barred"
  ELSE IF ~Accepted(b) THEN "stale" ELSE IF LosesAPerson(b) THEN "lost" ELSE "ok"

Handle(b) ==
  LET answer == AnswerTo(b)
      newer == answer = "ok" /\ ~TheSame(b.anns, stored.anns)
  IN /\ stored' = IF newer THEN [version |-> stored.version + 1, anns |-> b.anns] ELSE stored
     /\ past' = IF newer THEN past \cup {b.anns} ELSE past
     /\ made' = IF newer THEN [made EXCEPT ![b.work] = @ + 1] ELSE made
     /\ saved' = IF answer = "ok" THEN saved \cup {b.work} ELSE saved
     /\ overtaken' = IF newer THEN overtaken \cup ((1..works) \ {b.work}) ELSE overtaken

\* A request nobody waits for any more is handled.
LateLands ==
  /\ \E b \in late : Handle(b)
  /\ UNCHANGED <<client, checkpoint, late, works, edits, faults, refused, barred>>

-----------------------------------------------------------------------------
(* The run.                                                                *)

Goes(pc) == client' = [client EXCEPT !.pc = pc]
Fault == faults < MaxFaults /\ faults' = faults + 1
WorkerRests == UNCHANGED <<stored, past, saved, barred, made, edits, overtaken>>

\* Mutant: one retry more than there are backoffs.
OneMoreRetry(mode, body) ==
  [pc |-> "post", mode |-> mode, code |-> "none", body |-> body,
   tries |-> Backoffs + 1, rebased |-> FALSE]

\* A new post: its own retries, its own rebase.
Posting(mode, body) ==
  [pc |-> "post", mode |-> mode, code |-> "none", body |-> body,
   tries |-> Backoffs, rebased |-> FALSE]

\* Mutant: the rebase takes the new version and keeps the annotations.
RebasedVersion(body) == [body EXCEPT !.base = stored.version]

\* The body as it has to be on the article as it is now.
Rebased(body) ==
  [body EXCEPT !.base = stored.version, !.anns = Finalize(stored.anns, body.anns)]

StartRun ==
  /\ client.pc = "idle" /\ Goes("flush")
  /\ WorkerRests /\ UNCHANGED <<checkpoint, late, works, faults, refused>>

\* flush_pending: the checkpoint, on the article as it is now.
Flush ==
  /\ client.pc = "flush"
  /\ \/ checkpoint = NoBody /\ Goes("ready")
     \/ checkpoint # NoBody /\ client' = Posting("flush", Rebased(checkpoint))
  /\ WorkerRests /\ UNCHANGED <<checkpoint, late, works, faults, refused>>

\* The queue has the article, or it has not and the run ends.
ReadForReview ==
  /\ client.pc = "ready"
  /\ \/ Goes("idle")
     \/ /\ works < MaxWorks
        /\ client' = [client EXCEPT !.pc = "agents", !.mode = "review",
                        !.body = [NoBody EXCEPT !.base = stored.version, !.anns = stored.anns]]
  /\ WorkerRests /\ UNCHANGED <<checkpoint, late, works, faults, refused>>

\* The agents leave a statement as it is, drop it or write it anew, and may claim
\* to be a person.  The finished work is on disk before it is posted, in the place
\* of whatever the flush left there.  It may be one the Worker will never take.
AgentsFinish ==
  /\ client.pc = "agents"
  /\ works' = works + 1
  /\ \E produced \in [Statements -> {"kept", "dropped", "written"}] :
       LET output == [s \in Statements |->
                        CASE produced[s] = "kept"    -> client.body.anns[s]
                          [] produced[s] = "dropped" -> Absent
                          [] produced[s] = "written" -> By("person", works')]
           body == [work |-> works', base |-> client.body.base,
                    anns |-> Finalize(client.body.anns, output)]
       IN checkpoint' = body /\ client' = Posting("review", body)
  /\ overtaken' = IF client.body.base = stored.version THEN overtaken ELSE overtaken \cup {works'}
  /\ barred' \in {barred, barred \cup {works'}}
  /\ UNCHANGED <<stored, past, saved, made, edits, late, faults, refused>>

AgentsFail ==
  /\ client.pc = "agents" /\ client' = Idle
  /\ WorkerRests /\ UNCHANGED <<checkpoint, late, works, faults, refused>>

\* The post is over.
Ends(code) ==
  /\ client' = [client EXCEPT !.pc = "answered", !.code = code]
  /\ refused' = IF code \in {"stale", "lost"} THEN refused \cup {client.body.work} ELSE refused

\* The answer arrives.  A first 409 leads to the rebase.
Told(code) ==
  \/ code = "stale" /\ ~client.rebased /\ Goes("rebase") /\ UNCHANGED refused
  \/ ~(code = "stale" /\ ~client.rebased) /\ Ends(code)

PostWork ==
  /\ client.pc = "post"
  /\ Handle(client.body) /\ Told(AnswerTo(client.body))
  /\ UNCHANGED <<checkpoint, late, works, edits, faults, barred>>

\* The guard also fails when the article's proposals changed meanwhile.
RefusedForProposals ==
  /\ client.pc = "post" /\ client.body.work \notin barred /\ Fault /\ Told("stale")
  /\ WorkerRests /\ UNCHANGED <<checkpoint, late, works>>

\* A 5xx, a 429 or a dropped connection: the request may be handled or not.
NoAnswer ==
  /\ client.pc = "post" /\ Fault
  /\ late' = late \cup {client.body}
  /\ \/ client.tries > 0 /\ client' = [client EXCEPT !.tries = @ - 1] /\ UNCHANGED refused
     \/ client.tries = 0 /\ Ends("transient")
  /\ WorkerRests /\ UNCHANGED <<checkpoint, works>>

Rebase ==
  /\ client.pc = "rebase"
  /\ client' = [client EXCEPT !.pc = "post", !.rebased = TRUE, !.body = Rebased(@)]
  /\ WorkerRests /\ UNCHANGED <<checkpoint, late, works, faults, refused>>

\* A read fails: a flush keeps its checkpoint, a run goes on to its end, and a
\* post that was to be rebased counts as refused.
ReadFails ==
  /\ Fault
  /\ \/ client.pc = "flush" /\ Goes("ready") /\ UNCHANGED refused
     \/ client.pc = "ready" /\ Goes("idle") /\ UNCHANGED refused
     \/ client.pc = "rebase" /\ Ends("stale")
  /\ WorkerRests /\ UNCHANGED <<checkpoint, late, works>>

\* Mutant: the file goes once the post is over.
AlwaysCleared(mode, code) == TRUE
\* Mutant: the file of a saved work stays when a flush saved it.
KeptBySuccess(mode, code) ==
  code = "lost" \/ (mode = "review" /\ code \notin {"barred", "transient"})

\* The file goes when the work is saved, loses a person's annotation, or is in
\* conflict with an edit made during its review; a work that a flush finds edited
\* again waits for the next flush, and so does one that is barred, each time.
Cleared(mode, code) ==
  code \in {"ok", "lost"} \/ (mode = "review" /\ code = "stale")

Settle ==
  /\ client.pc = "answered"
  /\ checkpoint' = IF Cleared(client.mode, client.code) THEN NoBody ELSE checkpoint
  /\ client' = IF client.mode = "flush" THEN [Idle EXCEPT !.pc = "ready"] ELSE Idle
  /\ WorkerRests /\ UNCHANGED <<late, works, faults, refused>>

\* The process ends; a request on its way stays on its way.
Die ==
  /\ client.pc # "idle" /\ Fault
  /\ late' = IF client.pc = "post" THEN late \cup {client.body} ELSE late
  /\ client' = Idle
  /\ WorkerRests /\ UNCHANGED <<checkpoint, works, refused>>

-----------------------------------------------------------------------------
RunSteps == StartRun \/ Flush \/ ReadForReview \/ AgentsFinish \/ AgentsFail
            \/ PostWork \/ Rebase \/ Settle

ClientNext ==
  \/ PersonSaves \/ PersonReverts \/ LateLands
  \/ RunSteps \/ RefusedForProposals \/ NoAnswer \/ ReadFails \/ Die

ClientSpec == ClientInit /\ [][ClientNext]_clientVars

\* The nightly starts a run every night, and a run goes on.
ClientFairSpec == ClientSpec /\ WF_clientVars(RunSteps)

-----------------------------------------------------------------------------
(* What must hold.                                                         *)

\* The Worker never finds a person's annotation lost: whatever people save while
\* agents work or requests wait, the version is stale before the body is
\* (moderate.py:1203, "finalize_for_post should make this impossible").
NoHumanIsLost == client.code # "lost" /\ \A b \in late : Accepted(b) => ~LosesAPerson(b)

\* No save of the pipeline brings up a statement next to one a person has vetoed
\* by then, although the veto may be younger than the agents' work.
NearVetoesStand ==
  [][\A s \in Statements :
       (NearAVeto(stored.anns, s) /\ edits' = edits) => stored'.anns[s] = Absent]_clientVars

\* However often a work is posted, flushed and rebased, and whatever copies of it
\* land late, it makes one version, unless another hand (a person, or a late copy
\* of another work) has changed the article since its agents read it.
AppliedOnce == \A w \in 1..works : made[w] > 1 => w \in overtaken

\* Work the agents finished is on disk before it is sent, and leaves it only when
\* the Worker has saved or refused it or when a later work of the article takes
\* its place (AgentsFinish), wherever the process dies and whatever gets lost.
FinishedWorkIsKept ==
  [][/\ works' # works => checkpoint'.work = works'
     /\ checkpoint'.work # checkpoint.work =>
          \/ checkpoint.work \in saved \cup refused \cup {0}
          \/ checkpoint'.work > checkpoint.work]_clientVars

\* The checkpoint of a work that the Worker does not refuse every time is settled
\* once faults and edits stop.  (That of a barred work stays until a later work
\* replaces it: nothing else takes it away.)
CheckpointsAreSettled ==
  \A w \in 1..MaxWorks :
    (checkpoint.work = w /\ w \notin barred) ~> (checkpoint.work # w)

-----------------------------------------------------------------------------
(* What the repository says and the code does not keep.                    *)

\* "a transient POST/network failure [...] never discards the expensive completed
\* agent work.  flush_pending() re-POSTs survivors" (moderate.py): every finished
\* work that could be saved is saved, refused or on disk.  A flush that fails again
\* leaves the checkpoint, the queue may still hand out the article, and the new
\* review's checkpoint takes its place.
EveryWorkIsKept ==
  \A w \in 1..works : w \in saved \cup refused \cup barred \/ checkpoint.work = w

\* A work that made a version makes no other, so what a person undid stays undone.
\* It does not hold: a retry after a lost answer, or a flush, is rebased on the undo.
UndoneStaysUndone ==
  [][\A w \in 1..works : made'[w] > made[w] => made[w] = 0]_clientVars
=============================================================================
