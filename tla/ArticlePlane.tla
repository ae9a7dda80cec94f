---------------------------- MODULE ArticlePlane ----------------------------
(***************************************************************************)
(* The collaboration plane of one article: the Worker's handlers in        *)
(* wiki/src/index.ts over the D1 rows articles, revisions,                 *)
(* moderation_state and proposals, and the token revocation of agents.ts.  *)
(*                                                                         *)
(* D1 offers no interactive transaction.  A handler is a series of awaited *)
(* reads, each of a different moment, followed by ONE atomic db.batch whose *)
(* first statement sets articles.version to NULL, and so aborts the batch, *)
(* when what the handler read no longer holds.  A request is therefore a   *)
(* process: it reads the article row, then (for some operations) the       *)
(* moderation row, the proposal rows and the newest revision, each in a    *)
(* step of its own, and then commits or gets 409.                          *)
(*                                                                         *)
(* Abstractions.  An annotation is what the properties tell apart: its     *)
(* anchor, a content (every other field but id and provenance, the status  *)
(* included) and a provenance.  A proposal's fields are the content they   *)
(* would produce.                                                          *)
(* Proposal ids are handed out in order.  The blob moderation_state.       *)
(* proposal is the set of the ids it lists: an entry's target, fields and  *)
(* proposer are those of the proposals row written in the same batch.      *)
(* Not here: the revision pin (articles.revid), native schema, payload     *)
(* caps, rate limits, events and counts.                                   *)
(***************************************************************************)
EXTENDS AnnotationRules, Naturals, Sequences, FiniteSets

CONSTANTS
  Agents,       \* the agents people have minted
  Runs,         \* pipeline run ids
  NoRun,        \* "written by no pipeline run"
  PropIds,      \* proposal ids, 1..n
  NoProp,       \* "no row under this proposal id"
  Reqs,         \* request slots: how many requests are in flight at once
  Ops,          \* the operations clients ask for in this instance
  MaxVersion,   \* bound on articles.version
  MaxPending,   \* proposals.ts MAX_PENDING
  AgentCap      \* agents.ts AGENT_PENDING_PER_ARTICLE

AllOps == {"create", "session", "endorse", "bot", "agent", "approve",
           "reject", "revert", "revertRun"}

ASSUME PlaneAssumption ==
  /\ NoProp \notin [status : {"pending", "approved", "rejected", "stale"},
                    ann : AnnIds, to : Contents, by : Agents \cup {"bot"}]
  /\ NoRun \notin Runs
  /\ PropIds \subseteq Nat
  /\ "bot" \notin Agents /\ "person" \notin Agents
  /\ Ops \subseteq AllOps
  /\ MaxVersion \in Nat /\ MaxPending \in Nat /\ AgentCap \in Nat

VARIABLES
  version,   \* articles.version; 0 while the article has no row
  anns,      \* articles.annotations
  revs,      \* the article's revisions, oldest first (position = revision id)
  blob,      \* ids listed in moderation_state.proposal ({} = NULL)
  rejected,  \* moderation_state.rejected_proposals: <<target, content>> pairs
  table,     \* the proposals table
  revoked,   \* agents whose token is revoked
  req        \* the requests in flight

vars == <<version, anns, revs, blob, rejected, table, revoked, req>>

Kinds == {"seed", "pipeline", "agent", "edit", "revert",
          "proposal-approved", "proposal-decided-ai"}
Revision == [kind : Kinds, anns : Snapshot, run : Runs \cup {NoRun},
             parent : Nat]
Proposal == [status : {"pending", "approved", "rejected", "stale"},
             ann : AnnIds, to : Contents, by : Agents \cup {"bot"}]
Actors == Agents \cup {"bot", "person"}

Pending(t) == {p \in PropIds : t[p] # NoProp /\ t[p].status = "pending"}

(***************************************************************************)
(* A request: what it asks, who asks, the read it does next, and what it   *)
(* has read: the article row, the moderation row, the proposals table, the *)
(* newest revision id, and for revert-run the run revisions and the        *)
(* article's revisions.                                                    *)
(***************************************************************************)
Phases == {"idle", "revs", "row", "moderation", "table", "prior", "ready"}
Request == [op : AllOps \cup {"none"}, who : Actors, run : Runs \cup {NoRun},
            phase : Phases, version : Nat, anns : Snapshot,
            blob : SUBSET PropIds, rejected : SUBSET (AnnIds \X Contents),
            table : [PropIds -> Proposal \cup {NoProp}], prior : Nat,
            seenRun : Nat, seen : Nat]

NoTable == [p \in PropIds |-> NoProp]

IdleRequest ==
  [op |-> "none", who |-> "person", run |-> NoRun, phase |-> "idle",
   version |-> 0, anns |-> Empty, blob |-> {}, rejected |-> {},
   table |-> NoTable, prior |-> 0, seenRun |-> 0, seen |-> 0]

TypeOK ==
  /\ version \in Nat
  /\ anns \in Snapshot
  /\ revs \in Seq(Revision)
  /\ blob \in SUBSET PropIds
  /\ rejected \in SUBSET (AnnIds \X Contents)
  /\ table \in [PropIds -> Proposal \cup {NoProp}]
  /\ revoked \in SUBSET Agents
  /\ req \in [Reqs -> Request]

(***************************************************************************)
(* The article starts absent (a pipeline create brings it in) or seeded    *)
(* with version 1 and its 'seed' revision, people's annotations included.  *)
(***************************************************************************)
Init ==
  /\ \/ version = 0 /\ anns = Empty /\ revs = <<>>
     \/ /\ version = 1
        /\ anns \in Snapshot
        /\ revs = <<[kind |-> "seed", anns |-> anns, run |-> NoRun,
                     parent |-> 0]>>
  /\ blob = {} /\ rejected = {} /\ table = NoTable /\ revoked = {}
  /\ req = [r \in Reqs |-> IdleRequest]

-----------------------------------------------------------------------------
(* The reads of a handler, in the order it awaits them.                    *)

\* Who may ask for an operation: a decision or a run revert is a moderator's
\* or the pipeline's, an agent must hold a live token.
MayAsk(op, who) ==
  CASE op \in {"bot", "create"}                  -> who = "bot"
    [] op = "agent"                              -> who \in Agents \ revoked
    [] op \in {"session", "endorse", "revert"}   -> who = "person"
    [] op \in {"approve", "reject", "revertRun"} -> who \in {"bot", "person"}

\* The read that follows the article row.
AfterRow(op) ==
  CASE op \in {"bot", "agent", "approve", "reject"} -> "moderation"
    [] op = "create"                                -> "ready"
    [] OTHER                                        -> "prior"

Asked(op, who) == [IdleRequest EXCEPT !.op = op, !.who = who]

\* A request arrives and reads the article row; a create goes on only when
\* there is no row, every other operation only when there is one.
Arrive(r, op, who) ==
  /\ op \in Ops \ {"revertRun"} /\ req[r].phase = "idle"
  /\ MayAsk(op, who)
  /\ (op = "create") <=> (version = 0)
  /\ req' = [req EXCEPT ![r] =
       [Asked(op, who) EXCEPT !.phase = AfterRow(op), !.version = version,
                              !.anns = anns]]
  /\ UNCHANGED <<version, anns, revs, blob, rejected, table, revoked>>

\* revert-run reads the run's revisions before anything else.
ArriveRevertRun(r, who, q) ==
  /\ "revertRun" \in Ops /\ req[r].phase = "idle"
  /\ MayAsk("revertRun", who)
  /\ \E i \in DOMAIN revs : revs[i].kind = "pipeline" /\ revs[i].run = q
  /\ req' = [req EXCEPT ![r] =
       [Asked("revertRun", who) EXCEPT !.run = q, !.phase = "revs",
                                       !.seenRun = Len(revs)]]
  /\ UNCHANGED <<version, anns, revs, blob, rejected, table, revoked>>

\* ... then every revision of the article ...
ReadRevs(r) ==
  /\ req[r].phase = "revs"
  /\ req' = [req EXCEPT ![r].phase = "row", ![r].seen = Len(revs)]
  /\ UNCHANGED <<version, anns, revs, blob, rejected, table, revoked>>

\* ... and only then the article row it will compare and swap.
ReadRow(r) ==
  /\ req[r].phase = "row"
  /\ req' = [req EXCEPT ![r].phase = "prior", ![r].version = version,
                        ![r].anns = anns]
  /\ UNCHANGED <<version, anns, revs, blob, rejected, table, revoked>>

\* The read that follows the moderation row.
AfterModeration(op) ==
  CASE op \in {"bot", "agent"} -> "table"
    [] op = "approve"          -> "prior"
    [] OTHER                   -> "ready"

\* The pending list and the rejected memory are columns of one row.
ReadModeration(r) ==
  /\ req[r].phase = "moderation"
  /\ req' = [req EXCEPT ![r].phase = AfterModeration(req[r].op),
                        ![r].blob = blob, ![r].rejected = rejected]
  /\ UNCHANGED <<version, anns, revs, blob, rejected, table, revoked>>

\* The lifecycle rows an AI save reconciles the pending list with.
ReadTable(r) ==
  /\ req[r].phase = "table"
  /\ req' = [req EXCEPT ![r].phase = "prior", ![r].table = table]
  /\ UNCHANGED <<version, anns, revs, blob, rejected, table, revoked>>

\* The newest revision id, which becomes the new revision's parent.
ReadPrior(r) ==
  /\ req[r].phase = "prior"
  /\ req' = [req EXCEPT ![r].phase = "ready", ![r].prior = Len(revs)]
  /\ UNCHANGED <<version, anns, revs, blob, rejected, table, revoked>>

-----------------------------------------------------------------------------
(* The guards of the batches, evaluated inside the database transaction.   *)

Ready(r, op) == req[r].phase = "ready" /\ req[r].op = op

\* Mutant: the write is not conditional on the version.
AnyVersion(r) == TRUE

\* CASE WHEN version = expected THEN next ELSE NULL END
SameVersion(r) == version = req[r].version

\* Mutant: a save compares the version only.
SaveGuardVersionOnly(r) == SameVersion(r)

\* Mutant: a save compares the pending list only.
SaveGuardListOnly(r) == blob = req[r].blob

\* guardedBotSaveVersion: the pending list must be the one that was read.
SaveGuard(r) == SameVersion(r) /\ blob = req[r].blob

\* Mutant: a decision compares the pending list and the row only.
DecisionGuardAnyVersion(r, p) ==
  blob = req[r].blob /\ table[p] # NoProp /\ table[p].status = "pending"

\* guardedProposalDecisionVersion: and the decided row must be pending still.
DecisionGuard(r, p) ==
  /\ SameVersion(r) /\ blob = req[r].blob
  /\ table[p] # NoProp /\ table[p].status = "pending"

Finish(r) == req' = [req EXCEPT ![r] = IdleRequest]

\* The article row and its revision, written by one batch.
WriteArticle(r, kind, run, finals) ==
  /\ req[r].version < MaxVersion
  /\ anns' = finals
  /\ version' = req[r].version + 1
  /\ revs' = Append(revs, [kind |-> kind, anns |-> finals, run |-> run,
                           parent |-> req[r].prior])

KeepArticle == UNCHANGED <<version, anns, revs>>

-----------------------------------------------------------------------------
(* The reconciliation every AI save runs on the pending list, from what    *)
(* request q read and the finals f it is about to write.                   *)

Undecided(q) ==
  {p \in q.blob : q.table[p] # NoProp /\ q.table[p].status = "pending"}
DeadTargets(q, f) == {p \in Undecided(q) : ~Live(f[q.table[p].ann])}

\* Mutant: proposals already in effect are not swept.
NoDeltasIgnored(q, f) == {}

NoDeltas(q, f) ==
  {p \in Undecided(q) \ DeadTargets(q, f) :
     f[q.table[p].ann].content = q.table[p].to}
StillPending(q, f) == Undecided(q) \ (DeadTargets(q, f) \cup NoDeltas(q, f))
Zombies(q) == Pending(q.table) \ q.blob

\* mergeProposals: an incoming <<target, content>> that enters the queue.
Admissible(q, f, a, c) ==
  /\ Live(f[a]) /\ f[a].content # c
  /\ <<a, c>> \notin q.rejected
  /\ \A p \in StillPending(q, f) :
       <<q.table[p].ann, q.table[p].to>> # <<a, c>>
  /\ Cardinality(StillPending(q, f)) < MaxPending
  /\ q.who \in Agents =>
       /\ Human(f[a])
       /\ Cardinality({p \in StillPending(q, f) : q.table[p].by = q.who})
            < AgentCap

\* The next proposal id, never one that was used.
FreshProp(p) == table[p] = NoProp /\ \A o \in PropIds : o < p => table[o] # NoProp

Retire(t, S) ==
  [p \in PropIds |-> IF p \in S \cap Pending(t)
                     THEN [t[p] EXCEPT !.status = "stale"] ELSE t[p]]

\* The batch's writes to moderation_state.proposal and the proposals table:
\* sweep and heal, and file nothing or one new proposal.
Reconcile(q, f) ==
  LET still == StillPending(q, f)
      swept == Retire(table, DeadTargets(q, f) \cup NoDeltas(q, f) \cup Zombies(q))
  IN \/ blob' = still /\ table' = swept
     \/ \E p \in PropIds, a \in AnnIds, c \in Contents :
          /\ FreshProp(p) /\ Admissible(q, f, a, c)
          /\ blob' = still \cup {p}
          /\ table' = [swept EXCEPT ![p] =
               [status |-> "pending", ann |-> a, to |-> c, by |-> q.who]]

-----------------------------------------------------------------------------
(* The commits.                                                            *)

\* PUT: a second create of the slug aborts on the primary key.  Posted 'human'
\* provenance is demoted.
Create(r) ==
  /\ Ready(r, "create") /\ version = 0
  /\ \E f \in Snapshot, q \in Runs \cup {NoRun} :
       /\ \A a \in AnnIds : ~Human(f[a])
       /\ WriteArticle(r, "pipeline", q, f)
  /\ Finish(r)
  /\ UNCHANGED <<blob, rejected, table, revoked>>

\* A person's save; one that changes nothing writes nothing.
SessionSave(r) ==
  /\ Ready(r, "session") /\ SameVersion(r)
  /\ \E f \in SessionFinals(req[r].anns) :
       IF f = req[r].anns THEN KeepArticle
                          ELSE WriteArticle(r, "edit", NoRun, f)
  /\ Finish(r)
  /\ UNCHANGED <<blob, rejected, table, revoked>>

\* A pipeline save: annotations and proposal bookkeeping in one batch; one
\* that leaves the annotations alone still reconciles the proposals, and adds a
\* revision only when it moves the article's Wikipedia pin.
BotSave(r) ==
  /\ Ready(r, "bot") /\ SaveGuard(r)
  /\ \E f \in BotFinals(req[r].anns), q \in Runs \cup {NoRun} :
       /\ \/ f = req[r].anns /\ KeepArticle
          \/ WriteArticle(r, "pipeline", q, f)
       /\ Reconcile(req[r], f)
  /\ Finish(r)
  /\ UNCHANGED <<rejected, revoked>>

AgentSave(r) ==
  /\ Ready(r, "agent") /\ SaveGuard(r)
  /\ \E f \in AgentFinals(req[r].anns) :
       /\ IF f = req[r].anns THEN KeepArticle
                             ELSE WriteArticle(r, "agent", NoRun, f)
       /\ Reconcile(req[r], f)
  /\ Finish(r)
  /\ UNCHANGED <<rejected, revoked>>

\* A person agrees with one annotation: only its provenance changes.
Endorse(r) ==
  /\ Ready(r, "endorse") /\ SameVersion(r)
  /\ \E a \in AnnIds :
       /\ req[r].anns[a] # NoAnn
       /\ WriteArticle(r, "edit", NoRun,
                       [req[r].anns EXCEPT ![a].prov = "human"])
  /\ Finish(r)
  /\ UNCHANGED <<blob, rejected, table, revoked>>

\* The decided proposal leaves the list that was read and its row is closed.
Decide(r, p, status) ==
  /\ blob' = req[r].blob \ {p}
  /\ table' = [table EXCEPT ![p].status = status]

\* A dead target drops the proposal, a delta already in effect only closes
\* it, any other delta is applied.
Approve(r) ==
  /\ Ready(r, "approve")
  /\ \E p \in req[r].blob :
       /\ DecisionGuard(r, p)
       /\ LET a   == table[p].ann
              old == req[r].anns[a]
          IN \/ ~Live(old) /\ KeepArticle /\ Decide(r, p, "stale")
             \/ /\ Live(old) /\ old.content = table[p].to
                /\ KeepArticle /\ Decide(r, p, "approved")
             \/ /\ Live(old) /\ old.content # table[p].to
                /\ WriteArticle(r,
                     IF req[r].who = "bot" THEN "proposal-decided-ai"
                                           ELSE "proposal-approved",
                     NoRun,
                     [req[r].anns EXCEPT ![a] =
                        Applied(old, table[p].to, req[r].who)])
                /\ Decide(r, p, "approved")
  /\ Finish(r)
  /\ UNCHANGED <<rejected, revoked>>

\* The rejected memory is written back as it was read, plus this delta.
Reject(r) ==
  /\ Ready(r, "reject")
  /\ \E p \in req[r].blob :
       /\ DecisionGuard(r, p)
       /\ Decide(r, p, "rejected")
       /\ rejected' = req[r].rejected \cup {<<table[p].ann, table[p].to>>}
  /\ KeepArticle /\ Finish(r)
  /\ UNCHANGED revoked

\* A moderator restores a revision that existed when the row was read.
Revert(r) ==
  /\ Ready(r, "revert") /\ SameVersion(r)
  /\ \E i \in 1..req[r].version :
       i \in DOMAIN revs /\ WriteArticle(r, "revert", NoRun, revs[i].anns)
  /\ Finish(r)
  /\ UNCHANGED <<blob, rejected, table, revoked>>

\* revert-run, judged on the revisions it read (the first `seen` of them).
RunRevs(q)  == {i \in 1..q.seenRun : revs[i].kind = "pipeline" /\ revs[i].run = q.run}

\* Mutant: the run is undone back to its last revision only.
EarliestIsLast(q) == CHOOSE i \in RunRevs(q) : \A j \in RunRevs(q) : j <= i

Earliest(q) == CHOOSE i \in RunRevs(q) : \A j \in RunRevs(q) : i <= j
Latest(q)   == CHOOSE i \in RunRevs(q) : \A j \in RunRevs(q) : j <= i
NotTheRuns  == {"edit", "agent", "revert", "proposal-approved"}
AlreadyReverted(q) == revs[q.seen].kind = "revert" /\ revs[q.seen].run = q.run
EditedSince(q) ==
  \E i \in Latest(q) + 1 .. q.seen : i \notin RunRevs(q) /\ revs[i].kind \in NotTheRuns
PreRun(q) ==
  IF revs[Earliest(q)].parent = 0 THEN Empty ELSE revs[revs[Earliest(q)].parent].anns

\* Skipped when the run is already undone or others wrote since.  (It is also
\* skipped when neither annotations nor pin would change: see Abandon; the pin
\* is not modelled, so equal annotations alone do not stop it.)
RevertRun(r) ==
  /\ Ready(r, "revertRun") /\ SameVersion(r)
  /\ ~AlreadyReverted(req[r]) /\ ~EditedSince(req[r])
  /\ WriteArticle(r, "revert", req[r].run, PreRun(req[r]))
  /\ Finish(r)
  /\ UNCHANGED <<blob, rejected, table, revoked>>

\* The owner retires an agent: its token and its pending proposals' rows, in
\* one batch that does not touch the list in moderation_state.
Revoke(g) ==
  /\ revoked' = revoked \cup {g}
  /\ table' = [p \in PropIds |->
                 IF p \in Pending(table) /\ table[p].by = g
                 THEN [table[p] EXCEPT !.status = "stale"] ELSE table[p]]
  /\ UNCHANGED <<version, anns, revs, blob, rejected, req>>

\* A request ends without writing: 409 from its guard, an early 4xx, a skip of
\* revert-run, or the Worker dying before the batch.
Abandon(r) ==
  /\ req[r].phase # "idle"
  /\ Finish(r)
  /\ UNCHANGED <<version, anns, revs, blob, rejected, table, revoked>>

-----------------------------------------------------------------------------
Read(r) == ReadRevs(r) \/ ReadRow(r) \/ ReadModeration(r) \/ ReadTable(r)
             \/ ReadPrior(r)

Commit(r) == Create(r) \/ SessionSave(r) \/ BotSave(r) \/ AgentSave(r)
               \/ Endorse(r) \/ Approve(r) \/ Reject(r) \/ Revert(r)
               \/ RevertRun(r)

Next ==
  \/ \E r \in Reqs, op \in AllOps, who \in Actors : Arrive(r, op, who)
  \/ \E r \in Reqs, who \in Actors, q \in Runs : ArriveRevertRun(r, who, q)
  \/ \E r \in Reqs : Read(r) \/ Commit(r) \/ Abandon(r)
  \/ \E g \in Agents : Revoke(g)

Spec == Init /\ [][Next]_vars

-----------------------------------------------------------------------------
(* What must hold.                                                         *)

\* The history is a chain: each revision's parent is the one just before it,
\* the version counts the revisions, and the newest one holds exactly what
\* the article shows (the revert, diff and revert-run handlers rely on it).
RevisionChain ==
  /\ version = Len(revs)
  /\ \A i \in DOMAIN revs : revs[i].parent = i - 1
  /\ revs # <<>> => revs[Len(revs)].anns = anns

\* A proposal lives in two stores, the article's moderation row and the
\* proposals table: a pending row is always listed on its article, so that a
\* moderator can decide it, what is listed has a row, and no two pending rows
\* propose the same change.
StoresAgree ==
  /\ Pending(table) \subseteq blob
  /\ \A p \in blob : table[p] # NoProp
  /\ \A p, o \in Pending(table) :
       <<table[p].ann, table[p].to>> = <<table[o].ann, table[o].to>> => p = o

\* The abstract history this plane implements: every revision is a legal
\* answer to the one right before it, although the handler that wrote it
\* computed it from reads made some time before its batch.
Log == INSTANCE RevisionLog WITH
         log <- [i \in DOMAIN revs |-> [kind |-> revs[i].kind, anns |-> revs[i].anns]]
LogRefinement == Log!LogSpec

\* Whoever's name an annotation carries as 'human', a person once wrote, kept
\* or approved a human annotation on that statement: no chain of saves,
\* decisions and reverts launders AI work into a person's.
HumanWorkHasAPerson ==
  \A i \in DOMAIN revs, a \in AnnIds : Human(revs[i].anns[a]) =>
    \E j \in 1..i, b \in AnnIds :
      /\ revs[j].kind \in {"seed", "edit", "proposal-approved"}
      /\ Human(revs[j].anns[b]) /\ revs[j].anns[b].anchor = revs[i].anns[a].anchor

\* An approved proposal is in effect: the step that closes it leaves its
\* target live, and the article saying what was proposed; that step changes
\* nothing else and takes the annotation from its person only as a recorded
\* AI decision.
ApprovedNow == {p \in Pending(table) : table'[p].status = "approved"}

ApprovalTakesEffect ==
  [][\A p \in ApprovedNow :
       LET a == table[p].ann
       IN /\ Live(anns[a])
          /\ anns'[a].content = table[p].to
          /\ \A b \in AnnIds \ {a} : anns'[b] = anns[b]
          /\ (Human(anns[a]) /\ ~Human(anns'[a])) =>
               revs'[Len(revs')].kind = "proposal-decided-ai"]_vars

\* After an AI save that wrote anything nobody is left a proposal that cannot
\* be decided with effect: what is pending targets a live annotation and would
\* change it, although the save read the proposals one by one before.
Saved(r) ==
  /\ req[r].phase = "ready" /\ req[r].op \in {"bot", "agent"}
  /\ req'[r].phase = "idle"
  /\ <<anns, blob, table>>' # <<anns, blob, table>>

AISaveSweeps ==
  [][\A r \in Reqs : Saved(r) =>
       \A p \in Pending(table') :
          /\ Live(anns'[table'[p].ann])
          /\ anns'[table'[p].ann].content # table'[p].to]_vars

\* A person's tombstone vetoes its statement: what an agent's save stores under
\* an id that held nothing is not live there, wherever the veto landed while
\* the save was in flight.  (Under an id that held something it may be: see
\* AgentsHeedVetoes below.)
Appends(kinds) == Len(revs') > Len(revs) /\ revs'[Len(revs')].kind \in kinds

NewHeedVetoes ==
  [][Appends({"agent"}) =>
       \A a \in AnnIds :
         (anns[a] = NoAnn /\ Live(anns'[a])) => anns'[a].anchor \notin Vetoed(anns)]_vars

\* revert-run puts back what the article showed before the run's first
\* revision of it, however many revisions the run wrote.
UndoesRun ==
  [][(Appends({"revert"}) /\ revs'[Len(revs')].run # NoRun) =>
       LET q == revs'[Len(revs')].run
       IN \E i \in DOMAIN revs :
            /\ revs[i].kind = "pipeline" /\ revs[i].run = q
            /\ \A j \in 1..(i - 1) : ~(revs[j].kind = "pipeline" /\ revs[j].run = q)
            /\ anns' = IF i = 1 THEN Empty ELSE revs[i - 1].anns]_vars

-----------------------------------------------------------------------------
(* What the repository says and the code does not keep.                    *)

\* "Deciding a proposal is a MODERATION act (reject permanently suppresses
\* re-proposals)" (index.ts): a delta people rejected is not pending again.  A
\* save reads the rejected memory before its batch and guards the pending list
\* only, which can return to the value that was read (file, reject) while the
\* memory has grown.
RejectedNotPending ==
  \A p \in Pending(table) : <<table[p].ann, table[p].to>> \notin rejected

\* "We never clobber human work to undo a bot batch" (index.ts): a run is not
\* reverted over a revision that is not its own.  The check reads the
\* revisions before the row whose version it compares and swaps.
RevertRunSparesOthers ==
  [][(Appends({"revert"}) /\ revs'[Len(revs')].run # NoRun) =>
       \A i \in DOMAIN revs : revs[i].kind \in NotTheRuns =>
         \E j \in i + 1 .. Len(revs) :
           revs[j].kind = "pipeline" /\ revs[j].run = revs'[Len(revs')].run]_vars

\* "A human tombstone vetoes its statement: an agent may not annotate it anew"
\* (index.ts): what is live on a vetoed statement after an agent's save was on
\* it before.  The lookup passes over every item posted under a stored id, and
\* such an item may carry another anchor than the stored one.
AgentsHeedVetoes ==
  [][Appends({"agent"}) =>
       \A a \in AnnIds :
         (Live(anns'[a]) /\ anns'[a].anchor \in Vetoed(anns)) =>
           anns[a] # NoAnn /\ anns[a].anchor = anns'[a].anchor]_vars

\* "A client [...] cannot mint endorsement" (index.ts): a pipeline revision
\* makes nothing human that was not human under that id.  A copy posted
\* without an id is paired with its twin's provenance.
PipelineMintsNoHuman ==
  [][Appends({"pipeline"}) =>
       \A a \in AnnIds : Human(anns'[a]) => anns'[a] = anns[a]]_vars
=============================================================================
