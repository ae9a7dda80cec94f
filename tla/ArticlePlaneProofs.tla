------------------------- MODULE ArticlePlaneProofs -------------------------
(***************************************************************************)
(* Proofs about ArticlePlane, for every set of annotation ids, contents,   *)
(* agents, runs, proposals and requests, and every bound.                  *)
(***************************************************************************)
EXTENDS ArticlePlane, FiniteSetTheorems, SequenceTheorems, TLAPS

-----------------------------------------------------------------------------
(* What a request in flight may rely on: q is the request, v, s and l are the *)
(* article's version, annotations and revisions.                           *)

\* The article row has been read.
HasRow(q) == q.phase \in {"moderation", "table", "prior", "ready"}

\* What was read is the article's present or its past, never its future.
SnapshotInv(q, v, s) ==
  HasRow(q) => /\ q.version <= v
               /\ q.version = v => q.anns = s

\* While the article has not moved, the parent that was read is its newest
\* revision (a rejection reads none, and writes no revision).
PriorInv(q, v) ==
  (q.phase = "ready" /\ q.op # "reject") => (q.version = v => q.prior = v)

\* The run being reverted touched the article, in a revision that was read.
RunInv(q, l) ==
  (q.op = "revertRun" /\ q.phase # "idle") =>
    /\ q.seenRun <= Len(l)
    /\ \E i \in 1..q.seenRun : l[i].kind = "pipeline" /\ l[i].run = q.run

\* Only moderators and the pipeline decide, only AI saves; a create read no row; only a run
\* revert reads revisions first; four operations read the moderation row.
RoleInv(q) ==
  /\ q.op = "create" => q.version = 0
  /\ q.op = "approve" => q.who \in {"bot", "person"}
  /\ q.op \in {"bot", "agent"} => q.who \in Agents \cup {"bot"}
  /\ q.phase = "moderation" => q.op \in {"bot", "agent", "approve", "reject"}
  /\ q.phase \in {"revs", "row"} => q.op = "revertRun"

RequestInv(q, v, s, l) ==
  SnapshotInv(q, v, s) /\ PriorInv(q, v) /\ RunInv(q, l) /\ RoleInv(q)

\* The inductive invariant of the history, and the types of the rest.
HistoryCore ==
  /\ version \in Nat /\ anns \in Snapshot /\ revs \in Seq(Revision)
  /\ req \in [Reqs -> Request]
  /\ RevisionChain
  /\ version = 0 => anns = Empty
  /\ \A r \in Reqs : RequestInv(req[r], version, anns, revs)

DeskTyped ==
  /\ blob \in SUBSET PropIds
  /\ rejected \in SUBSET (AnnIds \X Contents)
  /\ table \in [PropIds -> Proposal \cup {NoProp}]
  /\ revoked \in SUBSET Agents

HistoryInv == HistoryCore /\ DeskTyped

-----------------------------------------------------------------------------
(* Lemmas about the data.                                                  *)

\* A nonempty set of naturals has a least element.
LEMMA Least ==
  ASSUME NEW X \in SUBSET Nat, X # {}
  PROVE  \E m \in X : \A n \in X : m <= n
<1> DEFINE T == {0..m : m \in X}
<1>1. T \subseteq FiniteSubsetsOf(Nat)
  <2>1. ASSUME NEW m \in X
        PROVE  0..m \in SUBSET Nat /\ IsFiniteSet(0..m)
    <3>1. m \in Int /\ 0 \in Int
      OBVIOUS
    <3>2. IsFiniteSet(0..m)
      BY <3>1, FS_Interval
    <3>3. QED
      BY <3>2
  <2>2. QED
    BY <2>1 DEF FiniteSubsetsOf
<1>2. T # {}
  OBVIOUS
<1> HIDE DEF T
<1>3. \E t \in T : \A u \in T : <<u, t>> \notin StrictSubsetOrdering(Nat)
  BY <1>1, <1>2, FS_StrictSubsetOrderingWellFounded, WFMin
<1>4. PICK m \in X : \A n \in X : <<0..n, 0..m>> \notin StrictSubsetOrdering(Nat)
  BY <1>3 DEF T
<1>5. ASSUME NEW n \in X, n < m
      PROVE  FALSE
  <2>1. 0..n \in SUBSET Nat /\ 0..m \in SUBSET Nat /\ 0..n \subseteq 0..m
    BY <1>5
  <2>2. m \in 0..m /\ m \notin 0..n
    BY <1>5
  <2>3. <<0..n, 0..m>> \in StrictSubsetOrdering(Nat)
    BY <2>1, <2>2 DEF StrictSubsetOrdering
  <2>4. QED
    BY <1>4, <2>3
<1>6. QED
  BY <1>5

LEMMA Shapes ==
  /\ Empty \in Snapshot
  /\ NoTable \in [PropIds -> Proposal \cup {NoProp}]
  /\ IdleRequest \in Request
BY DEF Empty, Snapshot, NoTable, IdleRequest, Request, Actors, Phases

\* A revision more: what a request read stays true of the longer history.
LEMMA RequestKept ==
  ASSUME NEW q \in Request, NEW v \in Nat, NEW s, NEW l \in Seq(Revision),
         NEW e \in Revision, RequestInv(q, v, s, l)
  PROVE  RequestInv(q, v + 1, e.anns, Append(l, e))
<1> DEFINE m == Append(l, e)
<1>1. /\ Len(m) = Len(l) + 1 /\ Len(l) \in Nat
      /\ \A i \in 1..Len(l) : m[i] = l[i]
  BY AppendProperties, LenProperties
<1>2. q.version \in Nat /\ q.seenRun \in Nat
  BY DEF Request
<1> HIDE DEF m
<1>3. SnapshotInv(q, v + 1, e.anns) /\ PriorInv(q, v + 1)
  BY <1>2 DEF RequestInv, SnapshotInv, PriorInv, HasRow
<1>4. RunInv(q, m)
  BY <1>1, <1>2 DEF RequestInv, RunInv
<1>5. QED
  BY <1>3, <1>4 DEF RequestInv, m

LEMMA IdleKept ==
  ASSUME NEW v, NEW s, NEW l
  PROVE  RequestInv(IdleRequest, v, s, l)
BY DEF RequestInv, SnapshotInv, PriorInv, RunInv, RoleInv, HasRow, IdleRequest

-----------------------------------------------------------------------------
(* The steps of the article.                                               *)

\* A commit that writes the article adds exactly one revision, whose parent is
\* the one before it.
LEMMA WriteStep ==
  ASSUME HistoryCore,
         NEW r \in Reqs, req[r].phase = "ready", req[r].op # "reject",
         SameVersion(r), NEW kind \in Kinds, NEW run \in Runs \cup {NoRun},
         NEW f \in Snapshot, WriteArticle(r, kind, run, f)
  PROVE  LET e == [kind |-> kind, anns |-> f, run |-> run, parent |-> version]
         IN /\ e \in Revision
            /\ revs' = Append(revs, e)
            /\ version' = version + 1
            /\ anns' = f
            /\ req[r].anns = anns
<1>1. req[r] \in Request /\ RequestInv(req[r], version, anns, revs)
  BY DEF HistoryCore
<1>2. req[r].version = version /\ req[r].prior = version /\ req[r].anns = anns
  BY <1>1 DEF RequestInv, SnapshotInv, PriorInv, HasRow, SameVersion
<1>3. version \in Nat
  BY DEF HistoryCore
<1>4. QED
  BY <1>2, <1>3 DEF WriteArticle, Revision

LEMMA WriteKeeps ==
  ASSUME HistoryCore, NEW r \in Reqs, NEW e \in Revision,
         e.parent = version, revs' = Append(revs, e), version' = version + 1,
         anns' = e.anns, Finish(r)
  PROVE  HistoryCore'
<1>1. version' \in Nat /\ anns' \in Snapshot /\ revs' \in Seq(Revision)
  BY AppendProperties DEF HistoryCore, Revision
<1>2. req' \in [Reqs -> Request]
  BY Shapes DEF HistoryCore, Finish
<1>3. RevisionChain'
  <2>1. /\ Len(revs') = Len(revs) + 1 /\ Len(revs) \in Nat
        /\ DOMAIN revs = 1..Len(revs) /\ DOMAIN revs' = 1..Len(revs')
        /\ \A i \in 1..Len(revs) : revs'[i] = revs[i]
        /\ revs'[Len(revs) + 1] = e
    BY <1>1, AppendProperties, LenProperties DEF HistoryCore
  <2>2. version = Len(revs)
    BY DEF HistoryCore, RevisionChain
  <2>3. QED
    BY <2>1, <2>2 DEF HistoryCore, RevisionChain
<1>4. \A q \in Reqs : RequestInv(req'[q], version', anns', revs')
  <2>1. ASSUME NEW q \in Reqs, q # r
        PROVE  RequestInv(req'[q], version', anns', revs')
    <3>1. req'[q] = req[q] /\ req[q] \in Request
      BY <2>1 DEF HistoryCore, Finish
    <3>2. RequestInv(req[q], version, anns, revs)
      BY DEF HistoryCore
    <3>3. RequestInv(req[q], version + 1, e.anns, Append(revs, e))
      BY <3>1, <3>2, RequestKept DEF HistoryCore
    <3>4. QED
      BY <3>1, <3>3
  <2>2. req'[r] = IdleRequest
    BY DEF HistoryCore, Finish
  <2>3. QED
    BY <2>1, <2>2, IdleKept
<1>5. version' # 0
  BY DEF HistoryCore
<1>6. QED
  BY <1>1, <1>2, <1>3, <1>4, <1>5 DEF HistoryCore

LEMMA RestKeeps ==
  ASSUME HistoryCore, NEW r \in Reqs, KeepArticle, Finish(r)
  PROVE  HistoryCore'
<1>1. req' \in [Reqs -> Request]
  BY Shapes DEF HistoryCore, Finish
<1>2. \A q \in Reqs : req'[q] = IF q = r THEN IdleRequest ELSE req[q]
  BY DEF HistoryCore, Finish
<1>3. QED
  BY <1>1, <1>2, IdleKept DEF HistoryCore, RevisionChain, KeepArticle

-----------------------------------------------------------------------------
(* The commits: each leaves the article alone or writes a legal answer to  *)
(* what the article shows now, whatever moved while it was being computed. *)

LogOf(l) == [i \in DOMAIN l |-> [kind |-> l[i].kind, anns |-> l[i].anns]]

\* What f calls human is the writing person's, or was human on that statement
\* before.
Sourced(kind, f) ==
  \A a \in AnnIds : Human(f[a]) =>
    \/ kind \in {"edit", "proposal-approved"}
    \/ \E b \in AnnIds : Human(anns[b]) /\ anns[b].anchor = f[a].anchor
    \/ \E i \in DOMAIN revs : revs[i].anns[a] = f[a]

WriteOf(r, kind, run, f) ==
  /\ req[r].phase = "ready" /\ req[r].op # "reject"
  /\ SameVersion(r)
  /\ WriteArticle(r, kind, run, f)
  /\ kind \in Log!WriteKinds /\ run \in Runs \cup {NoRun} /\ f \in Snapshot
  /\ Log!Legal(LogOf(revs), kind, f) /\ Sourced(kind, f)

LegalCommit(r) ==
  /\ Finish(r)
  /\ KeepArticle \/ \E kind, run, f : WriteOf(r, kind, run, f)

\* The newest entry of the abstract log is what the article shows.
LEMMA TopOfLog ==
  ASSUME HistoryCore
  PROVE  Log!Top(LogOf(revs)) = anns
<1>1. DOMAIN revs = 1..Len(revs) /\ Len(revs) \in Nat
  BY LenProperties DEF HistoryCore
<1>2. LogOf(revs) \in Seq([kind : Kinds, anns : Snapshot])
  <2>1. ASSUME NEW i \in 1..Len(revs)
        PROVE  [kind |-> revs[i].kind, anns |-> revs[i].anns] \in [kind : Kinds, anns : Snapshot]
    <3>1. revs[i] \in Revision
      BY <1>1, ElementOfSeq DEF HistoryCore
    <3>2. QED
      BY <3>1 DEF Revision
  <2>2. QED
    BY <1>1, <2>1 DEF LogOf
<1>3. Len(LogOf(revs)) = Len(revs)
  BY <1>1, <1>2, LenProperties DEF LogOf
<1>4. CASE revs = <<>>
  <2>1. version = 0 /\ anns = Empty
    BY <1>4 DEF HistoryCore, RevisionChain
  <2>2. LogOf(revs) = <<>>
    BY <1>1, <1>2, <1>3, <1>4, EmptySeq
  <2>3. QED
    BY <2>1, <2>2 DEF Log!Top, Log!Empty, Empty
<1>5. CASE revs # <<>>
  <2>1. Len(revs) \in 1..Len(revs) /\ revs[Len(revs)].anns = anns
    BY <1>1, <1>5, EmptySeq DEF HistoryCore, RevisionChain
  <2>2. LogOf(revs)[Len(revs)].anns = anns
    BY <1>1, <2>1 DEF LogOf
  <2>3. LogOf(revs) # <<>>
    BY <1>3, <2>1
  <2>4. QED
    BY <1>3, <2>2, <2>3 DEF Log!Top
<1>6. QED
  BY <1>4, <1>5

LEMMA RequestFacts ==
  ASSUME HistoryInv, NEW r \in Reqs
  PROVE  /\ req[r] \in Request
         /\ req[r].version \in Nat /\ req[r].anns \in Snapshot
         /\ req[r].blob \in SUBSET PropIds
         /\ req[r].who \in Actors /\ req[r].run \in Runs \cup {NoRun}
         /\ RequestInv(req[r], version, anns, revs)
         /\ (req[r].phase = "ready" /\ SameVersion(r)) => req[r].anns = anns
<1>1. req[r] \in Request /\ RequestInv(req[r], version, anns, revs)
  BY DEF HistoryInv, HistoryCore
<1>2. QED
  BY <1>1 DEF Request, RequestInv, SnapshotInv, HasRow, SameVersion

LEMMA CreateIsLegal ==
  ASSUME HistoryInv, NEW r \in Reqs, Create(r)
  PROVE  LegalCommit(r)
<1>1. SameVersion(r)
  BY RequestFacts DEF Create, Ready, SameVersion, RequestInv, RoleInv
<1>2. PICK f \in Snapshot, q \in Runs \cup {NoRun} :
        (\A a \in AnnIds : ~Human(f[a])) /\ WriteArticle(r, "pipeline", q, f)
  BY DEF Create
<1>3. anns = Empty
  BY DEF Create, HistoryInv, HistoryCore
<1>4. Log!Legal(LogOf(revs), "pipeline", f)
  BY <1>3, TopOfLog DEF HistoryInv, Log!Legal, Log!AIWork, Log!Human, Empty
<1>5. WriteOf(r, "pipeline", q, f)
  BY <1>1, <1>2, <1>4 DEF WriteOf, Sourced, Create, Ready, Log!WriteKinds
<1>6. QED
  BY <1>5 DEF LegalCommit, Create

LEMMA SessionIsLegal ==
  ASSUME HistoryInv, NEW r \in Reqs, SessionSave(r)
  PROVE  LegalCommit(r)
<1>1. req[r].anns = anns
  BY RequestFacts DEF SessionSave, Ready
<1>2. PICK f \in SessionFinals(anns) :
        IF f = anns THEN KeepArticle ELSE WriteArticle(r, "edit", NoRun, f)
  BY <1>1 DEF SessionSave
<1>3. CASE f = anns
  BY <1>2, <1>3 DEF LegalCommit, SessionSave
<1>4. CASE f # anns
  <2>1. Log!PersonsWork(anns, f)
    BY DEF SessionFinals, Log!PersonsWork, Keeps, Drops, Twins, Human, Log!Human
  <2>2. Log!Legal(LogOf(revs), "edit", f)
    BY <2>1, TopOfLog DEF HistoryInv, Log!Legal
  <2>3. WriteOf(r, "edit", NoRun, f)
    BY <1>2, <1>4, <2>2 DEF WriteOf, Sourced, SessionSave, Ready, Log!WriteKinds, SessionFinals
  <2>4. QED
    BY <2>3 DEF LegalCommit, SessionSave
<1>5. QED
  BY <1>3, <1>4

\* Both AI saves rest on findLostHuman.
LEMMA KeptHumansAreLegal ==
  ASSUME HistoryInv, NEW f \in Snapshot, HumansKept(anns, f),
         NEW kind \in {"pipeline", "agent"}
  PROVE  Log!Legal(LogOf(revs), kind, f)
BY TopOfLog DEF HistoryInv, HumansKept, Log!Legal, Log!AIWork, Human, Log!Human

LEMMA BotIsLegal ==
  ASSUME HistoryInv, NEW r \in Reqs, BotSave(r)
  PROVE  LegalCommit(r)
<1>1. req[r].anns = anns /\ SameVersion(r)
  BY RequestFacts DEF BotSave, Ready, SaveGuard
<1>2. PICK f \in BotFinals(anns), q \in Runs \cup {NoRun} :
        (f = anns /\ KeepArticle) \/ WriteArticle(r, "pipeline", q, f)
  BY <1>1 DEF BotSave
<1>3. f \in Snapshot /\ Log!Legal(LogOf(revs), "pipeline", f)
  BY KeptHumansAreLegal DEF BotFinals
<1>4. Sourced("pipeline", f)
  BY DEF Sourced, BotFinals, HumansKept, Twins
<1>5. KeepArticle \/ WriteOf(r, "pipeline", q, f)
  BY <1>1, <1>2, <1>3, <1>4 DEF WriteOf, BotSave, Ready, Log!WriteKinds
<1>6. QED
  BY <1>5 DEF LegalCommit, BotSave

LEMMA AgentIsLegal ==
  ASSUME HistoryInv, NEW r \in Reqs, AgentSave(r)
  PROVE  LegalCommit(r)
<1>1. req[r].anns = anns /\ SameVersion(r)
  BY RequestFacts DEF AgentSave, Ready, SaveGuard
<1>2. PICK f \in AgentFinals(anns) :
        KeepArticle \/ WriteArticle(r, "agent", NoRun, f)
  BY <1>1 DEF AgentSave
<1>3. f \in Snapshot /\ Log!Legal(LogOf(revs), "agent", f)
  BY KeptHumansAreLegal DEF AgentFinals
<1>4. Sourced("agent", f)
  BY DEF Sourced, AgentFinals, Keeps, Drops, Human
<1>5. KeepArticle \/ WriteOf(r, "agent", NoRun, f)
  BY <1>1, <1>2, <1>3, <1>4 DEF WriteOf, AgentSave, Ready, Log!WriteKinds
<1>6. QED
  BY <1>5 DEF LegalCommit, AgentSave

LEMMA EndorseIsLegal ==
  ASSUME HistoryInv, NEW r \in Reqs, Endorse(r)
  PROVE  LegalCommit(r)
<1>1. req[r].anns = anns /\ anns \in Snapshot
  BY RequestFacts DEF Endorse, Ready
<1>2. PICK a \in AnnIds :
        anns[a] # NoAnn /\ WriteArticle(r, "edit", NoRun, [anns EXCEPT ![a].prov = "human"])
  BY <1>1 DEF Endorse
<1> DEFINE f == [anns EXCEPT ![a].prov = "human"]
<1>3. anns[a] \in Annotation
  BY <1>1, <1>2 DEF Snapshot
<1>4. /\ f \in Snapshot
      /\ f[a] = [anns[a] EXCEPT !.prov = "human"] /\ f[a] \in Annotation
      /\ f[a].prov = "human"
      /\ \A b \in AnnIds \ {a} : f[b] = anns[b]
  BY <1>1, <1>3 DEF Snapshot, Annotation, Provenances
<1> HIDE DEF f
<1>5. Log!PersonsWork(anns, f)
  BY <1>4, AnnotationAssumption DEF Log!PersonsWork, Log!Human
<1>6. Log!Legal(LogOf(revs), "edit", f)
  BY <1>5, TopOfLog DEF HistoryInv, Log!Legal
<1>7. WriteOf(r, "edit", NoRun, f)
  BY <1>2, <1>4, <1>6 DEF WriteOf, Sourced, Endorse, Ready, Log!WriteKinds, f
<1>8. QED
  BY <1>7 DEF LegalCommit, Endorse

\* An approval changes one live annotation, labelled after who decided.
LEMMA ApproveIsLegal ==
  ASSUME HistoryInv, NEW r \in Reqs, Approve(r)
  PROVE  LegalCommit(r)
<1>1. req[r].anns = anns /\ SameVersion(r) /\ anns \in Snapshot
  BY RequestFacts DEF Approve, Ready, DecisionGuard
<1>2. req[r].blob \in SUBSET PropIds /\ req[r].who \in {"bot", "person"}
  BY RequestFacts DEF Approve, Ready, RequestInv, RoleInv
<1>3. PICK p \in req[r].blob : DecisionGuard(r, p) /\
        (KeepArticle \/
         /\ Live(anns[table[p].ann])
         /\ WriteArticle(r,
              IF req[r].who = "bot" THEN "proposal-decided-ai" ELSE "proposal-approved",
              NoRun,
              [anns EXCEPT ![table[p].ann] =
                 Applied(anns[table[p].ann], table[p].to, req[r].who)]))
  BY <1>1 DEF Approve
<1> DEFINE a == table[p].ann
           g == Applied(anns[a], table[p].to, req[r].who)
           f == [anns EXCEPT ![a] = g]
           kind == IF req[r].who = "bot" THEN "proposal-decided-ai"
                                         ELSE "proposal-approved"
<1>4. table[p] \in Proposal
  BY <1>2, <1>3 DEF HistoryInv, DeskTyped, DecisionGuard
<1>5. a \in AnnIds /\ table[p].to \in Contents
  BY <1>4 DEF Proposal
<1>6. CASE ~KeepArticle
  <2>1. anns[a] \in Annotation /\ Live(anns[a])
    BY <1>1, <1>3, <1>5, <1>6 DEF Snapshot, Live
  <2>2. /\ g \in Annotation
        /\ req[r].who = "bot" => g.prov # "human"
        /\ req[r].who = "person" => g.prov = "human"
    BY <1>2, <1>5, <2>1 DEF Applied, Annotation, Provenances
  <2>3. /\ f \in Snapshot /\ f[a] = g
        /\ \A b \in AnnIds \ {a} : f[b] = anns[b]
    BY <1>1, <1>5, <2>2 DEF Snapshot
  <2>4. Log!Legal(LogOf(revs), kind, f)
    <3>1. Log!Live(anns[a])
      BY <2>1 DEF Live, Log!Live
    <3>2. Log!Human(f[a]) = (req[r].who = "person")
      BY <1>2, <2>2, <2>3, AnnotationAssumption DEF Log!Human
    <3> HIDE DEF f, g
    <3>3. CASE req[r].who = "bot"
      <4>1. Log!Decision(anns, f, FALSE)
        BY <1>5, <2>3, <3>1, <3>2, <3>3 DEF Log!Decision
      <4>2. QED
        BY <3>3, <4>1, TopOfLog DEF HistoryInv, Log!Legal
    <3>4. CASE req[r].who = "person"
      <4>1. Log!Decision(anns, f, TRUE)
        BY <1>5, <2>3, <3>1, <3>2, <3>4 DEF Log!Decision
      <4>2. QED
        BY <3>4, <4>1, TopOfLog DEF HistoryInv, Log!Legal
    <3>5. QED
      BY <1>2, <3>3, <3>4
  <2>5. Sourced(kind, f)
    <3>1. CASE req[r].who = "person"
      BY <3>1 DEF Sourced
    <3>2. CASE req[r].who = "bot"
      BY <2>2, <2>3, <3>2 DEF Sourced, Human
    <3>3. QED
      BY <1>2, <3>1, <3>2
  <2>6. WriteOf(r, kind, NoRun, f)
    BY <1>1, <1>3, <1>6, <2>3, <2>4, <2>5 DEF WriteOf, Approve, Ready, Log!WriteKinds
  <2>7. QED
    BY <2>6 DEF LegalCommit, Approve
<1>7. QED
  BY <1>6 DEF LegalCommit, Approve

\* What the log holds, the log may show again.
LEMMA Restored ==
  ASSUME HistoryInv, NEW i \in DOMAIN revs
  PROVE  /\ revs[i] \in Revision /\ revs[i].anns \in Snapshot
         /\ Log!Legal(LogOf(revs), "revert", revs[i].anns)
<1>1. DOMAIN revs = 1..Len(revs)
  BY LenProperties DEF HistoryInv, HistoryCore
<1>2. revs[i] \in Revision
  BY <1>1, ElementOfSeq DEF HistoryInv, HistoryCore
<1>3. revs[i].anns \in Snapshot
  BY <1>2 DEF Revision
<1>4. i \in DOMAIN LogOf(revs) /\ LogOf(revs)[i].anns = revs[i].anns
  BY DEF LogOf
<1>5. QED
  BY <1>2, <1>3, <1>4 DEF Log!Legal, Log!Restoration

LEMMA RevertIsLegal ==
  ASSUME HistoryInv, NEW r \in Reqs, Revert(r)
  PROVE  LegalCommit(r)
<1>1. PICK i \in DOMAIN revs : WriteArticle(r, "revert", NoRun, revs[i].anns)
  BY DEF Revert
<1>2. WriteOf(r, "revert", NoRun, revs[i].anns)
  BY <1>1, Restored DEF WriteOf, Sourced, Revert, Ready, Log!WriteKinds
<1>3. QED
  BY <1>2 DEF LegalCommit, Revert

\* The run's earliest revision exists, and so does the one before it.
LEMMA PreRunIsLegal ==
  ASSUME HistoryInv, NEW r \in Reqs, Ready(r, "revertRun")
  PROVE  /\ PreRun(req[r]) \in Snapshot
         /\ Log!Legal(LogOf(revs), "revert", PreRun(req[r]))
         /\ Sourced("revert", PreRun(req[r]))
         /\ Earliest(req[r]) \in RunRevs(req[r])
         /\ \A j \in RunRevs(req[r]) : Earliest(req[r]) <= j
<1> DEFINE q == req[r]
<1>1. /\ q.seenRun <= Len(revs) /\ q.seenRun \in Nat
      /\ \E i \in 1..q.seenRun : revs[i].kind = "pipeline" /\ revs[i].run = q.run
  BY RequestFacts DEF Ready, RequestInv, RunInv, Request
<1>2. Len(revs) \in Nat /\ DOMAIN revs = 1..Len(revs)
  BY LenProperties DEF HistoryInv, HistoryCore
<1>3. RunRevs(q) \in SUBSET Nat /\ RunRevs(q) # {} /\ RunRevs(q) \subseteq DOMAIN revs
  BY <1>1, <1>2 DEF RunRevs
<1>4. Earliest(q) \in RunRevs(q) /\ \A j \in RunRevs(q) : Earliest(q) <= j
  BY <1>3, Least DEF Earliest
<1> DEFINE e == Earliest(q)
<1>5. e \in DOMAIN revs /\ revs[e].parent = e - 1
  BY <1>3, <1>4 DEF HistoryInv, HistoryCore, RevisionChain
<1> HIDE DEF e
<1>6. CASE revs[e].parent = 0
  <2>1. PreRun(q) = Empty
    BY <1>6 DEF PreRun, e
  <2>2. Log!Legal(LogOf(revs), "revert", Empty)
    BY DEF Log!Legal, Log!Restoration, Log!Empty, Empty
  <2>3. Sourced("revert", Empty)
    BY DEF Sourced, Human, Empty
  <2>4. QED
    BY <1>4, <2>1, <2>2, <2>3, Shapes
<1>7. CASE revs[e].parent # 0
  <2>1. e - 1 \in DOMAIN revs
    BY <1>2, <1>5, <1>7
  <2>2. PreRun(q) = revs[e - 1].anns
    BY <1>5, <1>7 DEF PreRun, e
  <2>3. Sourced("revert", PreRun(q))
    BY <2>1, <2>2 DEF Sourced
  <2>4. QED
    BY <1>4, <2>1, <2>2, <2>3, Restored
<1>8. QED
  BY <1>6, <1>7

LEMMA RevertRunIsLegal ==
  ASSUME HistoryInv, NEW r \in Reqs, RevertRun(r)
  PROVE  LegalCommit(r)
<1>1. /\ PreRun(req[r]) \in Snapshot /\ Sourced("revert", PreRun(req[r]))
      /\ Log!Legal(LogOf(revs), "revert", PreRun(req[r]))
  BY PreRunIsLegal DEF RevertRun
<1>2. req[r].run \in Runs \cup {NoRun}
  BY RequestFacts
<1>3. WriteOf(r, "revert", req[r].run, PreRun(req[r]))
  BY <1>1, <1>2 DEF WriteOf, RevertRun, Ready, Log!WriteKinds
<1>4. QED
  BY <1>3 DEF LegalCommit, RevertRun

LEMMA CommitIsLegal ==
  ASSUME HistoryInv, NEW r \in Reqs, Commit(r)
  PROVE  LegalCommit(r)
<1>1. CASE Reject(r)
  BY <1>1 DEF Reject, LegalCommit
<1>2. QED
  BY <1>1, CreateIsLegal, SessionIsLegal, BotIsLegal, AgentIsLegal, EndorseIsLegal,
     ApproveIsLegal, RevertIsLegal, RevertRunIsLegal DEF Commit

-----------------------------------------------------------------------------
(* The history invariant is inductive.                                     *)

LEMMA HistoryInit == Init => HistoryInv
<1> SUFFICES ASSUME Init PROVE HistoryInv
  OBVIOUS
<1>1. req \in [Reqs -> Request] /\ DeskTyped
  BY Shapes DEF Init, DeskTyped
<1>2. \A r \in Reqs : RequestInv(req[r], version, anns, revs)
  BY IdleKept DEF Init
<1>3. CASE version = 0 /\ anns = Empty /\ revs = <<>>
  BY <1>1, <1>2, <1>3, Shapes DEF HistoryInv, HistoryCore, RevisionChain
<1>4. CASE /\ version = 1 /\ anns \in Snapshot
           /\ revs = <<[kind |-> "seed", anns |-> anns, run |-> NoRun, parent |-> 0]>>
  <2>1. [kind |-> "seed", anns |-> anns, run |-> NoRun, parent |-> 0] \in Revision
    BY <1>4 DEF Revision, Kinds
  <2>2. revs \in Seq(Revision) /\ RevisionChain
    BY <1>4, <2>1 DEF RevisionChain
  <2>3. QED
    BY <1>1, <1>2, <1>4, <2>2 DEF HistoryInv, HistoryCore
<1>5. QED
  BY <1>3, <1>4 DEF Init

\* Requests only read: the article and the desk stand still.
LEMMA ReadKeeps ==
  ASSUME HistoryInv, NEW r \in Reqs, NEW q \in Request,
         req' = [req EXCEPT ![r] = q],
         UNCHANGED <<version, anns, revs, blob, rejected, table, revoked>>,
         RequestInv(q, version, anns, revs)
  PROVE  HistoryInv'
<1>1. req' \in [Reqs -> Request]
  BY DEF HistoryInv, HistoryCore
<1>2. \A o \in Reqs : RequestInv(req'[o], version, anns, revs)
  BY DEF HistoryInv, HistoryCore
<1>3. QED
  BY <1>1, <1>2 DEF HistoryInv, HistoryCore, RevisionChain, DeskTyped

LEMMA ArriveKeeps ==
  ASSUME HistoryInv, NEW r \in Reqs, NEW op \in AllOps, NEW who \in Actors,
         Arrive(r, op, who)
  PROVE  HistoryInv'
<1> DEFINE q == [Asked(op, who) EXCEPT !.phase = AfterRow(op), !.version = version,
                                       !.anns = anns]
<1>1. AfterRow(op) \in {"moderation", "prior", "ready"}
      /\ (AfterRow(op) = "ready" <=> op = "create")
      /\ (AfterRow(op) = "moderation" => op \in {"bot", "agent", "approve", "reject"})
  BY DEF AfterRow
<1>2. /\ q.op = op /\ q.who = who /\ q.phase = AfterRow(op)
      /\ q.version = version /\ q.anns = anns /\ q.prior = 0
      /\ q \in Request
  BY <1>1, Shapes DEF Asked, IdleRequest, Request, HistoryInv, HistoryCore, Phases
<1>3. op # "revertRun" /\ (op = "create" => version = 0)
      /\ (op = "approve" => who \in {"bot", "person"})
      /\ (op \in {"bot", "agent"} => who \in Agents \cup {"bot"})
  BY DEF Arrive, MayAsk
<1> HIDE DEF q
<1>4. RequestInv(q, version, anns, revs)
  BY <1>1, <1>2, <1>3
     DEF RequestInv, SnapshotInv, PriorInv, RunInv, RoleInv, HistoryInv, HistoryCore
<1>5. QED
  BY <1>2, <1>4, ReadKeeps DEF Arrive, q

LEMMA ArriveRevertRunKeeps ==
  ASSUME HistoryInv, NEW r \in Reqs, NEW who \in Actors, NEW run \in Runs,
         ArriveRevertRun(r, who, run)
  PROVE  HistoryInv'
<1> DEFINE q == [Asked("revertRun", who) EXCEPT !.run = run, !.phase = "revs",
                                                !.seenRun = Len(revs)]
<1>1. Len(revs) \in Nat /\ DOMAIN revs = 1..Len(revs)
  BY LenProperties DEF HistoryInv, HistoryCore
<1>2. /\ q.op = "revertRun" /\ q.run = run /\ q.phase = "revs"
      /\ q.seenRun = Len(revs) /\ q \in Request
  BY <1>1, Shapes DEF Asked, IdleRequest, Request, Phases, AllOps
<1> HIDE DEF q
<1>3. RequestInv(q, version, anns, revs)
  BY <1>1, <1>2
     DEF RequestInv, SnapshotInv, PriorInv, RunInv, RoleInv, HasRow, ArriveRevertRun
<1>4. QED
  BY <1>2, <1>3, ReadKeeps DEF ArriveRevertRun, q

LEMMA ReadsKeep ==
  ASSUME HistoryInv, NEW r \in Reqs, Read(r)
  PROVE  HistoryInv'
<1>1. req[r] \in Request /\ RequestInv(req[r], version, anns, revs)
  BY RequestFacts
<1>2. Len(revs) \in Nat /\ Len(revs) = version
  BY LenProperties DEF HistoryInv, HistoryCore, RevisionChain
<1>3. CASE ReadRevs(r)
  <2> DEFINE q == [req[r] EXCEPT !.phase = "row", !.seen = Len(revs)]
  <2>1. q \in Request /\ RequestInv(q, version, anns, revs)
    BY <1>1, <1>2, <1>3 DEF ReadRevs, Request, Phases,
       RequestInv, SnapshotInv, PriorInv, RunInv, RoleInv, HasRow
  <2>2. req' = [req EXCEPT ![r] = q]
    BY <1>3 DEF ReadRevs, HistoryInv, HistoryCore
  <2>3. QED
    BY <1>3, <2>1, <2>2, ReadKeeps DEF ReadRevs
<1>4. CASE ReadRow(r)
  <2> DEFINE q == [req[r] EXCEPT !.phase = "prior", !.version = version, !.anns = anns]
  <2>1. q \in Request
    BY <1>1 DEF HistoryInv, HistoryCore, Request, Phases
  <2>2. req[r].op = "revertRun"
    BY <1>1, <1>4 DEF ReadRow, RequestInv, RoleInv
  <2>3. RequestInv(q, version, anns, revs)
    BY <1>1, <1>4, <2>2 DEF ReadRow, Request, HistoryInv, HistoryCore,
       RequestInv, SnapshotInv, PriorInv, RunInv, RoleInv, HasRow
  <2>4. req' = [req EXCEPT ![r] = q]
    BY <1>4 DEF ReadRow, HistoryInv, HistoryCore
  <2>5. QED
    BY <1>4, <2>1, <2>3, <2>4, ReadKeeps DEF ReadRow
<1>5. CASE ReadModeration(r)
  <2> DEFINE q == [req[r] EXCEPT !.phase = AfterModeration(req[r].op),
                                 !.blob = blob, !.rejected = rejected]
  <2>1. /\ AfterModeration(req[r].op) \in {"table", "prior", "ready"}
        /\ AfterModeration(req[r].op) = "ready" => req[r].op = "reject"
    BY <1>1, <1>5 DEF AfterModeration, ReadModeration, RequestInv, RoleInv
  <2>2. q \in Request
    BY <1>1, <2>1 DEF HistoryInv, DeskTyped, Request, Phases
  <2>3. RequestInv(q, version, anns, revs)
    BY <1>1, <1>5, <2>1 DEF ReadModeration, Request,
       RequestInv, SnapshotInv, PriorInv, RunInv, RoleInv, HasRow
  <2>4. req' = [req EXCEPT ![r] = q]
    BY <1>5 DEF ReadModeration, HistoryInv, HistoryCore
  <2>5. QED
    BY <1>5, <2>2, <2>3, <2>4, ReadKeeps DEF ReadModeration
<1>6. CASE ReadTable(r)
  <2> DEFINE q == [req[r] EXCEPT !.phase = "prior", !.table = table]
  <2>1. q \in Request /\ RequestInv(q, version, anns, revs)
    BY ZenonT(30), <1>1, <1>6 DEF ReadTable, Request, Phases, HistoryInv, DeskTyped,
       RequestInv, SnapshotInv, PriorInv, RunInv, RoleInv, HasRow
  <2>2. req' = [req EXCEPT ![r] = q]
    BY <1>6 DEF ReadTable, HistoryInv, HistoryCore
  <2>3. QED
    BY <1>6, <2>1, <2>2, ReadKeeps DEF ReadTable
<1>7. CASE ReadPrior(r)
  <2> DEFINE q == [req[r] EXCEPT !.phase = "ready", !.prior = Len(revs)]
  <2>1. q \in Request /\ RequestInv(q, version, anns, revs)
    BY ZenonT(30), <1>1, <1>2, <1>7 DEF ReadPrior, Request, Phases,
       RequestInv, SnapshotInv, PriorInv, RunInv, RoleInv, HasRow
  <2>2. req' = [req EXCEPT ![r] = q]
    BY <1>7 DEF ReadPrior, HistoryInv, HistoryCore
  <2>3. QED
    BY <1>7, <2>1, <2>2, ReadKeeps DEF ReadPrior
<1>8. QED
  BY <1>3, <1>4, <1>5, <1>6, <1>7 DEF Read

\* A commit keeps the history's invariant: it ends the request and adds at most
\* one legal revision.
LEMMA LegalKeeps ==
  ASSUME HistoryCore, NEW r \in Reqs, LegalCommit(r)
  PROVE  HistoryCore'
<1>1. CASE KeepArticle
  BY <1>1, RestKeeps DEF LegalCommit
<1>2. CASE \E kind, run, f : WriteOf(r, kind, run, f)
  <2>1. PICK kind, run, f : WriteOf(r, kind, run, f)
    BY <1>2
  <2>2. kind \in Kinds
    BY <2>1 DEF WriteOf, Log!WriteKinds, Kinds
  <2>3. \E e \in Revision : e.parent = version /\ revs' = Append(revs, e)
                              /\ version' = version + 1 /\ anns' = e.anns
    BY <2>1, <2>2, WriteStep DEF WriteOf
  <2>4. QED
    BY <2>3, WriteKeeps DEF LegalCommit
<1>3. QED
  BY <1>1, <1>2 DEF LegalCommit

LEMMA ReconcileTyped ==
  ASSUME DeskTyped, NEW q \in Request, NEW f, Reconcile(q, f),
         q.who \in Agents \cup {"bot"}
  PROVE  /\ blob' \in SUBSET PropIds
         /\ table' \in [PropIds -> Proposal \cup {NoProp}]
<1> DEFINE swept == Retire(table, DeadTargets(q, f) \cup NoDeltas(q, f) \cup Zombies(q))
<1>1. q.blob \in SUBSET PropIds
  BY DEF Request
<1>2. StillPending(q, f) \in SUBSET PropIds
  BY <1>1 DEF StillPending, Undecided
<1>3. swept \in [PropIds -> Proposal \cup {NoProp}]
  <2>1. ASSUME NEW p \in Pending(table)
        PROVE  [table[p] EXCEPT !.status = "stale"] \in Proposal
    BY DEF Pending, DeskTyped, Proposal
  <2>2. QED
    BY <2>1 DEF Retire, DeskTyped
<1>4. CASE blob' = StillPending(q, f) /\ table' = swept
  BY <1>2, <1>3, <1>4
<1>5. CASE \E p \in PropIds, a \in AnnIds, c \in Contents :
             /\ FreshProp(p) /\ Admissible(q, f, a, c)
             /\ blob' = StillPending(q, f) \cup {p}
             /\ table' = [swept EXCEPT ![p] =
                  [status |-> "pending", ann |-> a, to |-> c, by |-> q.who]]
  <2>1. PICK p \in PropIds, a \in AnnIds, c \in Contents :
             /\ blob' = StillPending(q, f) \cup {p}
             /\ table' = [swept EXCEPT ![p] =
                  [status |-> "pending", ann |-> a, to |-> c, by |-> q.who]]
    BY <1>5
  <2>2. [status |-> "pending", ann |-> a, to |-> c, by |-> q.who] \in Proposal
    BY DEF Proposal
  <2>3. QED
    BY <1>2, <1>3, <2>1, <2>2
<1>6. QED
  BY <1>4, <1>5 DEF Reconcile

\* A decision closes one row and takes its id off the list.
LEMMA DecideTyped ==
  ASSUME DeskTyped, NEW r \in Reqs, req[r].blob \in SUBSET PropIds,
         NEW p \in req[r].blob, DecisionGuard(r, p),
         NEW status \in {"approved", "rejected", "stale"}, Decide(r, p, status)
  PROVE  /\ blob' \in SUBSET PropIds
         /\ table' \in [PropIds -> Proposal \cup {NoProp}]
         /\ table[p] \in Proposal
<1>1. table[p] \in Proposal
  BY DEF DeskTyped, DecisionGuard
<1>2. [table[p] EXCEPT !.status = status] \in Proposal
  BY <1>1 DEF Proposal
<1>3. QED
  BY <1>1, <1>2 DEF DeskTyped, Decide

LEMMA CommitDesk ==
  ASSUME HistoryInv, NEW r \in Reqs, Commit(r)
  PROVE  DeskTyped'
<1>1. /\ DeskTyped /\ req[r] \in Request /\ req[r].blob \in SUBSET PropIds
      /\ req[r].op \in {"bot", "agent"} => req[r].who \in Agents \cup {"bot"}
  BY RequestFacts DEF HistoryInv, RequestInv, RoleInv
<1>2. CASE BotSave(r) \/ AgentSave(r)
  <2>1. PICK f : Reconcile(req[r], f)
    BY <1>2 DEF BotSave, AgentSave
  <2>2. UNCHANGED <<rejected, revoked>> /\ req[r].op \in {"bot", "agent"}
    BY <1>2 DEF BotSave, AgentSave, Ready
  <2>3. QED
    BY <1>1, <2>1, <2>2, ReconcileTyped DEF DeskTyped
<1>3. CASE Approve(r)
  <2>1. PICK p \in req[r].blob :
          DecisionGuard(r, p) /\ (Decide(r, p, "stale") \/ Decide(r, p, "approved"))
    BY <1>3 DEF Approve
  <2>2. UNCHANGED <<rejected, revoked>>
    BY <1>3 DEF Approve
  <2>3. QED
    BY <1>1, <2>1, <2>2, DecideTyped DEF DeskTyped
<1>4. CASE Reject(r)
  <2>1. PICK p \in req[r].blob :
          /\ DecisionGuard(r, p) /\ Decide(r, p, "rejected")
          /\ rejected' = req[r].rejected \cup {<<table[p].ann, table[p].to>>}
    BY <1>4 DEF Reject
  <2>2. table[p] \in Proposal /\ blob' \in SUBSET PropIds
        /\ table' \in [PropIds -> Proposal \cup {NoProp}]
    BY <1>1, <2>1, DecideTyped
  <2>3. req[r].rejected \in SUBSET (AnnIds \X Contents)
    BY <1>1 DEF Request
  <2>4. <<table[p].ann, table[p].to>> \in AnnIds \X Contents
    BY <2>2 DEF Proposal
  <2>5. revoked' = revoked
    BY <1>4 DEF Reject
  <2>6. QED
    BY <1>1, <2>1, <2>2, <2>3, <2>4, <2>5 DEF DeskTyped
<1>5. CASE Create(r) \/ SessionSave(r) \/ Endorse(r) \/ Revert(r) \/ RevertRun(r)
  BY <1>1, <1>5 DEF DeskTyped, Create, SessionSave, Endorse, Revert, RevertRun
<1>6. QED
  BY <1>2, <1>3, <1>4, <1>5 DEF Commit

LEMMA RevokeKeeps ==
  ASSUME HistoryInv, NEW g \in Agents, Revoke(g)
  PROVE  HistoryInv'
<1>1. ASSUME NEW p \in Pending(table)
      PROVE  [table[p] EXCEPT !.status = "stale"] \in Proposal
  BY DEF Pending, HistoryInv, DeskTyped, Proposal
<1>2. DeskTyped'
  BY <1>1 DEF Revoke, HistoryInv, DeskTyped
<1>3. QED
  BY <1>2 DEF Revoke, HistoryInv, HistoryCore, RevisionChain

LEMMA AbandonKeeps ==
  ASSUME HistoryInv, NEW r \in Reqs, Abandon(r)
  PROVE  HistoryInv'
<1>1. HistoryCore'
  BY RestKeeps DEF Abandon, HistoryInv, KeepArticle
<1>2. QED
  BY <1>1 DEF Abandon, HistoryInv, DeskTyped

\* Every step keeps the history's invariant and writes the log as allowed.
LEMMA HistoryStep ==
  ASSUME HistoryInv, [Next]_vars
  PROVE  /\ HistoryInv'
         /\ UNCHANGED <<version, anns, revs>> \/ \E r \in Reqs : LegalCommit(r)
<1>1. CASE UNCHANGED vars
  BY <1>1 DEF vars, HistoryInv, HistoryCore, DeskTyped, RevisionChain
<1>2. CASE \E r \in Reqs, op \in AllOps, who \in Actors : Arrive(r, op, who)
  BY <1>2, ArriveKeeps DEF Arrive
<1>3. CASE \E r \in Reqs, who \in Actors, q \in Runs : ArriveRevertRun(r, who, q)
  BY <1>3, ArriveRevertRunKeeps DEF ArriveRevertRun
<1>4. CASE \E r \in Reqs : Read(r)
  BY <1>4, ReadsKeep
     DEF Read, ReadRevs, ReadRow, ReadModeration, ReadTable, ReadPrior
<1>5. CASE \E r \in Reqs : Commit(r)
  <2>1. PICK r \in Reqs : Commit(r)
    BY <1>5
  <2>2. LegalCommit(r)
    BY <2>1, CommitIsLegal
  <2>3. HistoryCore' /\ DeskTyped'
    BY <2>1, <2>2, LegalKeeps, CommitDesk DEF HistoryInv
  <2>4. QED
    BY <2>2, <2>3 DEF HistoryInv
<1>6. CASE \E r \in Reqs : Abandon(r)
  BY <1>6, AbandonKeeps DEF Abandon
<1>7. CASE \E g \in Agents : Revoke(g)
  BY <1>7, RevokeKeeps DEF Revoke
<1>8. QED
  BY <1>1, <1>2, <1>3, <1>4, <1>5, <1>6, <1>7 DEF Next

LEMMA HistoryAlways == Spec => []HistoryInv
<1>1. HistoryInv /\ [Next]_vars => HistoryInv'
  BY HistoryStep
<1>2. QED
  BY <1>1, HistoryInit, PTL DEF Spec

-----------------------------------------------------------------------------
(* The theorems about the history.                                         *)

\* Whatever clients ask, every variable keeps its type: in particular no
\* decision writes a provenance the readers do not know, and revert-run's
\* lookup of the run's first revision and of its parent never falls outside
\* the article's history.
THEOREM TypeCorrect == Spec => []TypeOK
<1>1. HistoryInv => TypeOK
  BY DEF HistoryInv, HistoryCore, DeskTyped, TypeOK
<1>2. QED
  BY <1>1, HistoryAlways, PTL

\* The history of an article is a chain without gap or fork, although each
\* parent id was read in a step before the one that writes the revision.
THEOREM HistoryIsAChain == Spec => []RevisionChain
<1>1. HistoryInv => RevisionChain
  BY DEF HistoryInv, HistoryCore
<1>2. QED
  BY <1>1, HistoryAlways, PTL

LEMMA LogStep ==
  ASSUME HistoryInv, HistoryInv', NEW r \in Reqs, LegalCommit(r)
  PROVE  [Log!LogNext]_(LogOf(revs))
<1>1. CASE KeepArticle
  BY <1>1 DEF KeepArticle, LogOf
<1>2. CASE \E kind, run, f : WriteOf(r, kind, run, f)
  <2>1. PICK kind, run, f : WriteOf(r, kind, run, f)
    BY <1>2
  <2> DEFINE e == [kind |-> kind, anns |-> f, run |-> run, parent |-> version]
             x == [kind |-> kind, anns |-> f]
  <2>2. e \in Revision /\ revs' = Append(revs, e) /\ revs \in Seq(Revision)
    <3>1. kind \in Kinds
      BY <2>1 DEF WriteOf, Log!WriteKinds, Kinds
    <3>2. HistoryCore /\ revs \in Seq(Revision)
      BY DEF HistoryInv, HistoryCore
    <3>3. QED
      BY <2>1, <3>1, <3>2, WriteStep DEF WriteOf
  <2>3. /\ DOMAIN revs = 1..Len(revs) /\ Len(revs) \in Nat
        /\ revs' \in Seq(Revision) /\ Len(revs') = Len(revs) + 1
        /\ DOMAIN revs' = 1..Len(revs')
        /\ \A i \in 1..Len(revs) : revs'[i] = revs[i]
        /\ revs'[Len(revs) + 1] = e
    BY <2>2, AppendProperties, LenProperties
  <2> DEFINE l == LogOf(revs)
             m == LogOf(revs')
             R == [kind : Kinds, anns : Snapshot]
  <2>4. x \in R
    BY <2>1 DEF WriteOf, Log!WriteKinds, Kinds
  <2>5. l \in Seq(R) /\ Len(l) = Len(revs)
    <3>1. ASSUME NEW i \in 1..Len(revs)
          PROVE  [kind |-> revs[i].kind, anns |-> revs[i].anns] \in R
      <4>1. revs[i] \in Revision
        BY <2>2, ElementOfSeq
      <4>2. QED
        BY <4>1 DEF Revision
    <3>2. l \in Seq(R)
      BY <2>3, <3>1 DEF LogOf
    <3>3. QED
      BY <2>3, <3>2, LenProperties DEF LogOf
  <2>6. m = Append(l, x)
    <3>1. \A i \in 1..Len(revs) : m[i] = l[i]
      BY <2>3 DEF LogOf
    <3>2. m[Len(revs) + 1] = x
      BY <2>3 DEF LogOf
    <3>3. m \in Seq(R) /\ Len(m) = Len(l) + 1
      <4>1. ASSUME NEW i \in 1..Len(revs')
            PROVE  [kind |-> revs'[i].kind, anns |-> revs'[i].anns] \in R
        <5>1. revs'[i] \in Revision
          BY <2>3, ElementOfSeq
        <5>2. QED
          BY <5>1 DEF Revision
      <4>2. m \in Seq(R)
        BY <2>3, <4>1 DEF LogOf
      <4>3. QED
        BY <2>3, <2>5, <4>2, LenProperties DEF LogOf
    <3>4. /\ Append(l, x) \in Seq(R) /\ Len(Append(l, x)) = Len(l) + 1
          /\ \A i \in 1..Len(l) : Append(l, x)[i] = l[i]
          /\ Append(l, x)[Len(l) + 1] = x
      BY <2>4, <2>5, AppendProperties
    <3> HIDE DEF l, m, x
    <3>5. Len(m) = Len(Append(l, x)) /\ \A i \in 1..Len(m) : m[i] = Append(l, x)[i]
      BY <2>3, <2>5, <3>1, <3>2, <3>3, <3>4
    <3>6. QED
      BY <3>3, <3>4, <3>5, SeqEqual
  <2>7. l # m
    BY <2>4, <2>5, <2>6, AppendProperties
  <2>8. kind \in Log!WriteKinds /\ f \in Log!Snapshot /\ Log!Legal(l, kind, f)
    BY <2>1 DEF WriteOf, Snapshot, Log!Snapshot, Annotation, Log!Annotation,
       Provenances, Log!Provenances
  <2> HIDE DEF e, l
  <2>9. QED
    BY <2>6, <2>7, <2>8 DEF Log!LogNext, Log!Publish, LogOf, l, x
<1>3. QED
  BY <1>1, <1>2 DEF LegalCommit

\* The plane implements the abstract append-only log: every revision is a legal
\* answer to the one right before it, for any number of requests, annotations
\* and writes, whatever interleaving of their reads and commits.
THEOREM ImplementsLog == Spec => LogRefinement
<1> DEFINE log == LogOf(revs)
<1>1. Init => Log!LogInit
  <2> SUFFICES ASSUME Init PROVE Log!LogInit
    OBVIOUS
  <2>1. CASE revs = <<>>
    BY <2>1 DEF Log!LogInit
  <2>2. CASE /\ anns \in Snapshot
             /\ revs = <<[kind |-> "seed", anns |-> anns, run |-> NoRun, parent |-> 0]>>
    <3>1. [i \in DOMAIN revs |-> [kind |-> revs[i].kind, anns |-> revs[i].anns]]
            = <<[kind |-> "seed", anns |-> anns]>>
      BY <2>2
    <3>2. anns \in Log!Snapshot
      BY <2>2 DEF Snapshot, Log!Snapshot, Annotation, Log!Annotation,
         Provenances, Log!Provenances
    <3>3. QED
      BY <3>1, <3>2 DEF Log!LogInit
  <2>3. QED
    BY <2>1, <2>2 DEF Init
<1>2. HistoryInv /\ HistoryInv' /\ [Next]_vars
        => [Log!LogNext]_([i \in DOMAIN revs |-> [kind |-> revs[i].kind, anns |-> revs[i].anns]])
  BY HistoryStep, LogStep DEF LogOf
<1>3. QED
  BY <1>1, <1>2, HistoryAlways, PTL DEF Spec, LogRefinement, Log!LogSpec

-----------------------------------------------------------------------------
(* Whose work an annotation is.                                            *)

LEMMA HumanWorkStep ==
  ASSUME HistoryInv, HistoryInv', HumanWorkHasAPerson,
         NEW r \in Reqs, LegalCommit(r)
  PROVE  HumanWorkHasAPerson'
<1>1. CASE KeepArticle
  BY <1>1 DEF KeepArticle, HumanWorkHasAPerson
<1>2. CASE \E kind, run, f : WriteOf(r, kind, run, f)
  <2>1. PICK kind, run, f : WriteOf(r, kind, run, f)
    BY <1>2
  <2> DEFINE e == [kind |-> kind, anns |-> f, run |-> run, parent |-> version]
             n == Len(revs) + 1
  <2>2. e \in Revision /\ revs' = Append(revs, e) /\ revs \in Seq(Revision)
    <3>1. kind \in Kinds
      BY <2>1 DEF WriteOf, Log!WriteKinds, Kinds
    <3>2. HistoryCore /\ revs \in Seq(Revision)
      BY DEF HistoryInv, HistoryCore
    <3>3. QED
      BY <2>1, <3>1, <3>2, WriteStep DEF WriteOf
  <2>3. /\ DOMAIN revs = 1..Len(revs) /\ Len(revs) \in Nat
        /\ DOMAIN revs' = 1..n
        /\ \A i \in 1..Len(revs) : revs'[i] = revs[i]
        /\ revs'[n].kind = kind /\ revs'[n].anns = f
    BY <2>2, AppendProperties, LenProperties
  <2>4. ASSUME NEW i \in 1..Len(revs), NEW a \in AnnIds, Human(revs[i].anns[a])
        PROVE  \E j \in 1..i, b \in AnnIds :
                 /\ revs'[j].kind \in {"seed", "edit", "proposal-approved"}
                 /\ Human(revs'[j].anns[b]) /\ revs'[j].anns[b].anchor = revs[i].anns[a].anchor
    BY <2>3, <2>4 DEF HumanWorkHasAPerson
  <2>5. ASSUME NEW a \in AnnIds, Human(f[a])
        PROVE  \E j \in 1..n, b \in AnnIds :
                 /\ revs'[j].kind \in {"seed", "edit", "proposal-approved"}
                 /\ Human(revs'[j].anns[b]) /\ revs'[j].anns[b].anchor = f[a].anchor
    <3>1. CASE kind \in {"edit", "proposal-approved"}
      BY <2>3, <2>5, <3>1
    <3>2. CASE \E b \in AnnIds : Human(anns[b]) /\ anns[b].anchor = f[a].anchor
      <4>1. PICK b \in AnnIds : Human(anns[b]) /\ anns[b].anchor = f[a].anchor
        BY <3>2
      <4>2. CASE revs = <<>>
        <5>1. version = 0
          BY <4>2 DEF HistoryInv, HistoryCore, RevisionChain
        <5>2. QED
          BY <4>1, <5>1 DEF HistoryInv, HistoryCore, Empty, Human
      <4>3. CASE revs # <<>>
        <5>1. Len(revs) \in 1..Len(revs) /\ revs[Len(revs)].anns = anns
          BY <2>2, <2>3, <4>3, EmptySeq DEF HistoryInv, HistoryCore, RevisionChain
        <5>2. PICK j \in 1..Len(revs), d \in AnnIds :
                 /\ revs'[j].kind \in {"seed", "edit", "proposal-approved"}
                 /\ Human(revs'[j].anns[d]) /\ revs'[j].anns[d].anchor = anns[b].anchor
          BY <2>4, <4>1, <5>1
        <5>3. QED
          BY <2>3, <4>1, <5>2
      <4>4. QED
        BY <4>2, <4>3
    <3>3. CASE \E i \in DOMAIN revs : revs[i].anns[a] = f[a]
      <4>1. PICK i \in 1..Len(revs) : revs[i].anns[a] = f[a]
        BY <2>3, <3>3
      <4>2. PICK j \in 1..i, b \in AnnIds :
                 /\ revs'[j].kind \in {"seed", "edit", "proposal-approved"}
                 /\ Human(revs'[j].anns[b]) /\ revs'[j].anns[b].anchor = f[a].anchor
        BY <2>4, <2>5, <4>1
      <4>3. j \in 1..n
        BY <2>3
      <4>4. QED
        BY <4>2, <4>3
    <3>4. QED
      BY <2>1, <2>5, <3>1, <3>2, <3>3 DEF WriteOf, Sourced
  <2>6. QED
    BY <2>3, <2>4, <2>5 DEF HumanWorkHasAPerson
<1>3. QED
  BY <1>1, <1>2 DEF LegalCommit

\* No chain of saves, endorsements, decisions and reverts makes anything human
\* on a statement that no person ever wrote, kept or approved a human
\* annotation on.
THEOREM HumanWorkIsAPersons == Spec => []HumanWorkHasAPerson
<1>1. Init => HumanWorkHasAPerson
  BY DEF Init, HumanWorkHasAPerson
<1>2. HistoryInv /\ HistoryInv' /\ HumanWorkHasAPerson /\ [Next]_vars
        => HumanWorkHasAPerson'
  <2> SUFFICES ASSUME HistoryInv, HistoryInv', HumanWorkHasAPerson, [Next]_vars
               PROVE  HumanWorkHasAPerson'
    OBVIOUS
  <2>1. CASE UNCHANGED <<version, anns, revs>>
    BY <2>1 DEF HumanWorkHasAPerson
  <2>2. CASE \E r \in Reqs : LegalCommit(r)
    BY <2>2, HumanWorkStep
  <2>3. QED
    BY <2>1, <2>2, HistoryStep
<1>3. QED
  BY <1>1, <1>2, HistoryAlways, PTL DEF Spec

-----------------------------------------------------------------------------
(* What single writes may never do.                                        *)

\* A write of the article is its newest revision.
LEMMA Written ==
  ASSUME HistoryInv, NEW r, NEW kind, NEW run, NEW f, WriteArticle(r, kind, run, f)
  PROVE  /\ Len(revs') = Len(revs) + 1 /\ anns' = f
         /\ revs'[Len(revs')].kind = kind /\ revs'[Len(revs')].run = run
<1> DEFINE e == [kind |-> kind, anns |-> f, run |-> run, parent |-> req[r].prior]
           T == Revision \cup {e}
<1>1. revs' = Append(revs, e) /\ anns' = f
  BY DEF WriteArticle
<1>2. revs \in Seq(T) /\ e \in T
  <2>1. /\ revs \in [1..Len(revs) -> Revision] /\ Len(revs) \in Nat
    BY LenProperties DEF HistoryInv, HistoryCore
  <2>2. QED
    BY <2>1, SeqDef
<1>3. Len(revs') = Len(revs) + 1 /\ revs'[Len(revs) + 1] = e
  BY <1>1, <1>2, AppendProperties
<1>4. QED
  BY <1>1, <1>3

\* Only a commit adds a revision, of the kind of its operation.
LEMMA Writers ==
  ASSUME HistoryInv, [Next]_vars, NEW kinds, Appends(kinds)
  PROVE  \E r \in Reqs :
           /\ Commit(r) /\ ~KeepArticle
           /\ "agent" \in kinds \/ ~AgentSave(r)
           /\ "revert" \in kinds \/ ~(Revert(r) \/ RevertRun(r))
           /\ "edit" \in kinds \/ ~(SessionSave(r) \/ Endorse(r))
           /\ "pipeline" \in kinds \/ ~(Create(r) \/ BotSave(r))
           /\ (kinds \cap {"proposal-approved", "proposal-decided-ai"} # {}) \/ ~Approve(r)
<1>1. Len(revs) \in Nat /\ revs' # revs /\ ~KeepArticle
  BY LenProperties DEF HistoryInv, HistoryCore, Appends, KeepArticle
<1>2. PICK r \in Reqs : Commit(r)
  BY <1>1 DEF Next, vars, Arrive, ArriveRevertRun, Read, ReadRevs, ReadRow, ReadModeration,
     ReadTable, ReadPrior, Abandon, Revoke
<1>3. ASSUME AgentSave(r) PROVE "agent" \in kinds
  <2>1. PICK f : WriteArticle(r, "agent", NoRun, f)
    BY <1>1, <1>3 DEF AgentSave
  <2>2. QED
    BY <2>1, Written DEF Appends
<1>4. ASSUME Revert(r) \/ RevertRun(r) PROVE "revert" \in kinds
  <2>1. PICK run, f : WriteArticle(r, "revert", run, f)
    BY <1>4 DEF Revert, RevertRun
  <2>2. QED
    BY <2>1, Written DEF Appends
<1>5. ASSUME SessionSave(r) \/ Endorse(r) PROVE "edit" \in kinds
  <2>1. PICK f : WriteArticle(r, "edit", NoRun, f)
    BY <1>1, <1>5 DEF SessionSave, Endorse
  <2>2. QED
    BY <2>1, Written DEF Appends
<1>6. ASSUME Create(r) \/ BotSave(r) PROVE "pipeline" \in kinds
  <2>1. PICK run, f : WriteArticle(r, "pipeline", run, f)
    BY <1>1, <1>6 DEF Create, BotSave
  <2>2. QED
    BY <2>1, Written DEF Appends
<1>7. ASSUME Approve(r) PROVE kinds \cap {"proposal-approved", "proposal-decided-ai"} # {}
  <2>1. PICK kind, f : /\ kind \in {"proposal-approved", "proposal-decided-ai"}
                         /\ WriteArticle(r, kind, NoRun, f)
    BY <1>1, <1>7 DEF Approve
  <2>2. kind \in kinds
    BY <2>1, Written DEF Appends
  <2>3. QED
    BY <2>1, <2>2
<1>8. QED
  BY <1>1, <1>2, <1>3, <1>4, <1>5, <1>6, <1>7

\* The save's own snapshot is the article's present when its batch commits, so
\* a veto that landed while it was in flight aborts it: what an agent's save
\* stores under an unused id is not live on a vetoed statement.
THEOREM VetoesHold == Spec => NewHeedVetoes
<1> DEFINE Kept ==
      Appends({"agent"}) =>
        \A a \in AnnIds :
          (anns[a] = NoAnn /\ Live(anns'[a])) => anns'[a].anchor \notin Vetoed(anns)
<1>1. HistoryInv /\ [Next]_vars => [Kept]_vars
  <2> SUFFICES ASSUME HistoryInv, [Next]_vars, Appends({"agent"}), NEW a \in AnnIds,
                      anns[a] = NoAnn, Live(anns'[a])
               PROVE  anns'[a].anchor \notin Vetoed(anns)
    OBVIOUS
  <2>1. PICK r \in Reqs : Commit(r) /\ ~KeepArticle /\ AgentSave(r)
    <3>1. PICK r \in Reqs :
            /\ Commit(r) /\ ~KeepArticle
            /\ ~(Revert(r) \/ RevertRun(r)) /\ ~(SessionSave(r) \/ Endorse(r))
            /\ ~(Create(r) \/ BotSave(r)) /\ ~Approve(r)
      BY Writers
    <3>2. ~Reject(r)
      BY <3>1 DEF Reject
    <3>3. QED
      BY <3>1, <3>2 DEF Commit
  <2>2. req[r].anns = anns
    BY <2>1, RequestFacts DEF AgentSave, Ready, SaveGuard
  <2>3. PICK f \in AgentFinals(anns) : anns' = f
    BY <2>1, <2>2 DEF AgentSave, WriteArticle
  <2>4. QED
    BY <2>3 DEF AgentFinals, Keeps, Drops, Rewrites, IsNew, Live
<1>2. QED
  BY <1>1, HistoryAlways, PTL DEF Spec, NewHeedVetoes

\* revert-run restores what the article showed before the run first touched
\* it: the earliest of the run's revisions is among those it read, and that
\* revision's parent is the one before it.
THEOREM RunsAreUndone == Spec => UndoesRun
<1> DEFINE Undone ==
      (Appends({"revert"}) /\ revs'[Len(revs')].run # NoRun) =>
        LET q == revs'[Len(revs')].run
        IN \E i \in DOMAIN revs :
             /\ revs[i].kind = "pipeline" /\ revs[i].run = q
             /\ \A j \in 1..(i - 1) : ~(revs[j].kind = "pipeline" /\ revs[j].run = q)
             /\ anns' = IF i = 1 THEN Empty ELSE revs[i - 1].anns
<1>1. HistoryInv /\ [Next]_vars => [Undone]_vars
  <2> SUFFICES ASSUME HistoryInv, [Next]_vars, Appends({"revert"}), revs'[Len(revs')].run # NoRun
               PROVE  \E i \in DOMAIN revs :
                        /\ revs[i].kind = "pipeline" /\ revs[i].run = revs'[Len(revs')].run
                        /\ \A j \in 1..(i - 1) :
                             ~(revs[j].kind = "pipeline" /\ revs[j].run = revs'[Len(revs')].run)
                        /\ anns' = IF i = 1 THEN Empty ELSE revs[i - 1].anns
    OBVIOUS
  <2>1. PICK r \in Reqs : RevertRun(r)
    <3>1. PICK r \in Reqs :
            /\ Commit(r) /\ ~KeepArticle /\ ~AgentSave(r) /\ ~(SessionSave(r) \/ Endorse(r))
            /\ ~(Create(r) \/ BotSave(r)) /\ ~Approve(r)
      BY Writers
    <3>2. ~Revert(r)
      BY Written DEF Revert
    <3>3. ~Reject(r)
      BY <3>1 DEF Reject
    <3>4. QED
      BY <3>1, <3>2, <3>3 DEF Commit
  <2> DEFINE q == req[r]  e == Earliest(q)
  <2>2. revs'[Len(revs')].run = q.run /\ anns' = PreRun(q)
    BY <2>1, Written DEF RevertRun
  <2>3. e \in RunRevs(q) /\ \A j \in RunRevs(q) : e <= j
    BY <2>1, PreRunIsLegal DEF RevertRun
  <2>4. q.seenRun <= Len(revs) /\ q.seenRun \in Nat /\ Len(revs) \in Nat /\ DOMAIN revs = 1..Len(revs)
    BY <2>1, RequestFacts, LenProperties
       DEF RevertRun, Ready, RequestInv, RunInv, Request, HistoryInv, HistoryCore
  <2>5. e \in DOMAIN revs /\ e \in 1..q.seenRun /\ revs[e].kind = "pipeline" /\ revs[e].run = q.run
    BY <2>3, <2>4 DEF RunRevs
  <2>6. revs[e].parent = e - 1
    BY <2>5 DEF HistoryInv, HistoryCore, RevisionChain
  <2>7. ASSUME NEW j \in 1..(e - 1) PROVE ~(revs[j].kind = "pipeline" /\ revs[j].run = q.run)
    <3>1. j \in 1..q.seenRun /\ ~(e <= j)
      BY <2>4, <2>5
    <3>2. QED
      BY <2>3, <3>1 DEF RunRevs
  <2>8. PreRun(q) = IF e = 1 THEN Empty ELSE revs[e - 1].anns
    BY <2>4, <2>5, <2>6 DEF PreRun
  <2> HIDE DEF e, q
  <2>9. QED
    BY <2>2, <2>5, <2>7, <2>8
<1>2. QED
  BY <1>1, HistoryAlways, PTL DEF Spec, UndoesRun
=============================================================================
