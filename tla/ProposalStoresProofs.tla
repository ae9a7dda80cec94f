------------------------ MODULE ProposalStoresProofs ------------------------
(***************************************************************************)
(* The two stores of a proposal, the list in moderation_state and the      *)
(* proposals table, agree after every step, what an approval closes is in  *)
(* effect, and what an AI save leaves pending can still be decided.        *)
(***************************************************************************)
EXTENDS ArticlePlaneProofs

-----------------------------------------------------------------------------
(* What a request that read the two stores may still rely on, t being the  *)
(* proposals table now: rows are never deleted, what they propose never    *)
(* changes, and a decided row stays decided.                               *)

Grown(old, t) ==
  \A p \in PropIds : old[p] # NoProp =>
    /\ t[p] # NoProp
    /\ t[p].ann = old[p].ann /\ t[p].to = old[p].to
    /\ t[p].status = "pending" => old[p].status = "pending"

ListRead(q) == q.phase \in {"table", "prior", "ready"}
                 /\ q.op \in {"bot", "agent", "approve", "reject"}
TableRead(q) == q.phase \in {"prior", "ready"} /\ q.op \in {"bot", "agent"}

DeskRequest(q, t) ==
  /\ ListRead(q) => \A p \in q.blob : t[p] # NoProp
  /\ TableRead(q) => Grown(q.table, t) /\ \A p \in q.blob : q.table[p] # NoProp

DeskInv == StoresAgree /\ \A r \in Reqs : DeskRequest(req[r], table)

-----------------------------------------------------------------------------
LEMMA GrownKept ==
  ASSUME NEW q \in Request, NEW t, NEW u, DeskRequest(q, t), Grown(t, u)
  PROVE  DeskRequest(q, u)
<1>1. q.blob \in SUBSET PropIds
  BY DEF Request
<1>2. QED
  BY <1>1 DEF DeskRequest, Grown

LEMMA IdleDesk == ASSUME NEW t PROVE DeskRequest(IdleRequest, t)
BY DEF DeskRequest, ListRead, TableRead, IdleRequest

\* Closing rows: any step that only takes rows out of 'pending'.
Closed(old, t) ==
  \A p \in PropIds :
    \/ t[p] = old[p]
    \/ /\ old[p] \in Proposal /\ t[p] # NoProp
       /\ t[p].ann = old[p].ann /\ t[p].to = old[p].to /\ t[p].status # "pending"

LEMMA ClosedGrows ==
  ASSUME NEW t, NEW u, Closed(t, u)
  PROVE  Grown(t, u) /\ Pending(u) \subseteq Pending(t)
BY PlaneAssumption DEF Closed, Grown, Pending, Proposal

\* What an AI save leaves pending of what it read, when the list is still the
\* one it read: nothing was filed beside it, so the sweep reaches every pending row.
LEMMA SweepReachesAll ==
  ASSUME HistoryInv, StoresAgree, NEW q \in Request, NEW f,
         q.op \in {"bot", "agent"}, q.phase = "ready", DeskRequest(q, table), blob = q.blob
  PROVE  LET swept == Retire(table, DeadTargets(q, f) \cup NoDeltas(q, f) \cup Zombies(q))
         IN /\ swept \in [PropIds -> Proposal \cup {NoProp}]
            /\ Closed(table, swept)
            /\ Pending(swept) \subseteq StillPending(q, f)
<1> DEFINE gone == DeadTargets(q, f) \cup NoDeltas(q, f) \cup Zombies(q)
           swept == Retire(table, gone)
           still == StillPending(q, f)
<1>1. /\ table \in [PropIds -> Proposal \cup {NoProp}]
      /\ blob \subseteq PropIds /\ q.table \in [PropIds -> Proposal \cup {NoProp}]
  BY DEF HistoryInv, DeskTyped, Request
<1>2. Grown(q.table, table) /\ \A p \in q.blob : q.table[p] # NoProp
  BY DEF DeskRequest, TableRead
<1>3. Closed(table, swept)
  <2>1. ASSUME NEW p \in Pending(table)
        PROVE  /\ table[p] \in Proposal
               /\ [table[p] EXCEPT !.status = "stale"] \in Proposal
               /\ [table[p] EXCEPT !.status = "stale"].ann = table[p].ann
               /\ [table[p] EXCEPT !.status = "stale"].to = table[p].to
               /\ [table[p] EXCEPT !.status = "stale"].status = "stale"
    BY <1>1 DEF Pending, Proposal
  <2>2. NoProp \notin Proposal
    BY PlaneAssumption DEF Proposal
  <2>3. QED
    BY <2>1, <2>2 DEF Closed, Retire
<1>4. swept \in [PropIds -> Proposal \cup {NoProp}]
  <2>1. ASSUME NEW p \in Pending(table)
        PROVE  [table[p] EXCEPT !.status = "stale"] \in Proposal
    BY <1>1 DEF Pending, Proposal
  <2>2. QED
    BY <1>1, <2>1 DEF Retire
<1>5. Pending(swept) \subseteq still
  <2>1. ASSUME NEW p \in Pending(table), p \notin gone
        PROVE  p \in still
    <3>1. p \in q.blob /\ table[p].status = "pending" /\ table[p] # NoProp /\ p \in PropIds
      BY DEF StoresAgree, Pending
    <3>2. q.table[p] # NoProp /\ q.table[p].status = "pending"
      BY <1>2, <3>1 DEF Grown
    <3>3. p \in Undecided(q)
      BY <3>1, <3>2 DEF Undecided
    <3>4. QED
      BY <2>1, <3>3 DEF StillPending
  <2>2. ASSUME NEW p \in Pending(swept)
        PROVE  p \in Pending(table) /\ p \notin gone
    <3>1. p \in Pending(table)
      BY <1>3, ClosedGrows
    <3>2. CASE p \in gone
      <4>1. table[p] \in Proposal
        BY <1>1, <3>1 DEF Pending
      <4>2. swept[p] = [table[p] EXCEPT !.status = "stale"]
        BY <3>1, <3>2 DEF Retire, Pending
      <4>3. QED
        BY <4>1, <4>2 DEF Proposal, Pending
    <3>3. QED
      BY <3>1, <3>2
  <2>3. QED
    BY <2>1, <2>2
<1> HIDE DEF still
<1>6. QED
  BY <1>3, <1>4, <1>5 DEF still

\* The sweep and the new row of an AI save, when the list is still the one the
\* save read.
LEMMA ReconcileAgrees ==
  ASSUME HistoryInv, StoresAgree, NEW q \in Request, NEW f,
         q.op \in {"bot", "agent"}, q.phase = "ready",
         q.who \in Agents \cup {"bot"}, DeskRequest(q, table), blob = q.blob, Reconcile(q, f)
  PROVE  StoresAgree' /\ Grown(table, table')
<1> DEFINE gone == DeadTargets(q, f) \cup NoDeltas(q, f) \cup Zombies(q)
           swept == Retire(table, gone)
           still == StillPending(q, f)
<1>1. /\ table \in [PropIds -> Proposal \cup {NoProp}]
      /\ blob \subseteq PropIds /\ q.table \in [PropIds -> Proposal \cup {NoProp}]
  BY DEF HistoryInv, DeskTyped, Request
<1>2. Grown(q.table, table) /\ \A p \in q.blob : q.table[p] # NoProp
  BY DEF DeskRequest, TableRead
<1>3. Closed(table, swept)
  BY SweepReachesAll
<1>4. swept \in [PropIds -> Proposal \cup {NoProp}]
  BY SweepReachesAll
<1>5. Pending(swept) \subseteq still
  BY SweepReachesAll
<1>6. still \subseteq blob
  BY DEF StillPending, Undecided
<1> HIDE DEF swept, still, gone
<1>7. CASE blob' = still /\ table' = swept
  <2>1. Grown(table, table') /\ Pending(table') \subseteq Pending(table)
    BY <1>3, <1>7, ClosedGrows
  <2>2. Pending(table') \subseteq blob'
    BY <1>5, <1>7
  <2>3. \A p \in blob' : table'[p] # NoProp
    BY <1>1, <1>6, <1>7, <2>1 DEF StoresAgree, Grown
  <2>4. \A p, o \in Pending(table') :
          <<table'[p].ann, table'[p].to>> = <<table'[o].ann, table'[o].to>> => p = o
    BY <2>1 DEF StoresAgree, Grown, Pending
  <2>5. QED
    BY <2>1, <2>2, <2>3, <2>4 DEF StoresAgree
<1>8. CASE \E p \in PropIds, a \in AnnIds, c \in Contents :
             /\ FreshProp(p) /\ Admissible(q, f, a, c)
             /\ blob' = still \cup {p}
             /\ table' = [swept EXCEPT ![p] =
                  [status |-> "pending", ann |-> a, to |-> c, by |-> q.who]]
  <2>1. PICK p \in PropIds, a \in AnnIds, c \in Contents :
             /\ FreshProp(p) /\ Admissible(q, f, a, c)
             /\ blob' = still \cup {p}
             /\ table' = [swept EXCEPT ![p] =
                  [status |-> "pending", ann |-> a, to |-> c, by |-> q.who]]
    BY <1>8
  <2> DEFINE new == [status |-> "pending", ann |-> a, to |-> c, by |-> q.who]
  <2>2. table[p] = NoProp /\ p \notin Pending(table) /\ p \notin blob
    BY <2>1 DEF FreshProp, Pending, StoresAgree
  <2>3. new # NoProp
    <3>1. new \in Proposal
      BY DEF Proposal
    <3>2. NoProp \notin Proposal
      BY PlaneAssumption DEF Proposal
    <3>3. QED
      BY <3>1, <3>2
  <2>4. /\ table'[p] = new
        /\ \A o \in PropIds \ {p} : table'[o] = swept[o]
    BY <1>4, <2>1
  <2>5. Grown(table, swept) /\ Pending(swept) \subseteq Pending(table)
    BY <1>3, ClosedGrows
  <2>6. Grown(table, table')
    BY <2>2, <2>4, <2>5 DEF Grown
  <2>7. Pending(table') \subseteq Pending(swept) \cup {p}
    BY <2>4 DEF Pending
  <2>8. Pending(table') \subseteq blob'
    BY <1>5, <2>1, <2>7
  <2>9. \A o \in blob' : table'[o] # NoProp
    BY <1>1, <1>6, <2>1, <2>3, <2>4, <2>6 DEF StoresAgree, Grown
  <2>10. ASSUME NEW o \in Pending(swept)
         PROVE  /\ <<table'[o].ann, table'[o].to>> # <<a, c>>
                /\ table'[o].ann = table[o].ann /\ table'[o].to = table[o].to
    <3>1. o \in still /\ o \in Pending(table) /\ o # p /\ o \in PropIds /\ table[o] # NoProp
      BY <1>5, <2>2, <2>5 DEF Pending
    <3>2. o \in q.blob
      BY <1>6, <3>1
    <3>3. table[o].ann = q.table[o].ann /\ table[o].to = q.table[o].to
      BY <1>2, <3>1, <3>2 DEF Grown
    <3>4. <<q.table[o].ann, q.table[o].to>> # <<a, c>>
      BY <2>1, <3>1 DEF Admissible, still
    <3>5. table'[o].ann = table[o].ann /\ table'[o].to = table[o].to
      BY <2>6, <3>1 DEF Grown
    <3>6. QED
      BY <3>3, <3>4, <3>5
  <2>11. \A o, n \in Pending(table') :
           <<table'[o].ann, table'[o].to>> = <<table'[n].ann, table'[n].to>> => o = n
    <3>1. ASSUME NEW o \in Pending(swept), NEW n \in Pending(swept),
                 <<table'[o].ann, table'[o].to>> = <<table'[n].ann, table'[n].to>>
          PROVE  o = n
      BY <2>5, <2>10, <3>1 DEF StoresAgree
    <3>2. table'[p].ann = a /\ table'[p].to = c
      BY <2>4
    <3>3. QED
      BY <2>7, <2>10, <3>1, <3>2
  <2>12. QED
    BY <2>6, <2>8, <2>9, <2>11 DEF StoresAgree
<1>9. QED
  BY <1>7, <1>8 DEF Reconcile, swept, still, gone

\* A decision takes its proposal off both stores, when the list is still the
\* one the decision read.
LEMMA DecideAgrees ==
  ASSUME HistoryInv, StoresAgree, NEW r \in Reqs, NEW p \in PropIds,
         DecisionGuard(r, p), NEW status \in {"approved", "rejected", "stale"},
         Decide(r, p, status)
  PROVE  StoresAgree' /\ Grown(table, table')
<1>1. table[p] \in Proposal /\ table \in [PropIds -> Proposal \cup {NoProp}]
  BY DEF HistoryInv, DeskTyped, DecisionGuard
<1>2. blob = req[r].blob /\ blob' = blob \ {p} /\ blob \subseteq PropIds
  BY DEF DecisionGuard, Decide, HistoryInv, DeskTyped
<1>3. NoProp \notin Proposal
  BY PlaneAssumption DEF Proposal
<1>4. /\ table' = [table EXCEPT ![p] = [table[p] EXCEPT !.status = status]]
      /\ table'[p] = [table[p] EXCEPT !.status = status]
      /\ table'[p] \in Proposal /\ table'[p].status = status
      /\ table'[p].ann = table[p].ann /\ table'[p].to = table[p].to
      /\ \A o \in PropIds \ {p} : table'[o] = table[o]
  BY <1>1 DEF Decide, Proposal
<1>5. Closed(table, table')
  BY <1>1, <1>3, <1>4 DEF Closed
<1>6. Grown(table, table') /\ Pending(table') \subseteq Pending(table)
  BY <1>5, ClosedGrows
<1>7. p \notin Pending(table')
  BY <1>4 DEF Pending
<1>8. QED
  BY <1>2, <1>6, <1>7 DEF StoresAgree, Grown, Pending

LEMMA RevokeAgrees ==
  ASSUME HistoryInv, StoresAgree, NEW g \in Agents, Revoke(g)
  PROVE  StoresAgree' /\ Grown(table, table')
<1>1. NoProp \notin Proposal /\ table \in [PropIds -> Proposal \cup {NoProp}]
  BY PlaneAssumption DEF Proposal, HistoryInv, DeskTyped
<1>2. ASSUME NEW p \in Pending(table)
      PROVE  /\ table[p] \in Proposal
             /\ [table[p] EXCEPT !.status = "stale"] \in Proposal
             /\ [table[p] EXCEPT !.status = "stale"].ann = table[p].ann
             /\ [table[p] EXCEPT !.status = "stale"].to = table[p].to
             /\ [table[p] EXCEPT !.status = "stale"].status = "stale"
  BY <1>1 DEF Pending, Proposal
<1>3. Closed(table, table')
  BY <1>1, <1>2 DEF Closed, Revoke
<1>4. Grown(table, table') /\ Pending(table') \subseteq Pending(table) /\ blob' = blob
  BY <1>3, ClosedGrows DEF Revoke
<1>5. QED
  BY <1>4 DEF StoresAgree, Grown, Pending, HistoryInv, DeskTyped

-----------------------------------------------------------------------------
\* What every step does to the two stores.
LEMMA StoresStep ==
  ASSUME HistoryInv, DeskInv, [Next]_vars
  PROVE  StoresAgree' /\ Grown(table, table')
<1>1. CASE UNCHANGED <<blob, table>>
  BY <1>1 DEF DeskInv, StoresAgree, Pending, Grown
<1>2. CASE \E r \in Reqs : BotSave(r) \/ AgentSave(r)
  <2>1. PICK r \in Reqs : BotSave(r) \/ AgentSave(r)
    BY <1>2
  <2>2. PICK f : Reconcile(req[r], f)
    BY <2>1 DEF BotSave, AgentSave
  <2>3. /\ req[r].op \in {"bot", "agent"} /\ req[r].phase = "ready"
        /\ blob = req[r].blob
    BY <2>1 DEF BotSave, AgentSave, Ready, SaveGuard
  <2>4. req[r] \in Request /\ req[r].who \in Agents \cup {"bot"}
    BY <2>3, RequestFacts DEF RequestInv, RoleInv
  <2>5. QED
    BY <2>2, <2>3, <2>4, ReconcileAgrees DEF DeskInv
<1>3. CASE \E r \in Reqs : Approve(r) \/ Reject(r)
  <2>1. PICK r \in Reqs : Approve(r) \/ Reject(r)
    BY <1>3
  <2>2. PICK p \in req[r].blob, status \in {"approved", "rejected", "stale"} :
          DecisionGuard(r, p) /\ Decide(r, p, status)
    BY <2>1 DEF Approve, Reject
  <2>3. p \in PropIds
    BY RequestFacts
  <2>4. QED
    BY <2>2, <2>3, DecideAgrees DEF DeskInv
<1>4. CASE \E g \in Agents : Revoke(g)
  BY <1>4, RevokeAgrees DEF DeskInv
<1>5. CASE \E r \in Reqs : Create(r) \/ SessionSave(r) \/ Endorse(r) \/ Revert(r) \/ RevertRun(r)
  BY <1>1, <1>5 DEF Create, SessionSave, Endorse, Revert, RevertRun
<1>6. CASE \/ \E r \in Reqs, op \in AllOps, who \in Actors : Arrive(r, op, who)
           \/ \E r \in Reqs, who \in Actors, q \in Runs : ArriveRevertRun(r, who, q)
           \/ \E r \in Reqs : Read(r) \/ Abandon(r)
  BY <1>1, <1>6 DEF Arrive, ArriveRevertRun, Abandon, Read, ReadRevs, ReadRow,
     ReadModeration, ReadTable, ReadPrior
<1>7. QED
  BY <1>1, <1>2, <1>3, <1>4, <1>5, <1>6 DEF Next, Commit, vars

\* What every step does to what the requests have read.
LEMMA RequestsStep ==
  ASSUME HistoryInv, HistoryInv', DeskInv, [Next]_vars, Grown(table, table')
  PROVE  \A r \in Reqs : DeskRequest(req'[r], table')
<1>1. \A r \in Reqs : DeskRequest(req[r], table')
  BY GrownKept, RequestFacts DEF DeskInv
<1>2. req \in [Reqs -> Request]
  BY DEF HistoryInv, HistoryCore
<1>3. CASE req' = req
  BY <1>1, <1>3
<1>4. CASE \E r \in Reqs : Finish(r)
  BY <1>1, <1>2, <1>4, IdleDesk DEF Finish
<1>5. CASE \E r \in Reqs, op \in AllOps, who \in Actors : Arrive(r, op, who)
  <2>1. PICK r \in Reqs, op \in AllOps, who \in Actors : Arrive(r, op, who)
    BY <1>5
  <2> DEFINE q == [Asked(op, who) EXCEPT !.phase = AfterRow(op), !.version = version,
                                         !.anns = anns]
  <2>2. q.op = op /\ q.phase = AfterRow(op)
    BY DEF Asked, IdleRequest
  <2>3. DeskRequest(q, table')
    BY <2>2 DEF AfterRow, DeskRequest, ListRead, TableRead
  <2> HIDE DEF q
  <2>4. req' = [req EXCEPT ![r] = q]
    BY <2>1 DEF Arrive, q
  <2>5. QED
    BY <1>1, <1>2, <2>3, <2>4
<1>6. CASE \E r \in Reqs, who \in Actors, run \in Runs : ArriveRevertRun(r, who, run)
  <2>1. PICK r \in Reqs, who \in Actors, run \in Runs : ArriveRevertRun(r, who, run)
    BY <1>6
  <2> DEFINE q == [Asked("revertRun", who) EXCEPT !.run = run, !.phase = "revs",
                                                  !.seenRun = Len(revs)]
  <2>2. q.op = "revertRun"
    BY DEF Asked, IdleRequest
  <2>3. DeskRequest(q, table')
    BY <2>2 DEF DeskRequest, ListRead, TableRead
  <2> HIDE DEF q
  <2>4. req' = [req EXCEPT ![r] = q]
    BY <2>1 DEF ArriveRevertRun, q
  <2>5. QED
    BY <1>1, <1>2, <2>3, <2>4
<1>7. CASE \E r \in Reqs : Read(r)
  <2>1. PICK r \in Reqs : Read(r)
    BY <1>7
  <2>2. /\ req[r] \in Request /\ RoleInv(req[r]) /\ DeskRequest(req[r], table)
        /\ table' = table
    BY <2>1, RequestFacts DEF DeskInv, RequestInv, Read, ReadRevs, ReadRow,
       ReadModeration, ReadTable, ReadPrior
  <2>3. DeskRequest(req'[r], table)
    <3>1. CASE ReadRevs(r) \/ ReadRow(r)
      BY <1>2, <2>2, <3>1 DEF ReadRevs, ReadRow, RoleInv, DeskRequest, ListRead, TableRead,
         Request
    <3>2. CASE ReadModeration(r)
      <4>1. /\ req'[r].op = req[r].op /\ req'[r].blob = blob
            /\ req'[r].phase = AfterModeration(req[r].op)
            /\ req[r].op \in {"bot", "agent", "approve", "reject"}
        BY <1>2, <2>2, <3>2 DEF ReadModeration, RoleInv, Request
      <4>2. QED
        BY <4>1 DEF AfterModeration, DeskInv, StoresAgree, DeskRequest, ListRead, TableRead
    <3>3. CASE ReadTable(r)
      <4>1. /\ req'[r].op = req[r].op /\ req'[r].blob = req[r].blob
            /\ req'[r].table = table /\ req[r].phase = "table"
        BY <1>2, <2>2, <3>3 DEF ReadTable, Request
      <4>2. QED
        BY <2>2, <4>1 DEF Grown, DeskRequest, ListRead, TableRead
    <3>4. CASE ReadPrior(r)
      BY <1>2, <2>2, <3>4 DEF ReadPrior, Request, DeskRequest, ListRead, TableRead
    <3>5. QED
      BY <2>1, <3>1, <3>2, <3>3, <3>4 DEF Read
  <2>4. \A o \in Reqs \ {r} : req'[o] = req[o]
    BY <1>2, <2>1 DEF Read, ReadRevs, ReadRow, ReadModeration, ReadTable, ReadPrior
  <2>5. QED
    BY <1>1, <2>2, <2>3, <2>4
<1>8. QED
  BY <1>3, <1>4, <1>5, <1>6, <1>7 DEF Next, vars, Commit, Create, SessionSave, BotSave,
     AgentSave, Endorse, Approve, Reject, Revert, RevertRun, Revoke, Abandon

-----------------------------------------------------------------------------
LEMMA DeskAlways == Spec => []DeskInv
<1>1. Init => DeskInv
  BY PlaneAssumption, IdleDesk DEF Init, DeskInv, StoresAgree, Pending, NoTable
<1>2. HistoryInv /\ HistoryInv' /\ DeskInv /\ [Next]_vars => DeskInv'
  BY StoresStep, RequestsStep DEF DeskInv
<1>3. QED
  BY <1>1, <1>2, HistoryAlways, PTL DEF Spec

\* A pending row is always listed on its article, so that a moderator can
\* decide it, whatever is listed has a row, and no two pending rows propose the
\* same change: for any number of concurrent saves, decisions and revocations,
\* although each save reconciles the stores from two separate reads.
THEOREM ProposalStoresAgree == Spec => []StoresAgree
<1>1. DeskInv => StoresAgree
  BY DEF DeskInv
<1>2. QED
  BY <1>1, DeskAlways, PTL

-----------------------------------------------------------------------------
(* Decisions.                                                              *)

\* Nothing but an approval turns a pending row into an approved one: saves and
\* revocations only make rows stale.
LEMMA OnlyApproveApproves ==
  ASSUME HistoryInv, DeskInv, [Next]_vars, NEW p \in ApprovedNow
  PROVE  \E r \in Reqs : Approve(r)
<1>1. /\ p \in PropIds /\ p \in Pending(table) /\ table[p] \in Proposal
      /\ table[p] # NoProp /\ table[p].status = "pending" /\ table'[p].status = "approved"
      /\ table \in [PropIds -> Proposal \cup {NoProp}]
  BY DEF ApprovedNow, Pending, HistoryInv, DeskTyped
<1>2. table' # table
  BY <1>1
<1>3. ASSUME NEW r \in Reqs, BotSave(r) \/ AgentSave(r) PROVE FALSE
  <2>1. PICK f : Reconcile(req[r], f)
    BY <1>3 DEF BotSave, AgentSave
  <2> DEFINE gone == DeadTargets(req[r], f) \cup NoDeltas(req[r], f) \cup Zombies(req[r])
  <2>2. /\ req[r] \in Request /\ req[r].op \in {"bot", "agent"} /\ req[r].phase = "ready"
        /\ DeskRequest(req[r], table) /\ blob = req[r].blob /\ StoresAgree
    BY <1>3, RequestFacts DEF BotSave, AgentSave, Ready, SaveGuard, DeskInv
  <2>3. Retire(table, gone) \in [PropIds -> Proposal \cup {NoProp}]
    BY <2>2, SweepReachesAll
  <2>4. Retire(table, gone)[p].status # "approved"
    <3>1. [table[p] EXCEPT !.status = "stale"].status = "stale"
      BY <1>1 DEF Proposal
    <3>2. QED
      BY <1>1, <3>1 DEF Retire
  <2>5. \A o \in PropIds : \A row :
        FreshProp(o) /\ table' = [Retire(table, gone) EXCEPT ![o] = row]
          => table'[p] = Retire(table, gone)[p]
    BY <1>1, <2>3 DEF FreshProp
  <2>6. QED
    BY <1>1, <2>1, <2>4, <2>5 DEF Reconcile
<1>4. ASSUME NEW r \in Reqs, Reject(r) PROVE FALSE
  <2>1. PICK o \in req[r].blob : Decide(r, o, "rejected")
    BY <1>4 DEF Reject
  <2>2. [table[p] EXCEPT !.status = "rejected"].status = "rejected"
    BY <1>1 DEF Proposal
  <2>3. QED
    BY <1>1, <2>1, <2>2 DEF Decide
<1>5. ASSUME NEW g \in Agents, Revoke(g) PROVE FALSE
  <2>1. [table[p] EXCEPT !.status = "stale"].status = "stale"
    BY <1>1 DEF Proposal
  <2>2. QED
    BY <1>1, <1>5, <2>1 DEF Revoke
<1>6. QED
  BY <1>2, <1>3, <1>4, <1>5 DEF Next, vars, Arrive, ArriveRevertRun, Read, ReadRevs, ReadRow,
     ReadModeration, ReadTable, ReadPrior, Abandon, Commit, Create, SessionSave, Endorse,
     Revert, RevertRun

\* An approved proposal is in effect when its row says so, although the article
\* row and the list were read in separate steps before the batch: the guard
\* holds both to what they are now.
THEOREM ApprovalsTakeEffect == Spec => ApprovalTakesEffect
<1> DEFINE InEffect ==
      \A p \in ApprovedNow :
        LET a == table[p].ann
        IN /\ Live(anns[a])
           /\ anns'[a].content = table[p].to
           /\ \A b \in AnnIds \ {a} : anns'[b] = anns[b]
           /\ (Human(anns[a]) /\ ~Human(anns'[a])) =>
                revs'[Len(revs')].kind = "proposal-decided-ai"
<1>1. HistoryInv /\ DeskInv /\ [Next]_vars => [InEffect]_vars
  <2> SUFFICES ASSUME HistoryInv, DeskInv, [Next]_vars, NEW p \in ApprovedNow
               PROVE  /\ Live(anns[table[p].ann])
                      /\ anns'[table[p].ann].content = table[p].to
                      /\ \A b \in AnnIds \ {table[p].ann} : anns'[b] = anns[b]
                      /\ (Human(anns[table[p].ann]) /\ ~Human(anns'[table[p].ann])) =>
                           revs'[Len(revs')].kind = "proposal-decided-ai"
    OBVIOUS
  <2>1. PICK r \in Reqs : Approve(r)
    BY OnlyApproveApproves
  <2>2. /\ p \in PropIds /\ table[p] \in Proposal /\ table[p].status = "pending"
        /\ table'[p].status = "approved" /\ table \in [PropIds -> Proposal \cup {NoProp}]
    BY DEF ApprovedNow, Pending, HistoryInv, DeskTyped
  <2>3. /\ req[r].anns = anns /\ anns \in Snapshot /\ req[r].blob \in SUBSET PropIds
        /\ req[r].who \in {"bot", "person"}
    BY <2>1, RequestFacts DEF Approve, Ready, DecisionGuard, RequestInv, RoleInv
  <2> DEFINE kind == IF req[r].who = "bot" THEN "proposal-decided-ai" ELSE "proposal-approved"
  <2>4. PICK o \in req[r].blob :
          \/ Decide(r, o, "stale")
          \/ /\ Live(anns[table[o].ann]) /\ anns[table[o].ann].content = table[o].to
             /\ KeepArticle /\ Decide(r, o, "approved")
          \/ /\ Live(anns[table[o].ann]) /\ Decide(r, o, "approved")
             /\ WriteArticle(r, kind, NoRun,
                  [anns EXCEPT ![table[o].ann] =
                     Applied(anns[table[o].ann], table[o].to, req[r].who)])
    BY <2>1, <2>3 DEF Approve
  <2>5. o = p
    BY <2>2, <2>4 DEF Decide
  <2>6. ~Decide(r, o, "stale")
    <3>1. [table[p] EXCEPT !.status = "stale"].status = "stale"
      BY <2>2 DEF Proposal
    <3>2. QED
      BY <2>2, <2>5, <3>1 DEF Decide
  <2> DEFINE a == table[p].ann  g == Applied(anns[a], table[p].to, req[r].who)
  <2>7. a \in AnnIds /\ Live(anns[a])
    BY <2>2, <2>4, <2>5, <2>6 DEF Proposal
  <2>8. CASE KeepArticle /\ anns[a].content = table[p].to
    BY <2>7, <2>8 DEF KeepArticle
  <2>9. CASE WriteArticle(r, kind, NoRun, [anns EXCEPT ![a] = g])
    <3>1. anns' = [anns EXCEPT ![a] = g] /\ revs'[Len(revs')].kind = kind
      BY <2>9, Written
    <3>2. anns'[a] = g /\ \A b \in AnnIds \ {a} : anns'[b] = anns[b]
      BY <2>3, <2>7, <3>1 DEF Snapshot
    <3>3. g.content = table[p].to /\ (req[r].who = "person" => g.prov = "human")
      BY DEF Applied
    <3>4. g # NoAnn
      <4>1. anns[a] \in Annotation /\ table[p].to \in Contents
        BY <2>2, <2>3, <2>7 DEF Snapshot, Live, Proposal
      <4>2. g \in Annotation
        BY <2>3, <4>1 DEF Applied, Annotation, Provenances
      <4>3. QED
        BY <4>2, AnnotationAssumption
    <3> HIDE DEF g
    <3>5. QED
      BY <2>3, <2>7, <3>1, <3>2, <3>3, <3>4 DEF Human
  <2>10. QED
    BY <2>4, <2>5, <2>6, <2>8, <2>9
<1>2. QED
  BY <1>1, HistoryAlways, DeskAlways, PTL DEF Spec, ApprovalTakesEffect

-----------------------------------------------------------------------------
(* Saves.                                                                  *)

\* A save that wrote is the commit of its own request.
LEMMA SavedBy ==
  ASSUME HistoryInv, [Next]_vars, NEW r \in Reqs, Saved(r)
  PROVE  BotSave(r) \/ AgentSave(r)
<1>1. /\ req \in [Reqs -> Request] /\ req[r].phase = "ready" /\ req[r].op \in {"bot", "agent"}
      /\ req'[r].phase = "idle" /\ ~UNCHANGED <<anns, blob, table>>
  BY DEF Saved, HistoryInv, HistoryCore
<1>2. req' # req
  BY <1>1
<1>3. PICK o \in Reqs : Commit(o)
  BY <1>1, <1>2 DEF Next, vars, Arrive, ArriveRevertRun, Read, ReadRevs, ReadRow, ReadModeration,
     ReadTable, ReadPrior, Abandon, Revoke
<1>4. Finish(o)
  BY <1>3 DEF Commit, Create, SessionSave, BotSave, AgentSave, Endorse, Approve, Reject, Revert,
     RevertRun
<1>5. o = r
  BY <1>1, <1>4 DEF Finish
<1>6. QED
  BY <1>1, <1>3, <1>5 DEF Commit, Create, SessionSave, Endorse, Approve, Reject, Revert, RevertRun,
     Ready

\* What is pending once an AI save's batch is in can still be decided with
\* effect on the article that batch left.
LEMMA ReconcileSweeps ==
  ASSUME HistoryInv, DeskInv, NEW q \in Request, NEW f, q.op \in {"bot", "agent"}, q.phase = "ready",
         q.who \in Agents \cup {"bot"}, DeskRequest(q, table), blob = q.blob, Reconcile(q, f),
         NEW p \in Pending(table')
  PROVE  Live(f[table'[p].ann]) /\ f[table'[p].ann].content # table'[p].to
<1> DEFINE gone == DeadTargets(q, f) \cup NoDeltas(q, f) \cup Zombies(q)
           swept == Retire(table, gone)
<1>1. /\ swept \in [PropIds -> Proposal \cup {NoProp}] /\ Closed(table, swept)
      /\ Pending(swept) \subseteq StillPending(q, f)
  <2>1. StoresAgree
    BY DEF DeskInv
  <2>2. swept \in [PropIds -> Proposal \cup {NoProp}]
    BY <2>1, SweepReachesAll
  <2>3. Closed(table, swept)
    BY <2>1, SweepReachesAll
  <2>4. Pending(swept) \subseteq StillPending(q, f)
    BY <2>1, SweepReachesAll
  <2>5. QED
    BY <2>2, <2>3, <2>4
<1>2. ASSUME NEW o \in Pending(swept)
      PROVE  Live(f[swept[o].ann]) /\ f[swept[o].ann].content # swept[o].to
  <2>1. /\ o \in StillPending(q, f) /\ o \in PropIds /\ swept[o] # NoProp
        /\ swept[o].status = "pending"
    BY <1>1 DEF Pending
  <2>2. /\ q.table[o] # NoProp /\ Live(f[q.table[o].ann])
        /\ f[q.table[o].ann].content # q.table[o].to
    BY <2>1 DEF StillPending, Undecided, DeadTargets, NoDeltas
  <2>3. Grown(q.table, table)
    BY DEF DeskRequest, TableRead
  <2>4. table[o] # NoProp /\ table[o].ann = q.table[o].ann /\ table[o].to = q.table[o].to
    BY <2>1, <2>2, <2>3 DEF Grown
  <2>5. swept[o] = table[o]
    BY <1>1, <2>1 DEF Closed
  <2>6. QED
    BY <2>2, <2>4, <2>5
<1> HIDE DEF swept
<1>3. CASE table' = swept
  BY <1>2, <1>3
<1>4. CASE \E o \in PropIds, a \in AnnIds, c \in Contents :
             /\ Admissible(q, f, a, c)
             /\ table' = [swept EXCEPT ![o] =
                  [status |-> "pending", ann |-> a, to |-> c, by |-> q.who]]
  <2>1. PICK o \in PropIds, a \in AnnIds, c \in Contents :
             /\ Admissible(q, f, a, c)
             /\ table' = [swept EXCEPT ![o] =
                  [status |-> "pending", ann |-> a, to |-> c, by |-> q.who]]
    BY <1>4
  <2>2. CASE p = o
    <3>1. table'[p].ann = a /\ table'[p].to = c
      BY <1>1, <2>1, <2>2
    <3>2. QED
      BY <2>1, <3>1 DEF Admissible
  <2>3. CASE p # o
    <3>1. table'[p] = swept[p] /\ p \in Pending(swept)
      BY <1>1, <2>1, <2>3 DEF Pending
    <3>2. QED
      BY <1>2, <3>1
  <2>4. QED
    BY <2>2, <2>3
<1>5. QED
  BY <1>3, <1>4 DEF Reconcile, swept

\* After an AI save that wrote anything no pending proposal is one that cannot
\* be decided with effect: none was filed, none revived, between the save's
\* read of the rows and its batch.
THEOREM AISavesSweep == Spec => AISaveSweeps
<1> DEFINE Swept ==
      \A r \in Reqs : Saved(r) =>
        \A p \in Pending(table') :
          /\ Live(anns'[table'[p].ann])
          /\ anns'[table'[p].ann].content # table'[p].to
<1>1. HistoryInv /\ DeskInv /\ [Next]_vars => [Swept]_vars
  <2> SUFFICES ASSUME HistoryInv, DeskInv, [Next]_vars, NEW r \in Reqs, Saved(r), NEW p \in Pending(table')
               PROVE  Live(anns'[table'[p].ann]) /\ anns'[table'[p].ann].content # table'[p].to
    OBVIOUS
  <2>1. BotSave(r) \/ AgentSave(r)
    BY SavedBy
  <2>2. /\ req[r] \in Request /\ req[r].op \in {"bot", "agent"} /\ req[r].phase = "ready"
        /\ req[r].who \in Agents \cup {"bot"} /\ DeskRequest(req[r], table) /\ blob = req[r].blob
        /\ req[r].anns = anns
    BY <2>1, RequestFacts DEF BotSave, AgentSave, Ready, SaveGuard, DeskInv, RequestInv, RoleInv
  <2>3. PICK f : Reconcile(req[r], f) /\ anns' = f
    <3>1. CASE BotSave(r)
      BY <2>2, <3>1 DEF BotSave, KeepArticle, WriteArticle
    <3>2. CASE AgentSave(r)
      BY <2>2, <3>2 DEF AgentSave, KeepArticle, WriteArticle
    <3>3. QED
      BY <2>1, <3>1, <3>2
  <2>4. QED
    BY <2>2, <2>3, ReconcileSweeps
<1>2. QED
  BY <1>1, HistoryAlways, DeskAlways, PTL DEF Spec, AISaveSweeps
=============================================================================
