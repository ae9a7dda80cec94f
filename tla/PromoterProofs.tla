--------------------------- MODULE PromoterProofs ---------------------------
(***************************************************************************)
(* Proofs about Promoter, for any number of attempts and processes: types, *)
(* that only qualified releases are recorded as deployed, and that the     *)
(* journal implements DeployLedger.                                        *)
(*                                                                         *)
(* The inductive invariant says what the process that holds the lock knows *)
(* at each place of its work (ProcOK), what holds of every attempt whether *)
(* or not anybody works on it (AttemptOK), and that one attempt is open.   *)
(***************************************************************************)
EXTENDS Promoter, TLAPS

Opening == {"intent", "invoked", "fenced", "clear"}
Running == {"invoked", "fenced", "clear", "deploying", "result", "candidate",
            "canaried"}
Looking == {"before", "quiet", "after", "canary", "post"}

\* The work is done under the lock, on the one open attempt.
WorkOK(p) ==
  LET q == proc[p]
  IN q.pc # "idle" =>
       /\ holder = p /\ q.att \in Attempts
       /\ q.pc = "locked" => Incomplete = {}
       /\ q.pc # "locked" => q.att \in Incomplete

\* What the record q of a process at work says of its attempt.  Execution:
\* nothing was sent before Wrangler is spawned, and the candidate is live
\* before it is canaried.
ExecuteOK(q) ==
  LET a == q.att
  IN /\ q.pc = "intent" => ~Started(a)
     /\ q.pc \in Running => Started(a)
     /\ q.pc \in Opening => wrangler[a] = NotInvoked /\ a \notin Landed
     /\ q.pc \in {"candidate", "canaried"} => a \in Landed
     /\ q.pc = "canaried" => a \in Healthy

\* Reconciliation: after the quiet interval nothing is on its way any more.
ReconcileOK(q) ==
  LET a == q.att  o == q.seen
  IN /\ q.pc \in Looking => o.dep \in DOMAIN deployments
     /\ q.pc \in {"quiet", "after"} => (Started(a) => ~wrangler[a].alive)
     /\ q.pc = "after" => wrangler[a].request = "none"
     /\ q.pc \in {"canary", "post"} =>
          \/ Candidate(a, o)
          \/ /\ wrangler[a].request = "none"
             /\ SameDeployment(a, o) => a \notin Landed
     /\ (q.pc = "post" /\ Candidate(a, o)) => a \in Healthy

\* The verdict about to be recorded.
FinalOK(q) ==
  LET a == q.att
  IN q.pc = "final" =>
       /\ q.outcome \in Outcomes
       /\ q.outcome \in Deployed => a \in Healthy \cap Landed
       /\ q.outcome \notin Deployed => wrangler[a].request = "none"
       /\ q.outcome \in Unchanged => a \notin Landed

Knows(q) == ExecuteOK(q) /\ ReconcileOK(q) /\ FinalOK(q)

ProcOK == \A p \in Procs : WorkOK(p) /\ Knows(proc[p])

\* What was never invoked was never sent; what may still reach production for
\* the first time belongs to the open attempt; "deployed" was earned.
AttemptOK ==
  \A a \in Attempts :
    /\ ~Started(a) => wrangler[a] = NotInvoked /\ a \notin Landed
    /\ (wrangler[a].request # "none" /\ a \notin Landed) => a \in Incomplete
    /\ (Terminal(a) /\ Final(a) \in Deployed) => a \in Healthy \cap Landed

OneOpen == \A a, b \in Incomplete : a = b

IInv == TypeOK /\ OneOpen /\ ProcOK /\ AttemptOK

-----------------------------------------------------------------------------
(* Lemmas about the journal and the history of deployments.                *)

\* A deployment adds one entry and disturbs none.
LEMMA DeployFacts ==
  ASSUME TypeOK, NEW v \in Versions, Deploy(v)
  PROVE  /\ deployments' \in Seq(Versions) /\ deployments' # <<>>
         /\ Landed' = Landed \cup ({v} \cap Attempts)
         /\ \A i \in DOMAIN deployments :
              i \in DOMAIN deployments' /\ deployments'[i] = deployments[i]
<1>1. /\ deployments \in Seq(Versions)
      /\ deployments' = Append(deployments, v)
  BY DEF TypeOK, Deploy
<1>2. /\ deployments' \in Seq(Versions) /\ deployments' # <<>>
      /\ Len(deployments') = Len(deployments) + 1
      /\ DOMAIN deployments = 1..Len(deployments)
      /\ DOMAIN deployments' = 1..(Len(deployments) + 1)
      /\ \A i \in 1..Len(deployments) : deployments'[i] = deployments[i]
      /\ deployments'[Len(deployments) + 1] = v
      /\ Len(deployments) \in Nat
  BY <1>1
<1>3. \A i \in DOMAIN deployments :
         i \in DOMAIN deployments' /\ deployments'[i] = deployments[i]
  BY <1>2
<1>4. ASSUME NEW a \in Attempts
      PROVE  a \in Landed' <=> (a \in Landed \/ a = v)
  <2>1. a \in Landed' <=> \E i \in DOMAIN deployments' : deployments'[i] = a
    BY DEF Landed
  <2>2. a \in Landed <=> \E i \in DOMAIN deployments : deployments[i] = a
    BY DEF Landed
  <2>3. QED
    BY <1>2, <2>1, <2>2
<1>5. Landed' \subseteq Attempts /\ Landed \subseteq Attempts
  BY DEF Landed
<1>6. QED
  BY <1>2, <1>3, <1>4, <1>5

\* What the last observation may rely on.
LEMMA NowFacts ==
  ASSUME TypeOK
  PROVE  /\ Now \in Observation
         /\ Now.dep \in DOMAIN deployments
         /\ deployments[Now.dep] = Live
         /\ Live \in Attempts => Live \in Landed
<1>1. /\ deployments \in Seq(Versions) /\ deployments # <<>>
      /\ serving \in Versions
  BY DEF TypeOK
<1>2. Len(deployments) \in DOMAIN deployments /\ Len(deployments) \in Nat
  BY <1>1
<1>3. Sel(serving) \in Selectors \cup Attempts
  BY <1>1, PromoterAssumption DEF Sel, Versions, PromoterAssumption
<1>4. QED
  BY <1>2, <1>3 DEF Now, Observation, Live, Landed

\* One event is appended to the journal of one attempt.
LEMMA LogFacts ==
  ASSUME TypeOK, NEW a \in Attempts, NEW e \in Events, Log(a, e)
  PROVE  /\ journal' \in [Attempts -> Seq(Events)]
         /\ Exists(a)' /\ (Terminal(a)' <=> e \in Outcomes) /\ Final(a)' = e
         /\ Started(a)' <=> (Started(a) \/ e = "deploy_invocation")
         /\ \A b \in Attempts \ {a} :
              /\ Exists(b)' <=> Exists(b)
              /\ Terminal(b)' <=> Terminal(b)
              /\ Final(b)' = Final(b)
              /\ Started(b)' <=> Started(b)
         /\ Incomplete' = IF e \in Outcomes THEN Incomplete \ {a}
                                            ELSE Incomplete \cup {a}
<1>1. /\ journal \in [Attempts -> Seq(Events)]
      /\ journal' = [journal EXCEPT ![a] = Append(@, e)]
  BY DEF TypeOK, Log
<1> DEFINE j == journal[a]
<1>2. j \in Seq(Events) /\ journal'[a] = Append(j, e)
  BY <1>1
<1>3. /\ Append(j, e) # <<>> /\ Append(j, e)[Len(Append(j, e))] = e
      /\ Append(j, e) \in Seq(Events)
      /\ DOMAIN Append(j, e) = 1..(Len(j) + 1) /\ DOMAIN j = 1..Len(j)
      /\ Append(j, e)[Len(j) + 1] = e
      /\ \A i \in 1..Len(j) : Append(j, e)[i] = j[i]
      /\ Len(j) \in Nat
  BY <1>2
<1>4. journal' \in [Attempts -> Seq(Events)]
  BY <1>1, <1>3
<1>5. Exists(a)' /\ (Terminal(a)' <=> e \in Outcomes) /\ Final(a)' = e
  BY <1>2, <1>3 DEF Exists, Terminal, Final
<1>6. Started(a)' <=> (Started(a) \/ e = "deploy_invocation")
  <2>1. Started(a)' <=> \E i \in 1..(Len(j) + 1) : Append(j, e)[i] = "deploy_invocation"
    BY <1>2, <1>3 DEF Started
  <2>2. Started(a) <=> \E i \in 1..Len(j) : j[i] = "deploy_invocation"
    BY <1>3 DEF Started
  <2>3. QED
    BY <1>3, <2>1, <2>2
<1>7. \A b \in Attempts \ {a} : journal'[b] = journal[b]
  BY <1>1
<1>8. \A b \in Attempts \ {a} :
        /\ Exists(b)' <=> Exists(b)
        /\ Terminal(b)' <=> Terminal(b)
        /\ Final(b)' = Final(b)
        /\ Started(b)' <=> Started(b)
  BY <1>7 DEF Exists, Terminal, Final, Started
<1>9. Incomplete' = IF e \in Outcomes THEN Incomplete \ {a} ELSE Incomplete \cup {a}
  BY <1>5, <1>8 DEF Incomplete
<1>10. QED
  BY <1>4, <1>5, <1>6, <1>8, <1>9

\* What a verdict means for the ledger's landed attempts: an observation of
\* the candidate is an observation of a landed attempt.
LEMMA CandidateLanded ==
  ASSUME NEW a \in Attempts, NEW o, o.dep \in DOMAIN deployments, Candidate(a, o)
  PROVE  a \in Landed
BY DEF Candidate, Landed

\* The record of an idle process is one.
LEMMA IdleType == Idle \in Process
BY PromoterAssumption DEF PromoterAssumption, Observation, Idle, Process, Pcs, Flags

\* A process that ends leaves everybody idle, if all others were.
LEMMA ReleaseFacts ==
  ASSUME TypeOK, NEW p \in Procs, Release(p),
         \A q \in Procs \ {p} : proc[q].pc = "idle"
  PROVE  /\ holder' \in Procs \cup {NoProc} /\ proc' \in [Procs -> Process]
         /\ \A q \in Procs : proc'[q].pc = "idle"
<1>1. Idle \in Process
  BY IdleType
<1>2. Idle.pc = "idle"
  BY DEF Idle
<1>3. QED
  BY <1>1, <1>2 DEF Release, TypeOK

\* With the lock free nobody is at work; with it taken only its holder is.
LEMMA OthersIdle ==
  ASSUME TypeOK, ProcOK
  PROVE  /\ holder = NoProc => \A q \in Procs : proc[q].pc = "idle"
         /\ \A p \in Procs : proc[p].pc # "idle" =>
              /\ \A q \in Procs \ {p} : proc[q].pc = "idle"
              /\ holder = p /\ proc[p].att \in Attempts
              /\ proc[p].pc # "locked" => proc[p].att \in Incomplete
              /\ proc[p].pc = "locked" => Incomplete = {}
BY PromoterAssumption DEF ProcOK, WorkOK, PromoterAssumption

\* Idle processes have nothing to know.
LEMMA IdleKnows ==
  ASSUME NEW q, q.pc = "idle"
  PROVE  Knows(q)
BY DEF Knows, ExecuteOK, ReconcileOK, FinalOK, Opening, Running, Looking

\* What the promoter and the ledger say of the attempts is a function of the
\* journal, the invocations and the deployments.
LEMMA AttemptFrame ==
  ASSUME journal' = journal, wrangler' = wrangler, deployments' = deployments
  PROVE  /\ Incomplete' = Incomplete /\ Landed' = Landed
         /\ (AttemptOK => AttemptOK') /\ (OneOpen => OneOpen')
<1>1. /\ Incomplete' = Incomplete /\ Landed' = Landed
      /\ \A a \in Attempts : /\ Started(a)' <=> Started(a)
                             /\ Terminal(a)' <=> Terminal(a)
                             /\ Final(a)' = Final(a)
  BY DEF Incomplete, Landed, Started, Terminal, Exists, Final
<1>2. QED
  BY <1>1 DEF AttemptOK, OneOpen

-----------------------------------------------------------------------------
(* Steps that change no journal, invocation or deployment.                 *)

\* The same for what a process knows, the dry run's record being unchanged.
LEMMA KnowsFrame ==
  ASSUME journal' = journal, wrangler' = wrangler, deployments' = deployments,
         review' = review, NEW q, Knows(q)
  PROVE  Knows(q)'
<1>1. /\ Landed' = Landed /\ (Started(q.att)' <=> Started(q.att))
      /\ Candidate(q.att, q.seen)' <=> Candidate(q.att, q.seen)
      /\ SameDeployment(q.att, q.seen)' <=> SameDeployment(q.att, q.seen)
  BY DEF Landed, Started, Candidate, SameDeployment
<1>2. QED
  BY <1>1 DEF Knows, ExecuteOK, ReconcileOK, FinalOK

\* The process at work went on, as q: what is left to show is what it now knows.
LEMMA GoesOn ==
  ASSUME IInv, NEW p \in Procs, proc[p].pc # "idle",
         TypeOK', AttemptOK', OneOpen',
         NEW q, proc' = [proc EXCEPT ![p] = q], holder' = holder,
         q.pc # "locked", q.att \in Incomplete', Knows(q)'
  PROVE  IInv'
<1>1. /\ holder = p /\ \A r \in Procs \ {p} : proc[r].pc = "idle"
      /\ proc \in [Procs -> Process]
  BY OthersIdle DEF IInv, TypeOK
<1>2. proc'[p] = q /\ \A r \in Procs \ {p} : proc'[r].pc = "idle"
  BY <1>1
<1>3. WorkOK(p)' /\ Knows(proc[p])'
  <2>1. q.att \in Attempts
    BY DEF Incomplete
  <2>2. WorkOK(p)'
    BY <1>1, <1>2, <2>1 DEF WorkOK
  <2>3. Knows(proc[p])'
    BY <1>2 DEF Knows, ExecuteOK, ReconcileOK, FinalOK, Started, Candidate, SameDeployment
  <2>4. QED
    BY <2>2, <2>3
<1>4. \A r \in Procs \ {p} : WorkOK(r)' /\ Knows(proc[r])'
  BY <1>2 DEF WorkOK, Knows, ExecuteOK, ReconcileOK, FinalOK, Opening, Running, Looking
<1>5. ProcOK'
  BY <1>3, <1>4 DEF ProcOK
<1>6. QED
  BY <1>5 DEF IInv

\* The same for a step that leaves journal, invocations and deployments alone.
LEMMA GoesOnQuietly ==
  ASSUME IInv, NEW p \in Procs, proc[p].pc \notin {"idle", "locked"},
         UNCHANGED <<journal, review, World, kills>>,
         NEW q \in Process, proc' = [proc EXCEPT ![p] = q], holder' = holder,
         q.pc # "locked", q.att = proc[p].att, Knows(q)
  PROVE  IInv'
<1>1. /\ journal' = journal /\ wrangler' = wrangler /\ deployments' = deployments
      /\ review' = review
  BY DEF World
<1>2. TypeOK'
  BY DEF IInv, TypeOK, World
<1>3. AttemptOK' /\ OneOpen' /\ Incomplete' = Incomplete
  BY <1>1, AttemptFrame DEF IInv
<1>4. q.att \in Incomplete'
  BY <1>3, OthersIdle DEF IInv
<1>5. Knows(q)'
  BY <1>1, KnowsFrame
<1>6. QED
  BY <1>2, <1>3, <1>4, <1>5, GoesOn

\* When the one process at work ends, nobody has anything to know.
LEMMA Ends ==
  ASSUME IInv, NEW p \in Procs, proc[p].pc # "idle", Release(p),
         UNCHANGED <<journal, review, World>>, kills' \in Nat
  PROVE  IInv'
<1>1. /\ holder' \in Procs \cup {NoProc} /\ proc' \in [Procs -> Process]
      /\ \A q \in Procs : proc'[q].pc = "idle"
  BY OthersIdle, ReleaseFacts DEF IInv
<1>2. TypeOK'
  BY <1>1 DEF IInv, TypeOK, World
<1>3. journal' = journal /\ wrangler' = wrangler /\ deployments' = deployments
  BY DEF World
<1>4. AttemptOK' /\ OneOpen'
  BY <1>3, AttemptFrame DEF IInv
<1>5. ProcOK'
  BY <1>1 DEF ProcOK, WorkOK, Knows, ExecuteOK, ReconcileOK, FinalOK, Opening, Running, Looking
<1>6. QED
  BY <1>2, <1>4, <1>5 DEF IInv

LEMMA KillStep == ASSUME IInv, NEW p \in Procs, Kill(p) PROVE IInv'
<1>1. kills' \in Nat
  BY DEF Kill, IInv, TypeOK
<1>2. QED
  BY <1>1, Ends DEF Kill, At

\* A step that goes on when its check holds, and ends the process otherwise.
LEMMA Proceeds ==
  ASSUME IInv, NEW p \in Procs, proc[p].pc \notin {"idle", "locked"},
         UNCHANGED <<journal, review, World, kills>>,
         NEW ok \in BOOLEAN, NEW pc \in Pcs \ {"locked"}, Proceed(p, ok, pc),
         ok => Knows([proc[p] EXCEPT !.pc = pc])
  PROVE  IInv'
<1> DEFINE q == [proc[p] EXCEPT !.pc = pc]
<1>1. CASE ok /\ Goto(p, pc) /\ UNCHANGED holder
  <2>1. /\ proc' = [proc EXCEPT ![p] = q]
        /\ q \in Process /\ q.pc # "locked" /\ q.att = proc[p].att
    BY <1>1 DEF Goto, IInv, TypeOK, Process
  <2>2. QED
    BY <1>1, <2>1, GoesOnQuietly
<1>2. CASE Release(p)
  <2>1. kills' \in Nat /\ UNCHANGED <<journal, review, World>>
    BY DEF IInv, TypeOK
  <2>2. QED
    BY <1>2, <2>1, Ends
<1>3. QED
  BY <1>1, <1>2 DEF Proceed

\* A step that records what it concludes, as q, or ends the process.
LEMMA Concludes ==
  ASSUME IInv, NEW p \in Procs, proc[p].pc \notin {"idle", "locked"},
         UNCHANGED <<journal, review, World, kills>>,
         NEW q \in Process, q.pc # "locked", q.att = proc[p].att, Knows(q),
         \/ UNCHANGED holder /\ proc' = [proc EXCEPT ![p] = q]
         \/ Release(p)
  PROVE  IInv'
<1>1. CASE UNCHANGED holder /\ proc' = [proc EXCEPT ![p] = q]
  BY <1>1, GoesOnQuietly
<1>2. CASE Release(p)
  <2>1. kills' \in Nat /\ UNCHANGED <<journal, review, World>>
    BY DEF IInv, TypeOK
  <2>2. QED
    BY <1>2, <2>1, Ends
<1>3. QED
  BY <1>1, <1>2

-----------------------------------------------------------------------------
(* Execution, the steps that only look.                                    *)

LEMMA FenceStep == ASSUME IInv, NEW p \in Procs, Fence(p) PROVE IInv'
<1> DEFINE q == [proc[p] EXCEPT !.pc = "final", !.outcome = "predeploy_race_aborted"]
<1> DEFINE r == [proc[p] EXCEPT !.pc = IF proc[p].pc = "invoked" THEN "fenced" ELSE "clear"]
<1>1. /\ proc[p].pc \in {"invoked", "fenced"} /\ proc[p] \in Process
      /\ UNCHANGED <<journal, review, holder, World, kills>>
      /\ ExecuteOK(proc[p])
  BY DEF Fence, At, IInv, TypeOK, ProcOK, Knows
<1>2. /\ q \in Process /\ q.pc = "final" /\ q.att = proc[p].att
      /\ q.outcome = "predeploy_race_aborted"
  BY <1>1 DEF Process, Pcs, Outcomes, Unchanged
<1>3. /\ r \in Process /\ r.pc \in {"fenced", "clear"} /\ r.att = proc[p].att
  <2>1. CASE proc[p].pc = "invoked"
    BY <1>1, <2>1 DEF Process, Pcs
  <2>2. CASE proc[p].pc # "invoked"
    BY <1>1, <2>2 DEF Process, Pcs
  <2>3. QED
    BY <2>1, <2>2
<1>4. Knows(q) /\ Knows(r)
  BY <1>1, <1>2, <1>3 DEF Knows, ExecuteOK, ReconcileOK, FinalOK, Opening, Running,
    Looking, Outcomes, Deployed, Unchanged, Superseded, NotInvoked
<1>5. \/ proc' = [proc EXCEPT ![p] = q]
      \/ proc' = [proc EXCEPT ![p] = r]
  BY <1>1 DEF Fence, Goto, At, IInv, TypeOK
<1>6. QED
  BY <1>1, <1>2, <1>3, <1>4, <1>5, GoesOnQuietly

LEMMA AwaitVersionStep == ASSUME IInv, NEW p \in Procs, AwaitVersion(p) PROVE IInv'
<1> DEFINE q == [proc[p] EXCEPT !.pc = "candidate"]
<1>1. /\ proc[p].pc = "result" /\ proc[p] \in Process /\ Knows(proc[p])
      /\ proc[p].att \in Attempts
  BY OthersIdle DEF AwaitVersion, At, IInv, TypeOK, ProcOK
<1>2. q.pc = "candidate" /\ q.att = proc[p].att
  BY <1>1 DEF Process
<1>3. ASSUME Live = proc[p].att PROVE Knows(q)
  <2>1. q.att \in Landed
    BY <1>1, <1>2, <1>3, NowFacts DEF IInv
  <2>2. QED
    BY <1>1, <1>2, <2>1 DEF Knows, ExecuteOK, ReconcileOK, FinalOK, Opening, Running, Looking
<1>4. QED
  BY <1>1, <1>3, Proceeds DEF AwaitVersion, Pcs

LEMMA CandidateCanaryStep == ASSUME IInv, NEW p \in Procs, CandidateCanary(p) PROVE IInv'
<1> DEFINE q == [proc[p] EXCEPT !.pc = "canaried"]
<1>1. /\ proc[p].pc = "candidate" /\ proc[p] \in Process /\ Knows(proc[p])
      /\ proc[p].att \in Attempts
  BY OthersIdle DEF CandidateCanary, At, IInv, TypeOK, ProcOK
<1>2. q.pc = "canaried" /\ q.att = proc[p].att
  BY <1>1 DEF Process
<1>3. ASSUME CandidatePasses(proc[p].att) PROVE Knows(q)
  <2>1. q.att \in Healthy
    BY <1>1, <1>2, <1>3 DEF CandidatePasses, Passes
  <2>2. QED
    BY <1>1, <1>2, <2>1 DEF Knows, ExecuteOK, ReconcileOK, FinalOK, Opening, Running, Looking
<1>4. CandidatePasses(proc[p].att) \in BOOLEAN
  BY DEF CandidatePasses, Passes
<1>5. QED
  BY <1>1, <1>3, <1>4, Proceeds DEF CandidateCanary, Pcs

LEMMA ObserveExpectedStep == ASSUME IInv, NEW p \in Procs, ObserveExpected(p) PROVE IInv'
<1> DEFINE out == IF wrangler[proc[p].att].ok THEN "deployed"
                                              ELSE "deployed_after_uncertain_command"
           q == [proc[p] EXCEPT !.pc = "final", !.outcome = out]
<1>1. /\ proc[p].pc = "canaried" /\ proc[p] \in Process /\ Knows(proc[p])
      /\ UNCHANGED <<journal, review, World, kills>>
  BY DEF ObserveExpected, At, IInv, TypeOK, ProcOK
<1>2. out \in Deployed /\ out \in Outcomes /\ out \notin Unchanged
  BY DEF Deployed, Outcomes, Unchanged
<1>3. q \in Process /\ q.pc = "final" /\ q.att = proc[p].att /\ q.outcome = out
  BY <1>1, <1>2 DEF Process, Pcs
<1>4. Knows(q)
  BY <1>1, <1>2, <1>3 DEF Knows, ExecuteOK, ReconcileOK, FinalOK, Opening, Running, Looking
<1>5. \/ UNCHANGED holder /\ proc' = [proc EXCEPT ![p] = q]
      \/ Release(p)
  BY DEF ObserveExpected, IInv, TypeOK
<1>6. QED
  BY <1>1, <1>3, <1>4, <1>5, Concludes

-----------------------------------------------------------------------------
(* Reconciliation.                                                         *)

LEMMA ObserveFirstStep == ASSUME IInv, NEW p \in Procs, ObserveFirst(p) PROVE IInv'
<1> DEFINE pc == IF Candidate(proc[p].att, Now) THEN "canary" ELSE "before"
           q == [proc[p] EXCEPT !.seen = Now, !.pc = pc]
<1>1. /\ proc[p].pc = "observe" /\ proc[p] \in Process
      /\ UNCHANGED <<journal, review, World, kills>>
  BY DEF ObserveFirst, At, IInv, TypeOK
<1>2. Now \in Observation /\ Now.dep \in DOMAIN deployments
  BY NowFacts DEF IInv
<1>3. pc \in {"canary", "before"} /\ (pc = "canary" => Candidate(proc[p].att, Now))
  OBVIOUS
<1>4. q \in Process /\ q.pc = pc /\ q.att = proc[p].att /\ q.seen = Now
  BY <1>1, <1>2, <1>3 DEF Process, Pcs
<1>5. Knows(q)
  BY <1>2, <1>3, <1>4 DEF Knows, ExecuteOK, ReconcileOK, FinalOK, Opening, Running, Looking
<1>6. \/ UNCHANGED holder /\ proc' = [proc EXCEPT ![p] = q]
      \/ Release(p)
  BY DEF ObserveFirst, IInv, TypeOK
<1>7. q.pc # "locked"
  BY <1>3, <1>4
<1>8. QED
  BY <1>1, <1>4, <1>5, <1>6, <1>7, Concludes

LEMMA BeforeQuietStep == ASSUME IInv, NEW p \in Procs, BeforeQuiet(p) PROVE IInv'
<1> DEFINE a == proc[p].att
           q == [proc[p] EXCEPT !.pc = "quiet", !.hist = History(a)]
<1>1. /\ proc[p].pc = "before" /\ proc[p] \in Process /\ Knows(proc[p])
      /\ UNCHANGED <<journal, review, World, kills>>
  BY DEF BeforeQuiet, At, IInv, TypeOK, ProcOK
<1>2. History(a) \in [version : BOOLEAN, deps : SUBSET Nat]
  <2>1. DOMAIN deployments \subseteq Nat
    BY DEF IInv, TypeOK
  <2>2. QED
    BY <2>1 DEF History
<1>3. /\ q \in Process /\ q.pc = "quiet" /\ q.att = a /\ q.seen = proc[p].seen
  BY <1>1, <1>2 DEF Process, Pcs
<1>4. CASE Release(p)
  BY <1>1, <1>4, Ends DEF IInv, TypeOK
<1>5. CASE /\ Started(a) => ~wrangler[a].alive
           /\ proc' = [proc EXCEPT ![p] = q]
           /\ UNCHANGED holder
  <2>1. Knows(q)
    BY <1>1, <1>3, <1>5 DEF Knows, ExecuteOK, ReconcileOK, FinalOK, Opening, Running, Looking
  <2>2. QED
    BY <1>1, <1>3, <1>5, <2>1, GoesOnQuietly
<1>6. QED
  BY <1>4, <1>5 DEF BeforeQuiet, LocalProcesses, IInv, TypeOK

\* What was never invoked was never sent; what was is settled by now.
LEMMA QuietEndsStep == ASSUME IInv, NEW p \in Procs, QuietEnds(p) PROVE IInv'
<1> DEFINE a == proc[p].att
           q == [proc[p] EXCEPT !.pc = "after"]
<1>1. /\ proc[p].pc = "quiet" /\ proc[p] \in Process /\ Knows(proc[p])
      /\ a \in Attempts /\ Settled(a)
      /\ UNCHANGED <<journal, review, World, kills>>
  BY OthersIdle DEF QuietEnds, At, IInv, TypeOK, ProcOK
<1>2. wrangler[a].request = "none"
  <2>1. CASE Started(a)
    BY <1>1, <2>1 DEF Settled, Knows, ReconcileOK
  <2>2. CASE ~Started(a)
    BY <1>1, <2>2 DEF IInv, AttemptOK, NotInvoked
  <2>3. QED
    BY <2>1, <2>2
<1>3. q.pc = "after" /\ q.att = a /\ q.seen = proc[p].seen
  BY <1>1 DEF Process
<1>4. Knows(q)
  BY <1>1, <1>2, <1>3 DEF Knows, ExecuteOK, ReconcileOK, FinalOK, Opening, Running, Looking
<1>5. QED
  BY <1>1, <1>4, Proceeds DEF QuietEnds, Pcs

\* The attempt's version in the state that is still deployed as reviewed: the
\* history that stayed the same has no deployment of it.
LEMMA StillQuietFacts ==
  ASSUME IInv, NEW a \in Attempts, NEW o, NEW h,
         StillQuiet(a, o, h), Prior(a, o), SameDeployment(a, o)
  PROVE  a \notin Landed
<1>1. CASE Started(a)
  <2>1. {i \in DOMAIN deployments : deployments[i] = a} = {}
    BY <1>1 DEF StillQuiet, History
  <2>2. QED
    BY <2>1 DEF Landed
<1>2. CASE ~Started(a)
  BY <1>2 DEF IInv, AttemptOK
<1>3. QED
  BY <1>1, <1>2

LEMMA AfterQuietStep == ASSUME IInv, NEW p \in Procs, AfterQuiet(p) PROVE IInv'
<1> DEFINE a == proc[p].att
           o == proc[p].seen
           pc == IF o.sel = Absent THEN "post" ELSE "canary"
           q == [proc[p] EXCEPT !.pc = pc]
           r == [proc[p] EXCEPT !.pc = "final", !.outcome = "externally_superseded"]
<1>1. /\ proc[p].pc = "after" /\ proc[p] \in Process /\ Knows(proc[p])
      /\ a \in Attempts
      /\ UNCHANGED <<journal, review, World, kills>>
  BY OthersIdle DEF AfterQuiet, At, IInv, TypeOK, ProcOK
<1>2. wrangler[a].request = "none" /\ o.dep \in DOMAIN deployments
  BY <1>1 DEF Knows, ReconcileOK, Looking
<1>3. CASE Release(p)
  BY <1>1, <1>3, Ends DEF IInv, TypeOK
<1>4. CASE /\ StillQuiet(a, o, proc[p].hist) /\ Prior(a, o)
           /\ Goto(p, pc) /\ UNCHANGED holder
  <2>1. pc \in {"post", "canary"} /\ (pc = "post" => ~Candidate(a, o))
    BY <1>1, PromoterAssumption DEF PromoterAssumption, Candidate
  <2>2. q \in Process /\ q.pc = pc /\ q.att = a /\ q.seen = o
    BY <1>1, <2>1 DEF Process, Pcs
  <2>3. SameDeployment(a, o) => a \notin Landed
    BY <1>1, <1>4, StillQuietFacts
  <2>4. q.pc \notin {"locked", "intent", "final", "quiet", "after"}
        /\ q.pc \notin Running /\ q.pc \notin Opening
    BY <2>1, <2>2 DEF Running, Opening
  <2>5. Knows(q)
    BY <1>1, <1>2, <2>1, <2>2, <2>3, <2>4 DEF Knows, ExecuteOK, ReconcileOK, FinalOK,
      Opening, Running, Looking
  <2>6. proc' = [proc EXCEPT ![p] = q]
    BY <1>4 DEF Goto, IInv, TypeOK
  <2>7. QED
    BY <1>1, <1>4, <2>2, <2>4, <2>5, <2>6, GoesOnQuietly
<1>5. CASE proc' = [proc EXCEPT ![p].pc = "final", ![p].outcome = "externally_superseded"]
           /\ UNCHANGED holder
  <2>1. /\ r \in Process /\ r.pc = "final" /\ r.att = a
        /\ r.outcome = "externally_superseded"
    BY <1>1 DEF Process, Pcs, Outcomes, Superseded
  <2>2. Knows(r)
    BY <1>2, <2>1 DEF Knows, ExecuteOK, ReconcileOK, FinalOK, Opening, Running, Looking,
      Outcomes, Deployed, Unchanged, Superseded
  <2>3. proc' = [proc EXCEPT ![p] = r]
    BY <1>5 DEF IInv, TypeOK
  <2>4. QED
    BY <1>1, <1>5, <2>1, <2>2, <2>3, GoesOnQuietly
<1>6. QED
  BY <1>3, <1>4, <1>5 DEF AfterQuiet

LEMMA ReconcileCanaryStep == ASSUME IInv, NEW p \in Procs, ReconcileCanary(p) PROVE IInv'
<1> DEFINE a == proc[p].att
           o == proc[p].seen
           ok == IF Candidate(a, o) THEN CandidatePasses(a) ELSE Passes(o.sel)
           q == [proc[p] EXCEPT !.pc = "post"]
<1>1. /\ proc[p].pc = "canary" /\ proc[p] \in Process /\ Knows(proc[p])
      /\ a \in Attempts
      /\ UNCHANGED <<journal, review, World, kills>>
  BY OthersIdle DEF ReconcileCanary, At, IInv, TypeOK, ProcOK
<1>2. q.pc = "post" /\ q.att = a /\ q.seen = o
  BY <1>1 DEF Process
<1>3. ASSUME ok PROVE Knows(q)
  <2>1. Candidate(a, o) => a \in Healthy
    BY <1>1, <1>3 DEF CandidatePasses, Passes
  <2>2. QED
    BY <1>1, <1>2, <2>1 DEF Knows, ExecuteOK, ReconcileOK, FinalOK, Opening, Running, Looking
<1>4. ok \in BOOLEAN
  BY DEF CandidatePasses, Passes
<1>5. Proceed(p, ok, "post")
  BY DEF ReconcileCanary
<1>6. QED
  BY <1>1, <1>3, <1>4, <1>5, Proceeds DEF Pcs

LEMMA PostObserveStep == ASSUME IInv, NEW p \in Procs, PostObserve(p) PROVE IInv'
<1> DEFINE a == proc[p].att
           o == proc[p].seen
           q == [proc[p] EXCEPT !.pc = "final", !.outcome = Verdict(a, o)]
<1>1. /\ proc[p].pc = "post" /\ proc[p] \in Process /\ Knows(proc[p])
      /\ a \in Attempts
      /\ UNCHANGED <<journal, review, World, kills>>
  BY OthersIdle DEF PostObserve, At, IInv, TypeOK, ProcOK
<1>2. /\ Verdict(a, o) \in Outcomes
      /\ Verdict(a, o) \in Deployed <=> Candidate(a, o)
      /\ Verdict(a, o) \in Unchanged => ~Candidate(a, o) /\ SameDeployment(a, o)
  BY DEF Verdict, Outcomes, Deployed, Unchanged, Superseded
<1>3. Candidate(a, o) => a \in Landed /\ a \in Healthy
  BY <1>1, CandidateLanded DEF Knows, ReconcileOK, Looking
<1>4. /\ q \in Process /\ q.pc = "final" /\ q.att = a
      /\ q.outcome = Verdict(a, o)
  BY <1>1, <1>2 DEF Process, Pcs
<1>5. Knows(q)
  BY <1>1, <1>2, <1>3, <1>4 DEF Knows, ExecuteOK, ReconcileOK, FinalOK, Opening, Running, Looking
<1>6. \/ UNCHANGED holder /\ proc' = [proc EXCEPT ![p] = q]
      \/ Release(p)
  BY DEF PostObserve, IInv, TypeOK
<1>7. QED
  BY <1>1, <1>4, <1>5, <1>6, Concludes

-----------------------------------------------------------------------------
(* Steps that write the journal.                                           *)

\* An event that closes nothing.
LEMMA LogMore ==
  ASSUME TypeOK, AttemptOK, NEW a \in Attempts, NEW e \in Events \ Outcomes, Log(a, e),
         wrangler' = wrangler, deployments' = deployments,
         Incomplete \subseteq {a}
  PROVE  AttemptOK' /\ OneOpen' /\ a \in Incomplete' /\ Landed' = Landed
<1>1. Landed' = Landed
  BY DEF Landed
<1>2. Incomplete' = {a}
  BY LogFacts
<1>3. AttemptOK'
  <2> SUFFICES ASSUME NEW b \in Attempts
               PROVE  /\ ~Started(b)' => wrangler[b] = NotInvoked /\ b \notin Landed
                      /\ (wrangler[b].request # "none" /\ b \notin Landed) => b \in Incomplete'
                      /\ (Terminal(b)' /\ Final(b)' \in Deployed) => b \in Healthy \cap Landed
    BY <1>1 DEF AttemptOK
  <2>1. CASE b = a
    BY <1>2, <2>1, LogFacts DEF AttemptOK
  <2>2. CASE b # a
    BY <1>2, <2>2, LogFacts DEF AttemptOK
  <2>3. QED
    BY <2>1, <2>2
<1>4. QED
  BY <1>1, <1>2, <1>3 DEF OneOpen

\* The attempt had no event: it was never invoked.
LEMMA CreateIntentStep == ASSUME IInv, NEW p \in Procs, CreateIntent(p) PROVE IInv'
<1>1. /\ proc[p].pc = "locked" /\ proc[p] \in Process /\ Incomplete = {}
      /\ proc[p].att \in Attempts
      /\ UNCHANGED <<review, World, kills>>
  BY OthersIdle DEF CreateIntent, At, IInv, TypeOK, ProcOK
<1> PICK a \in Attempts : a = proc[p].att
  BY <1>1
<1>2. CASE Exists(a)
  <2>1. Release(p) /\ UNCHANGED journal
    BY <1>2 DEF CreateIntent, Proceed
  <2>2. QED
    BY <1>1, <2>1, Ends DEF IInv, TypeOK
<1>3. CASE ~Exists(a)
  <2> DEFINE q0 == [proc[p] EXCEPT !.pc = "intent"]
  <2> PICK q \in Process : q = q0
    BY <1>1 DEF Process, Pcs
  <2>1. Log(a, "intent") /\ proc' = [proc EXCEPT ![p] = q] /\ UNCHANGED holder
    BY <1>3 DEF CreateIntent, Proceed, Goto, IInv, TypeOK
  <2>2. q.pc = "intent" /\ q.att = a
    BY <1>1 DEF Process
  <2>3. "intent" \in Events \ Outcomes
    BY DEF Events, Outcomes, Deployed, Unchanged, Superseded
  <2>4. wrangler' = wrangler /\ deployments' = deployments
    BY <1>1 DEF World
  <2>5. AttemptOK' /\ OneOpen' /\ a \in Incomplete' /\ Landed' = Landed
    BY <1>1, <2>1, <2>3, <2>4, LogMore DEF IInv
  <2>6. ~Started(a)' /\ ~Started(a)
    <3>1. ~Started(a)
      BY <1>3 DEF Exists, Started
    <3>2. QED
      BY <2>1, <2>3, <3>1, LogFacts DEF IInv
  <2>7. wrangler'[a] = NotInvoked /\ a \notin Landed'
    BY <2>4, <2>5, <2>6 DEF IInv, AttemptOK
  <2>8. Knows(q)'
    BY <2>2, <2>6, <2>7 DEF Knows, ExecuteOK, ReconcileOK, FinalOK, Opening, Running, Looking
  <2>9. TypeOK'
    BY <1>1, <2>1, <2>3, LogFacts DEF IInv, TypeOK, World
  <2>10. QED
    BY <1>1, <2>1, <2>2, <2>5, <2>8, <2>9, GoesOn
<1>4. QED
  BY <1>2, <1>3

LEMMA RecordInvocationStep ==
  ASSUME IInv, NEW p \in Procs, RecordInvocation(p) PROVE IInv'
<1>1. /\ proc[p].pc = "intent" /\ proc[p] \in Process /\ Knows(proc[p])
      /\ proc[p].att \in Incomplete /\ proc[p].att \in Attempts
      /\ UNCHANGED <<review, World, kills, holder>>
  BY OthersIdle DEF RecordInvocation, At, IInv, TypeOK, ProcOK
<1> PICK a \in Attempts : a = proc[p].att
  BY <1>1
<1> DEFINE q0 == [proc[p] EXCEPT !.pc = "invoked"]
<1> PICK q \in Process : q = q0
  BY <1>1 DEF Process, Pcs
<1>2. Log(a, "deploy_invocation") /\ proc' = [proc EXCEPT ![p] = q]
  BY DEF RecordInvocation, Goto, IInv, TypeOK
<1>3. q.pc = "invoked" /\ q.att = a
  BY <1>1 DEF Process
<1>4. "deploy_invocation" \in Events \ Outcomes
  BY DEF Events, Outcomes, Deployed, Unchanged, Superseded
<1>5. wrangler' = wrangler /\ deployments' = deployments
  BY <1>1 DEF World
<1>6. Incomplete \subseteq {a}
  BY <1>1 DEF IInv, OneOpen
<1>7. AttemptOK' /\ OneOpen' /\ a \in Incomplete' /\ Landed' = Landed
  BY <1>2, <1>4, <1>5, <1>6, LogMore DEF IInv
<1>8. Started(a)'
  BY <1>2, <1>4, LogFacts DEF IInv
<1>9. wrangler'[a] = NotInvoked /\ a \notin Landed'
  BY <1>1, <1>5, <1>7 DEF Knows, ExecuteOK, Opening
<1>10. Knows(q)'
  BY <1>3, <1>8, <1>9 DEF Knows, ExecuteOK, ReconcileOK, FinalOK, Opening, Running, Looking
<1>11. TypeOK'
  BY <1>1, <1>2, <1>4, LogFacts DEF IInv, TypeOK, World
<1>12. QED
  BY <1>1, <1>2, <1>3, <1>7, <1>10, <1>11, GoesOn

LEMMA RecordResultStep == ASSUME IInv, NEW p \in Procs, RecordResult(p) PROVE IInv'
<1>1. /\ proc[p].pc = "deploying" /\ proc[p] \in Process /\ Knows(proc[p])
      /\ proc[p].att \in Incomplete /\ proc[p].att \in Attempts
      /\ UNCHANGED <<review, World, kills, holder>>
  BY OthersIdle DEF RecordResult, At, IInv, TypeOK, ProcOK
<1> PICK a \in Attempts : a = proc[p].att
  BY <1>1
<1> DEFINE q0 == [proc[p] EXCEPT !.pc = "result"]
<1> PICK q \in Process : q = q0
  BY <1>1 DEF Process, Pcs
<1>2. Log(a, "deploy_result") /\ proc' = [proc EXCEPT ![p] = q]
  BY DEF RecordResult, Goto, IInv, TypeOK
<1>3. q.pc = "result" /\ q.att = a
  BY <1>1 DEF Process
<1>4. "deploy_result" \in Events \ Outcomes
  BY DEF Events, Outcomes, Deployed, Unchanged, Superseded
<1>5. wrangler' = wrangler /\ deployments' = deployments
  BY <1>1 DEF World
<1>6. Incomplete \subseteq {a}
  BY <1>1 DEF IInv, OneOpen
<1>7. AttemptOK' /\ OneOpen' /\ a \in Incomplete' /\ Landed' = Landed
  BY <1>2, <1>4, <1>5, <1>6, LogMore DEF IInv
<1>8. Started(a)'
  BY <1>1, <1>2, <1>4, LogFacts DEF IInv, Knows, ExecuteOK, Running
<1>9. Knows(q)'
  BY <1>3, <1>8 DEF Knows, ExecuteOK, ReconcileOK, FinalOK, Opening, Running, Looking
<1>10. TypeOK'
  BY <1>1, <1>2, <1>4, LogFacts DEF IInv, TypeOK, World
<1>11. QED
  BY <1>1, <1>2, <1>3, <1>7, <1>9, <1>10, GoesOn

LEMMA CloseStep == ASSUME IInv, NEW p \in Procs, Close(p) PROVE IInv'
<1>1. /\ proc[p].pc = "final" /\ Knows(proc[p])
      /\ proc[p].att \in Incomplete /\ proc[p].att \in Attempts
      /\ \A r \in Procs \ {p} : proc[r].pc = "idle"
      /\ Release(p) /\ Log(proc[p].att, proc[p].outcome)
      /\ UNCHANGED <<review, World, kills>>
  BY OthersIdle DEF Close, At, IInv, ProcOK
<1> PICK a \in Attempts : a = proc[p].att
  BY <1>1
<1> PICK e \in Outcomes : e = proc[p].outcome
  BY <1>1 DEF Knows, FinalOK
<1>2. /\ e \in Deployed => a \in Healthy \cap Landed
      /\ e \notin Deployed => wrangler[a].request = "none"
  BY <1>1 DEF Knows, FinalOK
<1>3. e \in Events /\ Log(a, e)
  BY <1>1 DEF Events
<1>4. wrangler' = wrangler /\ deployments' = deployments /\ Landed' = Landed
  BY <1>1 DEF World, Landed
<1>5. Incomplete' = {}
  BY <1>1, <1>3, LogFacts DEF IInv, OneOpen
<1>6. AttemptOK'
  <2> SUFFICES ASSUME NEW b \in Attempts
               PROVE  /\ ~Started(b)' => wrangler[b] = NotInvoked /\ b \notin Landed
                      /\ (wrangler[b].request # "none" /\ b \notin Landed) => b \in Incomplete'
                      /\ (Terminal(b)' /\ Final(b)' \in Deployed) => b \in Healthy \cap Landed
    BY <1>4 DEF AttemptOK
  <2>1. CASE b = a
    BY <1>2, <1>3, <2>1, LogFacts DEF IInv, AttemptOK
  <2>2. CASE b # a
    <3>1. b \notin Incomplete
      BY <1>1, <2>2 DEF IInv, OneOpen
    <3>2. QED
      BY <1>3, <2>2, <3>1, LogFacts DEF IInv, AttemptOK
  <2>3. QED
    BY <2>1, <2>2
<1>7. /\ holder' \in Procs \cup {NoProc} /\ proc' \in [Procs -> Process]
      /\ \A q \in Procs : proc'[q].pc = "idle"
  BY <1>1, ReleaseFacts DEF IInv
<1>8. TypeOK'
  BY <1>1, <1>3, <1>7, LogFacts DEF IInv, TypeOK, World
<1>9. ProcOK'
  BY <1>7 DEF ProcOK, WorkOK, Knows, ExecuteOK, ReconcileOK, FinalOK, Opening, Running, Looking
<1>10. OneOpen'
  BY <1>5 DEF OneOpen
<1>11. QED
  BY <1>6, <1>8, <1>9, <1>10 DEF IInv

-----------------------------------------------------------------------------
(* Steps that change an invocation or the deployments.                     *)

LEMMA SpawnStep == ASSUME IInv, NEW p \in Procs, Spawn(p) PROVE IInv'
<1>1. /\ proc[p].pc = "clear" /\ proc[p] \in Process /\ Knows(proc[p])
      /\ proc[p].att \in Incomplete /\ proc[p].att \in Attempts
      /\ UNCHANGED <<journal, review, holder, uploaded, deployments, serving, kills>>
  BY OthersIdle DEF Spawn, At, IInv, TypeOK, ProcOK
<1> PICK a \in Attempts : a = proc[p].att
  BY <1>1
<1> DEFINE q0 == [proc[p] EXCEPT !.pc = "deploying"]
<1> PICK q \in Process : q = q0
  BY <1>1 DEF Process, Pcs
<1>2. q.pc = "deploying" /\ q.att = a /\ proc' = [proc EXCEPT ![p] = q]
  BY <1>1 DEF Process, Spawn, Goto, IInv, TypeOK
<1>3. /\ Incomplete' = Incomplete /\ Landed' = Landed
      /\ \A b \in Attempts : /\ Started(b)' <=> Started(b)
                             /\ Terminal(b)' <=> Terminal(b)
                             /\ Final(b)' = Final(b)
  BY <1>1 DEF Incomplete, Landed, Started, Terminal, Exists, Final
<1>4. Started(a)
  BY <1>1 DEF Knows, ExecuteOK, Running
<1>5. /\ wrangler' \in [Attempts -> Invocation]
      /\ \A b \in Attempts \ {a} : wrangler'[b] = wrangler[b]
  BY DEF Spawn, IInv, TypeOK, Invocation
<1>6. AttemptOK'
  BY <1>1, <1>3, <1>4, <1>5 DEF IInv, AttemptOK
<1>7. Knows(q)'
  BY <1>2, <1>3, <1>4 DEF Knows, ExecuteOK, ReconcileOK, FinalOK, Opening, Running, Looking
<1>8. TypeOK'
  BY <1>1, <1>2, <1>5 DEF IInv, TypeOK
<1>9. OneOpen' /\ a \in Incomplete'
  BY <1>1, <1>3 DEF IInv, OneOpen
<1>10. QED
  BY <1>1, <1>2, <1>6, <1>7, <1>8, <1>9, GoesOn

\* A step of the world around the promoter: an invocation's request only ends
\* or moves on, and what reaches production for the first time was on its way.
LEMMA WorldStep ==
  ASSUME IInv, UNCHANGED <<journal, review, holder, proc>>, TypeOK',
         \A b \in Attempts : wrangler[b] = NotInvoked => wrangler'[b] = NotInvoked,
         \A b \in Attempts : ~wrangler[b].alive => ~wrangler'[b].alive,
         \A b \in Attempts :
           wrangler[b].request = "none" => wrangler'[b].request = "none",
         Landed \subseteq Landed',
         \A b \in Landed' \ Landed : wrangler[b].request # "none",
         \A i \in DOMAIN deployments :
           i \in DOMAIN deployments' /\ deployments'[i] = deployments[i]
  PROVE  IInv'
<1>1. /\ Incomplete' = Incomplete
      /\ \A b \in Attempts : /\ Started(b)' <=> Started(b)
                             /\ Terminal(b)' <=> Terminal(b)
                             /\ Final(b)' = Final(b)
  BY DEF Incomplete, Started, Terminal, Exists, Final
<1>2. AttemptOK'
  <2> SUFFICES ASSUME NEW b \in Attempts
               PROVE  /\ ~Started(b)' => wrangler'[b] = NotInvoked /\ b \notin Landed'
                      /\ (wrangler'[b].request # "none" /\ b \notin Landed') =>
                            b \in Incomplete'
                      /\ (Terminal(b)' /\ Final(b)' \in Deployed) =>
                            b \in Healthy \cap Landed'
    BY DEF AttemptOK
  <2>1. wrangler[b] = NotInvoked => wrangler[b].request = "none"
    BY DEF NotInvoked
  <2>2. QED
    BY <1>1, <2>1 DEF IInv, AttemptOK
<1>3. OneOpen'
  BY <1>1 DEF IInv, OneOpen
<1>4. ASSUME NEW p \in Procs
      PROVE  WorkOK(p)' /\ Knows(proc[p])'
  <2>1. CASE proc[p].pc = "idle"
    BY <2>1 DEF WorkOK, Knows, ExecuteOK, ReconcileOK, FinalOK, Opening, Running, Looking
  <2>2. CASE proc[p].pc # "idle"
    <3> PICK q \in Process : q = proc[p]
      BY DEF IInv, TypeOK
    <3>1. q.att \in Attempts /\ Knows(q) /\ q = proc'[p] /\ WorkOK(p)
      BY <2>2, OthersIdle DEF IInv, ProcOK
    <3> PICK a \in Attempts : a = q.att
      BY <3>1
    <3> PICK o \in Observation : o = q.seen
      BY DEF Process
    <3>2. WorkOK(p)'
      BY <1>1, <3>1 DEF WorkOK
    <3>3. wrangler[a] = NotInvoked => wrangler[a].request = "none"
      BY DEF NotInvoked
    <3>4. ExecuteOK(q)'
      BY <1>1, <3>1, <3>3 DEF Knows, ExecuteOK
    <3>5. ReconcileOK(q)'
      <4>1. o.dep \in DOMAIN deployments => (Candidate(a, o)' <=> Candidate(a, o))
        BY DEF Candidate
      <4>2. SameDeployment(a, o)' <=> SameDeployment(a, o)
        BY DEF SameDeployment
      <4>3. q.pc \in {"canary", "post"} => q.pc \in Looking
        BY DEF Looking
      <4>4. QED
        BY <1>1, <3>1, <4>1, <4>2, <4>3 DEF Knows, ReconcileOK
    <3>6. FinalOK(q)'
      BY <1>1, <3>1 DEF Knows, FinalOK
    <3>7. QED
      BY <3>1, <3>2, <3>4, <3>5, <3>6 DEF Knows, ExecuteOK, ReconcileOK, FinalOK,
        Started, Candidate, SameDeployment
  <2>3. QED
    BY <2>1, <2>2
<1>5. QED
  BY <1>2, <1>3, <1>4 DEF IInv, ProcOK

\* Nothing is deployed and no process of an invocation starts: the invocation
\* changes only at the attempt a, towards its end.
LEMMA InvocationStep ==
  ASSUME IInv, NEW a \in Attempts, NEW w \in Invocation,
         UNCHANGED <<journal, review, holder, proc, deployments, serving, kills>>,
         uploaded' \in SUBSET Attempts, wrangler' = [wrangler EXCEPT ![a] = w],
         wrangler[a].alive \/ wrangler[a].request # "none",
         w.alive => wrangler[a].alive,
         wrangler[a].request = "none" => w.request = "none"
  PROVE  IInv'
<1>1. /\ wrangler' \in [Attempts -> Invocation] /\ wrangler'[a] = w
      /\ \A b \in Attempts \ {a} : wrangler'[b] = wrangler[b]
      /\ wrangler[a] # NotInvoked
  BY DEF IInv, TypeOK, NotInvoked
<1>2. TypeOK'
  BY <1>1 DEF IInv, TypeOK
<1>3. Landed' = Landed
  BY DEF Landed
<1>4. QED
  BY <1>1, <1>2, <1>3, WorldStep

LEMMA RequestStep ==
  ASSUME IInv, NEW a \in Attempts, LandUpload(a) \/ Drop(a) \/ Exit(a)
  PROVE  IInv'
<1>0. wrangler \in [Attempts -> Invocation] /\ uploaded \in SUBSET Attempts
  BY DEF IInv, TypeOK
<1>1. CASE LandUpload(a)
  <2> DEFINE w == [wrangler[a] EXCEPT !.request =
                     IF wrangler[a].alive THEN "deploy" ELSE "none"]
  <2>1. w \in Invocation /\ (w.alive => wrangler[a].alive)
    BY <1>0 DEF Invocation
  <2>2. /\ wrangler' = [wrangler EXCEPT ![a] = w] /\ wrangler[a].request = "upload"
        /\ uploaded' \in SUBSET Attempts
        /\ UNCHANGED <<journal, review, holder, proc, deployments, serving, kills>>
    BY <1>0, <1>1 DEF LandUpload
  <2>3. QED
    BY <2>1, <2>2, InvocationStep
<1>2. CASE Drop(a)
  <2> DEFINE w == [wrangler[a] EXCEPT !.request = "none"]
  <2>1. w \in Invocation /\ (w.alive => wrangler[a].alive) /\ w.request = "none"
    BY <1>0 DEF Invocation
  <2>2. /\ wrangler' = [wrangler EXCEPT ![a] = w] /\ wrangler[a].request # "none"
        /\ uploaded' \in SUBSET Attempts
        /\ UNCHANGED <<journal, review, holder, proc, deployments, serving, kills>>
    BY <1>0, <1>2 DEF Drop
  <2>3. QED
    BY <2>1, <2>2, InvocationStep
<1>3. CASE Exit(a)
  <2> PICK ok \in BOOLEAN :
        wrangler' = [wrangler EXCEPT ![a].alive = FALSE, ![a].ok = ok]
    BY <1>3 DEF Exit
  <2> DEFINE w == [wrangler[a] EXCEPT !.alive = FALSE, !.ok = ok]
  <2>1. w \in Invocation /\ ~w.alive /\ w.request = wrangler[a].request
    BY <1>0 DEF Invocation
  <2>2. /\ wrangler' = [wrangler EXCEPT ![a] = w] /\ wrangler[a].alive
        /\ uploaded' \in SUBSET Attempts
        /\ UNCHANGED <<journal, review, holder, proc, deployments, serving, kills>>
    BY <1>0, <1>3 DEF Exit
  <2>3. QED
    BY <2>1, <2>2, InvocationStep
<1>4. QED
  BY <1>1, <1>2, <1>3

LEMMA LandDeployStep == ASSUME IInv, NEW a \in Attempts, LandDeploy(a) PROVE IInv'
<1>1. /\ Deploy(a) /\ wrangler[a].request = "deploy"
      /\ wrangler' = [wrangler EXCEPT ![a].request = "none"]
      /\ UNCHANGED <<journal, review, holder, proc, uploaded, serving, kills>>
      /\ wrangler \in [Attempts -> Invocation] /\ a \in Versions
  BY DEF LandDeploy, IInv, TypeOK, Versions
<1>2. /\ wrangler' \in [Attempts -> Invocation]
      /\ wrangler'[a].request = "none" /\ wrangler'[a].alive = wrangler[a].alive
      /\ \A b \in Attempts \ {a} : wrangler'[b] = wrangler[b]
      /\ wrangler[a] # NotInvoked
  BY <1>1 DEF Invocation, NotInvoked
<1>3. /\ deployments' \in Seq(Versions) /\ deployments' # <<>>
      /\ Landed' = Landed \cup {a}
      /\ \A i \in DOMAIN deployments :
           i \in DOMAIN deployments' /\ deployments'[i] = deployments[i]
  BY <1>1, DeployFacts DEF IInv
<1>4. TypeOK'
  BY <1>1, <1>2, <1>3 DEF IInv, TypeOK
<1>5. QED
  BY <1>1, <1>2, <1>3, <1>4, WorldStep

LEMMA ExternalDeployStep == ASSUME IInv, NEW v \in Versions, ExternalDeploy(v) PROVE IInv'
<1>1. /\ Deploy(v) /\ (v \in Others \/ v \in Landed)
      /\ UNCHANGED <<journal, review, holder, proc, wrangler, uploaded, serving, kills>>
  BY DEF ExternalDeploy
<1>2. /\ deployments' \in Seq(Versions) /\ deployments' # <<>>
      /\ Landed' = Landed \cup ({v} \cap Attempts)
      /\ \A i \in DOMAIN deployments :
           i \in DOMAIN deployments' /\ deployments'[i] = deployments[i]
  BY <1>1, DeployFacts DEF IInv
<1>3. Landed' = Landed
  BY <1>1, <1>2, PromoterAssumption DEF PromoterAssumption, Landed
<1>4. TypeOK'
  BY <1>1, <1>2 DEF IInv, TypeOK
<1>5. QED
  BY <1>1, <1>2, <1>3, <1>4, WorldStep

LEMMA PropagateStep == ASSUME IInv, Propagate PROVE IInv'
<1>1. /\ UNCHANGED <<journal, review, holder, proc, wrangler, uploaded, deployments, kills>>
      /\ serving' = Live
  BY DEF Propagate
<1>2. Live \in Versions
  BY DEF Live, IInv, TypeOK
<1>3. TypeOK' /\ Landed' = Landed
  BY <1>1, <1>2 DEF IInv, TypeOK, Landed
<1>4. QED
  BY <1>1, <1>3, WorldStep

-----------------------------------------------------------------------------
(* A process begins.                                                       *)

LEMMA ReviewStep == ASSUME IInv, NEW a \in Attempts, Review(a) PROVE IInv'
<1>1. /\ UNCHANGED <<journal, holder, proc, World, kills>> /\ holder = NoProc
      /\ review' = [review EXCEPT ![a] = Now]
  BY DEF Review
<1>2. TypeOK'
  BY <1>1, NowFacts DEF IInv, TypeOK, World
<1>3. journal' = journal /\ wrangler' = wrangler /\ deployments' = deployments
  BY <1>1 DEF World
<1>4. AttemptOK' /\ OneOpen'
  BY <1>3, AttemptFrame DEF IInv
<1>5. \A q \in Procs : proc'[q].pc = "idle"
  BY <1>1, OthersIdle DEF IInv
<1>6. ProcOK'
  BY <1>5 DEF ProcOK, WorkOK, Knows, ExecuteOK, ReconcileOK, FinalOK, Opening, Running, Looking
<1>7. QED
  BY <1>2, <1>4, <1>6 DEF IInv

\* The lock is taken, to execute or to reconcile the attempt a.
LEMMA Begins ==
  ASSUME IInv, NEW p \in Procs, NEW q \in Process, holder = NoProc, holder' = p,
         proc' = [proc EXCEPT ![p] = q], q.att \in Attempts,
         UNCHANGED <<journal, review, World, kills>>,
         \/ q.pc = "locked" /\ Incomplete = {}
         \/ q.pc = "observe" /\ q.att \in Incomplete
  PROVE  IInv'
<1>1. /\ proc \in [Procs -> Process] /\ proc' \in [Procs -> Process]
      /\ proc'[p] = q /\ \A r \in Procs \ {p} : proc'[r].pc = "idle"
  BY OthersIdle DEF IInv, TypeOK
<1>2. TypeOK'
  BY <1>1 DEF IInv, TypeOK, World
<1>3. journal' = journal /\ wrangler' = wrangler /\ deployments' = deployments
  BY DEF World
<1>4. AttemptOK' /\ OneOpen' /\ Incomplete' = Incomplete
  BY <1>3, AttemptFrame DEF IInv
<1>5. WorkOK(p)' /\ Knows(proc[p])'
  BY <1>1, <1>4 DEF WorkOK, Knows, ExecuteOK, ReconcileOK, FinalOK, Opening, Running, Looking
<1>6. \A r \in Procs \ {p} : WorkOK(r)' /\ Knows(proc[r])'
  BY <1>1 DEF WorkOK, Knows, ExecuteOK, ReconcileOK, FinalOK, Opening, Running, Looking
<1>7. QED
  BY <1>2, <1>4, <1>5, <1>6 DEF IInv, ProcOK

LEMMA ExecuteStep ==
  ASSUME IInv, NEW p \in Procs, NEW a \in Attempts, Execute(p, a) PROVE IInv'
<1> DEFINE q == [Idle EXCEPT !.pc = "locked", !.att = a]
<1>1. q \in Process /\ q.pc = "locked" /\ q.att = a
  BY IdleType DEF Process, Pcs
<1>2. QED
  BY <1>1, Begins DEF Execute, Blocking

LEMMA ReconcileStep ==
  ASSUME IInv, NEW p \in Procs, NEW a \in Attempts, NEW flag \in Flags, Reconcile(p, a, flag)
  PROVE  IInv'
<1> DEFINE q == [Idle EXCEPT !.pc = "observe", !.att = a, !.flag = flag]
<1>1. q \in Process /\ q.pc = "observe" /\ q.att = a
  BY IdleType DEF Process, Pcs
<1>2. a \in Incomplete
  BY DEF Reconcile
<1>3. QED
  BY <1>1, <1>2, Begins DEF Reconcile

-----------------------------------------------------------------------------
(* The invariant.                                                          *)

LEMMA InitIInv == ASSUME Init PROVE IInv
<1>1. TypeOK
  <2>1. PICK v \in Others : deployments = <<v>> /\ serving = v
    BY DEF Init
  <2>2. deployments \in Seq(Versions) /\ deployments # <<>> /\ serving \in Versions
    BY <2>1 DEF Versions
  <2>3. Idle \in Process
    BY IdleType
  <2>4. NotInvoked \in Invocation /\ <<>> \in Seq(Events)
    BY DEF NotInvoked, Invocation
  <2>5. QED
    BY <2>2, <2>3, <2>4 DEF Init, TypeOK
<1>2. \A a \in Attempts : ~Exists(a) /\ ~Started(a) /\ ~Terminal(a)
  BY DEF Init, Exists, Started, Terminal
<1>3. Incomplete = {} /\ OneOpen
  BY <1>2 DEF Incomplete, OneOpen
<1>4. Landed = {}
  BY PromoterAssumption DEF PromoterAssumption, Init, Landed
<1>5. AttemptOK
  BY <1>2, <1>4 DEF AttemptOK, Init, NotInvoked
<1>6. ProcOK
  <2>1. \A p \in Procs : proc[p].pc = "idle"
    BY DEF Init, Idle
  <2>2. QED
    BY <2>1, IdleKnows DEF ProcOK, WorkOK
<1>7. QED
  BY <1>1, <1>3, <1>5, <1>6 DEF IInv

LEMMA NextIInv == ASSUME IInv, [Next]_vars PROVE IInv'
<1>1. CASE UNCHANGED vars
  <2>1. UNCHANGED <<journal, review, holder, proc>> /\ wrangler' = wrangler
        /\ deployments' = deployments
    BY <1>1 DEF vars
  <2>2. TypeOK' /\ Landed' = Landed
    BY <1>1 DEF vars, IInv, TypeOK, Landed
  <2>3. QED
    BY <2>1, <2>2, WorldStep
<1>2. ASSUME NEW p \in Procs, Step(p) PROVE IInv'
  BY <1>2, CreateIntentStep, RecordInvocationStep, FenceStep, SpawnStep,
     RecordResultStep, AwaitVersionStep, CandidateCanaryStep, ObserveExpectedStep,
     CloseStep, ObserveFirstStep, BeforeQuietStep, QuietEndsStep, AfterQuietStep,
     ReconcileCanaryStep, PostObserveStep DEF Step
<1>3. ASSUME NEW a \in Attempts, Review(a) \/ Request(a) \/ Exit(a) PROVE IInv'
  BY <1>3, ReviewStep, RequestStep, LandDeployStep DEF Request
<1>4. ASSUME NEW p \in Procs, NEW a \in Attempts,
             Execute(p, a) \/ \E flag \in Flags : Reconcile(p, a, flag)
      PROVE  IInv'
  BY <1>4, ExecuteStep, ReconcileStep
<1>5. QED
  BY <1>1, <1>2, <1>3, <1>4, KillStep, ExternalDeployStep, PropagateStep DEF Next

LEMMA IInvHolds == Spec => []IInv
BY InitIInv, NextIInv, PTL DEF Spec

\* Every variable keeps its type: in particular every attempt that is closed is
\* closed with one of the outcomes the journal defines.
THEOREM TypeCorrect == Spec => []TypeOK
BY IInvHolds, PTL DEF IInv

\* Nothing is recorded as deployed unless its release passed the canary in
\* production, for any number of attempts, processes, deaths and deployments.
THEOREM DeployedIsQualified == Spec => []QualifiedWhenDeployed
<1>1. IInv => QualifiedWhenDeployed
  BY DEF IInv, AttemptOK, QualifiedWhenDeployed
<1>2. QED
  BY <1>1, IInvHolds, PTL

-----------------------------------------------------------------------------
(* The journal implements the ledger.                                      *)

\* The ledger's open attempt is the incomplete one.
LEMMA OpenFacts ==
  ASSUME OneOpen
  PROVE  /\ Incomplete = {} => OpenAttempt = NoAttempt
         /\ \A a \in Incomplete : OpenAttempt = a
BY DEF OpenAttempt, OneOpen

\* A step that closes nothing, opens nothing and brings nobody to production
\* leaves the ledger as it is.
LEMMA LedgerStutter ==
  ASSUME Incomplete' = Incomplete, Landed' = Landed,
         \A a \in Attempts : VerdictOf(a)' = VerdictOf(a)
  PROVE  UNCHANGED Ledger!ledgerVars
BY DEF Ledger!ledgerVars, OpenAttempt

LEMMA SameJournal ==
  ASSUME journal' = journal
  PROVE  Incomplete' = Incomplete /\ \A a \in Attempts : VerdictOf(a)' = VerdictOf(a)
BY DEF Incomplete, VerdictOf, Terminal, Exists, Final

\* An event in an open attempt that does not close it.
LEMMA LogStutters ==
  ASSUME IInv, NEW a \in Incomplete, NEW e \in Events \ Outcomes, Log(a, e),
         deployments' = deployments
  PROVE  UNCHANGED Ledger!ledgerVars
<1>1. a \in Attempts /\ ~Terminal(a)
  BY DEF Incomplete
<1>2. Incomplete' = Incomplete /\ Landed' = Landed
  <2>1. Incomplete' = Incomplete \cup {a}
    BY <1>1, LogFacts DEF IInv
  <2>2. Landed' = Landed
    BY DEF Landed
  <2>3. QED
    BY <2>1, <2>2
<1>3. ASSUME NEW b \in Attempts PROVE VerdictOf(b)' = VerdictOf(b)
  <2>1. CASE b = a
    BY <1>1, <2>1, LogFacts DEF IInv, VerdictOf
  <2>2. CASE b # a
    BY <1>1, <2>2, LogFacts DEF IInv, VerdictOf
  <2>3. QED
    BY <2>1, <2>2
<1>4. QED
  BY <1>2, <1>3, LedgerStutter

LEMMA CreateIntentLedger ==
  ASSUME IInv, IInv', NEW p \in Procs, CreateIntent(p)
  PROVE  [Ledger!LedgerNext]_Ledger!ledgerVars
<1>1. /\ proc[p].pc = "locked" /\ Incomplete = {} /\ proc[p].att \in Attempts
      /\ deployments' = deployments
  BY OthersIdle DEF CreateIntent, At, IInv, World
<1> PICK a \in Attempts : a = proc[p].att
  BY <1>1
<1>2. Landed' = Landed
  BY <1>1 DEF Landed
<1>3. CASE Exists(a)
  <2>1. journal' = journal
    BY <1>3 DEF CreateIntent
  <2>2. QED
    BY <1>2, <2>1, SameJournal, LedgerStutter
<1>4. CASE ~Exists(a)
  <2>1. Log(a, "intent") /\ "intent" \in Events \ Outcomes
    BY <1>4 DEF CreateIntent, Events, Outcomes, Deployed, Unchanged, Superseded
  <2>2. Incomplete' = {a}
    BY <1>1, <2>1, LogFacts DEF IInv
  <2>3. OpenAttempt = NoAttempt /\ OpenAttempt' = a
    <3>1. OpenAttempt = NoAttempt
      BY <1>1 DEF OpenAttempt
    <3>2. OpenAttempt' = a
      BY <2>2 DEF OpenAttempt
    <3>3. QED
      BY <3>1, <3>2
  <2>4. VerdictOf(a) = "none"
    BY <1>4 DEF VerdictOf, Terminal
  <2>5. ASSUME NEW b \in Attempts PROVE VerdictOf(b)' = VerdictOf(b)
    <3>1. CASE b = a
      BY <2>1, <2>4, <3>1, LogFacts DEF IInv, VerdictOf
    <3>2. CASE b # a
      BY <2>1, <3>2, LogFacts DEF IInv, VerdictOf
    <3>3. QED
      BY <3>1, <3>2
  <2>6. Ledger!Open(a)
    BY <1>2, <2>3, <2>4, <2>5 DEF Ledger!Open
  <2>7. QED
    BY <2>6 DEF Ledger!LedgerNext
<1>5. QED
  BY <1>3, <1>4

LEMMA CloseLedger ==
  ASSUME IInv, NEW p \in Procs, Close(p)
  PROVE  [Ledger!LedgerNext]_Ledger!ledgerVars
<1>1. /\ proc[p].pc = "final" /\ FinalOK(proc[p])
      /\ proc[p].att \in Incomplete /\ proc[p].att \in Attempts
      /\ Log(proc[p].att, proc[p].outcome) /\ deployments' = deployments
  BY OthersIdle DEF Close, At, IInv, ProcOK, Knows, World
<1> PICK a \in Attempts : a = proc[p].att
  BY <1>1
<1> PICK e \in Outcomes : e = proc[p].outcome
  BY <1>1 DEF FinalOK
<1> DEFINE v == CASE e \in Deployed -> "changed"
                  [] e \notin Deployed /\ e \in Unchanged -> "unchanged"
                  [] OTHER -> "superseded"
<1>2. /\ e \in Deployed => a \in Landed
      /\ e \in Unchanged => a \notin Landed
  BY <1>1 DEF FinalOK
<1>3. e \in Events /\ Log(a, e) /\ a \in Incomplete
  BY <1>1 DEF Events
<1>4. Landed' = Landed
  BY <1>1 DEF Landed
<1>5. OpenAttempt = a
  BY <1>3, OpenFacts DEF IInv
<1>6. OpenAttempt' = NoAttempt
  <2>1. Incomplete' = {}
    BY <1>3, LogFacts DEF IInv, OneOpen
  <2>2. QED
    BY <2>1 DEF OpenAttempt
<1>7. v \in Ledger!Verdicts
  BY DEF Ledger!Verdicts
<1>8. VerdictOf(a)' = v
  <2>1. ~(e \in Deployed /\ e \in Unchanged)
    BY DEF Deployed, Unchanged
  <2>2. Terminal(a)' /\ Final(a)' = e
    BY <1>3, LogFacts DEF IInv
  <2>3. QED
    BY <2>1, <2>2 DEF VerdictOf
<1>9. \A b \in Attempts \ {a} : VerdictOf(b)' = VerdictOf(b)
  BY <1>3, LogFacts DEF IInv, VerdictOf
<1>10. Ledger!Close(a, v)
  <2>1. [b \in Attempts |-> VerdictOf(b)]' = [[b \in Attempts |-> VerdictOf(b)] EXCEPT ![a] = v]
    BY <1>8, <1>9
  <2>2. (v = "changed" => a \in Landed) /\ (v = "unchanged" => a \notin Landed)
    BY <1>2
  <2>3. QED
    BY <1>4, <1>5, <1>6, <2>1, <2>2 DEF Ledger!Close
<1>11. QED
  BY <1>7, <1>10 DEF Ledger!LedgerNext

\* The attempt's first deployment happens while it is open.
LEMMA LandDeployLedger ==
  ASSUME IInv, NEW a \in Attempts, LandDeploy(a)
  PROVE  [Ledger!LedgerNext]_Ledger!ledgerVars
<1>1. /\ journal' = journal /\ wrangler[a].request = "deploy" /\ Deploy(a)
  BY DEF LandDeploy
<1>2. Landed' = Landed \cup {a}
  BY <1>1, DeployFacts DEF IInv, Versions
<1>3. /\ Incomplete' = Incomplete /\ \A b \in Attempts : VerdictOf(b)' = VerdictOf(b)
  BY <1>1, SameJournal
<1>4. CASE a \in Landed
  BY <1>2, <1>3, <1>4, LedgerStutter
<1>5. CASE a \notin Landed
  <2>1. OpenAttempt = a /\ OpenAttempt' = OpenAttempt
    <3>1. a \in Incomplete
      BY <1>1, <1>5 DEF IInv, AttemptOK
    <3>2. QED
      BY <1>3, <3>1, OpenFacts DEF IInv, OpenAttempt
  <2>2. Ledger!Land(a)
    BY <1>2, <1>3, <1>5, <2>1 DEF Ledger!Land
  <2>3. QED
    BY <2>2 DEF Ledger!LedgerNext
<1>6. QED
  BY <1>4, <1>5

LEMMA NextLedger ==
  ASSUME IInv, IInv', [Next]_vars
  PROVE  [Ledger!LedgerNext]_Ledger!ledgerVars
<1>1. ASSUME journal' = journal, Landed' = Landed
      PROVE  UNCHANGED Ledger!ledgerVars
  BY <1>1, SameJournal, LedgerStutter
<1>2. ASSUME journal' = journal, deployments' = deployments
      PROVE  UNCHANGED Ledger!ledgerVars
  BY <1>1, <1>2 DEF Landed
<1>3. ASSUME NEW p \in Procs, RecordInvocation(p)
      PROVE  UNCHANGED Ledger!ledgerVars
  <2>1. /\ proc[p].att \in Incomplete /\ deployments' = deployments
        /\ Log(proc[p].att, "deploy_invocation")
    BY <1>3, OthersIdle DEF RecordInvocation, At, IInv, World
  <2>2. "deploy_invocation" \in Events \ Outcomes
    BY DEF Events, Outcomes, Deployed, Unchanged, Superseded
  <2>3. QED
    BY <2>1, <2>2, LogStutters
<1>4. ASSUME NEW p \in Procs, RecordResult(p)
      PROVE  UNCHANGED Ledger!ledgerVars
  <2>1. /\ proc[p].att \in Incomplete /\ deployments' = deployments
        /\ Log(proc[p].att, "deploy_result")
    BY <1>4, OthersIdle DEF RecordResult, At, IInv, World
  <2>2. "deploy_result" \in Events \ Outcomes
    BY DEF Events, Outcomes, Deployed, Unchanged, Superseded
  <2>3. QED
    BY <2>1, <2>2, LogStutters
<1>5. ASSUME NEW p \in Procs, Step(p)
      PROVE  [Ledger!LedgerNext]_Ledger!ledgerVars
  <2>1. CASE CreateIntent(p)
    BY <2>1, CreateIntentLedger
  <2>2. CASE Close(p)
    BY <2>2, CloseLedger
  <2>3. CASE RecordInvocation(p) \/ RecordResult(p)
    BY <2>3, <1>3, <1>4
  <2>4. CASE \/ Fence(p) \/ Spawn(p) \/ AwaitVersion(p) \/ CandidateCanary(p)
             \/ ObserveExpected(p) \/ ObserveFirst(p) \/ BeforeQuiet(p) \/ QuietEnds(p)
             \/ AfterQuiet(p) \/ ReconcileCanary(p) \/ PostObserve(p)
    <3>1. journal' = journal /\ deployments' = deployments
      BY <2>4 DEF Fence, Spawn, AwaitVersion, CandidateCanary, ObserveExpected,
        ObserveFirst, BeforeQuiet, QuietEnds, AfterQuiet, ReconcileCanary, PostObserve, World
    <3>2. QED
      BY <1>2, <3>1
  <2>5. QED
    BY <1>5, <2>1, <2>2, <2>3, <2>4 DEF Step
<1>6. ASSUME NEW p \in Procs, Kill(p)
      PROVE  UNCHANGED Ledger!ledgerVars
  BY <1>2, <1>6 DEF Kill, World
<1>7. ASSUME NEW a \in Attempts, Review(a) \/ LandUpload(a) \/ Drop(a) \/ Exit(a)
      PROVE  UNCHANGED Ledger!ledgerVars
  <2>1. journal' = journal /\ deployments' = deployments
    BY <1>7 DEF Review, LandUpload, Drop, Exit, World
  <2>2. QED
    BY <1>2, <2>1
<1>8. ASSUME NEW p \in Procs, NEW a \in Attempts,
             Execute(p, a) \/ \E flag \in Flags : Reconcile(p, a, flag)
      PROVE  UNCHANGED Ledger!ledgerVars
  BY <1>2, <1>8 DEF Execute, Reconcile, World
<1>9. ASSUME NEW v \in Versions, ExternalDeploy(v)
      PROVE  UNCHANGED Ledger!ledgerVars
  <2>1. Landed' = Landed
    BY <1>9, DeployFacts, PromoterAssumption
      DEF ExternalDeploy, IInv, PromoterAssumption, Landed
  <2>2. QED
    BY <1>1, <1>9, <2>1 DEF ExternalDeploy
<1>10. CASE Propagate \/ UNCHANGED vars
  BY <1>2, <1>10 DEF Propagate, vars
<1>11. QED
  BY <1>5, <1>6, <1>7, <1>8, <1>9, <1>10, LandDeployLedger DEF Next, Request

LEMMA InitLedger == ASSUME Init PROVE Ledger!LedgerInit
<1>1. \A a \in Attempts : ~Exists(a) /\ ~Terminal(a)
  BY DEF Init, Exists, Terminal
<1>2. OpenAttempt = NoAttempt
  BY <1>1 DEF OpenAttempt, Incomplete
<1>3. \A a \in Attempts : VerdictOf(a) = "none"
  BY <1>1 DEF VerdictOf
<1>4. Landed = {}
  BY PromoterAssumption DEF PromoterAssumption, Init, Landed
<1>5. QED
  BY <1>2, <1>3, <1>4 DEF Ledger!LedgerInit

\* The promoter implements the ledger: one attempt is open at a time, its
\* version reaches production once and only while it is open, and what it is
\* closed with is what production saw of it, whatever dies, lives on, or is
\* deployed by others.
THEOREM ImplementsLedger == Spec => LedgerRefinement
BY InitLedger, NextLedger, IInvHolds, PTL
   DEF Spec, LedgerRefinement, Ledger!LedgerSpec
=============================================================================
