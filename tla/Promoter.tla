------------------------------ MODULE Promoter ------------------------------
(***************************************************************************)
(* Promotion of a frozen Brain release to production: the state machine of *)
(* site/ops/brain_promote_release.py over the journal of                   *)
(* brain_deploy_journal.py, against Cloudflare deployments that other      *)
(* people also change, with promoter processes that may die at any step    *)
(* and a Wrangler process that may outlive them.                           *)
(*                                                                         *)
(* Abstractions.  A deployment id is its position in the history of        *)
(* deployments; an attempt's Worker version is the attempt itself (tag and *)
(* message are unique to it), other versions are members of Others.  A     *)
(* selector is what the edge serves for a version: an attempt's is its own *)
(* (the staged bytes carry its audit time).  A status/selector/status      *)
(* sandwich is one read: deployment ids are not reused, so equal ids mean  *)
(* nothing was deployed in between; a sandwich that fails ends the         *)
(* process.  The journal keeps the events control depends on (intent,      *)
(* deploy_invocation, deploy_result, final_state with its outcome), each   *)
(* written durably in one step: a crash inside an append is a crash before *)
(* or after it.  Bytes on disk, toolchain and git identities are verified  *)
(* by the code at every step and taken here as unchanged; a failed         *)
(* verification, a failed command or an exception is Kill.                 *)
(***************************************************************************)
EXTENDS Naturals, Sequences, FiniteSets

CONSTANTS
  Attempts,        \* attempt ids: one per reviewed dry run
  NoAttempt,
  Others,          \* Worker versions deployed by hand
  Selectors,       \* selectors those versions serve
  SelectorOf,      \* which one: a function on Others
  Absent,          \* the selector of a Worker without one (HTTP 404)
  Healthy,         \* the attempts whose release passes the content canary
  Procs,           \* promoter processes
  NoProc,          \* "nobody holds the promotion lock"
  NoReview,        \* "no dry run of this attempt yet"
  MaxDeployments,  \* bound on the history of deployments
  MaxKills         \* bound on processes ending before their work is done

ASSUME PromoterAssumption ==
  /\ SelectorOf \in [Others -> Selectors]
  /\ Absent \in Selectors
  /\ Attempts \cap Others = {} /\ Attempts \cap Selectors = {}
  /\ NoAttempt \notin Attempts /\ NoProc \notin Procs
  /\ Healthy \subseteq Attempts
  /\ NoReview \notin [dep : Nat, sel : Selectors \cup Attempts]
  /\ MaxDeployments \in Nat /\ MaxKills \in Nat

VARIABLES
  journal,      \* per attempt, its events
  review,       \* per attempt, the production state its dry run recorded
  holder,       \* the process that holds PromotionLock
  proc,         \* the processes
  wrangler,     \* per attempt, its one Wrangler invocation
  uploaded,     \* attempts whose Worker version is in the version history
  deployments,  \* the versions deployed, oldest first; the last one is live
  serving,      \* the version whose assets the edge serves
  kills         \* processes that ended early so far

vars == <<journal, review, holder, proc, wrangler, uploaded, deployments,
          serving, kills>>

Versions == Attempts \cup Others
Sel(v) == IF v \in Attempts THEN v ELSE SelectorOf[v]

Deployed   == {"deployed", "deployed_after_uncertain_command", "deployed_reconciled"}
Unchanged  == {"predeploy_race_aborted", "no_production_change",
               "aborted_before_deploy_reconciled"}
Superseded == {"rolled_back_reconciled", "rolled_back_unqualified_first_deploy",
               "externally_superseded"}
Outcomes == Deployed \cup Unchanged \cup Superseded
Events == {"intent", "deploy_invocation", "deploy_result"} \cup Outcomes

Exists(a)   == journal[a] # <<>>
Terminal(a) == Exists(a) /\ journal[a][Len(journal[a])] \in Outcomes
Incomplete  == {a \in Attempts : Exists(a) /\ ~Terminal(a)}
Started(a)  == \E i \in DOMAIN journal[a] : journal[a][i] = "deploy_invocation"

Live == deployments[Len(deployments)]
Landed == {a \in Attempts : \E i \in DOMAIN deployments : deployments[i] = a}
Observation == [dep : Nat, sel : Selectors \cup Attempts]
Now == [dep |-> Len(deployments), sel |-> Sel(serving)]

\* Wrangler's list of the versions and deployments that carry the attempt's tag.
History(a) == [version |-> a \in uploaded,
               deps |-> {i \in DOMAIN deployments : deployments[i] = a}]

Flags == {"none", "noChange", "supersede"}
Pcs == {"idle", "locked", "intent", "invoked", "fenced", "clear", "deploying",
        "result", "candidate", "canaried", "observe", "before", "quiet",
        "after", "canary", "post", "final"}
Process == [pc : Pcs, att : Attempts \cup {NoAttempt}, flag : Flags,
            seen : Observation, outcome : Outcomes \cup {"none"},
            hist : [version : BOOLEAN, deps : SUBSET Nat]]
Idle == [pc |-> "idle", att |-> NoAttempt, flag |-> "none",
         seen |-> [dep |-> 0, sel |-> Absent], outcome |-> "none",
         hist |-> [version |-> FALSE, deps |-> {}]]

\* A Wrangler invocation: whether its local process group lives, the remote
\* request under way, and whether it returned 0.
Invocation == [alive : BOOLEAN, request : {"none", "upload", "deploy"},
               ok : BOOLEAN]
NotInvoked == [alive |-> FALSE, request |-> "none", ok |-> FALSE]

TypeOK ==
  /\ journal \in [Attempts -> Seq(Events)]
  /\ review \in [Attempts -> Observation \cup {NoReview}]
  /\ holder \in Procs \cup {NoProc}
  /\ proc \in [Procs -> Process]
  /\ wrangler \in [Attempts -> Invocation]
  /\ uploaded \in SUBSET Attempts
  /\ deployments \in Seq(Versions) /\ deployments # <<>>
  /\ serving \in Versions
  /\ kills \in Nat

Init ==
  /\ journal = [a \in Attempts |-> <<>>]
  /\ review = [a \in Attempts |-> NoReview]
  /\ holder = NoProc
  /\ proc = [p \in Procs |-> Idle]
  /\ wrangler = [a \in Attempts |-> NotInvoked]
  /\ uploaded = {}
  /\ \E v \in Others : deployments = <<v>> /\ serving = v
  /\ kills = 0

-----------------------------------------------------------------------------
(* Steps of a process.                                                     *)

At(p, pc) == proc[p].pc = pc
Goto(p, pc) == proc' = [proc EXCEPT ![p].pc = pc]

\* The process ends, and with it its flock.
Release(p) == proc' = [proc EXCEPT ![p] = Idle] /\ holder' = NoProc

\* A step that goes on to pc when what it checks holds; otherwise the process
\* raises and ends, and the attempt stays open.
Proceed(p, ok, pc) ==
  \/ ok /\ Goto(p, pc) /\ UNCHANGED holder
  \/ ~ok /\ Release(p)

Log(a, e) == journal' = [journal EXCEPT ![a] = Append(@, e)]

World == <<wrangler, uploaded, deployments, serving>>

\* list_incomplete_attempts, read with the lock held.
Blocking == Incomplete

\* A dry run records the state of production the attempt will start from.
Review(a) ==
  /\ holder = NoProc /\ Blocking = {} /\ review[a] = NoReview
  /\ review' = [review EXCEPT ![a] = Now]
  /\ UNCHANGED <<journal, holder, proc, World, kills>>

\* --execute: nobody else holds the lock and no attempt is incomplete.
Execute(p, a) ==
  /\ holder = NoProc /\ At(p, "idle")
  /\ review[a] # NoReview /\ Blocking = {}
  /\ holder' = p
  /\ proc' = [proc EXCEPT ![p] = [Idle EXCEPT !.pc = "locked", !.att = a]]
  /\ UNCHANGED <<journal, review, World, kills>>

\* The intent is the attempt's first event; an attempt that exists is refused.
CreateIntent(p) ==
  /\ At(p, "locked")
  /\ Proceed(p, ~Exists(proc[p].att), "intent")
  /\ IF Exists(proc[p].att) THEN UNCHANGED journal ELSE Log(proc[p].att, "intent")
  /\ UNCHANGED <<review, World, kills>>

\* The invocation is journalled before anything can change production.
RecordInvocation(p) ==
  /\ At(p, "intent") /\ Goto(p, "invoked")
  /\ Log(proc[p].att, "deploy_invocation")
  /\ UNCHANGED <<review, holder, World, kills>>

\* The last two looks at production before Wrangler runs: it must be as
\* reviewed, or the attempt is closed without having touched it.
Fence(p) ==
  /\ At(p, "invoked") \/ At(p, "fenced")
  /\ \/ /\ Now = review[proc[p].att]
        /\ Goto(p, IF At(p, "invoked") THEN "fenced" ELSE "clear")
     \/ proc' = [proc EXCEPT ![p].pc = "final",
                              ![p].outcome = "predeploy_race_aborted"]
  /\ UNCHANGED <<journal, review, holder, World, kills>>

Spawn(p) ==
  /\ At(p, "clear") /\ Goto(p, "deploying")
  /\ wrangler' = [wrangler EXCEPT ![proc[p].att] =
                    [alive |-> TRUE, request |-> "upload", ok |-> FALSE]]
  /\ UNCHANGED <<journal, review, holder, uploaded, deployments, serving, kills>>

\* Wrangler returned, or timed out and its process group was killed.
RecordResult(p) ==
  /\ At(p, "deploying") /\ ~wrangler[proc[p].att].alive
  /\ Goto(p, "result") /\ Log(proc[p].att, "deploy_result")
  /\ UNCHANGED <<review, holder, World, kills>>

\* Polls until the live version carries the attempt's tag, or gives up.
AwaitVersion(p) ==
  /\ At(p, "result")
  /\ Proceed(p, Live = proc[p].att, "candidate")
  /\ UNCHANGED <<journal, review, World, kills>>

\* The content canary: the edge serves this selector and its release is sound.
Passes(sel) == Sel(serving) = sel /\ (sel \in Attempts => sel \in Healthy)

\* Mutant: the release is adopted on its identity alone.
ServesCandidate(a) == Sel(serving) = a

CandidatePasses(a) == Passes(a)

CandidateCanary(p) ==
  /\ At(p, "candidate")
  /\ Proceed(p, CandidatePasses(proc[p].att), "canaried")
  /\ UNCHANGED <<journal, review, World, kills>>

\* The final observation: the attempt's version and its selector are live.
ObserveExpected(p) ==
  LET a == proc[p].att
      live == Live = a /\ Sel(serving) = a
  IN /\ At(p, "canaried")
     /\ \/ /\ live /\ UNCHANGED holder
           /\ proc' = [proc EXCEPT ![p].pc = "final", ![p].outcome =
                 IF wrangler[a].ok THEN "deployed"
                                   ELSE "deployed_after_uncertain_command"]
        \/ ~live /\ Release(p)
     /\ UNCHANGED <<journal, review, World, kills>>

\* final_state closes the attempt.
Close(p) ==
  /\ At(p, "final") /\ Log(proc[p].att, proc[p].outcome) /\ Release(p)
  /\ UNCHANGED <<review, World, kills>>

-----------------------------------------------------------------------------
(* --reconcile-attempt: closes the one incomplete attempt, reading only.   *)

Reconcile(p, a, flag) ==
  /\ holder = NoProc /\ At(p, "idle") /\ Incomplete = {a}
  /\ holder' = p
  /\ proc' = [proc EXCEPT ![p] = [Idle EXCEPT !.pc = "observe", !.att = a,
                                              !.flag = flag]]
  /\ UNCHANGED <<journal, review, World, kills>>

\* What the first observation o of attempt a means.  The attempt's version with
\* other selector bytes is an error; the prior state is the reviewed version
\* and selector, under the reviewed deployment id or (after a rollback) another.
Candidate(a, o) == deployments[o.dep] = a /\ o.sel = a
Prior(a, o) == /\ deployments[o.dep] = deployments[review[a].dep]
               /\ o.sel = review[a].sel
SameDeployment(a, o) == o.dep = review[a].dep

\* The operator's approvals the outcome needs.
Approved(a, o, flag) ==
  /\ deployments[o.dep] = a => Candidate(a, o)
  /\ (~Candidate(a, o) /\ ~Prior(a, o)) => flag = "supersede"
  /\ (~Candidate(a, o) /\ Prior(a, o) /\ SameDeployment(a, o) /\ Started(a)) =>
       flag = "noChange"

ObserveFirst(p) ==
  LET a == proc[p].att
  IN /\ At(p, "observe")
     /\ \/ /\ Approved(a, Now, proc[p].flag) /\ UNCHANGED holder
           /\ proc' = [proc EXCEPT ![p].seen = Now, ![p].pc =
                         IF Candidate(a, Now) THEN "canary" ELSE "before"]
        \/ ~Approved(a, Now, proc[p].flag) /\ Release(p)
     /\ UNCHANGED <<journal, review, World, kills>>

\* Mutant: the process table is not consulted.
ProcessesIgnored(a) == FALSE

\* ps: a Wrangler of this attempt still runs on the host.
LocalProcesses(a) == wrangler[a].alive

\* Before the quiet interval of an attempt that may have invoked Wrangler: no
\* process of it may be left, and its history is recorded.
BeforeQuiet(p) ==
  LET a == proc[p].att
  IN /\ At(p, "before")
     /\ \/ /\ Started(a) => ~LocalProcesses(a)
           /\ proc' = [proc EXCEPT ![p].pc = "quiet", ![p].hist = History(a)]
           /\ UNCHANGED holder
        \/ Started(a) /\ LocalProcesses(a) /\ Release(p)
     /\ UNCHANGED <<journal, review, World, kills>>

\* The interval is at least the timeout the invocation was recorded with: by
\* its end a request Wrangler had sent before it died has landed or is lost.
Settled(a) ==
  (Started(a) /\ ~wrangler[a].alive) => wrangler[a].request = "none"

QuietEnds(p) ==
  /\ At(p, "quiet") /\ Settled(proc[p].att)
  /\ Proceed(p, Now = proc[p].seen, "after")
  /\ UNCHANGED <<journal, review, World, kills>>

\* Mutant: an attempt that ever reached production is never quiet again.
QuietMeansUntouched(a, o, hist) ==
  Started(a) => ~LocalProcesses(a) /\ History(a) = hist /\ hist.deps = {}

\* After it: still no process, the same history, and for a state that is to be
\* closed as never changed, no deployment of the attempt in it.
StillQuiet(a, o, hist) ==
  Started(a) =>
    /\ ~LocalProcesses(a) /\ History(a) = hist
    /\ (Prior(a, o) /\ SameDeployment(a, o)) => hist.deps = {}

AfterQuiet(p) ==
  LET a == proc[p].att
      o == proc[p].seen
      quiet == StillQuiet(a, o, proc[p].hist)
  IN /\ At(p, "after")
     /\ \/ /\ quiet /\ UNCHANGED holder
           /\ \/ /\ Prior(a, o)
                 /\ Goto(p, IF o.sel = Absent THEN "post" ELSE "canary")
              \/ /\ ~Prior(a, o)
                 /\ proc' = [proc EXCEPT ![p].pc = "final",
                               ![p].outcome = "externally_superseded"]
        \/ ~quiet /\ Release(p)
     /\ UNCHANGED <<journal, review, World, kills>>

\* The canary of the state that is about to be closed on: candidate or prior.
ReconcileCanary(p) ==
  LET o == proc[p].seen
  IN /\ At(p, "canary")
     /\ Proceed(p, IF Candidate(proc[p].att, o) THEN CandidatePasses(proc[p].att)
                                                ELSE Passes(o.sel), "post")
     /\ UNCHANGED <<journal, review, World, kills>>

Verdict(a, o) ==
  CASE Candidate(a, o)                    -> "deployed_reconciled"
    [] ~Candidate(a, o) /\ SameDeployment(a, o) ->
         IF Started(a) THEN "no_production_change"
                       ELSE "aborted_before_deploy_reconciled"
    [] OTHER -> IF o.sel = Absent THEN "rolled_back_unqualified_first_deploy"
                                  ELSE "rolled_back_reconciled"

\* Production is looked at once more before the attempt is closed.
PostObserve(p) ==
  LET a == proc[p].att
      o == proc[p].seen
  IN /\ At(p, "post")
     /\ \/ /\ Now = o /\ UNCHANGED holder
           /\ proc' = [proc EXCEPT ![p].pc = "final", ![p].outcome = Verdict(a, o)]
        \/ Now # o /\ Release(p)
     /\ UNCHANGED <<journal, review, World, kills>>

\* A process ends early: killed, interrupted, or a command or check failed.
\* Killed outright it leaves Wrangler running in its own session.
Kill(p) ==
  /\ ~At(p, "idle") /\ kills < MaxKills
  /\ Release(p) /\ kills' = kills + 1
  /\ UNCHANGED <<journal, review, World>>

-----------------------------------------------------------------------------
(* Production: Wrangler, Cloudflare and whoever else deploys.  External to *)
(* the repository, except for what the promoter takes for granted of it.   *)

Deploy(v) ==
  /\ Len(deployments) < MaxDeployments
  /\ deployments' = Append(deployments, v)

\* The upload lands: a live Wrangler goes on to deploy the version.
LandUpload(a) ==
  /\ wrangler[a].request = "upload"
  /\ uploaded' = uploaded \cup {a}
  /\ wrangler' = [wrangler EXCEPT ![a].request =
                    IF wrangler[a].alive THEN "deploy" ELSE "none"]
  /\ UNCHANGED <<journal, review, holder, proc, deployments, serving, kills>>

LandDeploy(a) ==
  /\ wrangler[a].request = "deploy" /\ Deploy(a)
  /\ wrangler' = [wrangler EXCEPT ![a].request = "none"]
  /\ UNCHANGED <<journal, review, holder, proc, uploaded, serving, kills>>

Drop(a) ==
  /\ wrangler[a].request # "none"
  /\ wrangler' = [wrangler EXCEPT ![a].request = "none"]
  /\ UNCHANGED <<journal, review, holder, proc, uploaded, deployments, serving, kills>>

\* Wrangler ends by itself or with its process group; what it had sent may
\* still land.  It returns 0 only after its deployment landed.
Exit(a) ==
  /\ wrangler[a].alive
  /\ \E ok \in BOOLEAN :
       /\ ok => a \in Landed /\ wrangler[a].request = "none"
       /\ wrangler' = [wrangler EXCEPT ![a].alive = FALSE, ![a].ok = ok]
  /\ UNCHANGED <<journal, review, holder, proc, uploaded, deployments, serving, kills>>

\* Someone deploys another Worker, or rolls back to a version that was live.
ExternalDeploy(v) ==
  /\ v \in Others \/ v \in Landed
  /\ Deploy(v)
  /\ UNCHANGED <<journal, review, holder, proc, wrangler, uploaded, serving, kills>>

\* The edge catches up with the live deployment.
Propagate ==
  /\ serving # Live /\ serving' = Live
  /\ UNCHANGED <<journal, review, holder, proc, wrangler, uploaded, deployments, kills>>

-----------------------------------------------------------------------------
Step(p) ==
  \/ CreateIntent(p) \/ RecordInvocation(p) \/ Fence(p) \/ Spawn(p)
  \/ RecordResult(p) \/ AwaitVersion(p) \/ CandidateCanary(p)
  \/ ObserveExpected(p) \/ Close(p)
  \/ ObserveFirst(p) \/ BeforeQuiet(p) \/ QuietEnds(p) \/ AfterQuiet(p)
  \/ ReconcileCanary(p) \/ PostObserve(p)

Request(a) == LandUpload(a) \/ LandDeploy(a) \/ Drop(a)

Next ==
  \/ \E a \in Attempts : Review(a) \/ Request(a) \/ Exit(a)
  \/ \E p \in Procs, a \in Attempts :
       Execute(p, a) \/ \E flag \in Flags : Reconcile(p, a, flag)
  \/ \E p \in Procs : Step(p) \/ Kill(p)
  \/ \E v \in Versions : ExternalDeploy(v)
  \/ Propagate

Spec == Init /\ [][Next]_vars

\* Started work goes on, requests settle, the edge converges, and the runbook
\* has the operator rerun reconciliation, with each approval, until it closes.
Fairness ==
  /\ \A p \in Procs : WF_vars(Step(p))
  /\ \A a \in Attempts : WF_vars(Request(a)) /\ WF_vars(Exit(a))
  /\ \A a \in Attempts, flag \in Flags :
       SF_vars(\E p \in Procs : Reconcile(p, a, flag))
  /\ WF_vars(Propagate)

FairSpec == Spec /\ Fairness

-----------------------------------------------------------------------------
(* What must hold.                                                         *)

Final(a) == journal[a][Len(journal[a])]

\* The ledger's view: the open attempt, and what each was closed with.
OpenAttempt == IF Incomplete = {} THEN NoAttempt ELSE CHOOSE a \in Incomplete : TRUE
VerdictOf(a) ==
  CASE ~Terminal(a)                          -> "none"
    [] Terminal(a) /\ Final(a) \in Deployed  -> "changed"
    [] Terminal(a) /\ Final(a) \in Unchanged -> "unchanged"
    [] OTHER                                 -> "superseded"

\* The journal implements the ledger: whatever dies or races, one attempt is
\* open at a time, its version becomes production once and only while the
\* attempt is open, and what it is closed with is what production saw of it.
Ledger == INSTANCE DeployLedger WITH
  open    <- OpenAttempt,
  verdict <- [a \in Attempts |-> VerdictOf(a)],
  landed  <- Landed

LedgerRefinement == Ledger!LedgerSpec

\* Nothing is recorded as deployed unless its release passed the canary in
\* production, however its deployment was found out.
QualifiedWhenDeployed ==
  \A a \in Attempts : (Terminal(a) /\ Final(a) \in Deployed) => a \in Healthy \cap Landed

\* No crash, lost answer or foreign deployment leaves promotion blocked: an open
\* attempt is closed, unless production is left on a release whose canary fails.
AttemptsClose ==
  \A a \in Attempts :
    (a \in Incomplete) ~> (a \notin Incomplete \/ Live \in Attempts \ Healthy)
=============================================================================
