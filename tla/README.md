# WikiLean: a verification project

WikiLean annotates Wikipedia's mathematics articles with the Lean statements that
formalise them. Two planes make it up:

- the **collaboration plane**, mutable: a Cloudflare Worker (`wiki/src/*.ts`) over a
  D1 database and KV caches, where people, the annotation pipeline and people's agents
  write;
- the **Brain plane**, immutable: a reducer (`brain/`) that builds frozen releases of a
  knowledge graph, and the tooling (`site/ops/`) that promotes one release at a time to
  production.

Around them: the annotation pipeline on an operator's machine (`site/moderate.py`,
`site/update_from_upstream.py`, `site/batch_annotate.py`, `site/resolve_proposals.py`),
the articles store (`scripts/articles/`), the locate pipeline (`scripts/pipeline/`), and
off-line tools (`bot/`, `manage/`, `catalog/`, `wikifunctions/`, `bench/`).

What makes it hard is the same everywhere. D1 has no interactive transactions, so a
handler is a series of awaited reads, each of another moment, followed by one atomic
batch; its correctness is the guard in that batch. A client may retry what committed. A
cron and jobs on a laptop act on what they read minutes before. A promoter drives a
deployment system that compares nothing, through a child process that may outlive it.

## 1. Inventory

| Part | State | Operations | Hard behaviour | What makes it correct |
|---|---|---|---|---|
| Article plane (`index.ts`, `validation.ts`, `proposals.ts`) | articles, revisions, moderation_state (pending list, rejected memory), proposals | create, save (person, pipeline, agent), endorse, approve, reject, revert, revert-run | reads of different moments before one guarded batch; a proposal lives in two stores | a serial revision chain; human annotations kept by AI saves; an approval does what it says; the two stores agree; a veto holds |
| Agent tokens (`agents.ts`) | agent_tokens, users | mint (caps), revoke (retires proposals) | a save in flight while its token is revoked | no proposal of a revoked agent waits |
| Reader flags (`index.ts`) | flags, moderation_state.flag_count | raise, resolve | check-then-act cap, row and counter written apart | bounded open flags, a counter that hides none |
| Drift (`drift.ts`, `GET /api/work`, `update_from_upstream.py`) | articles.revid / latest_revid, wp_drifted, state, last_reviewed_version | daily sweep, queue, stage-0 re-pin, review save | the sweep writes what it concluded from an old pin, in several batches | pins only advance; a page that moved is listed; a human's parking is kept |
| Pipeline client (`moderate.py`) | checkpoints on disk, job records | review, create, flush, 409 rebase, 5xx retries | a commit whose answer was lost is retried; a checkpoint is flushed days later; people edit while agents work | nobody's annotation is lost; a work makes one version unless another hand changed the article under it; finished work is on disk until it is saved or refused, or until a later work of the article takes its place; no annotation beside a veto comes back |
| Community tags (`articles.ts`, `articles-overlay.ts`) | article_tags, user_agreements | add, change, remove, restore | compare-and-set on row versions, rights and caps read before the write | an agent never changes a person's live row; an edit replaces the row its page showed; caps hold up to requests in flight |
| Brain edits (`brain-edits.ts`) | brain_nodes, brain_edges | add, merge, delete, restore | nodes minted before the duplicate check; soft deletes | one live edge per (src, dst, kind); no live edge on a dead node |
| Repositories (`repos.ts`) | user_repos | bulk upsert, bulk delete | cap, then row by row | cap up to requests in flight |
| Promotion (`brain_promote_release.py`, `brain_deploy_journal.py`) | event journals, a lock, the Worker's deployments | dry run, execute, reconcile | crashes between any two steps, an orphaned Wrangler, foreign deployments, edge lag | one open attempt; what is recorded is what production saw; attempts can be closed |
| Nightly job, baseline, activation bundle, canary | a shadow directory and its lock | build, verify, bundle | interrupted runs | nothing but a verified bundle reaches the promoter |
| Brain reducer and stores | stage directories | stage, verify, publish by rename | crash in the middle of a publication | a stage is whole or absent |
| Articles store (`scripts/articles`) | objects under fixed keys in a bucket, `current.json` | build, publish, roll back, unpublish, promote a submission | objects are overwritten in place; a run stops at any request, a request may land late; two operators | nothing dangles; the build `current.json` names is whole; only a rollback goes back; a run that ends done left its build |
| Contribute mode (`scripts/pipeline/contribute`) | branches of a work repository, clones, work directories | claim, take over, run, send results, collect | two machines push the same claim; answers are lost; the fetch that reads back fails; a result may stand in the coordinator's own tree, whole or not | one machine records a free package; a recorded claim is on the remote; claims are taken over in sight; what is collected of a machine is one of its results |
| Run of a package (`work.py`, `run/task.py`, `run/harvest.py`) | work directories, gate log, findings, corpus, receipt | worker calls, gate, promote, harvest | an invocation stops anywhere, within a copy too, and is run again over what it left; dry runs | what can be read in the corpus is what the gate passed; a run that passed can be sealed |
| Spend watchdog (`run/watchdog.py`) | `watchdog.json`, the host's drain | check, drain, settle, exit | drain commands fail or fail after they worked; records are lost; calls in flight go on spending | a root over its cap is drained; an exit means what it says |
| Native annotation migration | articles.schema_version, archive | preview, migrate | a save between preview and migration | nothing is migrated that was not previewed |

They interact through D1 rows (Worker, cron, pipeline through the API), through KV (the
rendered pages and Wikipedia's HTML, caches keyed by version and revision), through
files (pipeline, reducer, nightly) and through Cloudflare's deployments (promoter).
`PROJECT.json` lists every part with its status, and every hazard with its line.

## 2. Modules

| Module | Models | Role |
|---|---|---|
| `AnnotationRules` | `validation.ts`, the save rules in `index.ts`, `proposals.ts` | pure operators: who may make an annotation human, what a save keeps, which statement an annotation is on |
| `RevisionLog` | (abstract) | an append-only history in which each entry is a legal answer to the one before |
| `ArticlePlane` | the handlers of one article, `agents.ts` revocation | requests as processes: arrive, read, read, commit or 409 |
| `Flags` | the two flag routes | requests over flag rows and the counter |
| `OverlayTags` | the overlay routes of `articles.ts`, `articles-overlay.ts` | requests over one row per pair, under compare-and-set |
| `Tables` | (composition) | `Flags` and `OverlayTags` beside each other: they share no state, so a behaviour serves one of them |
| `Drift` | `drift.ts`, `/api/work`, stage 0, review saves | one article, the cron, pipeline runs; pins and stamps |
| `ReviewClient` | `moderate.py` beside people and the Worker's save | one article, a run after the other; contents, checkpoint, retries |
| `DeployLedger` | (abstract) | open, land, close: at most one attempt open, closed with a true verdict |
| `Promoter` | `site/ops` promoter and journal | processes, journal events, Wrangler, deployments, edge |
| `ArticlesStore` | `scripts/articles/upload_store.py` | operators' runs over the objects of a bucket |
| `WorkPackages` | `run_package.py` (claim), `workrepo.py` | machines, their clones, the claim branches of the remote |
| `WorkResults` | `run_package.py` (results), `collect_results.py`, `results.py` | result branches, the coordinator's working tree, the merged documents; extends `WorkPackages` with actions of its own |
| `LocateRun` | `work.py`, `run/task.py`, `run/agent.py`, `run/harvest.py`, `corpus.py` | the tasks of a package, from the worker's call to the receipt |
| `SpendWatchdog` | `run/watchdog.py` | the watchdog beside the host it drains |
| `*Proofs` | | TLAPS proofs: `ArticlePlaneProofs`, `ProposalStoresProofs`, `TablesProofs` (`Tables`, `Flags` and `OverlayTags`), `PipelineProofs` (`Drift` and `ReviewClient`), `PromoterProofs`, `ArticlesStoreProofs`, `WorkPackagesProofs`, `TaskRunsProofs` (`LocateRun` and `SpendWatchdog`) |
| `MC*` | | constants for TLC, symmetry. Three of them put components that share no state beside each other, as `Tables` does: a behaviour serves one of them. `MCContribute` is contribute mode (`LocateRun`, `WorkPackages`, `WorkResults`), `MCReleases` what is published (`Promoter`, `ArticlesStore`), `MCHosts` what must come to an end (`Promoter`, `SpendWatchdog`) |

**ArticlePlane.** Variables are the rows (`version`, `anns`, `revs`, `blob` =
`moderation_state.proposal`, `rejected` = `rejected_proposals`, `table` = the proposals
table, `revoked`) and `req`, the requests in flight with everything they have read. A
handler is `Arrive`, `ReadModeration`, `ReadTable`, `ReadPrior` (each an `await`) and one
commit action: `SessionSave`, `BotSave`, `AgentSave`, `Endorse`, `Approve`, `Reject`,
`Revert`, `RevertRun`, `Create`. The commit's guard is the `CASE ... ELSE NULL` of the
batch's first statement (`SaveGuard`, `DecisionGuard`, `SameVersion`). An annotation is an
anchor (the statement it is on), a content (everything else but id and provenance) and a
provenance. Its id does not fix the anchor: a save may post a stored id with another anchor
(`Rewrites`), and which statements are vetoed goes by anchors (`Vetoed`).

**Promoter.** `journal` keeps the events that control depends on; a process's `pc` is the
place in `run`, `_deploy` or `reconcile`; `wrangler` says whether the child lives and which
request is under way; `deployments` grows by anyone's hand; `serving` is what the edge
answers, which may be any earlier deployment. `Kill` ends a process anywhere.
It implements `DeployLedger` through: the open attempt is the one with a journal and no final
event (`OpenAttempt`), an attempt's verdict is the class of its final event (`VerdictOf`),
landed attempts are those in `deployments`.

**Drift.** `cron` carries the pin it read and MediaWiki's answer. A run takes a job, fetches
the article, posts (the Worker reads the row) and commits or is refused; a review then
fetches once more, stage 0 stops; an answer lost after a commit is posted again.

**ReviewClient.** `stored` is the article as the Worker has it, with one annotation per
statement; `client` is the run (its place, the body it is about to post, the answer, the
retries left), `checkpoint` the file. The Worker's save is one step (`Handle`), which its guard
on the version makes it. A request that gets no answer goes to `late` and is handled at any
later moment, once, again or never (`LateLands`). Some works the Worker refuses every time with a
code that is neither 409 nor 422 (`barred`; a 400 or 413): their checkpoint stays. The agents' output is any choice per
statement of kept, dropped or written anew, with a claim to be a person's. `Die` ends a run
anywhere. Where `Drift` follows pins and stamps through a rebase and a retry, this module
follows what is posted.

**Flags and OverlayTags.** Each awaited step of the routes is an action; in `Flags`, `Fail`
ends a request anywhere.

**ArticlesStore.** An object holds the bytes of a build. A run lists the bucket, puts objects in
the order of their rank, deletes what the build does not have and verifies; it stops at any
request, and the request it stops at may have taken effect.

**WorkPackages.** A claim is a commit pushed to `claim/<package>`; `Plan` fetches and makes the
commit, `Push` is accepted or not and may lose its answer, `ReadBackClaim` decides and records.
The properties speak of recorded claims only: a claim is a promise, and the run and results
stages go on with `--package` and no claim at all (`run_package.py:472`, `507`).

**WorkResults.** `Harvest` and `Send` therefore ask for no claim. A result is a commit on what the
clone stands on: normally the packages, so that a second one is no fast-forward; in a clone whose
HEAD was detached, or whose checkout back failed (`run_package.py:284-297`), it sits on the first
one and is accepted (`onResult`, `FastForward`). `Preview` is the results stage without
`--execute` or stopped before its commit: it leaves a directory in the coordinator's working
tree, whole or cut short. `ResultDir` takes that directory before any fetched branch, as
`result_dirs` does. `Collect` copies machine after machine into one directory and may stop
anywhere.

**LocateRun.** `run` is the invocation's place; `work`, `findings`, `verdict`, `corpus` and
`receipt` are the files, which an invocation that stops leaves as they are. `shutil.copyfile` and
the write of the receipt truncate their target in place: a promotion, a transfer and a receipt
that are cut short leave a file nobody can read (`Torn`, `UnreadableReceipt`). The harvest
compares what it finds in the corpus, and a torn document makes the receipt incomplete
(`NoneMalformed`).

**SpendWatchdog.** `call` are the host's calls, `drained` and `record` what happened and what
`watchdog.json` says. The host and its drain command are not in the repository; they are what
the watchdog's documentation says of them. Unpriced calls are counted at the priced ones' rate
once there is one, before that at `--unpriced-usd-per-hour` (`Fallback`): the first price may make
the reading fall.

## 3. Runs

| Run | Instance | Shows |
|---|---|---|
| `article_proposals` | 1 annotation (two live contents, a tombstone), 1 proposal id, an agent, 2 requests, 2 versions | the history stays a serial chain and implements `RevisionLog`; the two stores of a proposal agree; an approval does what it says; after an AI save every pending proposal still has an effect |
| `article_history` | 1 annotation, 1 run, 2 requests, 3 versions; create, pipeline saves, endorse, revert, revert-run | a run revert restores what preceded the run |
| `human_statements` | 2 annotation ids and 2 statements, any id on any of them, copies without ids, 2 requests, 2 versions | nothing is human on a statement no person worked on; a person's tombstone holds against what an agent's save in flight adds under an id that held nothing |
| `reanchored` | the same instance; **expects a violation** | "A human tombstone vetoes its statement: an agent may not annotate it anew" (`index.ts:2020`) fails: an item under a stored id is not looked up, whatever anchor it now carries (`index.ts:2010`), so an agent moves an annotation onto the vetoed statement |
| `following` | 2 runs (a reviewer, a stage 0), 2 upstream revisions, 3 versions, 1 dying sweep, fairness | pins only advance; an edit leaves the human-edited tier by a save that had read it; a page that moved past its pin is listed in the end |
| `review_posts` | 2 statements near each other, 2 works, 1 save by a person, 1 retry, 2 faults, fairness | nobody's annotation is lost; a work makes one version unless its article changed under it; finished work leaves the disk only when it is saved, refused or replaced by a later work of the article; nothing comes up beside a veto; the checkpoint of a work that is not refused every time is settled in the end |
| `overwritten` | the same instance without fairness; **expects a violation** | "a transient POST/network failure [...] never discards the expensive completed agent work" (`moderate.py:79`) fails: a flush that fails again keeps its checkpoint, the queue hands the article out, and the new review's checkpoint takes its place (`moderate.py:1234`) |
| `flag_counter` | flags: 3 requests, 4 flags, 2 targets, cap 2, 2 failures; overlay: 2 edits, 2 people, an agent, 2 pairs, cap 1 | the open-flag cap is exceeded by at most the requests in flight and the counter hides nothing; an agent replaces no live row of a person, an edit replaces the row it was made from, the daily cap is exceeded by at most the requests in flight |
| `releases` | promoter: 2 attempts (one healthy), 2 processes, 2 deaths, 3 deployments; store: 3 runs by 2 operators, 2 builds that share a page and differ in another and in the universe | the promoter implements the ledger and records no unqualified release as deployed; nothing dangles in the store, the live build is whole, only a rollback goes back, done means exactly the build |
| `hosts` | promoter: 1 attempt, 1 process, 2 deaths, 3 deployments; watchdog: 3 calls of 1 or 2 dollars, 3 by the fallback, cap 3, 2 watchdogs; fairness | an open attempt is closed in the end; a root that stays over its cap is drained; the exit codes mean what they say |
| `contribute` | one machine: 2 tasks, 3 documents (one unsound), 2 attempts, 3 invocations; claims: 2 machines, 2 packages, 2 claim commits each; results: 2 document names, 2 harvests, 2 results that land | a document that can be read is one the gate passed, and a run in which all passed can be sealed; one machine records a free package, a recorded claim is on the remote, no claim is taken over unseen; what is collected of a machine is one result it has given |
| `revert_run_race` | 1 run, 2 requests, 3 versions; **expects a violation** | "We never clobber human work to undo a bot batch" (`index.ts:2463`) fails: a save between its read of the revisions and its read of the row is reverted with the run |

The type invariants of `ArticlePlane`, `Flags`, `OverlayTags`, `Drift`, `ReviewClient`,
`Promoter`, `ArticlesStore`, `WorkPackages` and `LocateRun` are proved (section 5), that of
`WorkResults` as part of an inductive invariant; TLC checks those of `Flags`, `OverlayTags`,
`ReviewClient` and `ArticlesStore`.

More behaviours were seen while modelling, for which no run is kept. The modules allow the
first group:

- a delta rejected after a save has read the moderation row is filed again by that save: its
  guard compares the pending list only, which came back to what was read
  (`proposals.ts:72`, `index.ts:1641`, `2128`; `RejectedNotPending` in `ArticlePlane`);
- two rejections with a re-filing in between: the later request writes the rejected memory it
  computed before the first, and that rejection is forgotten (`index.ts:1681`);
- a pipeline save keeps `human` on a copy without id of a human annotation, although "a client
  cannot mint endorsement" (`index.ts:1986`, `1992`; `PipelineMintsNoHuman` in `ArticlePlane`).
  `HumanWorkHasAPerson` does not see it: a person has worked on that statement;
- a save that was authenticated before its token is revoked files its proposals after the
  revocation has retired the others (`agents.ts:160`); `StoresAgree` still holds of them;
- a resolve between the insert of a flag and its increment meets the clamp at 0, and
  `flag_count` stays at 1 with no open flag (`index.ts:2803`). `CountNeverLow` is what does
  hold: the counter errs on the high side only;
- the cron overwrites `needs_human` with `moved` and later clears that (`drift.ts:240`, against
  the comment at 202; `NeedsHumanIsKept` in `Drift`), and sets `wp_drifted` from a pin read before
  the network (`drift.ts:217`, against `index.ts:2858`; `WpUpdateTrails`). A save may also reset
  `wp_drifted` by a `latest_revid` it read before the cron wrote a newer one (`index.ts:2302`).
  Both last until the next sweep, which marks the page by what it then finds;
  `UpstreamChangesAreListed` says that it is listed in the end and nothing of the time between;
- a retry after a lost answer, or the flush of a later run, applies again what a person undid
  in between: the save that had committed answers 409 and is rebased on the undo
  (`moderate.py:993`, `UndoneStaysUndone` in `ReviewClient`). A rebase also brings a person's
  withdrawn annotation back, as the pipeline's; and a 409 whose rebase cannot read the article
  ends as a refusal that drops the checkpoint, as if somebody had edited twice
  (`moderate.py:1056`, `1243`);
- a work makes a second version with no person editing under it: a copy of an older work, which
  a person's edit had overtaken, lands late and brings a tombstone in; the newer work is rebased
  on it without the statement beside the tombstone, removes the tombstone itself, and after a
  death the flush of its checkpoint brings the statement back. It takes two works, two edits,
  three faults and some twenty steps; `AppliedOnce` therefore excepts works under which any other
  hand changed the article (`overtaken`), a late copy of another work included;
- a work the Worker refuses with a 400 or a 413 keeps its checkpoint through every flush
  (`moderate.py:1147`, `1258`), until a later work of the article replaces it;
- a dry run of a package promotes and harvests a document that an interrupted paid run left
  (against `run_package.py:324`; `PreviewWritesNoDocument` in `LocateRun`);
- a receipt torn by an interruption stops every later harvest (`corpus.py:101`), and a harvest
  that is cut short leaves the complete receipt of the one before beside a corpus that is no
  longer its own, with a torn document or some newer ones in it (`ReceiptIsOfTheCorpus` in
  `LocateRun`). What reads the corpus raises at the torn document; the newer ones were passed;
- what is collected of a machine need not be on its branch: a directory in the coordinator's
  working tree is taken first, and a preview of the results stage leaves one there that was never
  sent (`collect_results.py:60-73`, `run_package.py:236-280`; `CollectedIsOnBranch` in
  `WorkResults`). `CollectedIsOneResult` is what holds: it is one result the machine has given,
  sent or laid out whole, and never a mixture;
- a call in flight that is silent for as long as the watchdog settles may exceed the cap after
  exit 2 (`watchdog.py`; `CapEnforced` in `SpendWatchdog`); a dry run of the watchdog records
  a drain, after which a real one does not drain;
- a second push of a result is refused as no fast-forward, unless the clone was left on the first
  one, so a partial result is usually never completed (`run_package.py:291`).

The second group lies outside the modules: two overlapping pipeline processes, which a stale
lock allows, remove each other's checkpoints of the same article; the removal or restoration of
an older row by another account counts against the day of the row's author
(`articles-overlay.ts:497`); a Brain edit on a gravestoned node answers 201 and leaves the node
dead, and the quickstatements queue is an unguarded read-modify-write (`brain-edits.ts:851`).

**Bounds.** In every run the variables that could grow have a bound in a guard, named in the
module (`MaxVersion`, `MaxRev`, `MaxFails`, `MaxDeployments`, `MaxKills`, `MaxLost`,
`MaxPending`, `MaxWorks`, `MaxEdits`, `MaxFaults`, `MaxClaims`, `MaxHarvests`, `MaxSends`,
`MaxRuns`, `MaxStarts`). Two
requests are enough for the article plane: every commit compares the version, so what a third
changes reaches a request as a change of the rows, which the second also makes. One proposal id
and one annotation make ABA on the pending list and a decision against a changed target happen;
two ids and two statements are what matching by anchor and moving an annotation need. In `human_statements` two versions
are enough: a person's save and one in flight that read what was there before. Two deaths let a
reconciliation die as well as the execution it follows. Three versions on `Drift` are an edit, a
save over it and one more. Two works on `ReviewClient` let a finished work follow one whose
checkpoint is still there or whose copy is still on its way; two faults are a lost answer and a
death, or a post that never gets an answer; two statements near each other are what a veto next
to a new annotation needs. Three runs of the store are a publish, one that stops, and one over
its ruins; with two builds each of them adds, drops and overwrites a page and changes the universe
against the other. Three deployments are the one before, the attempt's and a foreign one (or a
roll-back). Two harvests and two results that land are a result, what was harvested after it, and a
second result; one document in each is enough to tell a mixture of the two from either. Two claim commits per machine are a claim and a take-over, or a retry. Three
invocations are one that leaves something, one that runs over it and one that is sealed. Two
watchdogs are one that dies and one that goes by its record. Each property of a passing run has
a mutant of the code model (a dropped guard, a wrong comparison, a missing reset) that violates
it within the same bounds.

**Fairness.** Three runs need it. `hosts` has, of the promoter, `Promoter!FairSpec`: a promoter that runs
takes its next step, the operator runs reconciliation again with each approval while an attempt
is open, a Wrangler request settles and a child exits, the edge catches up; neither deaths nor
foreign deployments are fair, and both are bounded, so the claim is that an attempt closes once
people stop interfering. `following` has `Drift!FairSpec`: the cron's steps are executed, as the
trigger fires daily (`wiki/wrangler.jsonc`); nothing is assumed of runs or people.
`review_posts` has `ClientFairSpec`: the nightly job starts a run every night
(`site/ops/nightly-moderate.sh`) and a run goes on; answers, edits and deaths are not fair and
are bounded. Of the watchdog `hosts` has `WatchFairness`: it goes on checking, and
a drain command that is run again and again works in the end (strong fairness: it may fail any
finite number of times). A behaviour of `MCHosts` is one of the promoter or one of the watchdog, and
each condition is asked of the part that is served; the one attempt of this instance is healthy, so
that the exception `AttemptsClose` makes for a live unhealthy attempt is not met in it. `CHECK_DEADLOCK FALSE` is said where the bounds or the system itself
let everything stop.

## 4. Assumptions

- D1 runs a batch atomically, statements one after the other; a read sees the committed state.
- Article plane: the proposal ids a save makes are fresh; a request in flight keeps the role
  it authenticated with.
- Promoter: a request of a dead Wrangler settles within the recorded command timeout, which
  the quiet interval is not shorter than; promoters run on one host, where the process check
  sees each other's children; an append to the journal is durable and atomic (a crash
  inside is one before or after); deployment ids are never reused, which makes the
  status/selector/status sandwich one read; an attempt's staged bytes are unique to it.
- Drift: sweeps do not overlap; upstream revision ids grow; an article has a pin and a
  moderation row (both are written at creation).
- Review client: the runs of a host take turns; the checkpoint is replaced atomically
  (`moderate.py:117`, a rename); a statement has one annotation.
- Articles store: a request that timed out has taken effect or has not, and does not land
  after the run's next request for that object, nor, if its run stopped at it, within a later run:
  what a late request of a stopped run does to the next one is assumed away; the first two
  properties are about one operator at a time.
- Work packages and results: a push is accepted or refused by the remote as a whole; nonces of
  different commits differ. A result in the tree or on a branch is one that passes the intake
  contract.
- Locate run: the gate is a function of the document; one invocation per work directory at a
  time. Watchdog: one per root at a time, and a drained host starts nothing.

Left as design, not as findings: a stage-0 re-pin and a rebased review stamp the article as
reviewed without an agent having read that very text (`docs/research-plan.md`);
`rolled_back_reconciled` may be recorded for an attempt that never reached production; a
review made on a stale edge answer can only be closed as superseded.

## 5. Proofs

TLAPS proves, for every value of the constants that the named ASSUMEs allow:

| Theorem | Says | Rests on |
|---|---|---|
| `ArticlePlaneProofs!TypeCorrect` | `Spec => []TypeOK` | `HistoryInv` |
| `ArticlePlaneProofs!HistoryIsAChain` | `Spec => []RevisionChain` | `HistoryInv` |
| `ArticlePlaneProofs!ImplementsLog` | `Spec => LogRefinement` | `HistoryInv`, one lemma per commit |
| `ArticlePlaneProofs!HumanWorkIsAPersons` | `Spec => []HumanWorkHasAPerson` | the chain and the log's steps |
| `ProposalStoresProofs!ProposalStoresAgree` | `Spec => []StoresAgree` | `DeskInv` |
| `ArticlePlaneProofs!VetoesHold`, `RunsAreUndone` | `Spec => NewHeedVetoes`, `Spec => UndoesRun` | `HistoryInv` |
| `ProposalStoresProofs!ApprovalsTakeEffect`, `AISavesSweep` | `Spec => ApprovalTakesEffect`, `Spec => AISaveSweeps` | `HistoryInv`, `DeskInv`, `SweepReachesAll` |
| `PromoterProofs!TypeCorrect` | `Spec => []TypeOK` | `IInv` |
| `PromoterProofs!DeployedIsQualified` | `Spec => []QualifiedWhenDeployed` | `IInv` |
| `PromoterProofs!ImplementsLedger` | `Spec => LedgerRefinement` | `IInv`, one lemma per kind of step |
| `TablesProofs!TypeCorrect` | `Spec => []TypeOK` | `IInv` (with `Room`) |
| `TablesProofs!CapHolds`, `CounterHidesNothing` | `Spec => []FlagsBounded`, `Spec => []CountNeverLow` | the same |
| `TablesProofs!PeoplesRowsStand`, `EditsReplaceWhatWasSeen` | `TagSpec => HumanRowsStand`, `TagSpec => ReplacesWhatWasSeen` | `TagIInv` |
| `TablesProofs!TermsBeforeRows` | `TagSpec => []RowsAreAgreed` | `TagIInv` |
| `TablesProofs!DailyCapHolds` | `TagSpec => []RowsBounded` | inductive with the types |
| `TablesProofs!TablesKeepTypes` | `TablesSpec => []TablesTyped` | `IInv`, `TagIInv`, `SurfacesAreApart` (`TablesSpec => Spec /\ TagSpec`) |
| `PipelineProofs!TypeCorrect` | `Spec => []TypeOK` of `Drift` | `DriftInv` |
| `PipelineProofs!ReviewsReadEdits`, `PinsAdvance` | `Spec => []ReviewsReadTheEdits`, `Spec => PinsOnlyAdvance` | `DriftInv` |
| `PipelineProofs!ClientTypeCorrect` | `ClientSpec => []ClientTypeOK` | `ClientInv` |
| `PipelineProofs!HumansAreKept`, `WorksAreAppliedOnce` | `ClientSpec => []NoHumanIsLost`, `[]AppliedOnce` | `ClientInv` |
| `PipelineProofs!WorkIsOnDisk` | `ClientSpec => FinishedWorkIsKept`, of every work | `ClientInv` |
| `PipelineProofs!VetoedNeighboursStayOut` | `ClientSpec => NearVetoesStand` | `ClientInv` |
| `ArticlesStoreProofs!TypeCorrect` | `StoreSpec => []StoreTypeOK` | `StoreInv` |
| `ArticlesStoreProofs!ReadersFindReferences`, `CurrentStaysWhole` | `StoreSpec => []NothingDangles`, `StoreSpec => []CurrentIsWhole` | `StoreInv`, `PutIsSafe`, `DeleteIsSafe`, `TakeOfflineIsSafe` |
| `ArticlesStoreProofs!DoneRunsAreExact`, `OnlyRollbacksGoBack` | `StoreSpec => []DoneMeansExact`, `StoreSpec => OnlyRollbackGoesBack` | `StoreInv` |
| `WorkPackagesProofs!TypeCorrect` | `ClaimSpec => []ClaimTypeOK` | inductive |
| `WorkPackagesProofs!FreePackagesHaveOneStarter`, `StartedMachinesHoldTheirClaim`, `TakeOversFollowClaims` | `ClaimSpec => []OneStartsAFreePackage`, `[]StartedIsOnRemote`, `[]NoBlindTakeOver` | `ClaimInv` |
| `WorkPackagesProofs!CollectedComesFromOneResult` | `ResultSpec => []CollectedIsOneResult` | the types and `WholeIsGiven` |
| `TaskRunsProofs!TypeCorrect`, `GateGuardsCorpus` | `Spec => []TypeOK`, `Spec => []CorpusIsGated` | `RunIInv` |
| `TaskRunsProofs!PassedRunsSeal` | `Spec => PassedRunIsSealable` | `RunIInv` |
| `TaskRunsProofs!DrainedExits`, `SettledExits` | `WatchSpec => []ExitMeansDrained`, `WatchSpec => []SettledExitHolds`, where no watchdog is a dry run | `WatchIInv` |

The assumptions are `AnnotationAssumption` and the like, one per module: finite sets of
requests and ids where they are counted, bounds that are numbers, distinct names. No theorem
bounds the number of requests, processes, attempts, flags, machines, tasks, calls or versions;
the named bounds are constants of any size.

`RevisionChain` is not inductive: a commit compares the version only, and writes what was
computed from a row read before. `HistoryInv` adds what a request in flight knows: if the
version it read is still the version, the annotations it read are still the article's, and
the parent it read is still the newest revision. Versions only grow, so the first is decided
at the commit. `DeskInv` does the same for the proposals: rows are only ever added or closed
(`Grown`), so a row read as decided stays decided, and an equal pending list means that each
listed row is what the request knows of it, or was closed by a revocation. From the two follow
the action properties. A commit sees the article as it is, so a veto or a deletion that landed
while it was on its way aborts it (`NewHeedVetoes`, `ApprovalTakesEffect`); the theorem says of an
agent's save what its lookup covers, the ids that held nothing, and `reanchored` shows what it passes
over. An AI save's sweep reaches
every pending row, those filed after it read the table included, because these would have changed
the list its guard compares (`SweepReachesAll`, `AISaveSweeps`). The revision chain makes the
parent of a run's first revision the one before it, and a run's first revision is always among
those that were read (`RunInv`, `UndoesRun`).

The promoter's invariant says what the process that holds the lock knows at each place in its
work, and what holds of an attempt nobody works on. It is needed because a verdict is not
computed from the present: reconciliation observes production, waits out the quiet interval,
observes again and then decides, and between any two of these others deploy, processes die
and the child of a dead process may still land its request. `AttemptOK` keeps what survives a
death (which events are in the journal, whether a request may still settle), `ProcOK` what
the running process has established since, `OneOpen` that no second attempt was opened
meanwhile. The refinement then has one case per place: an append of `intent` opens, a
deployment of the attempt's version lands, a final event closes with the verdict that the
invariant says is true, and everything else stutters.

For the flags, the two bounds are inductive and the type is not: that the counter never
exceeds the number of flags needs the flags inserted and not yet counted (`Room`). For the
overlay, a request decides on a row it read and writes several awaits later; what it knows then
holds as long as the row's version is the one it read (`SeenStands`, `LookStands`), which the
write compares.

On `Drift`, as long as the article has the version a run read, it has the pin the run read and
nothing was edited since (`RunsRead`); and the revisions the cron writes down only grow
(`RevisionsGrow`), so stage 0 never moves to an older one than any pin stored before.

On `ReviewClient` nothing is inductive by itself: whether a body loses a person's annotation
depends on the version it is based on, and bodies outlive their versions in the checkpoint and
among the late copies. `ClientInv` says that a body the Worker would still accept was finalised
against the article as it is (`Fits`), and, of a work that no other hand has overtaken, that all
its bodies have the same text (`OneText`), since the checkpoint is what is posted, again and again,
and that this text fits the article before the save and is the article after it (`OwnVersion`). Such
a work therefore makes one version: a body rebased on the work's own save changes nothing. The works
it excepts are real (section 3). `FinishedWorkIsKept` is an action property
of every work: each step that takes a work from the disk is a removal after the Worker saved or refused
it, which the answer the run has in hand shows, or the write of a later work's checkpoint. The second is
the one way a work is lost (`overwritten`).

On `ArticlesStore`, as long as runs do not overlap the run under way knows the bucket (`Knows`):
what it has put is there, what it still has to delete is everything stale, `current.json` is no
newer than what `--store` publishes. The order of the writes does the rest. What is put next has
been preceded by everything it refers to (`PutIsSafe`), what is deleted next is referred to by
nothing that is left, because whatever refers to it has a higher rank and would go first
(`DeleteIsSafe`); both hold of a bucket that a stopped run left half-way, since they ask nothing of
the objects outside the build but their rank. `DoneMeansExact` needs no such assumption: a run's
comparison stands as long as it is the last to have written (`Compared`).

For the work repository, a claim commit is new when it is made, since its id counts its
machine's commits (`IdsAreMinted`, `ClaimsAreOwn`); an accepted push therefore puts that very
commit on the branch, which reading back shows (`RecordedIsThere`), and on a branch only the first
commit has no parent. What a machine has given it has given for good, since branches only grow
(`GivenStays`), and a directory in the coordinator's tree is whole only where a layout came to its
end or a result was checked out (`WholeIsGiven`), which its receipt tells; so collecting, wherever it
stops, mixes nothing. For the run of a package, the document about to be promoted is the one the
gate has just passed (`OkIsJudged`), and a task that passed is not judged again in the same
invocation, so that its last verdict stands (`EachTaskOnce`, `PassedVerdicts`); copies may be cut short, but what a
run has promoted and harvested to its end is whole (`PassedAreWhole`). For the watchdog,
a record is only true when the host was drained (`RecordIsTrue`), whoever settles has drained
(`SettlesDrained`), and the spending of a drained host with nothing in flight is final
(`SettledIsFinal`).

Only model-checked: the four liveness properties (`UpstreamChangesAreListed`,
`CheckpointsAreSettled`, `OverCapIsDrained`, `AttemptsClose`), and that the composition of
`MCHosts` is fair to each of its two parts. Liveness
under fairness and ENABLED are beyond the prover, as is induction over data, so no theorem is
stated about what a recursive definition computes for every input; no module here declares a
RECURSIVE operator.

## 6. Not modelled, and why

Rendering, search, the editor and read-only routes (no state); authentication; hashing,
contract validation and replay of the Brain (pure data); the order of the work queue; anchor
matching (a nondeterministic failure in `Drift`); rate limits; HTML caches; payload caps; the
native schema; promotion journals of older schemas. `PROJECT.json` gives the reason for each
part.

## 7. Plan

Done: the article plane with its proofs; promoter and ledger; the two small tables; drift and the
review client; the articles store; contribute mode, the run of a package and the watchdog.

Every safety property and action property of a passing run is proved. Next, in this order:

1. An abstract specification of the published store (one build is live, switched whole) and of
   the work queue (a package is held by one machine, handed over in sight), with the detailed
   modules shown to implement them where they do.
2. Invariants of the promoter about deaths and foreign deployments that `DeployLedger` does not
   say, and the safety half of `AttemptsClose`: that an open attempt always has a next step.
3. `BrainEdges`: nodes, edges, merges and gravestones of `brain-edits.ts`, with one live edge per
   source, target and kind as the abstract specification.
4. The stage publication of the reducer by rename, and the nightly's lock; the native migration
   composed with `ArticlePlane`'s saves; creates in `ReviewClient`.
