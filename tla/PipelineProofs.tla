--------------------------- MODULE PipelineProofs ---------------------------
(***************************************************************************)
(* Proofs about the two models of the moderation pipeline, which share no  *)
(* state: the first part is about Drift, the second about ReviewClient.    *)
(*                                                                         *)
(* Proofs about Drift, for any number of pipeline runs, revisions and      *)
(* versions: a review's stamp covers no edit the run had not read, and no  *)
(* pipeline save moves the pin back.                                       *)
(*                                                                         *)
(* The argument: as long as the article has the version a run read, it has *)
(* the pin the run read too, and nothing has been edited since (RunsRead); *)
(* and what the cron writes down only grows, so that the revision stage 0  *)
(* moves to is no older than any pin stored before it (RevisionsGrow).     *)
(*                                                                         *)
(* ReviewClient, for any statements, any nearness of theirs, and any       *)
(* number of works, edits, retries and faults: nobody's annotation is      *)
(* lost, vetoes keep their neighbourhood, a work makes one version, and    *)
(* finished work leaves the disk saved, refused or for a later work.       *)
(* Every body that may still reach the Worker - posted, late or in the     *)
(* checkpoint - is either older than the article or finalised against the  *)
(* very annotations the article has (Fits).  So what the Worker accepts    *)
(* has everything people wrote and nothing near a veto, and finalising it  *)
(* again changes nothing, neither before it was saved nor after (OneText,  *)
(* OwnVersion).                                                            *)
(***************************************************************************)
EXTENDS Drift, ReviewClient, TLAPS

-----------------------------------------------------------------------------
(* Drift.                                                                  *)

\* Every pin is the one of the create or one the cron had seen by then; a sweep
\* about to write has its answer.
RevisionsGrow ==
  /\ cron.pc \in {"article", "state"} => cron.outcome # "none"
  /\ page.rev >= 1 /\ article.latest <= page.rev
  /\ cron.pc = "article" =>
       cron.rev >= 1 /\ article.latest <= cron.rev /\ cron.rev <= page.rev
  /\ \A p \in article.pins : p <= 1 \/ p <= article.latest

\* A run under way, after it read the article.
Reads(q) ==
  /\ q.base <= read /\ q.base <= article.version
  /\ q.job = "wp-update" =>
       /\ q.target >= 1 /\ q.target <= article.latest
       /\ q.base = article.version => article.revid <= q.target

Posts(q) ==
  /\ q.row.version = q.base
  /\ q.base = article.version => q.row.revid = article.revid

RunsRead ==
  \A r \in Runs :
    /\ run[r].pc \in {"read", "posted"} => Reads(run[r])
    /\ run[r].pc = "posted" => Posts(run[r])

EditsAreVersions == lastEdit <= article.version

DriftInv == TypeOK /\ RevisionsGrow /\ RunsRead /\ EditsAreVersions /\ ReviewsReadTheEdits

-----------------------------------------------------------------------------
(* Types.                                                                  *)

RunStates == [pc : {"idle", "queued", "read", "posted"}, job : Jobs, base : Nat, target : Nat,
              rebased : BOOLEAN, row : [version : Nat, revid : Nat, latest : Nat]]
Articles == [version : Nat, revid : Nat, latest : Nat, pins : SUBSET Nat]
Mods == [state : Parked \cup {"none"}, drifted : BOOLEAN, reviewed : Nat]
Crons == [pc : {"idle", "swept", "article", "state"}, pin : Nat, rev : Nat,
          outcome : {"none", "drifted", "unchanged", "missing", "moved"}]

LEMMA Types ==
  ASSUME TypeOK
  PROVE  /\ page \in [kind : {"page", "redirect", "missing"}, rev : Nat]
         /\ article \in Articles /\ mod \in Mods /\ cron \in Crons
         /\ run \in [Runs -> RunStates]
         /\ fails \in Nat /\ lastEdit \in Nat /\ read \in Nat /\ marked \in BOOLEAN
         /\ article.revid \in article.pins /\ mod.reviewed <= article.version
         /\ article.version \in Nat /\ article.revid \in Nat /\ article.latest \in Nat
         /\ article.pins \subseteq Nat /\ mod.reviewed \in Nat /\ page.rev \in Nat
BY DEF TypeOK, Articles, Mods, Crons, RunStates

LEMMA TypesBack ==
  ASSUME page \in [kind : {"page", "redirect", "missing"}, rev : Nat],
         article \in Articles, mod \in Mods, cron \in Crons, run \in [Runs -> RunStates],
         fails \in Nat, lastEdit \in Nat, read \in Nat, marked \in BOOLEAN,
         article.revid \in article.pins, mod.reviewed <= article.version
  PROVE  TypeOK
BY DEF TypeOK, Articles, Mods, Crons, RunStates

LEMMA IdleTypes == IdleRun \in RunStates /\ IdleRun.pc = "idle" /\ IdleCron \in Crons /\ IdleCron.pc = "idle"
BY DEF IdleRun, IdleCron, RunStates, Crons, Jobs

LEMMA DriftInit == ASSUME Init PROVE DriftInv
<1>1. /\ page.rev = 1 /\ article.version = 1 /\ article.revid = 1 /\ article.latest = 0
      /\ article.pins = {1} /\ mod.reviewed = 1 /\ lastEdit = 0
      /\ cron = IdleCron /\ \A r \in Runs : run[r] = IdleRun
  BY DEF Init, Unknown
<1>2. TypeOK
  <2>1. page \in [kind : {"page", "redirect", "missing"}, rev : Nat]
    BY DEF Init
  <2>2. article \in Articles /\ mod \in Mods
    BY DEF Init, Articles, Mods, Unknown
  <2>3. run \in [Runs -> RunStates] /\ cron \in Crons
    BY IdleTypes DEF Init
  <2>4. /\ fails \in Nat /\ lastEdit \in Nat /\ read \in Nat
        /\ article.revid \in article.pins /\ mod.reviewed <= article.version
    BY <1>1 DEF Init
  <2>5. marked \in BOOLEAN
    BY Zenon DEF Init
  <2>6. QED
    BY <2>1, <2>2, <2>3, <2>4, <2>5, TypesBack
<1>3. RevisionsGrow
  BY <1>1, IdleTypes DEF RevisionsGrow
<1>4. RunsRead
  BY <1>1, IdleTypes DEF RunsRead
<1>5. QED
  BY <1>1, <1>2, <1>3, <1>4 DEF DriftInv, EditsAreVersions, ReviewsReadTheEdits, Init

-----------------------------------------------------------------------------
(* Steps.                                                                  *)

\* A step of Wikipedia or of the cron leaves the article's version and pins, the
\* runs and the review's stamp alone; what the cron wrote down only grows.
LEMMA OutsideStep ==
  ASSUME DriftInv, TypeOK', RevisionsGrow',
         article'.version = article.version, article'.revid = article.revid,
         article.latest <= article'.latest,
         UNCHANGED <<run, lastEdit, read>>, mod'.reviewed = mod.reviewed
  PROVE  DriftInv'
<1>1. \A r \in Runs : run[r] \in RunStates
  BY Types DEF DriftInv
<1>2. article.latest \in Nat /\ article'.latest \in Nat
  BY Types DEF DriftInv, TypeOK
<1>3. RunsRead'
  <2>1. ASSUME NEW r \in Runs, Reads(run[r])
        PROVE  Reads(run[r])'
    BY <1>1, <1>2, <2>1 DEF Reads, RunStates
  <2>2. ASSUME NEW r \in Runs, Posts(run[r])
        PROVE  Posts(run[r])'
    BY <2>2 DEF Posts
  <2>3. QED
    BY <2>1, <2>2 DEF DriftInv, RunsRead
<1>4. EditsAreVersions' /\ ReviewsReadTheEdits'
  BY DEF DriftInv, EditsAreVersions, ReviewsReadTheEdits
<1>5. QED
  BY <1>3, <1>4 DEF DriftInv

LEMMA UpstreamStep == ASSUME DriftInv, Upstream PROVE DriftInv'
<1>1. /\ page' \in [kind : {"page", "redirect", "missing"}, rev : Nat]
      /\ page.rev <= page'.rev /\ page'.rev \in Nat
  BY Types DEF Upstream, DriftInv
<1>2. UNCHANGED <<article, mod, cron, run, fails, lastEdit, read, marked>>
  BY DEF Upstream
<1>3. TypeOK'
  BY <1>1, <1>2 DEF DriftInv, TypeOK
<1>4. RevisionsGrow'
  BY <1>1, <1>2, Types DEF DriftInv, RevisionsGrow, Crons
<1>5. article.latest <= article.latest
  BY Types DEF DriftInv
<1>6. QED
  BY <1>2, <1>3, <1>4, <1>5, OutsideStep

LEMMA CronStep == ASSUME DriftInv, Sweep \/ SweepDies \/ MarkNeedsHuman PROVE DriftInv'
<1> USE Types DEF DriftInv
<1>1. UNCHANGED <<page, run, lastEdit, read>>
  BY DEF Sweep, SweepReads, SweepAsks, SweepWritesArticle, SweepWritesState, SweepDies, MarkNeedsHuman
<1>2. CASE SweepReads \/ SweepDies \/ SweepWritesState \/ MarkNeedsHuman
  <2>1. UNCHANGED article
    BY <1>2 DEF SweepReads, SweepDies, SweepWritesState, MarkNeedsHuman
  <2>2. cron' \in Crons /\ (cron'.pc \in {"article", "state"} => cron' = cron)
    BY <1>2, IdleTypes DEF SweepReads, SweepDies, SweepWritesState, MarkNeedsHuman, Crons
  <2>3. mod' \in Mods /\ mod'.reviewed = mod.reviewed
    <3>1. CASE SweepWritesState
      <4>1. cron.outcome \in {"none", "drifted", "unchanged", "missing", "moved"} /\ mod \in Mods
        BY DEF Crons
      <4>2. cron.outcome # "none" /\ mod' = Swept(mod, cron.outcome)
        BY <3>1 DEF SweepWritesState, RevisionsGrow
      <4>3. QED
        BY <4>1, <4>2 DEF Swept, Mods, Parked, GoneStates
    <3>2. CASE ~SweepWritesState
      BY <1>2, <3>2 DEF SweepReads, SweepDies, MarkNeedsHuman, Mods, Parked
    <3>3. QED
      BY <3>1, <3>2
  <2>4. fails' \in Nat /\ marked' \in BOOLEAN
    <3>1. fails' \in {fails, fails + 1} /\ fails' \in Nat
      BY <1>2 DEF SweepReads, SweepDies, SweepWritesState, MarkNeedsHuman
    <3>2. marked \in BOOLEAN
      OBVIOUS
    <3>3. marked' = marked \/ marked' = TRUE
      BY <1>2, Zenon DEF SweepReads, SweepDies, SweepWritesState, MarkNeedsHuman
    <3>4. QED
      BY <3>1, <3>2, <3>3, Zenon
  <2>5. TypeOK'
    BY <1>1, <2>1, <2>2, <2>3, <2>4, TypesBack DEF TypeOK, Articles, Mods, Crons, RunStates
  <2>6. RevisionsGrow'
    <3>1. cron'.pc \in {"article", "state"} => cron' = cron
      BY <2>2
    <3>2. cron'.pc \in {"article", "state"} => cron'.outcome # "none"
      BY <3>1 DEF RevisionsGrow
    <3>3. cron'.pc = "article" => /\ cron'.rev >= 1 /\ article.latest <= cron'.rev
                                  /\ cron'.rev <= page.rev
      BY <3>1 DEF RevisionsGrow
    <3>4. page' = page /\ article' = article /\ RevisionsGrow
      BY <1>1, <2>1
    <3>5. QED
      BY <3>2, <3>3, <3>4, Zenon DEF RevisionsGrow
  <2>7. article.latest <= article.latest
    OBVIOUS
  <2>8. QED
    BY <1>1, <2>1, <2>3, <2>5, <2>6, <2>7, OutsideStep
<1>3. CASE SweepAsks
  <2>1. UNCHANGED <<article, mod, fails, marked>>
    BY <1>3 DEF SweepAsks
  <2>2. cron' \in Crons /\ cron'.rev = page.rev /\ cron'.outcome # "none"
    BY <1>3 DEF SweepAsks, Classify, Crons
  <2>3. TypeOK'
    BY <1>1, <2>1, <2>2 DEF TypeOK, Crons
  <2>4. RevisionsGrow'
    BY <1>1, <2>1, <2>2 DEF RevisionsGrow
  <2>5. article.latest <= article.latest
    OBVIOUS
  <2>6. QED
    BY <1>1, <2>1, <2>3, <2>4, <2>5, OutsideStep
<1>4. CASE SweepWritesArticle
  <2>1. /\ article'.version = article.version /\ article'.revid = article.revid
        /\ article'.latest = cron.rev /\ article'.pins = article.pins /\ article' \in Articles
    BY <1>4 DEF SweepWritesArticle, Articles, Crons
  <2>2. /\ cron'.pc = "state" /\ cron' \in Crons /\ cron'.outcome # "none"
        /\ UNCHANGED <<mod, fails, marked>>
    BY <1>4 DEF SweepWritesArticle, RevisionsGrow, Crons
  <2>3. cron.rev >= 1 /\ article.latest <= cron.rev /\ cron.rev <= page.rev /\ cron.rev \in Nat
    BY <1>4 DEF SweepWritesArticle, RevisionsGrow, Crons
  <2>4. TypeOK'
    BY <1>1, <2>1, <2>2 DEF TypeOK, Articles, Crons
  <2>5. RevisionsGrow'
    BY <1>1, <2>1, <2>2, <2>3 DEF RevisionsGrow
  <2>6. QED
    BY <1>1, <2>1, <2>2, <2>3, <2>4, <2>5, OutsideStep
<1>5. QED
  BY <1>2, <1>3, <1>4 DEF Sweep

\* A person's save, or a revert: a new version, which no run has read.
LEMMA PersonStep == ASSUME DriftInv, Edit \/ Revert PROVE DriftInv'
<1> USE Types DEF DriftInv
<1>1. /\ article'.version = article.version + 1 /\ article'.latest = article.latest
      /\ article'.pins = article.pins /\ article'.revid \in article.pins
      /\ article' \in Articles /\ lastEdit' = article.version + 1
      /\ UNCHANGED <<page, mod, cron, run, fails, read, marked>>
  <2>1. CASE Edit
    BY <2>1 DEF Edit, Articles
  <2>2. CASE Revert
    <3>1. PICK pin \in article.pins :
            article' = [article EXCEPT !.version = @ + 1, !.revid = pin]
      BY <2>2 DEF Revert
    <3>2. pin \in Nat /\ article.version + 1 \in Nat
      BY <3>1
    <3>3. [article EXCEPT !.version = article.version + 1, !.revid = pin] \in Articles
      BY <3>2 DEF Articles
    <3>4. /\ article'.version = article.version + 1 /\ article'.latest = article.latest
          /\ article'.pins = article.pins /\ article'.revid = pin
      BY <3>1 DEF Articles
    <3>5. QED
      BY <2>2, <3>1, <3>3, <3>4 DEF Revert
  <2>3. QED
    BY <2>1, <2>2
<1>2. TypeOK'
  BY <1>1 DEF TypeOK, Articles
<1>3. RevisionsGrow'
  BY <1>1 DEF RevisionsGrow
<1>4. RunsRead'
  <2>1. ASSUME NEW r \in Runs, run[r].pc \in {"read", "posted"}
        PROVE  Reads(run[r])'
    <3>1. Reads(run[r]) /\ run[r].base \in Nat
      BY <2>1 DEF RunsRead, RunStates
    <3>2. run[r].base <= article'.version /\ run[r].base # article'.version
      BY <1>1, <3>1 DEF Reads
    <3>3. QED
      BY <1>1, <3>1, <3>2 DEF Reads
  <2>2. ASSUME NEW r \in Runs, run[r].pc = "posted"
        PROVE  Posts(run[r])'
    <3>1. Reads(run[r]) /\ Posts(run[r]) /\ run[r].base \in Nat
      BY <2>2 DEF RunsRead, RunStates
    <3>2. QED
      BY <1>1, <3>1 DEF Reads, Posts
  <2>3. QED
    BY <1>1, <2>1, <2>2 DEF RunsRead
<1>5. QED
  BY <1>1, <1>2, <1>3, <1>4 DEF EditsAreVersions, ReviewsReadTheEdits

\* A run moves on; the article, the stamp and the edits stay as they are.
LEMMA RunStep ==
  ASSUME DriftInv, NEW r \in Runs, NEW q \in RunStates, run' = [run EXCEPT ![r] = q],
         UNCHANGED <<page, article, mod, cron, fails, lastEdit, marked>>,
         read' \in Nat, read <= read',
         q.pc \in {"read", "posted"} => Reads(q)', q.pc = "posted" => Posts(q)'
  PROVE  DriftInv'
<1> USE Types DEF DriftInv
<1>1. run'[r] = q /\ \A n \in Runs \ {r} : run'[n] = run[n]
  OBVIOUS
<1>2. TypeOK'
  BY TypesBack DEF TypeOK, RunStates
<1>3. RevisionsGrow' /\ EditsAreVersions' /\ ReviewsReadTheEdits'
  BY DEF RevisionsGrow, EditsAreVersions, ReviewsReadTheEdits
<1>4. ASSUME NEW n \in Runs \ {r}, run[n].pc \in {"read", "posted"}
      PROVE  Reads(run[n])' /\ (run[n].pc = "posted" => Posts(run[n])')
  <2>1. run[n].base \in Nat
    BY DEF RunStates
  <2>2. Reads(run[n]) /\ (run[n].pc = "posted" => Posts(run[n]))
    BY <1>4 DEF RunsRead
  <2>3. QED
    BY <1>1, <2>1, <2>2 DEF Reads, Posts
<1>5. RunsRead'
  BY <1>1, <1>4 DEF RunsRead, Reads, Posts
<1>6. QED
  BY <1>2, <1>3, <1>5

LEMMA QueueStep ==
  ASSUME DriftInv, NEW r \in Runs, (\E job \in Jobs : TakeJob(r, job)) \/ GiveUp(r)
  PROVE  DriftInv'
<1> USE Types DEF DriftInv
<1>1. PICK q \in RunStates : run' = [run EXCEPT ![r] = q] /\ q.pc \in {"idle", "queued"}
  <2>1. CASE GiveUp(r)
    BY <2>1, IdleTypes DEF GiveUp, Idles
  <2>2. CASE \E job \in Jobs : TakeJob(r, job)
    <3>1. PICK job \in Jobs : TakeJob(r, job)
      BY <2>2
    <3>2. [IdleRun EXCEPT !.pc = "queued", !.job = job] \in RunStates
      BY IdleTypes DEF RunStates
    <3>3. [IdleRun EXCEPT !.pc = "queued", !.job = job].pc = "queued"
      BY IdleTypes DEF RunStates
    <3>4. QED
      BY <3>1, <3>2, <3>3 DEF TakeJob
  <2>3. QED
    BY <2>1, <2>2
<1>2. UNCHANGED <<page, article, mod, cron, fails, lastEdit, read, marked>>
  BY DEF TakeJob, GiveUp
<1>3. read' \in Nat /\ read <= read'
  BY <1>2
<1>4. QED
  BY <1>1, <1>2, <1>3, RunStep

\* Stage 0 goes on when latest differs from the pin: then it is the newer one.
LEMMA ReadStep == ASSUME DriftInv, NEW r \in Runs, ReadArticle(r) PROVE DriftInv'
<1> USE Types DEF DriftInv
<1>1. UNCHANGED <<page, article, mod, cron, fails, lastEdit, marked>>
  BY DEF ReadArticle
<1>2. read' \in Nat /\ read <= read' /\ article.version <= read'
  BY DEF ReadArticle
<1>3. CASE Idles(r)
  BY <1>1, <1>2, <1>3, IdleTypes, RunStep DEF Idles
<1>4. CASE ~Idles(r)
  <2>1. PICK q : q = [run[r] EXCEPT !.pc = "read", !.base = article.version,
                        !.target = IF run[r].job = "review" THEN Unknown ELSE article.latest]
    OBVIOUS
  <2>2. /\ run' = [run EXCEPT ![r] = q]
        /\ q \in RunStates /\ q.pc = "read" /\ q.base = article.version
    <3>1. run' = [run EXCEPT ![r] = q]
      BY <1>4, <2>1 DEF ReadArticle
    <3>2. q \in RunStates /\ q.pc = "read" /\ q.base = article.version
      BY <2>1 DEF RunStates, Unknown
    <3>3. QED
      BY <3>1, <3>2
  <2>3. q.job = "wp-update" => q.target = article.latest /\ q.target # 0 /\ q.target # article.revid
    BY <1>4, <2>1 DEF ReadArticle, RunStates, Unknown
  <2>4. q.target \in Nat
    BY <2>2 DEF RunStates
  <2>5. article.revid <= 1 \/ article.revid <= article.latest
    BY DEF RevisionsGrow
  <2>6. Reads(q)'
    BY <1>1, <1>2, <2>2, <2>3, <2>4, <2>5 DEF Reads
  <2>7. QED
    BY <1>1, <1>2, <2>2, <2>6, RunStep
<1>5. QED
  BY <1>3, <1>4

\* A refused save starts over or ends.
LEMMA RefusedRun ==
  ASSUME NEW r \in Runs, Refuse(r)
  PROVE  \E q \in RunStates : run' = [run EXCEPT ![r] = q] /\ q.pc \in {"idle", "queued"}
<1>1. CASE Idles(r)
  BY <1>1, IdleTypes DEF Idles
<1>2. CASE run' = [run EXCEPT ![r] = [IdleRun EXCEPT !.pc = "queued", !.rebased = TRUE]]
  <2>1. [IdleRun EXCEPT !.pc = "queued", !.rebased = TRUE] \in RunStates
    BY IdleTypes DEF RunStates
  <2>2. [IdleRun EXCEPT !.pc = "queued", !.rebased = TRUE].pc = "queued"
    BY IdleTypes DEF RunStates
  <2>3. QED
    BY <1>2, <2>1, <2>2
<1>3. QED
  BY <1>1, <1>2 DEF Refuse

LEMMA PostStep == ASSUME DriftInv, NEW r \in Runs, Post(r) PROVE DriftInv'
<1> USE Types DEF DriftInv
<1>1. UNCHANGED <<page, article, mod, cron, fails, lastEdit, read, marked>>
  BY DEF Post
<1>2. read' \in Nat /\ read <= read'
  BY <1>1
<1>3. CASE Refuse(r)
  BY <1>1, <1>2, <1>3, RefusedRun, RunStep
<1>4. CASE ~Refuse(r)
  <2>0. PICK q : q = [run[r] EXCEPT !.pc = "posted",
                        !.row = [version |-> article.version, revid |-> article.revid,
                                 latest |-> article.latest]]
    OBVIOUS
  <2>1. run' = [run EXCEPT ![r] = q] /\ article.version = run[r].base /\ run[r].pc = "read"
    BY <1>4, <2>0 DEF Post, SameVersion
  <2>2. /\ q \in RunStates /\ q.base = run[r].base /\ q.job = run[r].job
        /\ q.target = run[r].target
    BY <2>0 DEF RunStates
  <2>3. Reads(run[r])
    BY <2>1 DEF RunsRead
  <2>4. q.row.version = article.version /\ q.row.revid = article.revid
    BY <2>0 DEF RunStates
  <2>5. Reads(q)'
    BY <1>1, <2>2, <2>3 DEF Reads
  <2>6. Posts(q)'
    BY <1>1, <2>1, <2>2, <2>4 DEF Posts
  <2>7. QED
    BY <1>1, <1>2, <2>1, <2>2, <2>5, <2>6, RunStep
<1>5. QED
  BY <1>3, <1>4

\* What the guarded batch meets when the version is still the one that was read.
LEMMA PostedRun ==
  ASSUME DriftInv, NEW r \in Runs, run[r].pc = "posted",
         SameVersion(article.version, run[r].row.version)
  PROVE  /\ run[r].row.version = article.version /\ run[r].base = article.version
         /\ run[r].row.revid = article.revid
         /\ lastEdit <= read /\ article.version <= read
         /\ Pin(r) \in Nat /\ Pin(r) >= article.revid
         /\ Pin(r) \in article.pins \/ Pin(r) <= article.latest
<1> USE Types DEF DriftInv
<1>1. Reads(run[r]) /\ Posts(run[r]) /\ run[r] \in RunStates
  BY DEF RunsRead
<1>2. /\ run[r].row.version = article.version /\ run[r].base = article.version
      /\ run[r].row.revid = article.revid
  BY <1>1 DEF Posts, SameVersion
<1>3. lastEdit <= read /\ article.version <= read
  BY <1>1, <1>2 DEF Reads, EditsAreVersions
<1>4. CASE run[r].job = "review"
  BY <1>2, <1>3, <1>4 DEF Pin
<1>5. CASE run[r].job # "review"
  <2>1. run[r].job = "wp-update" /\ Pin(r) = run[r].target /\ run[r].target \in Nat
    BY <1>1, <1>5 DEF Pin, RunStates, Jobs
  <2>2. QED
    BY <1>1, <1>2, <1>3, <2>1 DEF Reads
<1>6. QED
  BY <1>4, <1>5

\* The run after the guarded batch ran: done, or about to post again.
LEMMA AnsweredRun ==
  ASSUME DriftInv, NEW r \in Runs, Answered(r)
  PROVE  \E q \in RunStates :
           /\ run' = [run EXCEPT ![r] = q] /\ q.pc \in {"idle", "read"}
           /\ q.pc = "read" => q.base = run[r].base /\ q.job = run[r].job /\ q.target = run[r].target
<1>1. run[r] \in RunStates
  BY Types DEF DriftInv
<1>2. CASE Idles(r)
  BY <1>2, IdleTypes DEF Idles
<1>3. CASE run' = [run EXCEPT ![r].pc = "read", ![r].row = IdleRun.row]
  <2> DEFINE q == [run[r] EXCEPT !.pc = "read", !.row = IdleRun.row]
  <2>1. run' = [run EXCEPT ![r] = q]
    BY <1>3
  <2>2. q \in RunStates /\ q.pc = "read" /\ q.base = run[r].base /\ q.job = run[r].job /\ q.target = run[r].target
    BY <1>1 DEF RunStates, IdleRun
  <2>3. QED
    BY <2>1, <2>2
<1>4. QED
  BY <1>2, <1>3 DEF Answered

LEMMA CommitStep ==
  ASSUME DriftInv, NEW r \in Runs, NEW changes \in BOOLEAN, Commit(r, changes)
  PROVE  DriftInv'
<1> USE Types DEF DriftInv
<1>1. run[r].pc = "posted" /\ UNCHANGED <<page, cron, fails, lastEdit, read, marked>>
  BY DEF Commit
<1>2. read' \in Nat /\ read <= read'
  BY <1>1
<1>3. CASE Refuse(r) /\ UNCHANGED <<article, mod>>
  BY <1>1, <1>2, <1>3, RefusedRun, RunStep
<1>4. CASE ~(Refuse(r) /\ UNCHANGED <<article, mod>>)
  <2> DEFINE row == run[r].row
             noop == ~changes /\ Pin(r) = row.revid
  <2>1. SameVersion(article.version, row.version) /\ Answered(r)
    BY <1>4 DEF Commit
  <2>2. /\ row.version = article.version /\ run[r].base = article.version
        /\ lastEdit <= read /\ article.version <= read
        /\ Pin(r) \in Nat /\ Pin(r) >= article.revid
        /\ Pin(r) \in article.pins \/ Pin(r) <= article.latest
    BY <1>1, <2>1, PostedRun
  <2>3. PICK q \in RunStates :
           /\ run' = [run EXCEPT ![r] = q] /\ q.pc \in {"idle", "read"}
           /\ q.pc = "read" => q.base = run[r].base /\ q.job = run[r].job /\ q.target = run[r].target
    BY <2>1, AnsweredRun
  <2>4. Reads(run[r])
    BY <1>1 DEF RunsRead
  <2>5. CASE noop /\ mod' = [mod EXCEPT !.reviewed = Stamp(row, noop)] /\ UNCHANGED article
    <3>1. mod' \in Mods /\ mod'.reviewed = article.version
      BY <2>2, <2>5 DEF Stamp, Mods
    <3>2. run'[r] = q /\ \A n \in Runs \ {r} : run'[n] = run[n]
      BY <2>3
    <3>3. TypeOK'
      <4>1. run' \in [Runs -> RunStates]
        BY <2>3
      <4>2. mod'.reviewed <= article'.version
        BY <2>5, <3>1
      <4>3. QED
        BY <1>1, <2>5, <3>1, <4>1, <4>2 DEF TypeOK, Mods, RunStates
    <3>4. RevisionsGrow' /\ EditsAreVersions'
      BY <1>1, <2>5 DEF RevisionsGrow, EditsAreVersions
    <3>5. ReviewsReadTheEdits'
      BY <1>1, <2>2 DEF ReviewsReadTheEdits
    <3>6. RunsRead'
      <4>1. q.pc = "read" => Reads(q)'
        BY <1>1, <2>3, <2>4, <2>5 DEF Reads
      <4>2. ASSUME NEW n \in Runs \ {r}
            PROVE  /\ run[n].pc \in {"read", "posted"} => Reads(run[n])'
                   /\ run[n].pc = "posted" => Posts(run[n])'
        BY <1>1, <2>5, <3>2 DEF RunsRead, Reads, Posts
      <4>3. QED
        BY <2>3, <3>2, <4>1, <4>2 DEF RunsRead, Reads, Posts
    <3>7. QED
      BY <3>3, <3>4, <3>5, <3>6
  <2>6. CASE /\ article' = [article EXCEPT !.version = row.version + 1,
                              !.revid = Pin(r), !.pins = @ \cup {Pin(r)}]
             /\ mod' = [mod EXCEPT !.reviewed = Stamp(row, noop),
                          !.drifted = @ /\ StillDrifted(row, Pin(r))]
             /\ ~noop
    <3>1. /\ article'.version = article.version + 1 /\ article'.revid = Pin(r)
          /\ article'.latest = article.latest /\ article'.pins = article.pins \cup {Pin(r)}
          /\ article' \in Articles
      <4>1. PICK s \in SUBSET Nat : s = article.pins \cup {Pin(r)}
        BY <2>2
      <4>2. article' = [article EXCEPT !.version = article.version + 1, !.revid = Pin(r), !.pins = s]
        BY <2>2, <2>6, <4>1
      <4>3. article \in Articles /\ article.version + 1 \in Nat /\ Pin(r) \in Nat
        BY <2>2
      <4>4. /\ article' \in Articles /\ article'.version = article.version + 1
            /\ article'.revid = Pin(r) /\ article'.pins = s /\ article'.latest = article.latest
        BY <4>1, <4>2, <4>3 DEF Articles
      <4>5. QED
        BY <4>1, <4>4
    <3>2. mod'.reviewed = article.version + 1 /\ mod' \in Mods
      <4>2. Stamp(row, noop) = article.version + 1
        BY <2>2, <2>6 DEF Stamp
      <4>3. PICK d \in BOOLEAN : d = (mod.drifted /\ StillDrifted(row, Pin(r)))
        BY Zenon
      <4>4. mod' = [mod EXCEPT !.reviewed = article.version + 1, !.drifted = d]
        BY <2>6, <4>2, <4>3
      <4>5. mod \in Mods /\ article.version + 1 \in Nat
        OBVIOUS
      <4>6. QED
        BY <4>3, <4>4, <4>5 DEF Mods
    <3>3. run'[r] = q /\ \A n \in Runs \ {r} : run'[n] = run[n]
      BY <2>3
    <3>4. TypeOK'
      <4>1. run' \in [Runs -> RunStates]
        BY <2>3
      <4>2. mod'.reviewed <= article'.version /\ article'.revid \in article'.pins
        BY <3>1, <3>2
      <4>3. QED
        BY <1>1, <3>1, <3>2, <4>1, <4>2 DEF TypeOK, Mods, Articles, RunStates
    <3>5. RevisionsGrow'
      BY <1>1, <2>2, <3>1 DEF RevisionsGrow
    <3>6. EditsAreVersions' /\ ReviewsReadTheEdits'
      BY <1>1, <2>2, <3>1 DEF EditsAreVersions, ReviewsReadTheEdits
    <3>7. RunsRead'
      <4>1. ASSUME NEW n \in RunStates, Reads(n)
            PROVE  Reads(n)' /\ n.base # article'.version
        BY <1>1, <3>1, <4>1 DEF Reads, RunStates
      <4>2. q.pc = "read" => Reads(q)'
        BY <2>3, <2>4, <4>1 DEF Reads
      <4>3. ASSUME NEW n \in Runs \ {r}
            PROVE  /\ run[n].pc \in {"read", "posted"} => Reads(run[n])'
                   /\ run[n].pc = "posted" => Posts(run[n])'
        BY <3>3, <4>1 DEF RunsRead, Posts
      <4>4. QED
        BY <2>3, <3>3, <4>2, <4>3 DEF RunsRead, Reads, Posts
    <3>8. QED
      BY <3>4, <3>5, <3>6, <3>7
  <2>7. QED
    BY <1>4, <2>5, <2>6 DEF Commit
<1>5. QED
  BY <1>3, <1>4

LEMMA DriftStep == ASSUME DriftInv, [Next]_vars PROVE DriftInv'
<1>1. CASE UNCHANGED vars
  BY <1>1 DEF vars, DriftInv, TypeOK, RevisionsGrow, RunsRead, Reads, Posts,
              EditsAreVersions, ReviewsReadTheEdits
<1>2. CASE Upstream
  BY <1>2, UpstreamStep
<1>3. CASE Sweep \/ SweepDies \/ MarkNeedsHuman
  BY <1>3, CronStep
<1>4. CASE Edit \/ Revert
  BY <1>4, PersonStep
<1>5. ASSUME NEW r \in Runs,
             (\E job \in Jobs : TakeJob(r, job)) \/ ReadArticle(r) \/ GiveUp(r) \/ Post(r)
      PROVE  DriftInv'
  BY <1>5, QueueStep, ReadStep, PostStep
<1>6. ASSUME NEW r \in Runs, NEW changes \in BOOLEAN, Commit(r, changes)
      PROVE  DriftInv'
  BY <1>6, CommitStep
<1>7. QED
  BY <1>1, <1>2, <1>3, <1>4, <1>5, <1>6 DEF Next

LEMMA DriftAlways == Spec => []DriftInv
<1>1. Init => DriftInv
  BY DriftInit
<1>2. DriftInv /\ [Next]_vars => DriftInv'
  BY DriftStep
<1>3. QED
  BY <1>1, <1>2, PTL DEF Spec

-----------------------------------------------------------------------------
(* The theorems.                                                           *)

\* The article, its moderation row, the sweep and the runs keep their types.
THEOREM TypeCorrect == Spec => []TypeOK
<1>1. DriftInv => TypeOK
  BY DEF DriftInv
<1>2. QED
  BY <1>1, DriftAlways, PTL

\* With any number of runs, no save stamps a review over an edit that no run had
\* read: the human-edited tier of the queue loses no edit.
THEOREM ReviewsReadEdits == Spec => []ReviewsReadTheEdits
<1>1. DriftInv => ReviewsReadTheEdits
  BY DEF DriftInv
<1>2. QED
  BY <1>1, DriftAlways, PTL

\* A save of a run is its guarded batch or nothing: the pin does not move back.
LEMMA SavesAdvance ==
  ASSUME DriftInv, [Next]_vars, NEW r \in Runs, run[r].pc = "posted", run'[r].pc # "posted"
  PROVE  article'.revid >= article.revid
<1> USE Types DEF DriftInv
<1>1. CASE UNCHANGED article
  BY <1>1
<1>2. CASE ~UNCHANGED article
  <2>1. PICK n \in Runs : \E changes \in BOOLEAN : Commit(n, changes)
    BY <1>2 DEF Next, vars, Upstream, Edit, Revert, MarkNeedsHuman, Sweep, SweepReads, SweepAsks,
                SweepWritesArticle, SweepWritesState, SweepDies, TakeJob, ReadArticle, GiveUp, Post
  <2>2. PICK changes \in BOOLEAN : Commit(n, changes)
    BY <2>1
  <2>3. /\ SameVersion(article.version, run[n].row.version) /\ run[n].pc = "posted"
        /\ article'.revid = Pin(n)
    BY <1>2, <2>2 DEF Commit, Articles
  <2>4. QED
    BY <2>3, PostedRun
<1>3. QED
  BY <1>1, <1>2

\* Whatever the cron, reverts and other runs do between a run's read and its save,
\* the save leaves the article at the pin it shows or at a newer one.
THEOREM PinsAdvance == Spec => PinsOnlyAdvance
<1> DEFINE A == \A r \in Runs : (run[r].pc = "posted" /\ run'[r].pc # "posted")
                                  => article'.revid >= article.revid
<1>1. DriftInv /\ [Next]_vars => [A]_vars
  BY SavesAdvance
<1>2. QED
  BY <1>1, DriftAlways, PTL DEF Spec, PinsOnlyAdvance

-----------------------------------------------------------------------------
(* ReviewClient.                                                           *)

Carrying == {"post", "rebase", "answered"}

\* The bodies that were posted or may be.
UnderWay ==
  late \cup {b \in {checkpoint} : checkpoint # NoBody}
       \cup {b \in {client.body} : client.pc \in Carrying}

Fits(b) ==
  /\ b.base <= stored.version
  /\ b.base = stored.version => b.anns = Finalize(stored.anns, b.anns)

BodiesFit == \A b \in UnderWay : b.work \in 1..works /\ Fits(b)

\* All bodies of a work that nobody overtook say the same.
OneText ==
  \A b, c \in UnderWay : (b.work = c.work /\ b.work \notin overtaken) => b.anns = c.anns

\* Before such a work is saved the article is the one it was made for, and
\* afterwards the article is what it says.
OwnVersion ==
  \A b \in UnderWay :
    b.work \notin overtaken =>
      IF made[b.work] = 0 THEN b.base = stored.version ELSE b.anns = stored.anns

NotMadeYet == \A w \in 1..MaxWorks : w > works => made[w] = 0

BodiesInv == BodiesFit /\ OneText /\ OwnVersion /\ NotMadeYet /\ AppliedOnce

\* What the run knows: the agents have the article as it was read, the work
\* being posted is in the checkpoint, and an answer is on record.
ClientKnows ==
  /\ client.pc = "agents" =>
       /\ works < MaxWorks /\ 0 < client.body.base /\ client.body.base <= stored.version
       /\ client.body.base = stored.version => client.body.anns = stored.anns
  /\ client.pc \in Carrying => client.body.work = checkpoint.work
  /\ client.pc = "answered" =>
       /\ client.code = "ok" => client.body.work \in saved
       /\ client.code \in {"stale", "lost"} => client.body.work \in refused
  /\ client.code # "lost"

ClientInv ==
  ClientTypeOK /\ stored.version > 0 /\ BodiesInv /\ ClientKnows

-----------------------------------------------------------------------------
(* Lemmas about finalising.                                                *)

LEMMA FinalizeType ==
  ASSUME NEW A \in Contents, NEW P \in Contents
  PROVE  Finalize(A, P) \in Contents
<1>1. ASSUME NEW s \in Statements
      PROVE  /\ A[s] \in Items /\ P[s] \in Items /\ Absent \in Items
             /\ By("agent", P[s].text) \in Items
  <2>1. 0 \in 0..Rejected
    BY ClientAssumption DEF Rejected, ClientAssumption
  <2>2. A[s] \in Items /\ P[s] \in Items
    BY DEF Contents
  <2>3. QED
    BY <2>1, <2>2 DEF Items, By, Absent
<1>2. QED
  BY <1>1 DEF Finalize, Contents

\* Finalising a second time for the same article changes nothing.
LEMMA FinalizeTwice ==
  ASSUME NEW A, NEW P
  PROVE  Finalize(A, Finalize(A, P)) = Finalize(A, P)
<1> DEFINE F == Finalize(A, P)
<1>1. ASSUME NEW s \in Statements, ~Person(A[s]) PROVE ~Person(F[s])
  BY <1>1 DEF Finalize, Person, By, Absent
<1>2. ASSUME NEW s \in Statements
      PROVE  (IF Person(A[s]) THEN A[s]
              ELSE IF NearAVeto(A, s) THEN Absent
              ELSE IF Person(F[s]) THEN By("agent", F[s].text)
              ELSE F[s]) = F[s]
  <2>1. Person(A[s]) => F[s] = A[s]
    BY DEF Finalize
  <2>2. ~Person(A[s]) /\ NearAVeto(A, s) => F[s] = Absent
    BY DEF Finalize
  <2>3. QED
    BY <1>1, <2>1, <2>2
<1>3. QED
  BY <1>2 DEF Finalize

\* What an article has is finalised for it.
LEMMA FinalizeSelf ==
  ASSUME NEW A \in Contents
  PROVE  Finalize(A, A) = A
<1>1. ASSUME NEW s \in Statements
      PROVE  (IF Person(A[s]) THEN A[s]
              ELSE IF NearAVeto(A, s) THEN Absent
              ELSE IF Person(A[s]) THEN By("agent", A[s].text)
              ELSE A[s]) = A[s]
  BY DEF NearAVeto
<1>2. QED
  BY <1>1 DEF Finalize, Contents

\* A body finalised for the article has what people wrote, and nothing new near
\* a veto.
LEMMA FittingBody ==
  ASSUME NEW b, b.anns = Finalize(stored.anns, b.anns)
  PROVE  /\ ~LosesAPerson(b)
         /\ \A s \in Statements : NearAVeto(stored.anns, s) => b.anns[s] = Absent
<1>1. \A s \in Statements : Person(stored.anns[s]) => b.anns[s] = stored.anns[s]
  BY DEF Finalize
<1>2. \A s \in Statements : NearAVeto(stored.anns, s) => ~Person(stored.anns[s])
  BY DEF NearAVeto, Person, Absent, By
<1>3. \A s \in Statements : NearAVeto(stored.anns, s) => b.anns[s] = Absent
  BY <1>2 DEF Finalize
<1>4. QED
  BY <1>1, <1>3 DEF LosesAPerson

-----------------------------------------------------------------------------
(* Lemmas about the bodies under way.                                      *)

LEMMA UnderWayTypes ==
  ASSUME ClientTypeOK
  PROVE  /\ UnderWay \subseteq Bodies
         /\ stored.version \in Nat /\ stored.anns \in Contents
         /\ client.body \in Bodies /\ works \in Nat /\ works <= MaxWorks
BY ClientAssumption DEF ClientTypeOK, UnderWay, Works, ClientAssumption

LEMMA RebasedType ==
  ASSUME ClientTypeOK, NEW b \in Bodies
  PROVE  /\ Rebased(b) \in Bodies /\ Rebased(b).work = b.work
         /\ Rebased(b).base = stored.version
         /\ Rebased(b).anns = Finalize(stored.anns, b.anns)
BY UnderWayTypes, FinalizeType DEF Rebased, Bodies

\* A run that posts, rebases or drops what it has keeps what is known of it.
LEMMA CarriedOn ==
  ASSUME ClientInv, UNCHANGED <<stored, works, made, overtaken>>,
         \A b \in UnderWay' : b \in UnderWay \/ \E c \in UnderWay : b = Rebased(c)
  PROVE  BodiesInv'
<1>1. ASSUME NEW c \in UnderWay
      PROVE  /\ Rebased(c).work = c.work /\ Rebased(c).work \in 1..works
             /\ Rebased(c).base = stored.version
             /\ Rebased(c).anns = Finalize(stored.anns, Rebased(c).anns)
             /\ c.work \notin overtaken => Rebased(c).anns = c.anns
  <2>1. /\ c \in Bodies /\ Rebased(c).work = c.work /\ Rebased(c).base = stored.version
        /\ Rebased(c).anns = Finalize(stored.anns, c.anns)
    BY UnderWayTypes, RebasedType DEF ClientInv
  <2>2. Finalize(stored.anns, Rebased(c).anns) = Rebased(c).anns
    BY <2>1, FinalizeTwice
  <2>3. c.work \notin overtaken => Finalize(stored.anns, c.anns) = c.anns
    <3>1. CASE made[c.work] = 0
      BY <3>1 DEF ClientInv, BodiesInv, BodiesFit, Fits, OwnVersion
    <3>2. CASE made[c.work] # 0
      BY <3>2, UnderWayTypes, FinalizeSelf DEF ClientInv, BodiesInv, OwnVersion
    <3>3. QED
      BY <3>1, <3>2
  <2>4. c.work \in 1..works
    BY DEF ClientInv, BodiesInv, BodiesFit
  <2>5. QED
    BY <2>1, <2>2, <2>3, <2>4
<1>2. ASSUME NEW b \in UnderWay'
      PROVE  /\ b.work \in 1..works /\ Fits(b)
             /\ \E c \in UnderWay : b.work = c.work
                  /\ (b.work \notin overtaken => b.anns = c.anns /\ (b.base = c.base \/ b.base = stored.version))
  <2>1. CASE b \in UnderWay
    BY <2>1 DEF ClientInv, BodiesInv, BodiesFit
  <2>2. ASSUME NEW c \in UnderWay, b = Rebased(c)
        PROVE  Fits(b) /\ b.work \in 1..works /\ b.work = c.work
               /\ b.base = stored.version /\ (b.work \notin overtaken => b.anns = c.anns)
    <3>1. stored.version \in Nat
      BY UnderWayTypes DEF ClientInv
    <3>2. QED
      BY <1>1, <2>2, <3>1 DEF Fits
  <2>3. QED
    BY <1>2, <2>1, <2>2
<1>3. BodiesFit'
  BY <1>2 DEF BodiesFit, Fits
<1>4. OneText'
  BY <1>2 DEF OneText, ClientInv, BodiesInv
<1>5. OwnVersion'
  BY <1>2 DEF OwnVersion, ClientInv, BodiesInv
<1>6. NotMadeYet' /\ AppliedOnce'
  BY DEF NotMadeYet, AppliedOnce, ClientInv, BodiesInv
<1>7. QED
  BY <1>3, <1>4, <1>5, <1>6 DEF BodiesInv

\* A person's save overtakes every work.
LEMMA Overtaken ==
  ASSUME ClientInv, UNCHANGED <<works, made>>, UnderWay' = UnderWay,
         stored'.version = stored.version + 1, overtaken' = 1..works
  PROVE  BodiesInv'
<1>1. \A b \in UnderWay : b.base \in Nat /\ b.base <= stored.version /\ b.work \in 1..works
  BY UnderWayTypes DEF ClientInv, BodiesInv, BodiesFit, Fits, Bodies
<1>2. stored.version \in Nat
  BY UnderWayTypes DEF ClientInv
<1>3. BodiesFit'
  BY <1>1, <1>2 DEF BodiesFit, Fits
<1>4. OneText' /\ OwnVersion' /\ NotMadeYet' /\ AppliedOnce'
  BY <1>1 DEF OneText, OwnVersion, NotMadeYet, AppliedOnce, ClientInv, BodiesInv
<1>5. QED
  BY <1>3, <1>4 DEF BodiesInv

\* What the Worker does with a body under way.
LEMMA Answer ==
  ASSUME ClientInv, NEW b \in UnderWay
  PROVE  /\ AnswerTo(b) \in {"ok", "stale", "barred"}
         /\ AnswerTo(b) = "ok" => b.anns = Finalize(stored.anns, b.anns)
<1>1. b.base = stored.version => b.anns = Finalize(stored.anns, b.anns)
  BY DEF ClientInv, BodiesInv, BodiesFit, Fits
<1>2. b.base = stored.version => ~LosesAPerson(b)
  BY <1>1, FittingBody
<1>3. QED
  BY <1>1, <1>2 DEF AnswerTo, Accepted

LEMMA Handled ==
  ASSUME ClientInv, NEW b \in UnderWay, Handle(b), works' = works, UnderWay' \subseteq UnderWay
  PROVE  BodiesInv'
<1> DEFINE newer == AnswerTo(b) = "ok" /\ ~TheSame(b.anns, stored.anns)
<1>1. /\ stored' = IF newer THEN [version |-> stored.version + 1, anns |-> b.anns] ELSE stored
      /\ made' = IF newer THEN [made EXCEPT ![b.work] = @ + 1] ELSE made
      /\ overtaken' = IF newer THEN overtaken \cup ((1..works) \ {b.work}) ELSE overtaken
  BY DEF Handle
<1>2. CASE ~newer
  <2>1. UNCHANGED <<stored, works, made, overtaken>>
    BY <1>1, <1>2
  <2>2. QED
    BY <2>1, CarriedOn
<1>3. CASE newer
  <2>1. /\ stored'.version = stored.version + 1 /\ stored'.anns = b.anns
        /\ made' = [made EXCEPT ![b.work] = @ + 1]
        /\ overtaken' = overtaken \cup ((1..works) \ {b.work})
    BY <1>1, <1>3
  <2>2. /\ b.work \in 1..works /\ b.work \in 1..MaxWorks /\ stored.version \in Nat
        /\ made \in [1..MaxWorks -> Nat] /\ works \in Nat /\ works <= MaxWorks
    BY UnderWayTypes, ClientAssumption
       DEF ClientInv, ClientTypeOK, BodiesInv, BodiesFit, ClientAssumption
  <2>3. made'[b.work] = made[b.work] + 1 /\ made[b.work] \in Nat
    BY <2>1, <2>2
  <2>4. \A w \in 1..MaxWorks : w # b.work => made'[w] = made[w]
    BY <2>1, <2>2
  <2>5. b.work \notin overtaken => made[b.work] = 0
    BY <1>3 DEF TheSame, ClientInv, BodiesInv, OwnVersion
  <2>6. ASSUME NEW c \in UnderWay
        PROVE  /\ c.work \in 1..works /\ c.base \in Nat /\ c.base < stored'.version
               /\ c.work \notin overtaken' => c.work = b.work /\ c.anns = b.anns
    <3>1. c.base \in Nat /\ c.base <= stored.version /\ c.work \in 1..works
      BY UnderWayTypes DEF ClientInv, BodiesInv, BodiesFit, Fits, Bodies
    <3>2. c.work \notin overtaken' => c.work = b.work /\ c.work \notin overtaken
      BY <2>1, <3>1
    <3>3. QED
      BY <2>1, <2>2, <3>1, <3>2 DEF ClientInv, BodiesInv, OneText
  <2>7. BodiesFit'
    BY <2>1, <2>2, <2>6 DEF BodiesFit, Fits
  <2>8. OneText'
    BY <2>6 DEF OneText
  <2>9. OwnVersion'
    BY <2>1, <2>3, <2>6 DEF OwnVersion
  <2>10. NotMadeYet'
    BY <2>2, <2>4 DEF NotMadeYet, ClientInv, BodiesInv
  <2>11. AppliedOnce'
    <3>1. ASSUME NEW w \in 1..works, made'[w] > 1 PROVE w \in overtaken'
      <4>1. CASE w = b.work
        BY <2>1, <2>3, <2>5, <3>1, <4>1
      <4>2. CASE w # b.work
        BY <2>1, <4>2
      <4>3. QED
        BY <4>1, <4>2
    <3>2. QED
      BY <3>1 DEF AppliedOnce
  <2>12. QED
    BY <2>7, <2>8, <2>9, <2>10, <2>11 DEF BodiesInv
<1>4. QED
  BY <1>2, <1>3

-----------------------------------------------------------------------------
(* The steps.                                                              *)

Places == {"idle", "flush", "ready", "agents", "post", "rebase", "answered"}
Clients ==
  [pc : Places, mode : {"flush", "review"}, code : {"none", "ok", "stale", "lost", "barred", "transient"},
   body : Bodies, tries : 0..Backoffs, rebased : BOOLEAN]

\* The types of what a step of the client alone may change.
LEMMA ClientAlone ==
  ASSUME ClientInv, WorkerRests, works' = works, client' \in Clients,
         checkpoint' \in {NoBody, checkpoint}, late' \subseteq late \cup UnderWay,
         refused' \subseteq refused \cup {b.work : b \in UnderWay},
         faults' = faults \/ Fault,
         client'.pc \in {"agents"} \cup Carrying <=> client'.body # NoBody
  PROVE  ClientTypeOK' /\ stored'.version > 0
<1>1. checkpoint \in Bodies /\ NoBody \in Bodies
  <2>1. 0 \in Works
    BY ClientAssumption DEF Works, ClientAssumption
  <2>2. Absent \in Items
    BY ClientAssumption DEF Absent, By, Items, Rejected, ClientAssumption
  <2>3. QED
    BY <2>1, <2>2 DEF ClientInv, ClientTypeOK, NoBody, Bodies, Contents
<1>2. late' \subseteq Bodies
  BY UnderWayTypes DEF ClientInv, ClientTypeOK
<1>3. {b.work : b \in UnderWay} \subseteq 1..works
  BY DEF ClientInv, BodiesInv, BodiesFit
<1>4. faults' \in 0..MaxFaults
  BY ClientAssumption DEF Fault, ClientInv, ClientTypeOK, ClientAssumption
<1>5. QED
  BY <1>1, <1>2, <1>3, <1>4 DEF ClientInv, ClientTypeOK, WorkerRests, Clients, Places, Carrying

LEMMA ClientTypes ==
  ASSUME ClientInv
  PROVE  /\ client \in Clients /\ Idle \in Clients /\ Idle.body = NoBody /\ Idle.pc = "idle"
         /\ client.pc \in {"agents"} \cup Carrying <=> client.body # NoBody
         /\ \A b \in UnderWay : b # NoBody /\ b \in Bodies
         /\ NoBody \in Bodies /\ NoBody.work = 0
<1>1. client \in Clients /\ (client.pc \in {"agents"} \cup Carrying <=> client.body # NoBody)
  BY DEF ClientInv, ClientTypeOK, Clients, Places, Carrying
<1>2. NoBody \in Bodies /\ NoBody.work = 0
  <2>1. 0 \in Works
    BY ClientAssumption DEF Works, ClientAssumption
  <2>2. Absent \in Items
    BY ClientAssumption DEF Absent, By, Items, Rejected, ClientAssumption
  <2>3. QED
    BY <2>1, <2>2 DEF NoBody, Bodies, Contents
<1>3. \A b \in UnderWay : b # NoBody /\ b \in Bodies
  BY <1>2, UnderWayTypes DEF ClientInv, BodiesInv, BodiesFit
<1>4. Idle \in Clients
  BY <1>2, ClientAssumption DEF Idle, Clients, Places, ClientAssumption
<1>5. QED
  BY <1>1, <1>2, <1>3, <1>4 DEF Idle

LEMMA StartRunKeeps == ASSUME ClientInv, StartRun PROVE ClientInv'
<1>1. client' = [client EXCEPT !.pc = "flush"] /\ client.pc = "idle"
  BY DEF StartRun, Goes
<1>2. client' \in Clients /\ client'.pc = "flush" /\ client'.body = client.body /\ client'.code = client.code
  BY <1>1, ClientTypes DEF Clients, Places
<1>3. ClientTypeOK' /\ stored'.version > 0
  BY <1>1, <1>2, ClientTypes, ClientAlone DEF StartRun, Carrying
<1>4. UnderWay' = UnderWay
  BY <1>1, <1>2 DEF StartRun, UnderWay, Carrying
<1>5. BodiesInv'
  BY <1>4, CarriedOn DEF StartRun, WorkerRests
<1>6. ClientKnows'
  BY <1>2 DEF StartRun, WorkerRests, Carrying, ClientInv, ClientKnows
<1>7. QED
  BY <1>3, <1>5, <1>6 DEF ClientInv

LEMMA FlushKeeps == ASSUME ClientInv, Flush PROVE ClientInv'
<1>1. client.pc = "flush" /\ WorkerRests /\ UNCHANGED <<checkpoint, late, works, faults, refused>>
  BY DEF Flush
<1>2. CASE checkpoint = NoBody /\ Goes("ready")
  <2>1. /\ client' \in Clients /\ client'.pc = "ready" /\ client'.body = client.body
        /\ client'.code = client.code
    BY <1>2, ClientTypes DEF Goes, Clients, Places
  <2>2. ClientTypeOK' /\ stored'.version > 0
    BY <1>1, <2>1, ClientTypes, ClientAlone DEF Carrying
  <2>3. UnderWay' = UnderWay
    BY <1>1, <2>1 DEF UnderWay, Carrying
  <2>4. BodiesInv'
    BY <1>1, <2>3, CarriedOn DEF WorkerRests
  <2>5. ClientKnows'
    BY <1>1, <2>1 DEF WorkerRests, Carrying, ClientInv, ClientKnows
  <2>6. QED
    BY <2>2, <2>4, <2>5 DEF ClientInv
<1>3. CASE checkpoint # NoBody /\ client' = Posting("flush", Rebased(checkpoint))
  <2>1. checkpoint \in UnderWay
    BY <1>3 DEF UnderWay
  <2>2. checkpoint \in Bodies /\ checkpoint.work \in 1..works
    BY <2>1, ClientTypes DEF ClientInv, BodiesInv, BodiesFit
  <2>3. Rebased(checkpoint) \in Bodies /\ Rebased(checkpoint).work = checkpoint.work
    BY <2>2, RebasedType DEF ClientInv
  <2>4. /\ client' \in Clients /\ client'.pc = "post" /\ client'.body = Rebased(checkpoint)
        /\ client'.code = "none"
    BY <1>3, <2>3, ClientAssumption DEF Posting, Clients, Places, ClientAssumption
  <2>5. client'.body # NoBody
    BY <2>2, <2>3, <2>4, ClientTypes
  <2>6. ClientTypeOK' /\ stored'.version > 0
    BY <1>1, <2>4, <2>5, ClientAlone DEF Carrying
  <2>7. \A b \in UnderWay' : b \in UnderWay \/ b = Rebased(checkpoint)
    BY <1>1, <2>4 DEF UnderWay
  <2>8. BodiesInv'
    BY <1>1, <2>1, <2>7, CarriedOn DEF WorkerRests
  <2>9. ClientKnows'
    BY <1>1, <2>3, <2>4 DEF WorkerRests, Carrying, ClientInv, ClientKnows
  <2>10. QED
    BY <2>6, <2>8, <2>9 DEF ClientInv
<1>4. QED
  BY <1>2, <1>3 DEF Flush

LEMMA ReadForReviewKeeps == ASSUME ClientInv, ReadForReview PROVE ClientInv'
<1>1. client.pc = "ready" /\ WorkerRests /\ UNCHANGED <<checkpoint, late, works, faults, refused>>
  BY DEF ReadForReview
<1>2. /\ client' \in Clients /\ client'.pc \in {"idle", "agents"} /\ client'.code = client.code
      /\ client'.pc = "idle" => client'.body = client.body
      /\ client'.pc = "agents" =>
           client'.body = [NoBody EXCEPT !.base = stored.version, !.anns = stored.anns]
  <2>1. [NoBody EXCEPT !.base = stored.version, !.anns = stored.anns] \in Bodies
    BY ClientTypes, UnderWayTypes DEF Bodies, ClientInv
  <2>2. CASE Goes("idle")
    BY <2>2, ClientTypes DEF Goes, Clients, Places
  <2>3. CASE client' = [client EXCEPT !.pc = "agents", !.mode = "review",
               !.body = [NoBody EXCEPT !.base = stored.version, !.anns = stored.anns]]
    BY <2>1, <2>3, ClientTypes DEF Clients, Places
  <2>4. QED
    BY <2>2, <2>3 DEF ReadForReview
<1>3. client'.pc = "agents" =>
        /\ client'.body.base = stored.version /\ client'.body.anns = stored.anns
        /\ client'.body # NoBody /\ works < MaxWorks
  <2>1. stored.version \in Nat /\ stored.version # 0
    BY UnderWayTypes DEF ClientInv
  <2>2. client'.pc = "agents" => works < MaxWorks
    BY <1>1, ClientTypes DEF ReadForReview, Goes, Clients
  <2>3. ASSUME client'.pc = "agents"
        PROVE  client'.body.base = stored.version /\ client'.body.anns = stored.anns
    BY <1>2, <2>3 DEF NoBody
  <2>4. NoBody.base = 0
    BY DEF NoBody
  <2>5. QED
    BY <2>1, <2>2, <2>3, <2>4
<1>4. ClientTypeOK' /\ stored'.version > 0
  BY <1>1, <1>2, <1>3, ClientTypes, ClientAlone DEF Carrying
<1>5. UnderWay' = UnderWay
  BY <1>1, <1>2 DEF UnderWay, Carrying
<1>6. BodiesInv'
  BY <1>1, <1>5, CarriedOn DEF WorkerRests
<1>7. ClientKnows'
  BY <1>1, <1>2, <1>3, UnderWayTypes
     DEF WorkerRests, Carrying, ClientInv, ClientKnows
<1>8. QED
  BY <1>4, <1>6, <1>7 DEF ClientInv

\* A step after which the run is idle, or has nothing to post, ends what it knew.
LEMMA LeavesOff ==
  ASSUME ClientInv, WorkerRests, works' = works, client'.pc \in {"idle", "ready"},
         client' \in Clients, client'.body = NoBody, client'.code # "lost",
         checkpoint' = checkpoint, late' \subseteq late \cup UnderWay,
         refused' = refused, faults' = faults \/ Fault
  PROVE  ClientInv'
<1>1. ClientTypeOK' /\ stored'.version > 0
  BY ClientAlone DEF Carrying
<1>2. UnderWay' \subseteq UnderWay
  BY DEF UnderWay, Carrying
<1>3. BodiesInv'
  BY <1>2, CarriedOn DEF WorkerRests
<1>4. ClientKnows'
  BY DEF WorkerRests, Carrying, ClientInv, ClientKnows
<1>5. QED
  BY <1>1, <1>3, <1>4 DEF ClientInv

LEMMA AgentsFailKeeps == ASSUME ClientInv, AgentsFail PROVE ClientInv'
<1>1. client' \in Clients /\ client'.pc = "idle" /\ client'.body = NoBody /\ client'.code = "none"
  BY ClientTypes DEF AgentsFail, Idle
<1>2. QED
  BY <1>1, LeavesOff DEF AgentsFail

LEMMA DieKeeps == ASSUME ClientInv, Die PROVE ClientInv'
<1>1. client' \in Clients /\ client'.pc = "idle" /\ client'.body = NoBody /\ client'.code = "none"
  BY ClientTypes DEF Die, Idle
<1>2. late' \subseteq late \cup UnderWay
  BY DEF Die, UnderWay, Carrying
<1>3. QED
  BY <1>1, <1>2, LeavesOff DEF Die

\* The new body replaces every other in the checkpoint, and nothing is said of
\* its work yet.
LEMMA AgentsFinishKeeps == ASSUME ClientInv, AgentsFinish PROVE ClientInv'
<1>1. /\ client.pc = "agents" /\ works' = works + 1
      /\ overtaken' = (IF client.body.base = stored.version THEN overtaken ELSE overtaken \cup {works + 1})
      /\ barred' \in {barred, barred \cup {works + 1}}
      /\ UNCHANGED <<stored, past, saved, made, edits, late, faults, refused>>
  BY DEF AgentsFinish
<1>2. /\ client.body \in Bodies /\ stored.version \in Nat /\ works \in Nat /\ works + 1 <= MaxWorks
      /\ 0 < client.body.base /\ client.body.base <= stored.version
      /\ client.body.base = stored.version => client.body.anns = stored.anns
  BY <1>1, UnderWayTypes, ClientAssumption DEF ClientInv, ClientKnows, ClientAssumption
<1>3. PICK P \in Contents :
        LET new == [work |-> works + 1, base |-> client.body.base, anns |-> Finalize(client.body.anns, P)]
        IN checkpoint' = new /\ client' = Posting("review", new)
  <2>1. PICK produced \in [Statements -> {"kept", "dropped", "written"}] :
          LET output == [s \in Statements |->
                           CASE produced[s] = "kept"    -> client.body.anns[s]
                             [] produced[s] = "dropped" -> Absent
                             [] produced[s] = "written" -> By("person", works + 1)]
              new == [work |-> works + 1, base |-> client.body.base,
                      anns |-> Finalize(client.body.anns, output)]
          IN checkpoint' = new /\ client' = Posting("review", new)
    BY <1>1 DEF AgentsFinish
  <2> DEFINE output == [s \in Statements |->
                          CASE produced[s] = "kept"    -> client.body.anns[s]
                            [] produced[s] = "dropped" -> Absent
                            [] produced[s] = "written" -> By("person", works + 1)]
  <2>2. Absent \in Items /\ By("person", works + 1) \in Items
    <3>1. 0 \in 0..Rejected /\ works + 1 \in 0..Rejected
      BY <1>2, ClientAssumption DEF Rejected, ClientAssumption
    <3>2. QED
      BY <3>1 DEF Items, By, Absent
  <2>3. ASSUME NEW s \in Statements PROVE output[s] \in Items
    <3>1. produced[s] \in {"kept", "dropped", "written"} /\ client.body.anns[s] \in Items
      BY <1>2 DEF Bodies, Contents
    <3>2. QED
      BY <2>2, <3>1
  <2>4. output \in Contents
    BY <2>3 DEF Contents
  <2>5. QED
    BY <2>1, <2>4
<1> DEFINE new == [work |-> works + 1, base |-> client.body.base, anns |-> Finalize(client.body.anns, P)]
<1>4. /\ checkpoint' = new
      /\ client' = Posting("review", new)
  BY <1>3
<1>5. /\ new \in Bodies /\ new.work = works + 1 /\ new.base = client.body.base
      /\ new.anns = Finalize(client.body.anns, P)
  <2>1. Finalize(client.body.anns, P) \in Contents
    BY <1>2, FinalizeType DEF Bodies
  <2>2. works + 1 \in Works
    BY <1>2, ClientAssumption DEF Works, ClientAssumption
  <2>3. QED
    BY <1>2, <2>1, <2>2 DEF Bodies
<1> HIDE DEF new
<1>6. /\ client' \in Clients /\ client'.pc = "post" /\ client'.body = new /\ client'.code = "none"
      /\ new # NoBody
  BY <1>2, <1>4, <1>5, ClientTypes, ClientAssumption DEF Posting, Clients, Places, ClientAssumption
<1>7. ClientTypeOK' /\ stored'.version > 0
  <2>1. works' \in Works /\ saved' \cup refused' \cup barred' \cup overtaken' \subseteq 1..works'
    BY <1>1, <1>2, ClientAssumption DEF Works, ClientInv, ClientTypeOK, ClientAssumption
  <2>2. QED
    BY <1>1, <1>4, <1>5, <1>6, <2>1 DEF Clients, Places, ClientInv, ClientTypeOK
<1>8. \A b \in UnderWay' : b = new \/ (b \in UnderWay /\ b.work \in 1..works /\ Fits(b))
  BY <1>1, <1>4, <1>6 DEF UnderWay, ClientInv, BodiesInv, BodiesFit
<1>9. Fits(new) /\ (new.work \notin overtaken' => new.base = stored.version)
  BY <1>1, <1>2, <1>5, FinalizeTwice DEF Fits
<1>10. made[works + 1] = 0 /\ works + 1 \in 1..MaxWorks
  BY <1>2, ClientAssumption DEF ClientInv, BodiesInv, NotMadeYet, ClientAssumption
<1>11. BodiesFit'
  BY <1>1, <1>2, <1>5, <1>8, <1>9 DEF BodiesFit, Fits
<1>12. OneText'
  BY <1>1, <1>2, <1>5, <1>8 DEF OneText, ClientInv, BodiesInv
<1>13. OwnVersion'
  BY <1>1, <1>5, <1>8, <1>9, <1>10 DEF OwnVersion, ClientInv, BodiesInv
<1>14. NotMadeYet' /\ AppliedOnce'
  BY <1>1, <1>2, <1>10 DEF NotMadeYet, AppliedOnce, ClientInv, BodiesInv
<1>15. ClientKnows'
  BY <1>1, <1>4, <1>5, <1>6 DEF Carrying, ClientKnows
<1>16. QED
  BY <1>7, <1>11, <1>12, <1>13, <1>14, <1>15 DEF ClientInv, BodiesInv

\* A post that goes on with the body it has, or with what that is rebased on.
LEMMA PostGoesOn ==
  ASSUME ClientInv, client.pc \in Carrying, WorkerRests, works' = works, checkpoint' = checkpoint,
         client' \in Clients, client'.pc \in Carrying,
         client'.body = client.body \/ client'.body = Rebased(client.body),
         client'.code # "lost",
         client'.pc = "answered" => client'.code \in {"stale", "transient"},
         (client'.pc = "answered" /\ client'.code = "stale") => client.body.work \in refused',
         late' \subseteq late \cup UnderWay, faults' = faults \/ Fault,
         refused \subseteq refused', refused' \subseteq refused \cup {client.body.work}
  PROVE  ClientInv'
<1>1. client.body \in UnderWay /\ client.body.work \in 1..works
  BY DEF UnderWay, ClientInv, BodiesInv, BodiesFit
<1>2. client'.body.work = client.body.work /\ client'.body # NoBody
  BY <1>1, RebasedType, ClientTypes DEF ClientInv
<1>3. ClientTypeOK' /\ stored'.version > 0
  BY <1>1, <1>2, ClientAlone
<1>4. \A b \in UnderWay' : b \in UnderWay \/ b = Rebased(client.body)
  BY <1>1 DEF UnderWay
<1>5. BodiesInv'
  BY <1>1, <1>4, CarriedOn DEF WorkerRests
<1>6. ClientKnows'
  BY <1>2 DEF Carrying, ClientInv, ClientKnows
<1>7. QED
  BY <1>3, <1>5, <1>6 DEF ClientInv

LEMMA RebaseKeeps == ASSUME ClientInv, Rebase PROVE ClientInv'
<1>1. Rebased(client.body) \in Bodies
  BY RebasedType, UnderWayTypes DEF ClientInv
<1>2. /\ client' \in Clients /\ client'.pc = "post" /\ client'.body = Rebased(client.body)
      /\ client'.code = client.code
  BY <1>1, ClientTypes DEF Rebase, Clients, Places
<1>3. QED
  BY <1>2, PostGoesOn DEF Rebase, Carrying, ClientInv, ClientKnows

LEMMA RefusedForProposalsKeeps == ASSUME ClientInv, RefusedForProposals PROVE ClientInv'
<1>1. client.pc = "post" /\ Fault /\ Told("stale") /\ WorkerRests
      /\ UNCHANGED <<checkpoint, late, works>>
  BY DEF RefusedForProposals
<1>2. /\ client' \in Clients /\ client'.body = client.body
      /\ \/ client'.pc = "rebase" /\ client'.code = client.code /\ refused' = refused
         \/ /\ client'.pc = "answered" /\ client'.code = "stale"
            /\ refused' = refused \cup {client.body.work}
  BY <1>1, ClientTypes DEF Told, Goes, Ends, Clients, Places
<1>3. client.code # "lost" /\ client.pc \in Carrying
  BY <1>1 DEF Carrying, ClientInv, ClientKnows
<1>4. CASE client'.pc = "rebase"
  <2>1. /\ client' \in Clients /\ client'.body = client.body /\ client'.code = client.code
        /\ refused' = refused
    BY <1>2, <1>4
  <2>2. client'.pc \in Carrying /\ client'.pc # "answered"
    BY <1>4 DEF Carrying
  <2>3. QED
    BY <1>1, <1>3, <2>1, <2>2, PostGoesOn
<1>5. CASE client'.pc = "answered"
  BY <1>1, <1>2, <1>3, <1>5, PostGoesOn DEF Carrying
<1>6. QED
  BY <1>2, <1>4, <1>5

LEMMA NoAnswerKeeps == ASSUME ClientInv, NoAnswer PROVE ClientInv'
<1>1. client.pc = "post" /\ Fault /\ WorkerRests /\ UNCHANGED <<checkpoint, works>>
      /\ late' = late \cup {client.body}
  BY DEF NoAnswer
<1>2. /\ client' \in Clients /\ client'.body = client.body /\ refused' = refused
      /\ \/ client'.pc = "post" /\ client'.code = client.code
         \/ client'.pc = "answered" /\ client'.code = "transient"
  <2>1. CASE client.tries > 0 /\ client' = [client EXCEPT !.tries = @ - 1] /\ UNCHANGED refused
    BY <1>1, <2>1, ClientTypes, ClientAssumption DEF Clients, ClientAssumption
  <2>2. CASE client.tries = 0 /\ Ends("transient")
    BY <1>1, <2>2, ClientTypes DEF Ends, Clients, Places
  <2>3. QED
    BY <2>1, <2>2 DEF NoAnswer
<1>3. late' \subseteq late \cup UnderWay
  BY <1>1 DEF UnderWay, Carrying
<1>4. QED
  BY <1>1, <1>2, <1>3, PostGoesOn DEF Carrying, ClientInv, ClientKnows

LEMMA ReadFailsKeeps == ASSUME ClientInv, ReadFails PROVE ClientInv'
<1>1. Fault /\ WorkerRests /\ UNCHANGED <<checkpoint, late, works>>
  BY DEF ReadFails
<1>2. CASE /\ refused' = refused
           /\ (client.pc = "flush" /\ Goes("ready")) \/ (client.pc = "ready" /\ Goes("idle"))
  <2>1. /\ client' \in Clients /\ client'.pc \in {"idle", "ready"} /\ client'.body = client.body
        /\ client'.code = client.code /\ client.pc \notin {"agents"} \cup Carrying
    BY <1>2, ClientTypes DEF Goes, Clients, Places, Carrying
  <2>2. client'.body = NoBody
    BY <2>1, ClientTypes
  <2>3. QED
    BY <1>1, <1>2, <2>1, <2>2, LeavesOff DEF ClientInv, ClientKnows
<1>3. CASE client.pc = "rebase" /\ Ends("stale")
  <2>1. /\ client' \in Clients /\ client'.pc = "answered" /\ client'.body = client.body
        /\ client'.code = "stale" /\ refused' = refused \cup {client.body.work}
    BY <1>3, ClientTypes DEF Ends, Clients, Places
  <2>2. QED
    BY <1>1, <1>3, <2>1, PostGoesOn DEF Carrying
<1>4. QED
  BY <1>2, <1>3 DEF ReadFails

\* What the Worker keeps when it handles a body.
LEMMA HandleTypes ==
  ASSUME ClientInv, NEW b \in UnderWay, Handle(b), works' = works
  PROVE  /\ stored' \in [version : Nat, anns : Contents] /\ stored'.version > 0
         /\ past' \subseteq Contents /\ made' \in [1..MaxWorks -> Nat]
         /\ saved' \subseteq 1..works /\ overtaken' \subseteq 1..works
         /\ saved \subseteq saved' /\ (AnswerTo(b) = "ok" => b.work \in saved')
         /\ stored' = stored \/ stored'.version = stored.version + 1
<1> DEFINE newer == AnswerTo(b) = "ok" /\ ~TheSame(b.anns, stored.anns)
<1>1. /\ stored' = IF newer THEN [version |-> stored.version + 1, anns |-> b.anns] ELSE stored
      /\ past' = IF newer THEN past \cup {b.anns} ELSE past
      /\ made' = IF newer THEN [made EXCEPT ![b.work] = @ + 1] ELSE made
      /\ saved' = IF AnswerTo(b) = "ok" THEN saved \cup {b.work} ELSE saved
      /\ overtaken' = IF newer THEN overtaken \cup ((1..works) \ {b.work}) ELSE overtaken
  BY DEF Handle
<1>2. /\ stored \in [version : Nat, anns : Contents] /\ stored.version > 0
      /\ past \subseteq Contents /\ made \in [1..MaxWorks -> Nat]
      /\ saved \subseteq 1..works /\ overtaken \subseteq 1..works
      /\ b.anns \in Contents /\ b.work \in 1..works /\ b.work \in 1..MaxWorks
  <2>1. ClientTypeOK /\ stored.version > 0 /\ b.work \in 1..works
    BY DEF ClientInv, BodiesInv, BodiesFit
  <2>2. b \in Bodies /\ works \in Nat /\ works <= MaxWorks
    BY <2>1, UnderWayTypes
  <2>3. b.anns \in Contents
    BY <2>2 DEF Bodies
  <2>4. b.work \in 1..MaxWorks
    BY <2>1, <2>2, ClientAssumption DEF ClientAssumption
  <2>5. QED
    BY <2>1, <2>3, <2>4 DEF ClientTypeOK
<1>3. made' \in [1..MaxWorks -> Nat]
  BY <1>1, <1>2
<1>4. stored' \in [version : Nat, anns : Contents] /\ stored'.version > 0
      /\ (stored' = stored \/ stored'.version = stored.version + 1)
  BY <1>1, <1>2
<1>5. QED
  BY <1>1, <1>2, <1>3, <1>4

LEMMA LateLandsKeeps == ASSUME ClientInv, LateLands PROVE ClientInv'
<1>1. PICK b \in late : Handle(b)
  BY DEF LateLands
<1>2. UNCHANGED <<client, checkpoint, late, works, edits, faults, refused, barred>>
  BY DEF LateLands
<1>3. b \in UnderWay /\ UnderWay' = UnderWay
  BY <1>2 DEF UnderWay
<1>4. BodiesInv'
  BY <1>1, <1>2, <1>3, Handled
<1>5. /\ stored' \in [version : Nat, anns : Contents] /\ stored'.version > 0
      /\ past' \subseteq Contents /\ made' \in [1..MaxWorks -> Nat]
      /\ saved' \subseteq 1..works /\ overtaken' \subseteq 1..works /\ saved \subseteq saved'
      /\ stored' = stored \/ stored'.version = stored.version + 1
  BY <1>1, <1>2, <1>3, HandleTypes
<1>6. ClientTypeOK'
  BY <1>2, <1>5 DEF ClientInv, ClientTypeOK
<1>7. ClientKnows'
  <2>1. client.body.base \in Nat /\ stored.version \in Nat
    BY UnderWayTypes DEF ClientInv, Bodies
  <2>2. ClientKnows
    BY DEF ClientInv
  <2>3. CASE stored' = stored
    BY <1>2, <1>5, <2>2, <2>3 DEF ClientKnows
  <2>4. CASE stored'.version = stored.version + 1
    <3>1. client.pc = "agents" =>
            client.body.base <= stored'.version /\ client.body.base # stored'.version
      BY <2>1, <2>2, <2>4 DEF ClientKnows
    <3>2. QED
      BY <1>2, <1>5, <2>2, <3>1 DEF ClientKnows, Carrying
  <2>5. QED
    BY <1>5, <2>3, <2>4
<1>8. QED
  BY <1>4, <1>5, <1>6, <1>7 DEF ClientInv

LEMMA PostWorkKeeps == ASSUME ClientInv, PostWork PROVE ClientInv'
<1> DEFINE b == client.body
<1>1. client.pc = "post" /\ Handle(b) /\ Told(AnswerTo(b))
      /\ UNCHANGED <<checkpoint, late, works, edits, faults, barred>>
  BY DEF PostWork
<1>2. b \in UnderWay
  BY <1>1 DEF UnderWay, Carrying
<1>3. AnswerTo(b) \in {"ok", "stale", "barred"} /\ b # NoBody /\ b.work \in 1..works
  BY <1>2, Answer, ClientTypes DEF ClientInv, BodiesInv, BodiesFit
<1>4. /\ client' \in Clients /\ client'.body = b
      /\ \/ client'.pc = "rebase" /\ client'.code = client.code /\ refused' = refused
         \/ /\ client'.pc = "answered" /\ client'.code = AnswerTo(b)
            /\ refused' = IF AnswerTo(b) = "stale" THEN refused \cup {b.work} ELSE refused
  <2>1. CASE Goes("rebase") /\ UNCHANGED refused
    BY <2>1, ClientTypes DEF Goes, Clients, Places
  <2>2. CASE Ends(AnswerTo(b))
    BY <1>3, <2>2, ClientTypes DEF Ends, Clients, Places
  <2>3. QED
    BY <1>1, <2>1, <2>2 DEF Told
<1>5. UnderWay' = UnderWay
  BY <1>1, <1>4 DEF UnderWay, Carrying
<1>6. BodiesInv'
  BY <1>1, <1>2, <1>5, Handled
<1>7. /\ stored' \in [version : Nat, anns : Contents] /\ stored'.version > 0
      /\ past' \subseteq Contents /\ made' \in [1..MaxWorks -> Nat]
      /\ saved' \subseteq 1..works /\ overtaken' \subseteq 1..works /\ saved \subseteq saved'
      /\ AnswerTo(b) = "ok" => b.work \in saved'
  BY <1>1, <1>2, HandleTypes
<1>8. ClientTypeOK'
  <2>1. refused' \subseteq 1..works
    BY <1>3, <1>4 DEF ClientInv, ClientTypeOK
  <2>2. /\ client' \in Clients
        /\ client'.pc \in {"agents", "post", "rebase", "answered"} <=> client'.body # NoBody
    BY <1>3, <1>4
  <2>3. QED
    BY <1>1, <1>7, <2>1, <2>2 DEF ClientInv, ClientTypeOK, Clients, Places
<1>9. ClientKnows'
  BY <1>1, <1>3, <1>4, <1>7 DEF Carrying, ClientInv, ClientKnows
<1>10. QED
  BY <1>6, <1>7, <1>8, <1>9 DEF ClientInv

\* The file goes only when the answer on record lets it.
LEMMA SettleKeeps == ASSUME ClientInv, Settle PROVE ClientInv'
<1>1. /\ client.pc = "answered" /\ WorkerRests /\ UNCHANGED <<late, works, faults, refused>>
      /\ checkpoint' = IF Cleared(client.mode, client.code) THEN NoBody ELSE checkpoint
  BY DEF Settle
<1>2. /\ client' \in Clients /\ client'.pc \in {"idle", "ready"} /\ client'.body = NoBody
      /\ client'.code = "none"
  <2>1. client' = Idle \/ client' = [Idle EXCEPT !.pc = "ready"]
    BY DEF Settle
  <2>2. Idle.code = "none"
    BY DEF Idle
  <2>3. CASE client' = Idle
    BY <2>2, <2>3, ClientTypes
  <2>4. CASE client' = [Idle EXCEPT !.pc = "ready"]
    BY <2>2, <2>4, ClientTypes DEF Clients, Places
  <2>5. QED
    BY <2>1, <2>3, <2>4
<1>3. ClientTypeOK' /\ stored'.version > 0
  BY <1>1, <1>2, ClientAlone DEF Carrying
<1>4. UnderWay' \subseteq UnderWay
  BY <1>1, <1>2 DEF UnderWay, Carrying
<1>5. BodiesInv'
  BY <1>1, <1>4, CarriedOn DEF WorkerRests
<1>6. ClientKnows'
  BY <1>2 DEF Carrying, ClientKnows
<1>7. QED
  BY <1>3, <1>5, <1>6 DEF ClientInv

LEMMA ReplacedKeeps ==
  ASSUME ClientInv, NEW anns \in Contents, Replaced(anns)
  PROVE  ClientInv'
<1>1. /\ edits < MaxEdits /\ edits' = edits + 1
      /\ stored' = [version |-> stored.version + 1, anns |-> anns]
      /\ past' = past \cup {anns} /\ overtaken' = 1..works
      /\ UNCHANGED <<client, checkpoint, late, works, faults, saved, refused, barred, made>>
  BY DEF Replaced
<1>2. /\ stored.version \in Nat /\ stored'.version = stored.version + 1
      /\ stored' \in [version : Nat, anns : Contents]
  BY <1>1, UnderWayTypes DEF ClientInv
<1>3. UnderWay' = UnderWay
  BY <1>1 DEF UnderWay
<1>4. BodiesInv'
  BY <1>1, <1>2, <1>3, Overtaken
<1>5. ClientTypeOK'
  BY <1>1, <1>2, ClientAssumption DEF ClientInv, ClientTypeOK, ClientAssumption
<1>6. ClientKnows'
  BY <1>1, <1>2, UnderWayTypes DEF ClientInv, ClientKnows, Bodies
<1>7. QED
  BY <1>2, <1>4, <1>5, <1>6 DEF ClientInv

LEMMA PeopleKeep == ASSUME ClientInv, PersonSaves \/ PersonReverts PROVE ClientInv'
<1>1. CASE PersonReverts
  BY <1>1, ReplacedKeeps DEF PersonReverts, ClientInv, ClientTypeOK
<1>2. CASE PersonSaves
  <2>1. PICK s \in Statements, item \in {Absent, By("person", Noted), By("person", Rejected)} :
          Replaced([stored.anns EXCEPT ![s] = item])
    BY <1>2 DEF PersonSaves
  <2>2. item \in Items
    <3>1. 0 \in 0..Rejected /\ Noted \in 0..Rejected /\ Rejected \in 0..Rejected
      BY ClientAssumption DEF Noted, Rejected, ClientAssumption
    <3>2. QED
      BY <2>1, <3>1 DEF Items, By, Absent
  <2>3. [stored.anns EXCEPT ![s] = item] \in Contents
    BY <2>2, UnderWayTypes DEF Contents, ClientInv
  <2>4. QED
    BY <2>1, <2>3, ReplacedKeeps
<1>3. QED
  BY <1>1, <1>2

LEMMA ClientStep == ASSUME ClientInv, [ClientNext]_clientVars PROVE ClientInv'
<1>1. CASE PersonSaves \/ PersonReverts
  BY <1>1, PeopleKeep
<1>2. CASE LateLands
  BY <1>2, LateLandsKeeps
<1>3. CASE RunSteps
  BY <1>3, StartRunKeeps, FlushKeeps, ReadForReviewKeeps, AgentsFinishKeeps, AgentsFailKeeps,
     PostWorkKeeps, RebaseKeeps, SettleKeeps DEF RunSteps
<1>4. CASE RefusedForProposals \/ NoAnswer \/ ReadFails \/ Die
  BY <1>4, RefusedForProposalsKeeps, NoAnswerKeeps, ReadFailsKeeps, DieKeeps
<1>5. CASE UNCHANGED clientVars
  <2>1. UnderWay' = UnderWay
    BY <1>5 DEF clientVars, UnderWay
  <2>2. BodiesInv'
    BY <1>5, <2>1, CarriedOn DEF clientVars
  <2>3. ClientTypeOK' /\ stored'.version > 0 /\ ClientKnows'
    BY <1>5 DEF clientVars, ClientInv, ClientTypeOK, ClientKnows
  <2>4. QED
    BY <2>2, <2>3 DEF ClientInv
<1>6. QED
  BY <1>1, <1>2, <1>3, <1>4, <1>5 DEF ClientNext

LEMMA ClientStart == ASSUME ClientInit PROVE ClientInv
<1>1. 0 \in Works /\ 0 \in 0..Rejected /\ 0 \in 0..MaxEdits /\ 0 \in 0..MaxFaults /\ 0 \in 0..Backoffs
  BY ClientAssumption DEF Works, Rejected, ClientAssumption
<1>2. NoBody \in Bodies /\ [s \in Statements |-> By("agent", 0)] \in Contents
  BY <1>1 DEF NoBody, Bodies, Contents, Items, By, Absent
<1>3. ClientTypeOK
  BY <1>1, <1>2 DEF ClientInit, ClientTypeOK, Idle
<1>4. UnderWay = {}
  BY DEF ClientInit, UnderWay, Idle, Carrying
<1>5. BodiesInv
  BY <1>4 DEF ClientInit, BodiesInv, BodiesFit, OneText, OwnVersion, NotMadeYet, AppliedOnce
<1>6. ClientKnows /\ stored.version > 0
  BY DEF ClientInit, ClientKnows, Idle, Carrying
<1>7. QED
  BY <1>3, <1>5, <1>6 DEF ClientInv

LEMMA ClientAlways == ClientSpec => []ClientInv
<1>1. ClientInit => ClientInv
  BY ClientStart
<1>2. ClientInv /\ [ClientNext]_clientVars => ClientInv'
  BY ClientStep
<1>3. QED
  BY <1>1, <1>2, PTL DEF ClientSpec

-----------------------------------------------------------------------------
(* The theorems.                                                           *)

\* The record of the run, the file and the requests on their way keep their
\* types; in particular the retries of a post never run below zero.
THEOREM ClientTypeCorrect == ClientSpec => []ClientTypeOK
<1>1. ClientInv => ClientTypeOK
  BY DEF ClientInv
<1>2. QED
  BY <1>1, ClientAlways, PTL

\* Whatever is posted, retried, rebased, flushed or lands late, the Worker never
\* finds an annotation of a person missing or changed in a body whose version is
\* the article's (the 422 of validation.ts, findLostHuman, is never answered).
THEOREM HumansAreKept == ClientSpec => []NoHumanIsLost
<1>1. ASSUME ClientInv PROVE NoHumanIsLost
  <2>1. ASSUME NEW b \in late, Accepted(b) PROVE ~LosesAPerson(b)
    <3>1. b.base = stored.version /\ b \in UnderWay
      BY <2>1 DEF Accepted, UnderWay
    <3>2. b.anns = Finalize(stored.anns, b.anns)
      BY <1>1, <3>1 DEF ClientInv, BodiesInv, BodiesFit, Fits
    <3>3. QED
      BY <3>2, FittingBody
  <2>2. QED
    BY <1>1, <2>1 DEF NoHumanIsLost, ClientInv, ClientKnows
<1>2. QED
  BY <1>1, ClientAlways, PTL

\* A work makes one version of the article however often it is sent and flushed,
\* unless another hand changed the article under it.
THEOREM WorksAreAppliedOnce == ClientSpec => []AppliedOnce
<1>1. ClientInv => AppliedOnce
  BY DEF ClientInv, BodiesInv
<1>2. QED
  BY <1>1, ClientAlways, PTL

\* A finished work is on disk before it is sent, and only a save, a refusal or a
\* later finished work of the article takes it from there: neither a death nor a
\* lost answer, a late copy, a failed read or a refusal of every attempt does.
THEOREM WorkIsOnDisk == ClientSpec => FinishedWorkIsKept
<1> DEFINE Kept ==
      /\ works' # works => checkpoint'.work = works'
      /\ checkpoint'.work # checkpoint.work =>
           \/ checkpoint.work \in saved \cup refused \cup {0}
           \/ checkpoint'.work > checkpoint.work
<1>1. ASSUME ClientInv, [ClientNext]_clientVars PROVE Kept
  <2>1. CASE AgentsFinish
    <3>1. works' = works + 1 /\ checkpoint'.work = works'
      BY <2>1 DEF AgentsFinish
    <3>2. works \in Nat /\ checkpoint.work \in 0..works
      <4>1. CASE checkpoint = NoBody
        BY <1>1, <4>1, ClientTypes, UnderWayTypes DEF ClientInv
      <4>2. CASE checkpoint # NoBody
        <5>1. checkpoint \in UnderWay
          BY <4>2 DEF UnderWay
        <5>2. QED
          BY <1>1, <5>1, UnderWayTypes DEF ClientInv, BodiesInv, BodiesFit
      <4>3. QED
        BY <4>1, <4>2
    <3>3. QED
      BY <3>1, <3>2
  <2>2. CASE Settle
    <3>1. works' = works /\ client.pc = "answered"
          /\ checkpoint' = IF Cleared(client.mode, client.code) THEN NoBody ELSE checkpoint
      BY <2>2 DEF Settle
    <3>2. Cleared(client.mode, client.code) => checkpoint.work \in saved \cup refused
      BY <1>1, <3>1 DEF Cleared, Carrying, ClientInv, ClientKnows
    <3>3. QED
      BY <3>1, <3>2
  <2>3. CASE \/ PersonSaves \/ PersonReverts \/ LateLands \/ StartRun \/ Flush \/ ReadForReview
             \/ AgentsFail \/ PostWork \/ Rebase \/ RefusedForProposals \/ NoAnswer \/ ReadFails
             \/ Die \/ UNCHANGED clientVars
    BY <2>3 DEF PersonSaves, PersonReverts, Replaced, LateLands, StartRun, Flush, ReadForReview,
       AgentsFail, PostWork, Rebase, RefusedForProposals, NoAnswer, ReadFails, Die, clientVars
  <2>4. QED
    BY <1>1, <2>1, <2>2, <2>3 DEF ClientNext, RunSteps
<1>2. ClientInv /\ [ClientNext]_clientVars => [Kept]_clientVars
  BY <1>1
<1>3. QED
  BY <1>2, ClientAlways, PTL DEF ClientSpec, FinishedWorkIsKept

\* A save that brings something up beside a veto is not posted, and not accepted
\* late either.
LEMMA HandledSparesVetoes ==
  ASSUME ClientInv, NEW b \in UnderWay, Handle(b),
         NEW s \in Statements, NearAVeto(stored.anns, s)
  PROVE  stored'.anns[s] = Absent
<1>1. AnswerTo(b) = "ok" => b.anns[s] = Absent
  BY Answer, FittingBody
<1>2. stored.anns[s] = Absent
  BY DEF NearAVeto
<1>3. QED
  BY <1>1, <1>2 DEF Handle

\* Only a person brings up a statement next to a vetoed one: what the pipeline
\* saves is finalised for the very article it replaces (moderate.py, F6).
THEOREM VetoedNeighboursStayOut == ClientSpec => NearVetoesStand
<1>1. ASSUME ClientInv, [ClientNext]_clientVars, NEW s \in Statements,
             NearAVeto(stored.anns, s), edits' = edits
      PROVE  stored'.anns[s] = Absent
  <2>1. stored.anns[s] = Absent
    BY <1>1 DEF NearAVeto
  <2>2. CASE PersonSaves \/ PersonReverts
    <3>1. edits' = edits + 1 /\ edits \in Nat
      BY <1>1, <2>2, ClientAssumption
         DEF PersonSaves, PersonReverts, Replaced, ClientInv, ClientTypeOK, ClientAssumption
    <3>2. QED
      BY <1>1, <3>1
  <2>3. CASE LateLands
    <3>1. PICK b \in late : Handle(b)
      BY <2>3 DEF LateLands
    <3>2. QED
      BY <1>1, <3>1, HandledSparesVetoes DEF UnderWay
  <2>4. CASE PostWork
    <3>1. client.body \in UnderWay /\ Handle(client.body)
      BY <2>4 DEF PostWork, UnderWay, Carrying
    <3>2. QED
      BY <1>1, <3>1, HandledSparesVetoes
  <2>5. CASE \/ StartRun \/ Flush \/ ReadForReview \/ AgentsFinish \/ AgentsFail \/ Rebase \/ Settle
             \/ RefusedForProposals \/ NoAnswer \/ ReadFails \/ Die \/ UNCHANGED clientVars
    <3>1. stored' = stored
      BY <2>5 DEF StartRun, Flush, ReadForReview, AgentsFinish, AgentsFail, Rebase, Settle,
         RefusedForProposals, NoAnswer, ReadFails, Die, WorkerRests, clientVars
    <3>2. QED
      BY <2>1, <3>1
  <2>6. QED
    BY <1>1, <2>2, <2>3, <2>4, <2>5 DEF ClientNext, RunSteps
<1>2. ClientInv /\ [ClientNext]_clientVars =>
        [\A s \in Statements :
           (NearAVeto(stored.anns, s) /\ edits' = edits) => stored'.anns[s] = Absent]_clientVars
  BY <1>1
<1>3. QED
  BY <1>2, ClientAlways, PTL DEF ClientSpec, NearVetoesStand
=============================================================================
