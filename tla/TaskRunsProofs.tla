--------------------------- MODULE TaskRunsProofs ---------------------------
(***************************************************************************)
(* Proofs about the two programs that run tasks, LocateRun on a            *)
(* contributor's machine and SpendWatchdog beside a host.  They share no   *)
(* state; the first part is about the one, the second about the other.     *)
(*                                                                         *)
(* LocateRun, for any tasks, documents and number of invocations, cut short *)
(* anywhere, inside a copy too: every readable document promoted or in the *)
(* corpus is one the gate passed, a complete receipt vouches for no other, *)
(* and a run in which every task passed leaves a corpus that can be sealed, *)
(* torn documents of earlier runs or not.  They need                       *)
(* what the loop over the tasks remembers: a document about to be promoted *)
(* is the one the gate has just passed (OkIsJudged), and a task that       *)
(* passed is not judged again in the same run, so that its last verdict    *)
(* stands (EachTaskOnce, PassedVerdicts); and a document that was promoted *)
(* or harvested in this run is whole (PassedAreWhole).                     *)
(*                                                                         *)
(* SpendWatchdog, for any calls, prices and number of watchdogs, none of   *)
(* them a dry run: an exit that reports a drain means one happened, and    *)
(* exit 2 after a settling with nothing in flight means the cap holds for  *)
(* good.  Neither is inductive.  A watchdog exits on what the record of an *)
(* earlier one says and on having settled (RecordIsTrue, SettlesDrained),  *)
(* and the spending of a drained host with nothing in flight is final      *)
(* (SettledIsFinal).  That the amounts add up to a number is not needed.   *)
(***************************************************************************)
EXTENDS LocateRun, SpendWatchdog, TLAPS

-----------------------------------------------------------------------------
(* LocateRun.                                                              *)

Working == {"call", "gate", "promote"}

TaskAtHand ==
  /\ run.pc \in Working => run.task \in Tasks
  /\ run.pc = "gate" => work[run.task] # None

OkIsJudged ==
  (run.pc = "promote" /\ run.gate = "ok") =>
    work[run.task] \in Docs /\ <<run.task, work[run.task]>> \in judged

EachTaskOnce ==
  /\ run.pc \in {"next"} \cup Working => run.todo \cap run.passed = {}
  /\ run.pc \in Working => run.task \notin run.todo \cup run.passed

PassedVerdicts ==
  /\ run.pc # "idle" => \A t \in run.passed : verdict[t] = "ok"
  /\ (run.pc = "promote" /\ run.gate = "ok") => verdict[run.task] = "ok"

PassedAreWhole ==
  /\ run.pc # "idle" => \A t \in run.passed : findings[t] \in Docs
  /\ run.pc = "transfer" => \A t \in run.passed \ run.todo : corpus[t] \in Docs
  /\ run.pc = "receipt" => \A t \in run.passed : corpus[t] \in Docs

RunIInv ==
  /\ TypeOK /\ TaskAtHand /\ OkIsJudged /\ CorpusIsGated
  /\ EachTaskOnce /\ PassedVerdicts /\ PassedAreWhole

Invocations ==
  [pc : {"next", "call", "gate", "promote", "transfer", "receipt"}, paid : BOOLEAN,
   todo : SUBSET Tasks, task : Tasks \cup {None}, attempt : 0..MaxAttempts,
   gate : {"noDocument", "ok", "refused", "broken"}, passed : SUBSET Tasks]

LEMMA RunType == ASSUME TypeOK PROVE (run = Idle \/ run \in Invocations) /\ Idle.pc = "idle"
BY DEF TypeOK, Invocations, Idle

LEMMA RunInitIInv == ASSUME Init PROVE RunIInv
<1>1. TypeOK
  BY LocateAssumption DEF Init, TypeOK, NoFiles, Files, Unharvested, LocateAssumption
<1>2. run.pc = "idle"
  BY DEF Init, Idle
<1>3. CorpusIsGated
  BY LocateAssumption DEF Init, CorpusIsGated, NoFiles, None, Unharvested, LocateAssumption
<1>4. QED
  BY <1>1, <1>2, <1>3
     DEF RunIInv, TaskAtHand, OkIsJudged, EachTaskOnce, PassedVerdicts, PassedAreWhole, Working

\* A step that leaves the receipt as it was keeps what it vouches for, and
\* every document that was judged stays so.
LEMMA SameReceipt ==
  ASSUME CorpusIsGated, UNCHANGED receipt, judged \subseteq judged',
         \A t \in Tasks, d \in Docs : d \in {findings'[t], corpus'[t]} => <<t, d>> \in judged'
  PROVE  CorpusIsGated'
BY DEF CorpusIsGated

\* A step that leaves the files and the verdicts alone and ends or begins a run.
LEMMA AtRestStep ==
  ASSUME RunIInv, UNCHANGED <<work, findings, verdict, corpus, receipt, judged>>,
         TypeOK', run'.pc = "idle" \/ \E paid \in BOOLEAN : run' = Begun(paid)
  PROVE  RunIInv'
<1>1. CorpusIsGated'
  BY DEF RunIInv, CorpusIsGated
<1>2. run'.pc \in {"idle", "next"} /\ (run'.pc = "next" => run'.passed = {})
  BY DEF Begun
<1>3. TaskAtHand' /\ OkIsJudged' /\ EachTaskOnce' /\ PassedVerdicts' /\ PassedAreWhole'
  BY <1>2 DEF TaskAtHand, OkIsJudged, EachTaskOnce, PassedVerdicts, PassedAreWhole, Working
<1>4. QED
  BY <1>1, <1>3 DEF RunIInv

LEMMA BeginStep == ASSUME RunIInv, NEW paid \in BOOLEAN, Begin(paid) PROVE RunIInv'
<1>1. Begun(paid) \in Invocations
  BY LocateAssumption DEF Begun, Invocations, LocateAssumption
<1>2. TypeOK'
  BY <1>1, LocateAssumption DEF Begin, RunIInv, TypeOK, Invocations, LocateAssumption
<1>3. QED
  BY <1>2, AtRestStep DEF Begin

LEMMA NextTaskStep == ASSUME RunIInv, NextTask PROVE RunIInv'
<1>1. run.pc = "next" /\ run \in Invocations
  BY RunType DEF NextTask, RunIInv
<1>2. CASE \E t \in run.todo :
             run' = [run EXCEPT !.pc = "call", !.task = t, !.attempt = 1,
                                !.gate = "noDocument", !.todo = @ \ {t}]
  <2>1. PICK t \in run.todo :
          run' = [run EXCEPT !.pc = "call", !.task = t, !.attempt = 1,
                             !.gate = "noDocument", !.todo = @ \ {t}]
    BY <1>2
  <2>2. /\ run'.pc = "call" /\ run'.task = t /\ run'.todo = run.todo \ {t}
        /\ run'.passed = run.passed /\ t \in Tasks
    BY <1>1, <2>1 DEF Invocations
  <2>3. run' \in Invocations
    <3>1. 1 \in 0..MaxAttempts
      BY LocateAssumption DEF LocateAssumption
    <3>2. run.todo \ {t} \in SUBSET Tasks /\ t \in Tasks \cup {None}
      BY <1>1, <2>2 DEF Invocations
    <3>3. QED
      BY <1>1, <2>1, <3>1, <3>2 DEF Invocations
  <2>4. TypeOK'
    BY <2>3 DEF NextTask, RunIInv, TypeOK, Invocations
  <2>5. TaskAtHand' /\ OkIsJudged' /\ EachTaskOnce' /\ PassedVerdicts' /\ PassedAreWhole'
    BY <1>1, <2>2
       DEF NextTask, RunIInv, TaskAtHand, OkIsJudged, EachTaskOnce, PassedVerdicts,
           PassedAreWhole, Working
  <2>6. QED
    BY <2>4, <2>5 DEF NextTask, RunIInv, CorpusIsGated
<1>3. CASE run' = [run EXCEPT !.pc = "transfer", !.todo = run.passed]
  <2>1. /\ run'.pc = "transfer" /\ run'.passed = run.passed /\ run' \in Invocations
        /\ run'.todo = run.passed
    BY <1>1, <1>3 DEF Invocations
  <2>2. TypeOK'
    BY <2>1 DEF NextTask, RunIInv, TypeOK, Invocations
  <2>3. TaskAtHand' /\ OkIsJudged' /\ EachTaskOnce' /\ PassedVerdicts' /\ PassedAreWhole'
    BY <1>1, <2>1
       DEF NextTask, RunIInv, TaskAtHand, OkIsJudged, EachTaskOnce, PassedVerdicts,
           PassedAreWhole, Working
  <2>4. QED
    BY <2>2, <2>3 DEF NextTask, RunIInv, CorpusIsGated
<1>4. CASE run' = Idle
  <2>1. TypeOK' /\ run'.pc = "idle"
    BY <1>4 DEF NextTask, RunIInv, TypeOK, Idle
  <2>2. QED
    BY <2>1, AtRestStep DEF NextTask
<1>5. QED
  BY <1>2, <1>3, <1>4 DEF NextTask

\* The invocation after an attempt.
LEMMA AfterAttemptType ==
  ASSUME NEW r \in Invocations, NEW gate \in {"noDocument", "ok", "refused", "broken"},
         NEW again \in BOOLEAN
  PROVE  LET n == AfterAttempt(r, gate, again)
         IN /\ n \in Invocations /\ n.task = r.task /\ n.todo = r.todo /\ n.passed = r.passed
            /\ n.pc \in {"call", "promote"} /\ n.gate = gate
<1>1. CASE again /\ r.attempt < MaxAttempts
  <2>1. r.attempt + 1 \in 0..MaxAttempts
    BY <1>1, LocateAssumption DEF Invocations, LocateAssumption
  <2>2. AfterAttempt(r, gate, again) = [r EXCEPT !.pc = "call", !.attempt = r.attempt + 1, !.gate = gate]
    BY <1>1 DEF AfterAttempt
  <2>3. QED
    BY <2>1, <2>2 DEF Invocations
<1>2. CASE ~(again /\ r.attempt < MaxAttempts)
  <2>1. AfterAttempt(r, gate, again) = [r EXCEPT !.pc = "promote", !.gate = gate]
    BY <1>2 DEF AfterAttempt
  <2>2. QED
    BY <2>1 DEF Invocations
<1>3. QED
  BY <1>1, <1>2

LEMMA CallStep == ASSUME RunIInv, Call PROVE RunIInv'
<1> DEFINE t == run.task
<1>1. run.pc = "call" /\ run \in Invocations /\ t \in Tasks
  BY RunType DEF Call, RunIInv, TaskAtHand, Working
<1>2. work' \in [Tasks -> Docs \cup {None}]
  BY <1>1 DEF Call, RunIInv, TypeOK
<1>3. /\ run' \in Invocations /\ run'.task = t /\ run'.todo = run.todo /\ run'.passed = run.passed
      /\ \/ run'.pc \in {"call", "promote"} /\ run'.gate = "noDocument"
         \/ run'.pc = "gate" /\ work'[t] # None
  <2>1. CASE work'[t] = None
    <3>1. run' = AfterAttempt(run, "noDocument", TRUE)
      BY <2>1 DEF Call
    <3>2. QED
      BY <1>1, <3>1, AfterAttemptType
  <2>2. CASE work'[t] # None
    BY <1>1, <2>2 DEF Call, Invocations
  <2>3. QED
    BY <2>1, <2>2
<1>4. TypeOK'
  BY <1>2, <1>3 DEF Call, RunIInv, TypeOK, Invocations
<1>5. TaskAtHand' /\ OkIsJudged' /\ EachTaskOnce' /\ PassedVerdicts' /\ PassedAreWhole'
  BY <1>1, <1>3
     DEF Call, RunIInv, TaskAtHand, OkIsJudged, EachTaskOnce, PassedVerdicts, PassedAreWhole, Working
<1>6. QED
  BY <1>4, <1>5 DEF Call, RunIInv, CorpusIsGated

LEMMA GateStep == ASSUME RunIInv, Gate PROVE RunIInv'
<1> DEFINE t == run.task
<1> DEFINE answer == IF work[t] \in Sound THEN "ok" ELSE "refused"
<1>1. run.pc = "gate" /\ run \in Invocations /\ t \in Tasks /\ work[t] # None
  BY RunType DEF Gate, RunIInv, TaskAtHand, Working
<1>2. work[t] \in Docs /\ UNCHANGED <<work, findings, corpus, receipt, runs>>
  BY <1>1 DEF Gate, RunIInv, TypeOK
<1>3. t \notin run.todo \cup run.passed /\ run.todo \cap run.passed = {}
  BY <1>1 DEF RunIInv, EachTaskOnce, Working
<1>4. CASE run' = AfterAttempt(run, "broken", FALSE) /\ UNCHANGED <<verdict, judged>>
  <2>1. /\ run' \in Invocations /\ run'.task = t /\ run'.todo = run.todo /\ run'.passed = run.passed
        /\ run'.pc \in {"call", "promote"} /\ run'.gate = "broken"
    BY <1>1, <1>4, AfterAttemptType
  <2>2. TypeOK'
    BY <1>2, <1>4, <2>1 DEF RunIInv, TypeOK, Invocations
  <2>3. TaskAtHand' /\ OkIsJudged' /\ EachTaskOnce' /\ PassedVerdicts' /\ PassedAreWhole'
    BY <1>1, <1>2, <1>3, <1>4, <2>1
       DEF RunIInv, TaskAtHand, OkIsJudged, EachTaskOnce, PassedVerdicts, PassedAreWhole, Working
  <2>4. QED
    BY <1>2, <1>4, <2>2, <2>3 DEF RunIInv, CorpusIsGated
<1>5. CASE /\ verdict' = [verdict EXCEPT ![t] = answer]
           /\ judged' = IF answer = "ok" THEN judged \cup {<<t, work[t]>>} ELSE judged
           /\ run' = AfterAttempt(run, answer, answer = "refused")
  <2>1. /\ run' \in Invocations /\ run'.task = t /\ run'.todo = run.todo /\ run'.passed = run.passed
        /\ run'.pc \in {"call", "promote"} /\ run'.gate = answer
    BY <1>1, <1>5, AfterAttemptType
  <2>2. judged' \subseteq Tasks \X Docs
    BY <1>1, <1>2, <1>5 DEF RunIInv, TypeOK
  <2>3. TypeOK'
    BY <1>2, <1>5, <2>1, <2>2 DEF RunIInv, TypeOK, Invocations
  <2>4. verdict'[t] = answer /\ \A u \in Tasks \ {t} : verdict'[u] = verdict[u]
    BY <1>1, <1>5 DEF RunIInv, TypeOK
  <2>5. PassedVerdicts'
    <3>1. ASSUME NEW u \in run.passed PROVE verdict'[u] = "ok"
      <4>1. u \in Tasks \ {t}
        BY <1>1, <1>3 DEF Invocations
      <4>2. QED
        BY <1>1, <2>4, <4>1 DEF RunIInv, PassedVerdicts
    <3>2. QED
      BY <2>1, <2>4, <3>1 DEF PassedVerdicts
  <2>6. TaskAtHand' /\ OkIsJudged' /\ EachTaskOnce' /\ PassedAreWhole'
    BY <1>1, <1>2, <1>3, <1>5, <2>1
       DEF RunIInv, TaskAtHand, OkIsJudged, EachTaskOnce, PassedAreWhole, Working
  <2>7. judged \subseteq judged'
    BY <1>5
  <2>8. CorpusIsGated'
    BY <1>2, <2>7 DEF RunIInv, CorpusIsGated
  <2>9. QED
    BY <2>3, <2>5, <2>6, <2>8 DEF RunIInv
<1>6. QED
  BY <1>4, <1>5 DEF Gate, LastVerdict

\* A promotion: the document that passed, a torn copy of it that ends the run,
\* or nothing.
LEMMA PromoteStep == ASSUME RunIInv, Promote PROVE RunIInv'
<1> DEFINE t == run.task
<1> DEFINE onward == [run EXCEPT !.pc = "next", !.task = None]
<1>1. run.pc = "promote" /\ run \in Invocations /\ t \in Tasks
  BY RunType DEF Promote, RunIInv, TaskAtHand, Working
<1>2. UNCHANGED <<work, verdict, corpus, receipt, runs, judged>>
  BY DEF Promote
<1>3. onward \in Invocations /\ onward.pc = "next" /\ onward.todo = run.todo /\ onward.passed = run.passed
  BY <1>1 DEF Invocations
<1>4. CASE run.gate = "ok" /\ findings' = [findings EXCEPT ![t] = work[t]]
           /\ run' = [onward EXCEPT !.passed = @ \cup {t}]
  <2>1. /\ run' \in Invocations /\ run'.pc = "next" /\ run'.todo = run.todo
        /\ run'.passed = run.passed \cup {t}
    BY <1>1, <1>3, <1>4 DEF Invocations
  <2>2. work[t] \in Docs /\ <<t, work[t]>> \in judged /\ findings'[t] = work[t]
    BY <1>1, <1>4 DEF RunIInv, OkIsJudged, TypeOK, Files
  <2>3. \A u \in Tasks \ {t} : findings'[u] = findings[u]
    BY <1>4 DEF RunIInv, TypeOK, Files
  <2>4. TypeOK'
    BY <1>2, <1>4, <2>1, <2>2 DEF RunIInv, TypeOK, Invocations, Files
  <2>5. TaskAtHand' /\ OkIsJudged' /\ EachTaskOnce' /\ PassedVerdicts'
    BY <1>1, <1>2, <1>4, <2>1
       DEF RunIInv, TaskAtHand, OkIsJudged, EachTaskOnce, PassedVerdicts, Working
  <2>6. PassedAreWhole'
    BY <1>1, <2>1, <2>2, <2>3 DEF RunIInv, PassedAreWhole, Invocations
  <2>7. CorpusIsGated'
    BY <1>2, <2>2, <2>3, SameReceipt DEF RunIInv, CorpusIsGated
  <2>8. QED
    BY <2>4, <2>5, <2>6, <2>7 DEF RunIInv
<1>5. CASE findings' = [findings EXCEPT ![t] = Torn] /\ run' = Idle
  <2>1. findings' \in Files /\ run'.pc = "idle"
    BY <1>5 DEF RunIInv, TypeOK, Files, Idle
  <2>2. TypeOK'
    BY <1>2, <1>5, <2>1 DEF RunIInv, TypeOK
  <2>3. TaskAtHand' /\ OkIsJudged' /\ EachTaskOnce' /\ PassedVerdicts' /\ PassedAreWhole'
    BY <2>1 DEF TaskAtHand, OkIsJudged, EachTaskOnce, PassedVerdicts, PassedAreWhole, Working
  <2>4. \A u \in Tasks : findings'[u] \in {findings[u], Torn}
    BY <1>5 DEF RunIInv, TypeOK, Files
  <2>5. CorpusIsGated'
    BY <1>2, <2>4, SameReceipt, LocateAssumption DEF RunIInv, CorpusIsGated, Torn, LocateAssumption
  <2>6. QED
    BY <2>2, <2>3, <2>5 DEF RunIInv
<1>6. CASE run.gate # "ok" /\ run' = onward /\ UNCHANGED findings
  <2>1. TypeOK'
    BY <1>2, <1>3, <1>6 DEF RunIInv, TypeOK, Invocations
  <2>2. TaskAtHand' /\ OkIsJudged' /\ EachTaskOnce' /\ PassedVerdicts' /\ PassedAreWhole'
    BY <1>1, <1>2, <1>3, <1>6
       DEF RunIInv, TaskAtHand, OkIsJudged, EachTaskOnce, PassedVerdicts, PassedAreWhole, Working
  <2>3. QED
    BY <1>2, <1>6, <2>1, <2>2 DEF RunIInv, CorpusIsGated
<1>7. QED
  BY <1>4, <1>5, <1>6 DEF Promote, Passed

\* A copy into the corpus, whole or torn, or the end of the copying.
LEMMA TransferStep == ASSUME RunIInv, Transfer PROVE RunIInv'
<1>1. run.pc = "transfer" /\ run \in Invocations
  BY RunType DEF Transfer, RunIInv
<1>2. UNCHANGED <<work, findings, verdict, receipt, runs, judged>>
  BY DEF Transfer
<1>3. ASSUME NEW t \in run.todo, corpus' = [corpus EXCEPT ![t] = findings[t]],
             run' = [run EXCEPT !.todo = @ \ {t}]
      PROVE  RunIInv'
  <2>1. /\ run' \in Invocations /\ run'.pc = "transfer" /\ run'.passed = run.passed
        /\ run'.todo = run.todo \ {t} /\ t \in Tasks
    BY <1>1, <1>3 DEF Invocations
  <2>2. corpus' \in Files /\ corpus'[t] = findings[t] /\ \A u \in Tasks \ {t} : corpus'[u] = corpus[u]
    BY <1>3, <2>1 DEF RunIInv, TypeOK, Files
  <2>3. TypeOK'
    BY <1>2, <2>1, <2>2 DEF RunIInv, TypeOK, Invocations
  <2>4. CorpusIsGated'
    BY <1>2, <2>1, <2>2, SameReceipt DEF RunIInv, CorpusIsGated
  <2>5. TaskAtHand' /\ OkIsJudged' /\ EachTaskOnce' /\ PassedVerdicts'
    BY <1>1, <1>2, <2>1 DEF RunIInv, TaskAtHand, OkIsJudged, EachTaskOnce, PassedVerdicts, Working
  <2>6. PassedAreWhole'
    BY <1>1, <1>2, <2>1, <2>2 DEF RunIInv, PassedAreWhole, Invocations
  <2>7. QED
    BY <2>3, <2>4, <2>5, <2>6 DEF RunIInv
<1>4. ASSUME NEW t \in run.todo, corpus' = [corpus EXCEPT ![t] = Torn], run' = Idle
      PROVE  RunIInv'
  <2>1. corpus' \in Files /\ run'.pc = "idle"
    BY <1>4 DEF RunIInv, TypeOK, Files, Idle
  <2>2. TypeOK'
    BY <1>2, <1>4, <2>1 DEF RunIInv, TypeOK
  <2>3. TaskAtHand' /\ OkIsJudged' /\ EachTaskOnce' /\ PassedVerdicts' /\ PassedAreWhole'
    BY <2>1 DEF TaskAtHand, OkIsJudged, EachTaskOnce, PassedVerdicts, PassedAreWhole, Working
  <2>4. \A u \in Tasks : corpus'[u] \in {corpus[u], Torn}
    BY <1>4 DEF RunIInv, TypeOK, Files
  <2>5. CorpusIsGated'
    BY <1>2, <2>4, SameReceipt, LocateAssumption DEF RunIInv, CorpusIsGated, Torn, LocateAssumption
  <2>6. QED
    BY <2>2, <2>3, <2>5 DEF RunIInv
<1>5. CASE run.todo = {} /\ run' = [run EXCEPT !.pc = "receipt"] /\ UNCHANGED corpus
  <2>1. run' \in Invocations /\ run'.pc = "receipt" /\ run'.passed = run.passed
    BY <1>1, <1>5 DEF Invocations
  <2>2. TypeOK'
    BY <1>2, <1>5, <2>1 DEF RunIInv, TypeOK, Invocations
  <2>3. TaskAtHand' /\ OkIsJudged' /\ EachTaskOnce' /\ PassedVerdicts' /\ PassedAreWhole'
    BY <1>1, <1>2, <1>5, <2>1
       DEF RunIInv, TaskAtHand, OkIsJudged, EachTaskOnce, PassedVerdicts, PassedAreWhole, Working
  <2>4. QED
    BY <1>2, <1>5, <2>2, <2>3 DEF RunIInv, CorpusIsGated
<1>6. QED
  BY <1>3, <1>4, <1>5 DEF Transfer

\* A complete receipt vouches for what is in the corpus, none of it malformed.
LEMMA ReceiptStep == ASSUME RunIInv, WriteReceipt PROVE RunIInv'
<1>1. /\ NewReceipt \in [readable : BOOLEAN, complete : BOOLEAN, gated : BOOLEAN, manifest : Files]
      /\ UnreadableReceipt \in [readable : BOOLEAN, complete : BOOLEAN, gated : BOOLEAN, manifest : Files]
  BY DEF NewReceipt, RunIInv, TypeOK, AllCompared, NoneMalformed, NoneRefused,
         UnreadableReceipt, Unharvested, NoFiles, Files
<1>2. TypeOK' /\ run'.pc = "idle"
  BY <1>1 DEF WriteReceipt, RunIInv, TypeOK, Idle
<1>3. TaskAtHand' /\ OkIsJudged' /\ EachTaskOnce' /\ PassedVerdicts' /\ PassedAreWhole'
  BY <1>2 DEF TaskAtHand, OkIsJudged, EachTaskOnce, PassedVerdicts, PassedAreWhole, Working
<1>4. ASSUME NEW t \in Tasks, receipt'.complete, receipt'.manifest[t] # None
      PROVE  <<t, receipt'.manifest[t]>> \in judged
  <2>1. receipt' = NewReceipt
    BY <1>4 DEF WriteReceipt, UnreadableReceipt, Unharvested
  <2>2. receipt'.manifest[t] = corpus[t] /\ corpus[t] # Torn
    BY <1>4, <2>1 DEF NewReceipt, NoneMalformed
  <2>3. corpus[t] \in Docs
    BY <1>4, <2>2 DEF RunIInv, TypeOK, Files
  <2>4. QED
    BY <2>2, <2>3 DEF RunIInv, CorpusIsGated
<1>5. CorpusIsGated'
  BY <1>4 DEF WriteReceipt, RunIInv, CorpusIsGated
<1>6. QED
  BY <1>2, <1>3, <1>5 DEF RunIInv

LEMMA RunNextIInv == ASSUME RunIInv, [Next]_vars PROVE RunIInv'
<1>1. CASE UNCHANGED vars
  BY <1>1 DEF vars, RunIInv, TypeOK, TaskAtHand, OkIsJudged, CorpusIsGated, EachTaskOnce,
              PassedVerdicts, PassedAreWhole
<1>2. CASE Stop
  <2>1. TypeOK' /\ run'.pc = "idle"
    BY <1>2 DEF Stop, RunIInv, TypeOK, Idle
  <2>2. QED
    BY <1>2, <2>1, AtRestStep DEF Stop
<1>3. QED
  BY <1>1, <1>2, BeginStep, NextTaskStep, CallStep, GateStep, PromoteStep, TransferStep, ReceiptStep
     DEF Next

LEMMA RunIInvHolds == Spec => []RunIInv
BY RunInitIInv, RunNextIInv, PTL DEF Spec

\* Every variable keeps its type: no task gets more attempts than it may have.
THEOREM TypeCorrect == Spec => []TypeOK
BY RunIInvHolds, PTL DEF RunIInv

\* Every readable document promoted or in the corpus is one the gate passed for
\* its task, and a complete receipt vouches for no other, whatever was cut short.
THEOREM GateGuardsCorpus == Spec => []CorpusIsGated
BY RunIInvHolds, PTL DEF RunIInv

\* A run in which every task passed leaves a corpus that can be sealed, whatever
\* was refused or left torn by the runs before it.
THEOREM PassedRunsSeal == Spec => PassedRunIsSealable
<1> DEFINE Seals == (run.pc = "receipt" /\ run.passed = Tasks /\ receipt' = NewReceipt) => Sealable'
<1>1. RunIInv => Seals
  <2>1. SUFFICES ASSUME RunIInv, run.pc = "receipt", run.passed = Tasks, receipt' = NewReceipt
                 PROVE  Sealable'
    OBVIOUS
  <2>2. \A t \in Tasks : verdict[t] = "ok"
    BY <2>1 DEF RunIInv, PassedVerdicts
  <2>3. AllCompared(run.passed) /\ NoneRefused /\ \E t \in Tasks : verdict[t] # None
    BY <2>1, <2>2, LocateAssumption DEF AllCompared, NoneRefused, None, LocateAssumption
  <2>4. NoneMalformed
    BY <2>1, LocateAssumption DEF RunIInv, PassedAreWhole, NoneMalformed, Torn, LocateAssumption
  <2>5. QED
    BY <2>1, <2>3, <2>4 DEF NewReceipt, Sealable
<1>2. RunIInv /\ [Next]_vars => [Seals]_vars
  BY <1>1
<1>3. QED
  BY <1>2, RunIInvHolds, PTL DEF Spec, PassedRunIsSealable

-----------------------------------------------------------------------------
(* SpendWatchdog.                                                          *)

RecordIsTrue == drained \in BOOLEAN /\ record \in BOOLEAN /\ (record => drained)
SettlesDrained == dog.pc = "settle" => drained
SettledIsFinal ==
  (exit = "drained" /\ settled) => (drained /\ InFlight = {} /\ ~(Spend > Cap))
\* A watchdog has an options field, with options it may be started with.
DogIsStarted ==
  dog # NoDog => /\ DOMAIN dog = {"pc", "opts", "quiet", "last"}
                 /\ dog.pc \in {"watch", "settle"}
                 /\ dog.opts \subseteq Options

WatchIInv == RecordIsTrue /\ SettlesDrained /\ ExitMeansDrained /\ SettledIsFinal /\ DogIsStarted

LEMMA WatchInitIInv == ASSUME WatchInit PROVE WatchIInv
BY DEF WatchInit, WatchIInv, RecordIsTrue, SettlesDrained, ExitMeansDrained, SettledIsFinal,
       DogIsStarted, NoDog

\* As long as no call starts or ends, the spending is what it was.
LEMMA SameSpend == ASSUME UNCHANGED call PROVE Spend' = Spend /\ InFlight' = InFlight
<1>1. Priced' = Priced /\ NoPrice' = NoPrice /\ InFlight' = InFlight
  BY DEF Priced, NoPrice, InFlight
<1>2. QED
  BY <1>1 DEF Spend

\* The host: it starts nothing once it is drained.
LEMMA HostStep ==
  ASSUME WatchIInv, NEW c \in Calls, StartCall(c) \/ EndCall(c)
  PROVE  WatchIInv'
<1>1. UNCHANGED <<drained, record, dog, exit, settled>>
  BY DEF StartCall, EndCall
<1>2. ~(exit = "drained" /\ settled)
  BY DEF WatchIInv, SettledIsFinal, StartCall, EndCall, InFlight
<1>3. QED
  BY <1>1, <1>2
     DEF WatchIInv, RecordIsTrue, SettlesDrained, ExitMeansDrained, SettledIsFinal, DogIsStarted

\* Every step of a watchdog leaves the calls alone.  It may drain the host, and
\* then its record may say so; whoever exits as drained is.
LEMMA DogStep ==
  ASSUME WatchIInv, UNCHANGED call, drained => drained', RecordIsTrue', DogIsStarted',
         dog'.pc = "settle" => drained',
         \/ exit' \notin {"drained", "overCap"}
         \/ UNCHANGED <<exit, settled>>
         \/ drained' /\ (settled' /\ exit' = "drained" => (InFlight = {} /\ ~(Spend > Cap)))
  PROVE  WatchIInv'
<1>1. Spend' = Spend /\ InFlight' = InFlight
  BY SameSpend
<1>2. RecordIsTrue' /\ SettlesDrained' /\ ExitMeansDrained'
  BY DEF WatchIInv, RecordIsTrue, SettlesDrained, ExitMeansDrained
<1>3. SettledIsFinal'
  BY <1>1 DEF WatchIInv, SettledIsFinal
<1>4. QED
  BY <1>2, <1>3 DEF WatchIInv

\* What follows a check that went by isDrained.
LEMMA AfterCheckStep ==
  ASSUME WatchIInv, NEW isDrained \in BOOLEAN, dog.pc = "watch", AfterCheck(isDrained),
         UNCHANGED call, drained => drained', RecordIsTrue', isDrained => drained'
  PROVE  WatchIInv'
<1>1. CASE isDrained /\ "noSettle" \notin dog.opts
  <2>1. dog' = [dog EXCEPT !.pc = "settle", !.last = <<Spend, Envelopes>>] /\ UNCHANGED <<exit, settled>>
    BY <1>1 DEF AfterCheck
  <2>2. DogIsStarted'
    BY <2>1 DEF WatchIInv, DogIsStarted, NoDog
  <2>3. QED
    BY <1>1, <2>1, <2>2, DogStep
<1>2. CASE UNCHANGED <<dog, exit, settled>>
  BY <1>2, DogStep DEF WatchIInv, DogIsStarted
<1>3. ASSUME NEW code \in {"drained", "ok"}, ExitWith(code), code = "drained" => isDrained
      PROVE  WatchIInv'
  <2>1. dog' = NoDog /\ exit' = code /\ ~settled'
    BY <1>3 DEF ExitWith
  <2>2. DogIsStarted' /\ dog'.pc # "settle"
    BY <2>1 DEF DogIsStarted, NoDog
  <2>3. exit' \notin {"drained", "overCap"} \/ (drained' /\ ~settled')
    BY <1>3, <2>1
  <2>4. QED
    BY <2>2, <2>3, DogStep
<1>4. QED
  BY <1>1, <1>2, <1>3 DEF AfterCheck

LEMMA WatchNextIInv == ASSUME "dryRun" \notin Options, WatchIInv, [WatchNext]_watchVars PROVE WatchIInv'
<1>1. CASE UNCHANGED watchVars
  <2>1. Spend' = Spend /\ InFlight' = InFlight
    BY <1>1, SameSpend DEF watchVars
  <2>2. QED
    BY <1>1, <2>1
       DEF watchVars, WatchIInv, RecordIsTrue, SettlesDrained, ExitMeansDrained, SettledIsFinal, DogIsStarted
<1>2. CASE WriteStopFile
  BY <1>2, DogStep DEF WriteStopFile, WatchIInv, RecordIsTrue, SettlesDrained, DogIsStarted
<1>3. ASSUME NEW opts \in SUBSET Options, Launch(opts) PROVE WatchIInv'
  <2>1. dog' = [pc |-> "watch", opts |-> opts, quiet |-> 0, last |-> <<0, 0>>]
    BY <1>3 DEF Launch
  <2>2. DogIsStarted'
    BY <2>1 DEF DogIsStarted
  <2>3. QED
    BY <1>3, <2>1, <2>2, DogStep DEF Launch, WatchIInv, RecordIsTrue
<1>4. CASE CheckQuietly
  <2>1. RecordIsTrue'
    <3>1. record' \in {record, record} /\ drained' = drained
      BY <1>4 DEF CheckQuietly, Write
    <3>2. record' = record
      BY <3>1
    <3>3. QED
      BY <3>1, <3>2 DEF WatchIInv, RecordIsTrue
  <2>2. /\ record \in BOOLEAN /\ (record => drained)
    BY DEF WatchIInv, RecordIsTrue
  <2>3. dog.pc = "watch" /\ AfterCheck(record) /\ UNCHANGED call /\ drained' = drained
    BY <1>4 DEF CheckQuietly
  <2>4. QED
    BY <2>1, <2>2, <2>3, AfterCheckStep
<1>5. CASE CheckAndDrain
  <2>1. "dryRun" \notin dog.opts
    <3>1. dog.pc = "watch"
      BY <1>5 DEF CheckAndDrain
    <3>2. dog # NoDog
      BY <3>1 DEF NoDog
    <3>3. QED
      BY <3>2 DEF WatchIInv, DogIsStarted
  <2>2. PICK answered \in BOOLEAN :
          /\ drained' \in {TRUE, answered \/ drained}
          /\ Write(answered) /\ AfterCheck(answered)
    BY <1>5, <2>1 DEF CheckAndDrain, CountsAsDrained
  <2>3. (drained => drained') /\ (answered => drained') /\ RecordIsTrue'
    <3>1. drained \in BOOLEAN /\ record \in BOOLEAN /\ ~record
      BY <1>5 DEF CheckAndDrain, WatchIInv, RecordIsTrue
    <3>2. drained' = TRUE \/ drained' = (answered \/ drained)
      BY <2>2
    <3>3. record' = answered \/ record' = record
      BY <2>2 DEF Write
    <3>4. drained' \in BOOLEAN /\ record' \in BOOLEAN
      BY <3>1, <3>2, <3>3
    <3>5. QED
      BY <3>1, <3>2, <3>3, <3>4 DEF RecordIsTrue
  <2>4. dog.pc = "watch" /\ UNCHANGED call
    BY <1>5 DEF CheckAndDrain
  <2>5. QED
    BY <2>2, <2>3, <2>4, AfterCheckStep
<1>6. CASE Settle
  <2>1. drained /\ UNCHANGED <<call, drained>>
    BY <1>6 DEF Settle, WatchIInv, SettlesDrained
  <2>5. RecordIsTrue'
    <3>1. record' = TRUE \/ record' = record
      BY <1>6 DEF Settle
    <3>2. QED
      BY <2>1, <3>1 DEF WatchIInv, RecordIsTrue
  <2>2. CASE ExitWith(IF OverNow THEN "overCap" ELSE "drained")
    <3>1. /\ dog' = NoDog /\ exit' = IF Spend > Cap THEN "overCap" ELSE "drained"
          /\ settled' => InFlight = {}
      BY <1>6, <2>2 DEF ExitWith, OverNow
    <3>2. DogIsStarted'
      BY <3>1 DEF DogIsStarted
    <3>3. QED
      BY <2>1, <2>5, <3>1, <3>2, DogStep DEF NoDog
  <2>3. CASE ~ExitWith(IF OverNow THEN "overCap" ELSE "drained")
    <3>1. PICK quiet, last : dog' = [dog EXCEPT !.quiet = quiet, !.last = last]
      BY <1>6, <2>3 DEF Settle
    <3>2. UNCHANGED <<record, exit, settled>>
      BY <1>6, <2>3 DEF Settle
    <3>3. DogIsStarted'
      BY <1>6, <3>1 DEF Settle, WatchIInv, DogIsStarted, NoDog
    <3>4. QED
      BY <2>1, <2>5, <3>2, <3>3, DogStep
  <2>4. QED
    BY <2>2, <2>3
<1>7. CASE SeeStopFile \/ KillDog
  <2>1. /\ dog' = NoDog /\ exit' \in {"ok", "killed"}
        /\ UNCHANGED <<call, drained, record>>
    BY <1>7 DEF SeeStopFile, KillDog, ExitWith
  <2>2. DogIsStarted' /\ dog'.pc # "settle"
    BY <2>1 DEF DogIsStarted, NoDog
  <2>3. QED
    BY <2>1, <2>2, DogStep DEF WatchIInv, RecordIsTrue
<1>8. QED
  BY <1>1, <1>2, <1>3, <1>4, <1>5, <1>6, <1>7, HostStep DEF WatchNext

\* Where no watchdog is a dry run, an exit that reports a drain means that the
\* host was drained, whatever drain commands and records were lost.
THEOREM DrainedExits == ASSUME "dryRun" \notin Options PROVE WatchSpec => []ExitMeansDrained
<1>1. WatchIInv /\ [WatchNext]_watchVars => WatchIInv'
  BY WatchNextIInv
<1>2. WatchInit => WatchIInv
  BY WatchInitIInv
<1>3. WatchIInv => ExitMeansDrained
  BY DEF WatchIInv
<1>4. QED
  BY <1>1, <1>2, <1>3, PTL DEF WatchSpec

\* Exit 2 after a settling with nothing in flight: the cap holds from then on.
THEOREM SettledExits == ASSUME "dryRun" \notin Options PROVE WatchSpec => []SettledExitHolds
<1>1. WatchIInv /\ [WatchNext]_watchVars => WatchIInv'
  BY WatchNextIInv
<1>2. WatchInit => WatchIInv
  BY WatchInitIInv
<1>3. WatchIInv => SettledExitHolds
  BY DEF WatchIInv, SettledIsFinal, SettledExitHolds
<1>4. QED
  BY <1>1, <1>2, <1>3, PTL DEF WatchSpec
=============================================================================
