------------------------------ MODULE LocateRun ------------------------------
(***************************************************************************)
(* --stage run of contribute mode (scripts/pipeline/contribute/work.py over *)
(* scripts/pipeline/run): the tasks of a package are run one after the      *)
(* other - a worker writes a document, the gate judges it, a refusal is     *)
(* handed back once, a document that passed is promoted - and the harvest   *)
(* reconciles what passed into the corpus, with the receipt that the tally  *)
(* and the seal ask for.  An invocation may be interrupted between any two  *)
(* steps, and inside a copy or the write of the receipt, all of which are   *)
(* made in place; it may be run again over what it left.  Without --execute *)
(* it calls no worker and does everything else.                             *)
(*                                                                         *)
(* Left out: the staging of inputs (an invocation with one missing changes  *)
(* none of this), what the worker writes outside its directory, the         *)
(* reviewer, which writes nothing, costs, and a gate log that cannot be     *)
(* written.  A task has one document.                                       *)
(***************************************************************************)
EXTENDS Integers, FiniteSets

CONSTANTS
  Tasks,        \* tasks of the package
  Docs,         \* documents a worker may write
  Sound,        \* those the gate passes
  MaxAttempts,  \* worker calls per task
  MaxRuns       \* bound on the invocations

ASSUME LocateAssumption ==
  /\ Sound \subseteq Docs /\ Docs \cap {"none", "torn"} = {}
  /\ Tasks # {} /\ "none" \notin Tasks
  /\ MaxAttempts \in Nat \ {0} /\ MaxRuns \in Nat

VARIABLES
  work,      \* the document in each task's working directory
  findings,  \* the promoted documents
  verdict,   \* the last validation call the gate logged for each task
  corpus,    \* the harvested documents
  receipt,   \* RECEIPT.json: whether complete, whether gated, and its manifest
  run,       \* the invocation under way
  runs,      \* invocations so far
  judged     \* every document the gate has passed, with its task

vars == <<work, findings, verdict, corpus, receipt, run, runs, judged>>

None == "none"
\* What a copy that is cut short leaves: a file nobody can read as a document.
Torn == "torn"
Files == [Tasks -> Docs \cup {None, Torn}]
Idle == [pc |-> "idle"]
NoFiles == [t \in Tasks |-> None]
Unharvested == [readable |-> TRUE, complete |-> FALSE, gated |-> FALSE, manifest |-> NoFiles]
UnreadableReceipt == [Unharvested EXCEPT !.readable = FALSE]
\* An invocation before its first task; the first gate verdict is that there is
\* no document.
Begun(paid) ==
  [pc |-> "next", paid |-> paid, todo |-> Tasks, task |-> None, attempt |-> 0,
   gate |-> "noDocument", passed |-> {}]

TypeOK ==
  /\ work \in [Tasks -> Docs \cup {None}] /\ findings \in Files /\ corpus \in Files
  /\ verdict \in [Tasks -> {None, "ok", "refused"}]
  /\ receipt \in [readable : BOOLEAN, complete : BOOLEAN, gated : BOOLEAN, manifest : Files]
  /\ run \in {Idle} \cup
       [pc : {"next", "call", "gate", "promote", "transfer", "receipt"}, paid : BOOLEAN,
        todo : SUBSET Tasks, task : Tasks \cup {None}, attempt : 0..MaxAttempts,
        gate : {"noDocument", "ok", "refused", "broken"}, passed : SUBSET Tasks]
  /\ runs \in 0..MaxRuns
  /\ judged \subseteq Tasks \X Docs

Init ==
  /\ work = NoFiles /\ findings = NoFiles /\ corpus = NoFiles
  /\ verdict = [t \in Tasks |-> None]
  /\ receipt = Unharvested
  /\ run = Idle /\ runs = 0 /\ judged = {}

-----------------------------------------------------------------------------

Begin(paid) ==
  /\ run = Idle /\ runs < MaxRuns
  /\ run' = Begun(paid)
  /\ runs' = runs + 1
  /\ UNCHANGED <<work, findings, verdict, corpus, receipt, judged>>

\* The next task; after the last one the harvest, which reads the receipt before
\* it first and refuses to go on from one it cannot read.
NextTask ==
  /\ run.pc = "next"
  /\ \/ \E t \in run.todo :
          run' = [run EXCEPT !.pc = "call", !.task = t, !.attempt = 1,
                             !.gate = "noDocument", !.todo = @ \ {t}]
     \/ /\ run.todo = {}
        /\ run' = IF receipt.readable THEN [run EXCEPT !.pc = "transfer", !.todo = run.passed]
                  ELSE Idle
  /\ UNCHANGED <<work, findings, verdict, corpus, receipt, runs, judged>>

\* Attempts that are left are used up by a task without a document too.
AfterAttempt(r, gate, again) ==
  IF again /\ r.attempt < MaxAttempts
    THEN [r EXCEPT !.pc = "call", !.attempt = @ + 1, !.gate = gate]
    ELSE [r EXCEPT !.pc = "promote", !.gate = gate]

\* A worker may write any document, or none: it fails, it times out, or it is a
\* dry run.  What an earlier call left in the directory is then still there.
Call ==
  LET t == run.task
  IN /\ run.pc = "call"
     /\ \/ run.paid /\ \E d \in Docs : work' = [work EXCEPT ![t] = d]
        \/ UNCHANGED work
     /\ run' = IF work'[t] = None THEN AfterAttempt(run, "noDocument", TRUE)
               ELSE [run EXCEPT !.pc = "gate"]
     /\ UNCHANGED <<findings, verdict, corpus, receipt, runs, judged>>

\* Mutant: a refusal stays, whatever the gate says of the next attempt.
FirstRefusal(before, answer) == IF before = "refused" THEN before ELSE answer

\* A task's verdict is its last call.
LastVerdict(before, answer) == answer

\* The gate logs a verdict and leaves a refusal for the next attempt; a gate
\* that breaks logs nothing and ends the attempts.
Gate ==
  LET t == run.task  answer == IF work[t] \in Sound THEN "ok" ELSE "refused"
  IN /\ run.pc = "gate"
     /\ \/ /\ verdict' = [verdict EXCEPT ![t] = LastVerdict(@, answer)]
           /\ judged' = IF answer = "ok" THEN judged \cup {<<t, work[t]>>} ELSE judged
           /\ run' = AfterAttempt(run, answer, answer = "refused")
        \/ run' = AfterAttempt(run, "broken", FALSE) /\ UNCHANGED <<verdict, judged>>
     /\ UNCHANGED <<work, findings, corpus, receipt, runs>>

\* Mutant: what the gate did not refuse is promoted.
NotRefused(gate) == gate # "refused"

Passed(gate) == gate = "ok"

\* A document that passed is copied over the one promoted before it, in place.
Promote ==
  LET t == run.task
      onward == [run EXCEPT !.pc = "next", !.task = None]
  IN /\ run.pc = "promote"
     /\ \/ /\ Passed(run.gate)
           /\ \/ /\ findings' = [findings EXCEPT ![t] = work[t]]
                 /\ run' = [onward EXCEPT !.passed = @ \cup {t}]
              \/ findings' = [findings EXCEPT ![t] = Torn] /\ run' = Idle
        \/ ~Passed(run.gate) /\ run' = onward /\ UNCHANGED findings
     /\ UNCHANGED <<work, verdict, corpus, receipt, runs, judged>>

\* The promoted documents of the tasks that passed are copied over what the
\* corpus holds, in place, one by one.
Transfer ==
  /\ run.pc = "transfer"
  /\ \/ \E t \in run.todo :
          \/ /\ corpus' = [corpus EXCEPT ![t] = findings[t]]
             /\ run' = [run EXCEPT !.todo = @ \ {t}]
          \/ corpus' = [corpus EXCEPT ![t] = Torn] /\ run' = Idle
     \/ /\ run.todo = {}
        /\ run' = [run EXCEPT !.pc = "receipt"]
        /\ UNCHANGED corpus
  /\ UNCHANGED <<work, findings, verdict, receipt, runs, judged>>

\* Every file in the corpus was compared with one the harvest brought.
AllCompared(passed) == \A t \in Tasks : corpus[t] # None => t \in passed

\* Every file in the corpus can be read as a document.
NoneMalformed == \A t \in Tasks : corpus[t] # Torn

\* No task's last verdict is a refusal.
NoneRefused == \A t \in Tasks : verdict[t] # "refused"

NewReceipt ==
  [readable |-> TRUE,
   complete |-> AllCompared(run.passed) /\ NoneMalformed /\ NoneRefused,
   gated |-> \E t \in Tasks : verdict[t] # None,
   manifest |-> corpus]

\* The receipt is written over the one before it, in place: an interruption
\* leaves a file nobody can read.
WriteReceipt ==
  /\ run.pc = "receipt"
  /\ receipt' \in {NewReceipt, UnreadableReceipt}
  /\ run' = Idle
  /\ UNCHANGED <<work, findings, verdict, corpus, runs, judged>>

\* Interrupted: the files stay as they are.
Stop ==
  /\ run # Idle
  /\ run' = Idle
  /\ UNCHANGED <<work, findings, verdict, corpus, receipt, runs, judged>>

Next ==
  \/ \E paid \in BOOLEAN : Begin(paid)
  \/ NextTask \/ Call \/ Gate \/ Promote \/ Transfer \/ WriteReceipt \/ Stop

Spec == Init /\ [][Next]_vars

-----------------------------------------------------------------------------
(* What must hold.                                                         *)

\* What require_gated asks before anything is sealed or tallied.
Sealable == receipt.complete /\ receipt.gated

\* Wherever runs and copies were cut short and whatever the workers wrote since:
\* a document that can be read, promoted or in the corpus, is one the gate passed
\* for that task, and a receipt that says complete vouches for no other, a torn
\* one least of all.
CorpusIsGated ==
  \A t \in Tasks :
    /\ \A d \in Docs : d \in {findings[t], corpus[t]} => <<t, d>> \in judged
    /\ (receipt.complete /\ receipt.manifest[t] # None) => <<t, receipt.manifest[t]>> \in judged

\* A run in which every task passed leaves a corpus that can be sealed, whatever
\* was refused, broken off or left behind before.
PassedRunIsSealable ==
  [][(run.pc = "receipt" /\ run.passed = Tasks /\ receipt' = NewReceipt) => Sealable']_vars

(* What the code does not keep.                                            *)

\* A complete receipt is about the corpus beside it: not once a later harvest was
\* cut short.  What reads such a corpus fails at the torn document, or takes the
\* copies made so far, each of them passed.
ReceiptIsOfTheCorpus == Sealable => receipt.manifest = corpus

\* The docstring of run_stage: a dry run calls no model and writes no document.
PreviewWritesNoDocument ==
  [][(run # Idle /\ ~run.paid) => UNCHANGED <<findings, corpus>>]_vars
=============================================================================
