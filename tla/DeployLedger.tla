---------------------------- MODULE DeployLedger ----------------------------
(***************************************************************************)
(* What the deployment journal of site/ops promises about promotions: at   *)
(* most one attempt is open at a time, an attempt is opened once, reaches  *)
(* production at most once and only while it is open, and is closed with a *)
(* verdict that says what production saw of it.                            *)
(***************************************************************************)
CONSTANTS
  Attempts,   \* promotion attempts
  NoAttempt   \* "no attempt is open"

Verdicts == {"changed", "unchanged", "superseded"}

VARIABLES
  open,      \* the open attempt
  verdict,   \* what each attempt was closed with ("none" before)
  landed     \* the attempts whose Worker version has been production

ledgerVars == <<open, verdict, landed>>

LedgerInit ==
  /\ open = NoAttempt
  /\ verdict = [a \in Attempts |-> "none"]
  /\ landed = {}

\* A new attempt is opened only when every earlier one is closed.
Open(a) ==
  /\ open = NoAttempt /\ verdict[a] = "none"
  /\ open' = a
  /\ UNCHANGED <<verdict, landed>>

\* Its version becomes production: once, and while it is open.
Land(a) ==
  /\ open = a /\ a \notin landed
  /\ landed' = landed \cup {a}
  /\ UNCHANGED <<open, verdict>>

\* "changed" and "unchanged" are facts about production; "superseded" says
\* only that something else is live.
Close(a, v) ==
  /\ open = a
  /\ v = "changed" => a \in landed
  /\ v = "unchanged" => a \notin landed
  /\ open' = NoAttempt
  /\ verdict' = [verdict EXCEPT ![a] = v]
  /\ UNCHANGED landed

LedgerNext ==
  \E a \in Attempts : Open(a) \/ Land(a) \/ \E v \in Verdicts : Close(a, v)

LedgerSpec == LedgerInit /\ [][LedgerNext]_ledgerVars
=============================================================================
