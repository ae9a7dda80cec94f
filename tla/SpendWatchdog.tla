---------------------------- MODULE SpendWatchdog ----------------------------
(***************************************************************************)
(* The spend watchdog of a shard (scripts/pipeline/run/watchdog.py) beside  *)
(* the run host it watches.  Calls of agents run in the host and leave an   *)
(* envelope when they end; the watchdog adds the envelopes up, drains the   *)
(* host when a rule says so - the host then starts nothing, and what is in  *)
(* flight goes on - settles, and exits with a code the campaign is steered  *)
(* by.  What it did is kept in watchdog.json, which the next watchdog of    *)
(* the root reads.                                                          *)
(*                                                                         *)
(* The host and its drain command are not in the repository: the host is    *)
(* what the watchdog's documentation says of it.  Time is left out: a       *)
(* settling phase may end at any reading.                                   *)
(***************************************************************************)
EXTENDS Integers, FiniteSets

CONSTANTS
  Calls,         \* calls of agents
  Prices,        \* dollars a priced call may cost
  Estimate,      \* dollars an unpriced call is estimated at, by the priced ones
  Fallback,      \* and as long as there is none: --unpriced-usd-per-hour, or 0
  Cap,           \* the shard's cap
  RateFloor,     \* calls below which the two rate rules do not fire
  SettleChecks,  \* readings without a change that end the settling
  Options,       \* options a watchdog may be started with
  MaxStarts      \* bound on the watchdogs of the root

ASSUME WatchdogAssumption ==
  /\ Prices \subseteq Nat /\ Estimate \in Nat /\ Fallback \in Nat /\ Cap \in Nat \ {0} /\ RateFloor \in Nat \ {0}
  /\ SettleChecks \in Nat \ {0} /\ Options \subseteq {"dryRun", "once", "noSettle"}
  /\ MaxStarts \in Nat

VARIABLES
  call,     \* each call: not started, running, unpriced, or its price
  drained,  \* the host starts nothing more
  stop,     \* watchdog.stop is there
  record,   \* drained, as the newest record of watchdog.json has it
  dog,      \* the watchdog that runs
  starts,   \* watchdogs started
  exit,     \* how the last one ended
  settled   \* whether it had settled and no call was in flight then

watchVars == <<call, drained, stop, record, dog, starts, exit, settled>>

New == [state |-> "new"]
Running == [state |-> "running"]
Unpriced == [state |-> "unpriced"]
NoDog == [pc |-> "none"]

WatchTypeOK ==
  /\ call \in [Calls -> {New, Running, Unpriced} \cup [state : {"priced"}, usd : Prices]]
  /\ drained \in BOOLEAN /\ stop \in BOOLEAN /\ record \in BOOLEAN /\ settled \in BOOLEAN
  /\ dog \in {NoDog} \cup
       [pc : {"watch", "settle"}, opts : SUBSET Options, quiet : 0..(SettleChecks - 1), last : Nat \X Nat]
  /\ starts \in 0..MaxStarts
  /\ exit \in {"none", "ok", "drained", "overCap", "killed"}

WatchInit ==
  /\ call = [c \in Calls |-> New]
  /\ drained = FALSE /\ stop = FALSE /\ record = FALSE
  /\ dog = NoDog /\ starts = 0 /\ exit = "none" /\ settled = TRUE

-----------------------------------------------------------------------------
(* The host.                                                               *)

StartCall(c) ==
  /\ ~drained /\ call[c] = New
  /\ call' = [call EXCEPT ![c] = Running]
  /\ UNCHANGED <<drained, stop, record, dog, starts, exit, settled>>

EndCall(c) ==
  /\ call[c] = Running
  /\ \/ \E usd \in Prices : call' = [call EXCEPT ![c] = [state |-> "priced", usd |-> usd]]
     \/ call' = [call EXCEPT ![c] = Unpriced]
  /\ UNCHANGED <<drained, stop, record, dog, starts, exit, settled>>

WriteStopFile ==
  /\ ~stop /\ stop' = TRUE
  /\ UNCHANGED <<call, drained, record, dog, starts, exit, settled>>

-----------------------------------------------------------------------------
(* The watchdog.                                                           *)

Priced == {c \in Calls : call[c].state = "priced"}
NoPrice == {c \in Calls : call[c] = Unpriced}
Envelopes == Cardinality(Priced) + Cardinality(NoPrice)
InFlight == {c \in Calls : call[c] = Running}

\* The priced envelopes, and an estimate for the others: at the rate a priced
\* envelope gives, before the first one at the fallback.  So the first priced
\* envelope may lower the reading.
Spend ==
  LET Total[S \in SUBSET Calls] ==
        IF S = {} THEN 0 ELSE LET c == CHOOSE c \in S : TRUE IN call[c].usd + Total[S \ {c}]
  IN Total[Priced] + (IF Priced = {} THEN Fallback ELSE Estimate) * Cardinality(NoPrice)

Launch(opts) ==
  /\ dog = NoDog /\ starts < MaxStarts
  /\ dog' = [pc |-> "watch", opts |-> opts, quiet |-> 0, last |-> <<0, 0>>]
  /\ starts' = starts + 1
  /\ exit' = "none"
  /\ UNCHANGED <<call, drained, stop, record, settled>>

ExitWith(code) ==
  dog' = NoDog /\ exit' = code /\ settled' = (dog.pc = "settle" /\ InFlight = {})

\* Mutant: a drain command that failed counts.
AnyAnswer(answered) == TRUE

\* Only a drain command that exited 0 counts as a drain.
CountsAsDrained(answered) == answered

\* After a check: settle if the root is drained, else wait for the next one.
AfterCheck(isDrained) ==
  IF isDrained
    THEN IF "noSettle" \in dog.opts THEN ExitWith("drained")
         ELSE /\ dog' = [dog EXCEPT !.pc = "settle", !.last = <<Spend, Envelopes>>]
              /\ UNCHANGED <<exit, settled>>
    ELSE IF "once" \in dog.opts \/ stop THEN ExitWith("ok") ELSE UNCHANGED <<dog, exit, settled>>

\* A record that cannot be written is lost.
Write(isDrained) == record' \in {isDrained, record}

\* A check that drains nothing: no rule fires, or a record says it is done.
CheckQuietly ==
  /\ dog.pc = "watch"
  /\ record \/ Spend < Cap
  /\ Write(record) /\ AfterCheck(record)
  /\ UNCHANGED <<call, drained, stop, starts>>

MayDrain == Spend >= Cap \/ Envelopes >= RateFloor

\* A rule fires: the cap is reached, or, above the floor, a rate is too high.
\* The drain command may fail, and may have drained the host when it does.
\* A dry run only says it drained.
CheckAndDrain ==
  /\ dog.pc = "watch"
  /\ ~record /\ MayDrain
  /\ IF "dryRun" \in dog.opts
       THEN Write(TRUE) /\ AfterCheck(TRUE) /\ UNCHANGED drained
       ELSE \E answered \in BOOLEAN :
              /\ drained' \in {TRUE, answered \/ drained}
              /\ Write(CountsAsDrained(answered)) /\ AfterCheck(CountsAsDrained(answered))
  /\ UNCHANGED <<call, stop, starts>>

\* Mutant: the cap is compared with the reading before.
OverBefore == dog.last[1] > Cap

OverNow == Spend > Cap

StillSettling(quiet) == quiet < SettleChecks

\* One more reading: the settling ends when enough of them show no change, or
\* when its time is up.
Settle ==
  /\ dog.pc = "settle"
  /\ LET quiet == IF <<Spend, Envelopes>> = dog.last THEN dog.quiet + 1 ELSE 0
         finish == record' \in {TRUE, record} /\ ExitWith(IF OverNow THEN "overCap" ELSE "drained")
         again == /\ dog' = [dog EXCEPT !.quiet = quiet, !.last = <<Spend, Envelopes>>]
                  /\ UNCHANGED <<record, exit, settled>>
     IN finish \/ (StillSettling(quiet) /\ again)
  /\ UNCHANGED <<call, drained, stop, starts>>

\* While it waits the watchdog looks at the stop file.
SeeStopFile ==
  /\ dog.pc = "watch" /\ stop
  /\ ExitWith("ok")
  /\ UNCHANGED <<call, drained, stop, record, starts>>

KillDog ==
  /\ dog # NoDog
  /\ ExitWith("killed")
  /\ UNCHANGED <<call, drained, stop, record, starts>>

WatchNext ==
  \/ \E c \in Calls : StartCall(c) \/ EndCall(c)
  \/ WriteStopFile
  \/ \E opts \in SUBSET Options : Launch(opts)
  \/ CheckQuietly \/ CheckAndDrain \/ Settle \/ SeeStopFile \/ KillDog

\* The watchdog goes on checking, and a drain that is asked for again and again
\* works in the end.
WatchFairness ==
  /\ WF_watchVars(CheckQuietly) /\ WF_watchVars(Settle) /\ WF_watchVars(SeeStopFile)
  /\ SF_watchVars(CheckAndDrain /\ drained')

WatchSpec == WatchInit /\ [][WatchNext]_watchVars /\ WatchFairness

-----------------------------------------------------------------------------
(* What must hold.                                                         *)

\* A watchdog that watches does not leave a root over its cap undrained, unless
\* the reading falls under the cap again, as only the first price after a
\* fallback makes it.
OverCapIsDrained ==
  (dog.pc = "watch" /\ Spend >= Cap) ~> (drained \/ exit \in {"ok", "killed"} \/ Spend < Cap)

\* "It exits 2 for a clean drain": an exit that reports a drain means the host
\* was drained.
ExitMeansDrained == exit \in {"drained", "overCap"} => drained

\* Exit 2 after settling means the cap holds, then and later, if no call was in
\* flight: the host starts none, and what is reported is what was last read.
SettledExitHolds == (exit = "drained" /\ settled) => ~(Spend > Cap)

\* "It must not exit leaving a cap unenforced after a drain": exit 2 means that
\* the cap holds from then on.  It does not when a call in flight is silent for
\* as long as the settling lasts.
CapEnforced == exit = "drained" => Spend <= Cap
=============================================================================
