------------------------------- MODULE Flags --------------------------------
(***************************************************************************)
(* Readers' flags on an article and the counter beside them                *)
(* (wiki/src/index.ts, POST /api/flag/:slug and /api/flag/:id/resolve).    *)
(* The flag rows and moderation_state.flag_count are written by separate   *)
(* awaits, and a request may fail between any two of them.                 *)
(*                                                                         *)
(* Left out: authentication, the per-address rate limit, reasons, comments *)
(* and resolutions (all resolve a flag alike).                             *)
(***************************************************************************)
EXTENDS Integers, FiniteSets

CONSTANTS
  Requests,  \* requests the Worker may serve at a time
  Ids,       \* flag ids
  Targets,   \* what a flag points at: the article or one of its annotations
  Cap,       \* open flags at which a target takes no more (5 in the code)
  MaxLost    \* bound on requests that fail half-way

ASSUME FlagsAssumption ==
  /\ Cap \in Nat \ {0} /\ MaxLost \in Nat
  /\ IsFiniteSet(Requests) /\ IsFiniteSet(Ids)

VARIABLES
  flags,      \* flag id -> its target and status, or Free before the insert
  flagCount,  \* moderation_state.flag_count
  request,    \* requests in progress
  lost        \* how many flags were inserted and never counted, and how many
              \* requests failed half-way

vars == <<flags, flagCount, request, lost>>

Free == [status |-> "free"]
Flag(t, s) == [status |-> s, target |-> t]
Idle == [pc |-> "idle"]

OpenFlags == {f \in Ids : flags[f].status = "open"}
OpenOn(t) == {f \in OpenFlags : flags[f].target = t}
At(pc) == {r \in Requests : request[r].pc = pc}

TypeOK ==
  /\ flags \in [Ids -> {Free} \cup {Flag(t, s) : t \in Targets, s \in {"open", "resolved"}}]
  /\ flagCount \in 0..Cardinality(Ids)
  /\ request \in [Requests -> {Idle, [pc |-> "inserted"], [pc |-> "closed"]}
                    \cup [pc : {"counted"}, target : Targets]
                    \cup [pc : {"looked"}, flag : Ids]]
  /\ lost \in [flags : Nat, requests : 0..MaxLost]

Init ==
  /\ flags = [f \in Ids |-> Free] /\ flagCount = 0
  /\ request = [r \in Requests |-> Idle]
  /\ lost = [flags |-> 0, requests |-> 0]

-----------------------------------------------------------------------------
(* Raising a flag.                                                         *)

\* Mutant: the open flags of the target are not looked at.
NeverFull(t) == TRUE

Accepts(t) == Cardinality(OpenOn(t)) < Cap

\* A full target answers ok at once and nothing changes.
CountOpen(r, t) ==
  /\ request[r].pc = "idle" /\ Accepts(t)
  /\ request' = [request EXCEPT ![r] = [pc |-> "counted", target |-> t]]
  /\ UNCHANGED <<flags, flagCount, lost>>

Insert(r) ==
  /\ request[r].pc = "counted"
  /\ \E f \in Ids :
       /\ flags[f] = Free
       /\ flags' = [flags EXCEPT ![f] = Flag(request[r].target, "open")]
  /\ request' = [request EXCEPT ![r] = [pc |-> "inserted"]]
  /\ UNCHANGED <<flagCount, lost>>

Increment(r) ==
  /\ request[r].pc = "inserted"
  /\ flagCount' = flagCount + 1
  /\ request' = [request EXCEPT ![r] = Idle]
  /\ UNCHANGED <<flags, lost>>

-----------------------------------------------------------------------------
(* Resolving one.                                                          *)

Look(r, f) ==
  /\ request[r].pc = "idle" /\ flags[f].status = "open"
  /\ request' = [request EXCEPT ![r] = [pc |-> "looked", flag |-> f]]
  /\ UNCHANGED <<flags, flagCount, lost>>

\* Mutant: the update is not guarded, so a second resolve goes on.
CloseAnyway(f) == TRUE

StillOpen(f) == flags[f].status = "open"

\* The compare-and-set: only one of several resolves goes on to the counter.
CloseFlag(r) ==
  /\ request[r].pc = "looked"
  /\ LET f == request[r].flag
     IN \/ /\ StillOpen(f)
           /\ flags' = [flags EXCEPT ![f].status = "resolved"]
           /\ request' = [request EXCEPT ![r] = [pc |-> "closed"]]
        \/ /\ ~StillOpen(f) /\ UNCHANGED flags
           /\ request' = [request EXCEPT ![r] = Idle]
  /\ UNCHANGED <<flagCount, lost>>

\* Mutant: without MAX(n - 1, 0).
Unclamped(n) == n - 1

Lowered(n) == IF n = 0 THEN 0 ELSE n - 1

Decrement(r) ==
  /\ request[r].pc = "closed"
  /\ flagCount' = Lowered(flagCount)
  /\ request' = [request EXCEPT ![r] = Idle]
  /\ UNCHANGED <<flags, lost>>

-----------------------------------------------------------------------------
\* An await rejects, or the Worker is torn down.
Fail(r) ==
  /\ request[r].pc # "idle" /\ lost.requests < MaxLost
  /\ lost' = [flags |-> IF request[r].pc = "inserted" THEN lost.flags + 1 ELSE lost.flags,
              requests |-> lost.requests + 1]
  /\ request' = [request EXCEPT ![r] = Idle]
  /\ UNCHANGED <<flags, flagCount>>

Next ==
  \E r \in Requests :
    \/ \E t \in Targets : CountOpen(r, t)
    \/ Insert(r) \/ Increment(r)
    \/ \E f \in Ids : Look(r, f)
    \/ CloseFlag(r) \/ Decrement(r) \/ Fail(r)

Spec == Init /\ [][Next]_vars

-----------------------------------------------------------------------------
(* What must hold.                                                         *)

\* The cap is checked before the insert, so a target may exceed it, but by no
\* more than the requests that had passed the check: with those still to
\* insert, at most one less than the requests served at a time.
FlagsBounded ==
  \A t \in Targets :
    Cardinality(OpenOn(t)) + Cardinality({r \in At("counted") : request[r].target = t})
      <= Cap + Cardinality(Requests) - 1

\* The counter never hides an open flag: with the increments still to come and
\* those lost for good it is at least the number of open flags (a target under
\* patrol never shows less pressure than it has, except through a lost request).
CountNeverLow ==
  flagCount + Cardinality(At("inserted")) + lost.flags
    >= Cardinality(OpenFlags) + Cardinality(At("closed"))
=============================================================================
