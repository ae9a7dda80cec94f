------------------------------ MODULE MCHosts -------------------------------
(* What must come to an end, for TLC: a promotion attempt (Promoter) and the  *)
(* spending of a root that is watched (SpendWatchdog).  They share no state,  *)
(* so a behaviour serves one of them.                                         *)
EXTENDS Promoter, SpendWatchdog

CONSTANTS a1, w1, w2, p1, old, none, c1, c2, c3

VARIABLE place

MCVars == <<vars, watchVars, place>>
MCInit == place \in {"promotion", "watch"} /\ Init /\ WatchInit
OnPromotion(A) == place = "promotion" /\ A /\ UNCHANGED <<place, watchVars>>
OnWatch(A) == place = "watch" /\ A /\ UNCHANGED <<place, vars>>

MCFairness ==
  /\ \A p \in Procs : WF_MCVars(OnPromotion(Step(p)))
  /\ \A a \in Attempts :
       WF_MCVars(OnPromotion(Request(a))) /\ WF_MCVars(OnPromotion(Exit(a)))
  /\ \A a \in Attempts, flag \in Flags :
       SF_MCVars(OnPromotion(\E p \in Procs : Reconcile(p, a, flag)))
  /\ WF_MCVars(OnPromotion(Propagate))
  /\ WF_MCVars(OnWatch(CheckQuietly)) /\ WF_MCVars(OnWatch(Settle))
  /\ WF_MCVars(OnWatch(SeeStopFile))
  /\ SF_MCVars(OnWatch(CheckAndDrain /\ drained'))

MCSpec == MCInit /\ [][OnPromotion(Next) \/ OnWatch(WatchNext)]_MCVars /\ MCFairness

\* A Worker deployed by hand has no selector, another serves the old assets.
MCFirst == [v \in Others |-> IF v = w1 THEN none ELSE old]
=============================================================================
