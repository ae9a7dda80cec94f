---------------------------- MODULE RevisionLog ----------------------------
(***************************************************************************)
(* What the collaboration plane promises of an article's history, whoever  *)
(* writes and however their requests interleave: one append-only log of    *)
(* attributed snapshots, in which every entry is a legal answer to the one *)
(* right before it.  There are no requests, versions, guards or proposals  *)
(* here; ArticlePlane implements it (PROPERTY LogRefinement).              *)
(***************************************************************************)
EXTENDS AnnotationRules, Naturals, Sequences

VARIABLE log   \* sequence of [kind, anns]

Top(l) == IF l = <<>> THEN Empty ELSE l[Len(l)].anns

\* AI work: whatever is human stays exactly as it is.
AIWork(s, f) == \A a \in AnnIds : Human(s[a]) => f[a] = s[a]

\* A person's work: what is not as before is gone, the person's own, or a copy
\* of what is already there.
PersonsWork(s, f) ==
  \A a \in AnnIds : f[a] # s[a] =>
    f[a] = NoAnn \/ Human(f[a]) \/ \E b \in AnnIds : f[a] = s[b]

\* A decided proposal: one live annotation changes, to the decider's label.
Decision(s, f, mine) ==
  \E a \in AnnIds :
    /\ Live(s[a])
    /\ Human(f[a]) = mine
    /\ \A b \in AnnIds \ {a} : f[b] = s[b]

\* A revert shows again what the log already holds, or nothing.
Restoration(l, f) == f = Empty \/ \E i \in DOMAIN l : f = l[i].anns

Legal(l, kind, f) ==
  LET s == Top(l)
  IN CASE kind \in {"pipeline", "agent"} -> AIWork(s, f)
       [] kind = "edit"                  -> PersonsWork(s, f)
       [] kind = "proposal-approved"     -> Decision(s, f, TRUE)
       [] kind = "proposal-decided-ai"   -> Decision(s, f, FALSE)
       [] kind = "revert"                -> Restoration(l, f)
       [] OTHER                          -> FALSE

LogInit == log = <<>> \/ \E f \in Snapshot : log = <<[kind |-> "seed", anns |-> f]>>

Publish(kind, f) ==
  /\ log' = Append(log, [kind |-> kind, anns |-> f])
  /\ Legal(log, kind, f)

WriteKinds == {"pipeline", "agent", "edit", "proposal-approved",
               "proposal-decided-ai", "revert"}

LogNext == log' # log /\ \E kind \in WriteKinds, f \in Snapshot : Publish(kind, f)

LogSpec == LogInit /\ [][LogNext]_log
=============================================================================
