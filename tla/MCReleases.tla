----------------------------- MODULE MCReleases -----------------------------
(* What is published, for TLC: releases of the Brain (Promoter) - two         *)
(* attempts, two Workers that were deployed by hand, one of them without a    *)
(* selector, two promoter processes - and the articles store (ArticlesStore)  *)
(* - two builds over two pages; the second drops a page, keeps the other and  *)
(* is made against a newer universe, and a rollback to the first is the       *)
(* reverse.  They share no state, so a behaviour serves one of them.          *)
EXTENDS Promoter, ArticlesStore, TLC

CONSTANTS a1, a2, w1, w2, p1, p2, old, none, g1, g2, u1, u2, o1, o2

VARIABLE place

MCVars == <<vars, storeVars, place>>
MCInit ==
  /\ place \in {"release", "store"} /\ Init /\ StoreInit
  /\ place = "store" => Live = w1
MCNext ==
  /\ \/ place = "release" /\ Next /\ UNCHANGED storeVars
     \/ place = "store" /\ StoreNext /\ UNCHANGED vars
  /\ UNCHANGED place
MCSpec == MCInit /\ [][MCNext]_MCVars

\* A Worker deployed by hand has no selector, another serves the old assets.
MCFirst == [v \in Others |-> IF v = w1 THEN none ELSE old]
MCPagesOf == 1 :> {g1, g2} @@ 2 :> {g2}
MCUniverseOf == 1 :> u1 @@ 2 :> u2
MCSymmetry == Permutations(Procs) \cup Permutations(Operators)
=============================================================================
