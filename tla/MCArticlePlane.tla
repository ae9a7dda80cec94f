--------------------------- MODULE MCArticlePlane ---------------------------
(* Instances of ArticlePlane for TLC: constants only.                      *)
EXTENDS ArticlePlane, TLC

CONSTANTS a1, a2, s1, s2, c1, c2, veto, r1, r2, g1, n1

MCProps == 1..2
MCOneProp == {1}
MCSymmetry == Permutations(Reqs)
MCAllSymmetry == Permutations(Reqs) \cup Permutations(AnnIds) \cup Permutations(Anchors)
=============================================================================
