------------------------------ MODULE MCTables ------------------------------
(* Instances of Tables for TLC: constants and symmetry only.               *)
EXTENDS Tables, TLC

CONSTANTS q1, q2, q3, i1, i2, i3, i4, article, annotation, r1, r2, located, new

MCAccountOf == [u \in {"ann", "ben", "agent"} |-> IF u = "agent" THEN "ann" ELSE u]

MCSymmetry == Permutations(Ids) \cup Permutations(TagRequests)
=============================================================================
