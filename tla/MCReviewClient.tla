-------------------------- MODULE MCReviewClient ----------------------------
(* Constants for ReviewClient: two statements, each near the other.         *)
EXTENDS ReviewClient

CONSTANTS s1, s2

MCNear == {<<s1, s2>>, <<s2, s1>>}
=============================================================================
