---------------------------- MODULE MCContribute ----------------------------
(* Contribute mode for TLC: the tasks of a package on one machine             *)
(* (LocateRun), the claims of all machines (WorkPackages), what they send and *)
(* what is collected (WorkResults).  The parts share no state, so a behaviour *)
(* serves one of them.                                                        *)
EXTENDS LocateRun, WorkResults, TLC

CONSTANTS t1, t2, d1, d2, bad, a, b, n1, n2

VARIABLE place

MCVars == <<vars, claimVars, resultVars, place>>
MCInit == place \in {"machine", "claims", "results"} /\ Init /\ ClaimInit /\ ResultInit
MCNext ==
  /\ \/ place = "machine" /\ Next /\ UNCHANGED <<claimVars, resultVars>>
     \/ place = "claims" /\ ClaimNext /\ UNCHANGED <<vars, resultVars>>
     \/ place = "results" /\ ResultNext /\ UNCHANGED <<vars, claimVars>>
  /\ UNCHANGED place
MCSpec == MCInit /\ [][MCNext]_MCVars

MCSymmetry ==
  Permutations(Packages) \cup Permutations(Tasks) \cup Permutations(Sound) \cup Permutations(Names)
=============================================================================
