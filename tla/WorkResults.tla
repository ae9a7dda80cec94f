----------------------------- MODULE WorkResults -----------------------------
(***************************************************************************)
(* The other half of contribute mode: what a machine found goes back on    *)
(* result/<package>/<machine>, and the coordinator collects the results of  *)
(* all machines into one directory (run_package.py send_results,            *)
(* collect_results.py).  Of each machine the collector takes the result     *)
(* directory that stands in its working tree, where there is one, and else  *)
(* the result branch as it was last fetched.                                *)
(*                                                                         *)
(* One package.  No step asks for a claim: the run stage and the results    *)
(* stage go by --package.  A document here is a name and the harvest it     *)
(* comes from.  Left out: what a machine's host records hold, the sealed    *)
(* set and the intake contract (a result here is one that passes it).       *)
(***************************************************************************)
EXTENDS WorkPackages

CONSTANTS
  Names,        \* file names of documents: a task and a source
  Coordinator,  \* the machine of the clone that results are collected in
  MaxHarvests,  \* bound on the harvests of documents, over all machines
  MaxSends      \* bound on the results that land, over all machines

ASSUME ResultAssumption ==
  Coordinator \in Machines /\ MaxHarvests \in Nat /\ MaxSends \in Nat

VARIABLES
  documents,  \* what each machine has harvested: the newest harvest of each name
  results,    \* remote result/<package>/<machine>: its results, newest last
  onResult,   \* each clone: whether its HEAD follows the remote result
  fetched,    \* results of each branch in the coordinator's newest fetch
  tree,       \* the result directories in the coordinator's working tree
  laid,       \* every result the coordinator has laid out whole in its tree
  collected   \* the merged documents: of each name, whose and which harvest

resultVars == <<documents, results, onResult, fetched, tree, laid, collected>>

\* A result's documents; 0 for a name it has none of.
Bundles == [Names -> Nat]
Nothing == [n \in Names |-> 0]
NoDirectory == [state |-> "absent", docs |-> Nothing]
Whole(docs) == [state |-> "whole", docs |-> docs]
Absent == <<0, 0>>

ResultTypeOK ==
  /\ documents \in [Machines -> Bundles]
  /\ results \in [Machines -> Seq(Bundles)]
  /\ onResult \in [Machines -> BOOLEAN]
  /\ \A m \in Machines : fetched[m] \in 0..Len(results[m])
  /\ fetched \in [Machines -> Nat]
  /\ tree \in [Machines -> [state : {"absent", "whole", "torn"}, docs : Bundles]]
  /\ laid \subseteq Bundles
  /\ collected \in [Names -> (Machines \cup {0}) \X Nat]

ResultInit ==
  /\ documents = [m \in Machines |-> Nothing]
  /\ results = [m \in Machines |-> <<>>]
  /\ onResult = [m \in Machines |-> FALSE]
  /\ fetched = [m \in Machines |-> 0]
  /\ tree = [m \in Machines |-> NoDirectory]
  /\ laid = {}
  /\ collected = [n \in Names |-> Absent]

-----------------------------------------------------------------------------
(* Sending.                                                                *)

\* A machine runs the package, for the first time or again.
Harvest(m, n) ==
  /\ Cardinality({x \in Machines \X Names \X (1..MaxHarvests) : x[3] <= documents[x[1]][x[2]]})
       < MaxHarvests
  /\ documents' = [documents EXCEPT ![m][n] = @ + 1]
  /\ UNCHANGED <<results, onResult, fetched, tree, laid, collected>>

\* A result holds what was harvested, or no document if the stage was given none.
Layouts(m) == {documents[m], Nothing}

\* What a layout that is cut short has in place: some documents, and no receipt.
CutShort(docs) == {[state |-> "torn", docs |-> [n \in Names |-> IF n \in part THEN docs[n] ELSE 0]] :
                 part \in SUBSET Names}

\* The results stage without --execute, or one that stops before its commit: the
\* directory is emptied, filled, and left where it is.
Preview ==
  /\ \E docs \in Layouts(Coordinator) :
       \/ /\ tree' = [tree EXCEPT ![Coordinator] = Whole(docs)]
          /\ laid' = laid \cup {docs}
       \/ /\ \E torn \in CutShort(docs) : tree' = [tree EXCEPT ![Coordinator] = torn]
          /\ UNCHANGED laid
  /\ UNCHANGED <<documents, results, onResult, fetched, collected>>

\* A result is a commit on what the clone stands on, normally the packages: only
\* in a clone that was left on its result is it a fast-forward of one before.
FastForward(m) == results[m] = <<>> \/ onResult[m]

\* The push may land, be refused or get lost, and its answer too; the clone goes
\* back to the branch it was on, or stays: where it was on none, or the checkout
\* fails.  In the coordinator's clone the directory stays with it, and a push
\* whose answer came is known.
Send(m) ==
  /\ Cardinality({x \in Machines \X (1..MaxSends) : x[2] <= Len(results[x[1]])}) < MaxSends
  /\ \E docs \in Layouts(m), landed \in BOOLEAN, stays \in BOOLEAN, answered \in BOOLEAN :
       /\ landed => FastForward(m)
       /\ results' = IF landed THEN [results EXCEPT ![m] = Append(@, docs)] ELSE results
       /\ onResult' = [onResult EXCEPT ![m] = stays /\ (landed \/ @)]
       /\ IF m = Coordinator
            THEN /\ tree' = [tree EXCEPT ![m] = IF stays THEN Whole(docs) ELSE NoDirectory]
                 /\ laid' = laid \cup {docs}
                 /\ fetched' = IF landed /\ answered
                                 THEN [fetched EXCEPT ![m] = Len(results[m]) + 1] ELSE fetched
            ELSE UNCHANGED <<tree, laid, fetched>>
  /\ UNCHANGED <<documents, collected>>

\* A clone that was left on its result goes back to the packages, and what it
\* had in its tree of that result goes.
ReturnHome(m) ==
  /\ onResult[m]
  /\ onResult' = [onResult EXCEPT ![m] = FALSE]
  /\ tree' = IF m = Coordinator THEN [tree EXCEPT ![m] = NoDirectory] ELSE tree
  /\ UNCHANGED <<documents, results, fetched, laid, collected>>

-----------------------------------------------------------------------------
(* Collecting.                                                             *)

\* What collecting with --fetch begins with; people fetch by hand too.
Fetch ==
  /\ fetched' = [m \in Machines |-> Len(results[m])]
  /\ UNCHANGED <<documents, results, onResult, tree, laid, collected>>

\* A result that was fetched is checked out by hand.
CheckOut(m) ==
  /\ fetched[m] # 0 /\ tree[m].state = "absent"
  /\ tree' = [tree EXCEPT ![m] = Whole(results[m][fetched[m]])]
  /\ UNCHANGED <<documents, results, onResult, fetched, laid, collected>>

\* A result directory is deleted, or goes with the branch it is on.
PutAway(m) ==
  /\ tree[m].state # "absent"
  /\ tree' = [tree EXCEPT ![m] = NoDirectory]
  /\ UNCHANGED <<documents, results, onResult, fetched, laid, collected>>

\* The directory a machine's result is taken from: the one in the working tree
\* as it stands, else its branch as it was fetched.
ResultDir(m) ==
  IF tree[m].state # "absent" THEN tree[m]
  ELSE IF fetched[m] = 0 THEN NoDirectory ELSE Whole(results[m][fetched[m]])

\* Mutant: the receipt of a result is not checked.
AnyDirectory(dir) == TRUE

\* A directory matches its receipt: a torn one has none yet.
MatchesReceipt(dir) == dir.state # "torn"

\* Machines are copied in the order of their ids into one directory: of a name
\* several have the last one's is kept.
Merged(copied, dirs, n) ==
  LET have == {m \in Machines : n \in copied[m] /\ dirs[m].docs[n] # 0}
      owner == CHOOSE m \in have : \A x \in have : x <= m
  IN IF have = {} THEN Absent ELSE <<owner, dirs[owner].docs[n]>>

\* The merged directory when collecting stopped: among the documents it was
\* emptied of, or among those of the last machine it went through, where what it
\* was copying cannot be read.
Emptied == {[n \in Names |-> IF n \in names THEN collected[n] ELSE Absent] : names \in SUBSET Names}
Filled(dirs, good, last) ==
  UNION {{[n \in Names |-> IF n \in cut THEN Absent
             ELSE Merged([m \in Machines |-> IF m \notin good \/ m > last THEN {}
                                             ELSE IF m = last THEN names ELSE Names], dirs, n)] :
            cut \in {{}} \cup {{n} : n \in {x \in Names \ names : dirs[last].docs[x] # 0}}} :
         names \in SUBSET Names}

\* Collecting from the machines asked for: machine by machine, up to the first
\* result that is refused.
Collect(asked) ==
  LET dirs == [m \in Machines |-> IF m \in asked THEN ResultDir(m) ELSE NoDirectory]
      found == {m \in Machines : dirs[m].state # "absent"}
      good == {m \in found : \A x \in found : x <= m => MatchesReceipt(dirs[x])}
  IN /\ found # {}
     /\ \/ collected' \in Emptied
        \/ \E last \in good : collected' \in Filled(dirs, good, last)
     /\ UNCHANGED <<documents, results, onResult, fetched, tree, laid>>

ResultNext ==
  \/ \E m \in Machines :
       \/ \E n \in Names : Harvest(m, n)
       \/ Send(m) \/ ReturnHome(m) \/ CheckOut(m) \/ PutAway(m)
  \/ Preview \/ Fetch
  \/ \E asked \in SUBSET Machines : Collect(asked)

ResultSpec == ResultInit /\ [][ResultNext]_resultVars

-----------------------------------------------------------------------------
(* What must hold.                                                         *)

\* The results a machine has given: those its branch ever held and, of the
\* coordinator's own, those it laid out whole in its tree.
Given(m) ==
  {results[m][i] : i \in 1..Len(results[m])} \cup (IF m = Coordinator THEN laid ELSE {})

\* What is collected of a machine comes, document for document, from one result
\* that machine has given: never from a layout that was cut short, and never
\* partly from one result and partly from another, wherever sending, fetching
\* and collecting stopped.
CollectedIsOneResult ==
  \A m \in Machines :
    LET mine == {n \in Names : collected[n][1] = m}
    IN mine # {} => \E b \in Given(m) : \A n \in mine : collected[n][2] = b[n]

(* What the code does not keep.                                            *)

\* What is collected of a machine is on its branch: a directory in the working
\* tree is taken first, and a preview leaves one there that was never sent.
CollectedIsOnBranch ==
  \A n \in Names :
    collected[n] # Absent =>
      LET m == collected[n][1]
      IN \E i \in 1..Len(results[m]) : results[m][i][n] = collected[n][2]
=============================================================================
