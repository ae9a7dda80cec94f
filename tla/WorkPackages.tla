---------------------------- MODULE WorkPackages ----------------------------
(***************************************************************************)
(* Contribute mode (scripts/pipeline/contribute): machines share a work    *)
(* repository, each through its own clone.  This module has the claims: a  *)
(* package is claimed by pushing a commit of one's own to claim/<package>. *)
(* Nothing locks the remote: the only arbiter is whether a push is         *)
(* accepted.  WorkResults has what goes back.                              *)
(*                                                                         *)
(* A claim is recorded in the machine's workdir.  It is a promise between  *)
(* machines and no lock: the run and results stages ask for a claim or a   *)
(* --package, and go on without a claim if they are given one.             *)
(*                                                                         *)
(* Left out: the bytes of a package and their checksums; packages that do  *)
(* not exist; dry runs, which record no claim; repositories without a      *)
(* remote.                                                                 *)
(***************************************************************************)
EXTENDS Integers, Sequences, FiniteSets

CONSTANTS
  Machines,    \* contributors' machines, numbered in the order of their ids
  Packages,    \* published packages
  MaxClaims    \* bound on the claim commits a machine makes

ASSUME WorkAssumption ==
  /\ Machines \subseteq Nat \ {0} /\ MaxClaims \in Nat
  /\ \A S \in SUBSET Machines : S # {} => \E m \in S : \A n \in S : n <= m

VARIABLES
  claims,      \* remote claim/<package>: its commits, newest last
  known,       \* each clone's remote-tracking copy of the claim branches
  claiming,    \* each machine's claim under way
  minted,      \* claim commits each machine has made: the nonces it drew
  record,      \* the claim each machine's workdir says it holds
  recorded     \* every machine and claim recorded so far

claimVars == <<claims, known, claiming, minted, record, recorded>>

NoCommit == <<0, 0>>
Tip(s) == IF s = <<>> THEN NoCommit ELSE s[Len(s)].id
Commits == [id : Machines \X (1..MaxClaims), parent : {NoCommit} \cup (Machines \X (1..MaxClaims))]
NoClaim == [pc |-> "idle"]

ClaimTypeOK ==
  /\ claims \in [Packages -> Seq(Commits)]
  /\ known \in [Machines -> [Packages -> Seq(Commits)]]
  /\ claiming \in [Machines -> {NoClaim} \cup [pc : {"push", "readBack"}, package : Packages, commit : Commits]]
  /\ minted \in [Machines -> 0..MaxClaims]
  /\ record \in [Machines -> {NoClaim} \cup [package : Packages, commit : Commits]]
  /\ recorded \subseteq Machines \X Packages \X Commits

ClaimInit ==
  /\ claims = [p \in Packages |-> <<>>]
  /\ known = [m \in Machines |-> [p \in Packages |-> <<>>]]
  /\ claiming = [m \in Machines |-> NoClaim]
  /\ minted = [m \in Machines |-> 0]
  /\ record = [m \in Machines |-> NoClaim]
  /\ recorded = {}

-----------------------------------------------------------------------------
(* Claiming.                                                               *)

\* Mutant: the commit says neither who made it nor when.
SharedCommit(m, n, parent) == [id |-> <<CHOOSE x \in Machines : TRUE, 1>>, parent |-> parent]

\* A commit no other machine, and no other attempt, can produce.
ClaimCommit(m, n, parent) == [id |-> <<m, n>>, parent |-> parent]

\* Fetch every branch and make the commit: on nothing for a free package, on
\* the newest claim this clone knows of for a take-over.  A workdir that holds
\* the package already goes on with it.
Plan(m, p, takeOver) ==
  LET parent == IF takeOver THEN Tip(claims[p]) ELSE NoCommit
  IN /\ claiming[m] = NoClaim /\ minted[m] < MaxClaims
     /\ ~(record[m] # NoClaim /\ record[m].package = p)
     /\ claims[p] # <<>> => takeOver
     /\ known' = [known EXCEPT ![m] = claims]
     /\ minted' = [minted EXCEPT ![m] = @ + 1]
     /\ claiming' = [claiming EXCEPT ![m] =
          [pc |-> "push", package |-> p, commit |-> ClaimCommit(m, minted[m] + 1, parent)]]
     /\ UNCHANGED <<claims, record, recorded>>

\* Mutant: the push is forced.
ForcedPush(branch, commit) == TRUE

\* Without a parent the lease wants no branch there; with one the push must be
\* a fast-forward.  The commit the branch already ends in is "up-to-date".
Accepts(branch, commit) == Tip(branch) \in {commit.parent, commit.id}

\* The branch after an accepted push: the commit and what it was made on.
Extended(branch, commit) ==
  IF Tip(branch) = commit.id THEN branch
  ELSE IF commit.parent = NoCommit THEN <<commit>> ELSE Append(branch, commit)

\* The push's answer may be lost, or the machine stop, when the push has landed
\* and when it has not: then nothing is recorded and the branch stays.
Push(m) ==
  LET c == claiming[m]
      accepted == Accepts(claims[c.package], c.commit)
      after == Extended(claims[c.package], c.commit)
  IN /\ c.pc = "push"
     /\ \/ /\ accepted
           /\ claims' = [claims EXCEPT ![c.package] = after]
           /\ \/ /\ claiming' = [claiming EXCEPT ![m].pc = "readBack"]
                 /\ known' = [known EXCEPT ![m][c.package] = after]
              \/ claiming' = [claiming EXCEPT ![m] = NoClaim] /\ UNCHANGED known
        \/ /\ claiming' = [claiming EXCEPT ![m] = NoClaim]
           /\ UNCHANGED <<claims, known>>
     /\ UNCHANGED <<minted, record, recorded>>

\* The branch is fetched again, and the claim held only if it ends in this
\* machine's commit.  A failed fetch is ignored: what the push left in the
\* clone is read.
ReadBackClaim(m) ==
  LET c == claiming[m]
  IN /\ c.pc = "readBack"
     /\ \E fetched \in BOOLEAN :
          LET branch == IF fetched THEN claims[c.package] ELSE known[m][c.package]
              mine == [package |-> c.package, commit |-> c.commit]
          IN /\ known' = [known EXCEPT ![m][c.package] = branch]
             /\ IF Tip(branch) = c.commit.id
                  THEN /\ record' = [record EXCEPT ![m] = mine]
                       /\ recorded' = recorded \cup {<<m, c.package, c.commit>>}
                  ELSE UNCHANGED <<record, recorded>>
     /\ claiming' = [claiming EXCEPT ![m] = NoClaim]
     /\ UNCHANGED <<claims, minted>>

\* The machine stops after the push and before the record.
StopClaiming(m) ==
  /\ claiming[m].pc = "readBack"
  /\ claiming' = [claiming EXCEPT ![m] = NoClaim]
  /\ UNCHANGED <<claims, known, minted, record, recorded>>

ClaimNext ==
  \/ \E m \in Machines :
       \/ \E p \in Packages, takeOver \in BOOLEAN : Plan(m, p, takeOver)
       \/ Push(m) \/ ReadBackClaim(m) \/ StopClaiming(m)

ClaimSpec == ClaimInit /\ [][ClaimNext]_claimVars

-----------------------------------------------------------------------------
(* What must hold.                                                         *)

Ids(s) == {s[i].id : i \in 1..Len(s)}

\* Of the machines that recorded a package without taking it over there is at
\* most one, however their fetches and pushes interleave.
OneStartsAFreePackage ==
  \A x, y \in recorded :
    (x[2] = y[2] /\ x[3].parent = NoCommit /\ y[3].parent = NoCommit) => x = y

\* A machine that recorded has its own claim on the remote branch, for good.
StartedIsOnRemote ==
  \A x \in recorded : x[3].id \in Ids(claims[x[2]]) /\ x[3].id[1] = x[1]

\* No claim is taken over unseen: each commit of a branch was made on the one
\* before it.
NoBlindTakeOver ==
  \A p \in Packages : \A i \in 1..Len(claims[p]) :
    claims[p][i].parent = IF i = 1 THEN NoCommit ELSE claims[p][i - 1].id
=============================================================================
