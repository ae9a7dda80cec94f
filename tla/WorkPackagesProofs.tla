-------------------------- MODULE WorkPackagesProofs --------------------------
(***************************************************************************)
(* Proofs about WorkPackages and WorkResults, for any number of machines,  *)
(* packages and documents: one machine records a free package unless it    *)
(* takes it over, a machine that recorded a claim has it on the remote, no *)
(* claim is taken over unseen, and what is collected of a machine comes    *)
(* from one result it has given.                                           *)
(*                                                                         *)
(* The argument for claims: a commit is new when it is made, since its id  *)
(* counts its machine's commits (IdsAreMinted, ClaimsAreOwn); so an        *)
(* accepted push puts that very commit on the branch, which is what        *)
(* reading it back shows (RecordedIsThere); and on a branch only the first *)
(* commit has no parent (NoBlindTakeOver).                                 *)
(*                                                                         *)
(* The argument for results: a branch only grows, so what a machine has    *)
(* given it has given for good (GivenStays); and a directory in the        *)
(* coordinator's tree is whole only where a layout came to its end or a    *)
(* result was checked out (WholeIsGiven), which its receipt tells.         *)
(***************************************************************************)
EXTENDS WorkResults, TLAPS

On(p, commit) == \E i \in 1..Len(claims[p]) : claims[p][i] = commit
Knows(p, id) == \E i \in 1..Len(claims[p]) : claims[p][i].id = id

IdsAreMinted ==
  \A p \in Packages : \A i \in 1..Len(claims[p]) :
    claims[p][i].id[2] <= minted[claims[p][i].id[1]]

ClaimsAreOwn ==
  \A m \in Machines :
    LET c == claiming[m]
    IN c # NoClaim =>
         /\ c.commit.id[1] = m /\ c.commit.id[2] <= minted[m]
         /\ c.pc = "push" => \A p \in Packages : ~Knows(p, c.commit.id)
         /\ c.pc = "readBack" => On(c.package, c.commit)

RecordedIsThere == \A x \in recorded : On(x[2], x[3]) /\ x[3].id[1] = x[1]

ClaimInv == IdsAreMinted /\ ClaimsAreOwn /\ RecordedIsThere /\ NoBlindTakeOver

-----------------------------------------------------------------------------
(* Types.                                                                  *)

ClaimsUnderWay ==
  [pc : {"push", "readBack"}, package : Packages, commit : Commits]

LEMMA TipType ==
  ASSUME NEW s \in Seq(Commits)
  PROVE  /\ Tip(s) \in {NoCommit} \cup (Machines \X (1..MaxClaims))
         /\ Tip(s) = NoCommit => s = <<>>
         /\ s # <<>> => Tip(s) = s[Len(s)].id
<1>1. CASE s = <<>>
  BY <1>1 DEF Tip
<1>2. CASE s # <<>>
  <2>1. Len(s) \in 1..Len(s) /\ s[Len(s)] \in Commits
    BY <1>2
  <2>2. s[Len(s)].id \in Machines \X (1..MaxClaims)
    BY <2>1 DEF Commits
  <2>3. s[Len(s)].id # NoCommit
    BY <2>2, WorkAssumption DEF NoCommit, WorkAssumption
  <2>4. QED
    BY <1>2, <2>2, <2>3 DEF Tip
<1>3. QED
  BY <1>1, <1>2

LEMMA ExtendedType ==
  ASSUME NEW s \in Seq(Commits), NEW commit \in Commits
  PROVE  Extended(s, commit) \in Seq(Commits)
BY DEF Extended

LEMMA InitType == ASSUME ClaimInit PROVE ClaimTypeOK
BY WorkAssumption DEF ClaimInit, ClaimTypeOK, WorkAssumption, NoClaim

LEMMA NextType == ASSUME ClaimTypeOK, [ClaimNext]_claimVars PROVE ClaimTypeOK'
<1>1. CASE UNCHANGED claimVars
  BY <1>1 DEF claimVars, ClaimTypeOK
<1>2. ASSUME NEW m \in Machines, NEW p \in Packages, NEW takeOver \in BOOLEAN, Plan(m, p, takeOver)
      PROVE  ClaimTypeOK'
  <2> DEFINE parent == IF takeOver THEN Tip(claims[p]) ELSE NoCommit
  <2> DEFINE commit == ClaimCommit(m, minted[m] + 1, parent)
  <2>1. claims[p] \in Seq(Commits)
    BY DEF ClaimTypeOK
  <2>2. parent \in {NoCommit} \cup (Machines \X (1..MaxClaims))
    BY <2>1, TipType
  <2>3. minted[m] + 1 \in 1..MaxClaims
    BY <1>2, WorkAssumption DEF Plan, ClaimTypeOK, WorkAssumption
  <2>4. commit \in Commits
    BY <2>2, <2>3 DEF ClaimCommit, Commits
  <2>5. claiming' \in [Machines -> {NoClaim} \cup ClaimsUnderWay]
    BY <1>2, <2>4 DEF Plan, ClaimTypeOK, ClaimsUnderWay
  <2>6. minted' \in [Machines -> 0..MaxClaims]
    BY <1>2, <2>3, WorkAssumption DEF Plan, ClaimTypeOK, WorkAssumption
  <2>7. QED
    BY <1>2, <2>5, <2>6 DEF Plan, ClaimTypeOK, ClaimsUnderWay
<1>3. ASSUME NEW m \in Machines, Push(m) PROVE ClaimTypeOK'
  <2>1. claiming[m] \in ClaimsUnderWay
    BY <1>3 DEF Push, ClaimTypeOK, NoClaim, ClaimsUnderWay
  <2>2. claims[claiming[m].package] \in Seq(Commits) /\ claiming[m].commit \in Commits
    BY <2>1 DEF ClaimTypeOK, ClaimsUnderWay
  <2>3. Extended(claims[claiming[m].package], claiming[m].commit) \in Seq(Commits)
    BY <2>2, ExtendedType
  <2>4. claiming' \in [Machines -> {NoClaim} \cup ClaimsUnderWay]
    <3>1. [claiming[m] EXCEPT !.pc = "readBack"] \in ClaimsUnderWay
      BY <2>1 DEF ClaimsUnderWay
    <3>2. \/ claiming' = [claiming EXCEPT ![m] = [claiming[m] EXCEPT !.pc = "readBack"]]
          \/ claiming' = [claiming EXCEPT ![m] = NoClaim]
      BY <1>3 DEF Push
    <3>3. claiming \in [Machines -> {NoClaim} \cup ClaimsUnderWay]
      BY DEF ClaimTypeOK, ClaimsUnderWay
    <3>4. QED
      BY <3>1, <3>2, <3>3
  <2>5. claims' \in [Packages -> Seq(Commits)] /\ known' \in [Machines -> [Packages -> Seq(Commits)]]
    <3> DEFINE p == claiming[m].package
    <3> DEFINE after == Extended(claims[p], claiming[m].commit)
    <3>1. p \in Packages
      BY <2>1 DEF ClaimsUnderWay
    <3>2. claims' \in {claims, [claims EXCEPT ![p] = after]}
      BY <1>3 DEF Push
    <3>3. known' \in {known, [known EXCEPT ![m] = [known[m] EXCEPT ![p] = after]]}
      BY <1>3 DEF Push
    <3>4. known[m] \in [Packages -> Seq(Commits)]
      BY DEF ClaimTypeOK
    <3>5. [known[m] EXCEPT ![p] = after] \in [Packages -> Seq(Commits)]
      BY <2>3, <3>1, <3>4
    <3>6. known' \in [Machines -> [Packages -> Seq(Commits)]]
      BY <3>3, <3>5 DEF ClaimTypeOK
    <3>7. claims \in [Packages -> Seq(Commits)]
      BY DEF ClaimTypeOK
    <3>8. [claims EXCEPT ![p] = after] \in [Packages -> Seq(Commits)]
      BY <2>3, <3>1, <3>7
    <3>9. QED
      BY <3>2, <3>6, <3>7, <3>8
  <2>6. QED
    BY <1>3, <2>4, <2>5 DEF Push, ClaimTypeOK, ClaimsUnderWay
<1>4. ASSUME NEW m \in Machines, ReadBackClaim(m) PROVE ClaimTypeOK'
  <2>1. claiming[m] \in ClaimsUnderWay
    BY <1>4 DEF ReadBackClaim, ClaimTypeOK, NoClaim, ClaimsUnderWay
  <2>2. PICK again \in BOOLEAN :
          LET c == claiming[m]
              branch == IF again THEN claims[c.package] ELSE known[m][c.package]
              mine == [package |-> c.package, commit |-> c.commit]
          IN /\ known' = [known EXCEPT ![m][c.package] = branch]
             /\ IF Tip(branch) = c.commit.id
                  THEN /\ record' = [record EXCEPT ![m] = mine]
                       /\ recorded' = recorded \cup {<<m, c.package, c.commit>>}
                  ELSE UNCHANGED <<record, recorded>>
    BY <1>4 DEF ReadBackClaim
  <2>3. known' \in [Machines -> [Packages -> Seq(Commits)]]
    BY <2>1, <2>2 DEF ClaimTypeOK, ClaimsUnderWay
  <2>4. /\ record' \in [Machines -> {NoClaim} \cup [package : Packages, commit : Commits]]
        /\ recorded' \subseteq Machines \X Packages \X Commits
    <3>1. claiming[m].package \in Packages /\ claiming[m].commit \in Commits
      BY <2>1 DEF ClaimsUnderWay
    <3>2. [package |-> claiming[m].package, commit |-> claiming[m].commit]
            \in [package : Packages, commit : Commits]
      BY <3>1
    <3>3. \/ UNCHANGED <<record, recorded>>
          \/ /\ record' = [record EXCEPT ![m] =
                  [package |-> claiming[m].package, commit |-> claiming[m].commit]]
             /\ recorded' = recorded \cup {<<m, claiming[m].package, claiming[m].commit>>}
      BY <2>2
    <3>4. record \in [Machines -> {NoClaim} \cup [package : Packages, commit : Commits]]
      BY DEF ClaimTypeOK
    <3>5. record' \in [Machines -> {NoClaim} \cup [package : Packages, commit : Commits]]
      BY <3>2, <3>3, <3>4
    <3>6. <<m, claiming[m].package, claiming[m].commit>> \in Machines \X Packages \X Commits
      BY <3>1
    <3>7. recorded \subseteq Machines \X Packages \X Commits
      BY DEF ClaimTypeOK
    <3>8. recorded' \subseteq Machines \X Packages \X Commits
      BY <3>3, <3>6, <3>7
    <3>9. QED
      BY <3>5, <3>8
  <2>5. QED
    BY <1>4, <2>3, <2>4 DEF ReadBackClaim, ClaimTypeOK
<1>5. ASSUME NEW m \in Machines, StopClaiming(m) PROVE ClaimTypeOK'
  BY <1>5 DEF StopClaiming, ClaimTypeOK
<1>6. QED
  BY <1>1, <1>2, <1>3, <1>4, <1>5 DEF ClaimNext

\* Every variable keeps its type, the machines' counters their bounds.
THEOREM TypeCorrect == ClaimSpec => []ClaimTypeOK
<1>1. ClaimInit => ClaimTypeOK
  BY InitType
<1>2. ClaimTypeOK /\ [ClaimNext]_claimVars => ClaimTypeOK'
  BY NextType
<1>3. QED
  BY <1>1, <1>2, PTL DEF ClaimSpec

-----------------------------------------------------------------------------
(* Claims.                                                                 *)

\* An accepted push of a commit the branch does not know puts it at the end, on
\* the commit it was made on.
LEMMA AcceptedPush ==
  ASSUME NEW s \in Seq(Commits), NEW commit \in Commits, Accepts(s, commit),
         \A i \in 1..Len(s) : s[i].id # commit.id
  PROVE  LET e == Extended(s, commit)
         IN /\ e \in Seq(Commits) /\ Len(e) = Len(s) + 1 /\ e[Len(e)] = commit
            /\ \A i \in 1..Len(s) : e[i] = s[i]
            /\ commit.parent = IF Len(s) = 0 THEN NoCommit ELSE s[Len(s)].id
<1>1. commit.id # NoCommit
  BY WorkAssumption DEF Commits, NoCommit, WorkAssumption
<1>2. Tip(s) # commit.id
  <2>1. CASE s = <<>>
    BY <1>1, <2>1 DEF Tip
  <2>2. CASE s # <<>>
    BY <2>2, TipType
  <2>3. QED
    BY <2>1, <2>2
<1>3. Tip(s) = commit.parent
  BY <1>2 DEF Accepts
<1>4. CASE commit.parent = NoCommit
  <2>1. s = <<>>
    BY <1>3, <1>4, TipType
  <2>2. Extended(s, commit) = <<commit>>
    BY <1>2, <1>4 DEF Extended
  <2>3. Len(s) = 0 /\ Len(<<commit>>) = 1 /\ <<commit>>[1] = commit /\ <<commit>> \in Seq(Commits)
    BY <2>1
  <2>4. QED
    BY <1>4, <2>2, <2>3
<1>5. CASE commit.parent # NoCommit
  <2>1. s # <<>> /\ commit.parent = s[Len(s)].id
    BY <1>3, <1>5, TipType DEF Tip
  <2>2. Extended(s, commit) = Append(s, commit)
    BY <1>2, <1>5 DEF Extended
  <2>3. QED
    BY <2>1, <2>2
<1>6. QED
  BY <1>4, <1>5

LEMMA CommitTypes ==
  ASSUME ClaimTypeOK
  PROVE  /\ \A p \in Packages : /\ claims[p] \in Seq(Commits) /\ Len(claims[p]) \in Nat
                                /\ \A i \in 1..Len(claims[p]) : claims[p][i] \in Commits
         /\ \A c \in Commits : c.id[1] \in Machines /\ c.id[2] \in Nat /\ c.id[2] \in Int
         /\ \A m \in Machines : minted[m] \in Nat
         /\ \A m \in Machines : claiming[m] # NoClaim =>
              /\ claiming[m] \in ClaimsUnderWay
              /\ claiming[m].package \in Packages /\ claiming[m].commit \in Commits
<1>1. \A p \in Packages : claims[p] \in Seq(Commits)
  BY DEF ClaimTypeOK
<1>2. \A c \in Commits : c.id \in Machines \X (1..MaxClaims)
  BY DEF Commits
<1>3. \A m \in Machines : minted[m] \in Nat
  BY WorkAssumption DEF ClaimTypeOK, WorkAssumption
<1>4. \A m \in Machines : claiming[m] # NoClaim => claiming[m] \in ClaimsUnderWay
  BY DEF ClaimTypeOK, ClaimsUnderWay
<1>5. \A p \in Packages : /\ claims[p] \in Seq(Commits) /\ Len(claims[p]) \in Nat
                          /\ \A i \in 1..Len(claims[p]) : claims[p][i] \in Commits
  BY <1>1
<1>6. \A c \in Commits : c.id[1] \in Machines /\ c.id[2] \in Nat /\ c.id[2] \in Int
  BY <1>2, WorkAssumption DEF WorkAssumption
<1>7. \A m \in Machines : claiming[m] # NoClaim =>
        claiming[m].package \in Packages /\ claiming[m].commit \in Commits
  BY <1>4 DEF ClaimsUnderWay
<1>8. QED
  BY <1>3, <1>4, <1>5, <1>6, <1>7

LEMMA InitClaim == ASSUME ClaimInit PROVE ClaimInv
<1>1. \A p \in Packages : claims[p] = <<>>
  BY DEF ClaimInit
<1>2. (\A m \in Machines : claiming[m] = NoClaim) /\ recorded = {}
  BY DEF ClaimInit
<1>3. QED
  BY <1>1, <1>2 DEF ClaimInv, IdsAreMinted, ClaimsAreOwn, RecordedIsThere, NoBlindTakeOver

\* A step that touches neither the branches, the claims under way nor what was
\* recorded.
LEMMA OtherStep ==
  ASSUME ClaimInv, UNCHANGED <<claims, claiming, minted, recorded>>
  PROVE  ClaimInv'
<1>1. IdsAreMinted' /\ NoBlindTakeOver'
  BY DEF ClaimInv, IdsAreMinted, NoBlindTakeOver
<1>2. ClaimsAreOwn' /\ RecordedIsThere'
  BY DEF ClaimInv, ClaimsAreOwn, RecordedIsThere, On, Knows
<1>3. QED
  BY <1>1, <1>2 DEF ClaimInv

\* A machine gives its claim up.
LEMMA IdleStep ==
  ASSUME ClaimTypeOK, ClaimInv, NEW m \in Machines, claiming' = [claiming EXCEPT ![m] = NoClaim],
         UNCHANGED <<claims, minted, recorded>>
  PROVE  ClaimInv'
<1>1. claiming'[m] = NoClaim /\ \A n \in Machines \ {m} : claiming'[n] = claiming[n]
  BY DEF ClaimTypeOK
<1>2. ClaimsAreOwn'
  BY <1>1 DEF ClaimInv, ClaimsAreOwn, On, Knows
<1>3. QED
  BY <1>2 DEF ClaimInv, IdsAreMinted, RecordedIsThere, NoBlindTakeOver, On

\* The id of a new commit is new: it counts its machine's commits.
LEMMA PlanStep ==
  ASSUME ClaimTypeOK, ClaimInv, NEW m \in Machines, NEW p \in Packages, NEW takeOver \in BOOLEAN,
         Plan(m, p, takeOver)
  PROVE  ClaimInv'
<1> DEFINE parent == IF takeOver THEN Tip(claims[p]) ELSE NoCommit
<1> DEFINE commit == ClaimCommit(m, minted[m] + 1, parent)
<1>1. /\ claiming'[m] = [pc |-> "push", package |-> p, commit |-> commit]
      /\ \A n \in Machines \ {m} : claiming'[n] = claiming[n]
      /\ minted'[m] = minted[m] + 1 /\ \A n \in Machines \ {m} : minted'[n] = minted[n]
      /\ UNCHANGED <<claims, recorded>>
  BY DEF Plan, ClaimTypeOK
<1>2. commit.id[1] = m /\ commit.id[2] = minted[m] + 1
  BY DEF ClaimCommit
<1>3. \A n \in Machines : minted[n] \in Nat /\ minted[n] <= minted'[n]
  BY <1>1, CommitTypes
<1>4. IdsAreMinted'
  <2>1. ASSUME NEW q \in Packages, NEW i \in 1..Len(claims[q])
        PROVE  claims[q][i].id[2] <= minted'[claims[q][i].id[1]]
    <3> DEFINE id == claims[q][i].id
    <3>1. id[1] \in Machines /\ id[2] \in Int
      BY CommitTypes
    <3>2. id[2] <= minted[id[1]]
      BY DEF ClaimInv, IdsAreMinted
    <3>3. minted[id[1]] \in Nat /\ minted[id[1]] <= minted'[id[1]] /\ minted'[id[1]] \in Nat
      BY SMTT(20), <1>1, <1>3, <3>1
    <3>4. QED
      BY <3>1, <3>2, <3>3
  <2>2. QED
    BY <1>1, <2>1 DEF IdsAreMinted
<1>5. ASSUME NEW q \in Packages PROVE ~Knows(q, commit.id)
  <2>1. SUFFICES ASSUME NEW i \in 1..Len(claims[q]), claims[q][i].id = commit.id
                 PROVE  FALSE
    BY DEF Knows
  <2>2. claims[q][i].id[2] <= minted[claims[q][i].id[1]]
    BY DEF ClaimInv, IdsAreMinted
  <2>3. QED
    BY <1>2, <1>3, <2>1, <2>2
<1>6. ASSUME NEW n \in Machines \ {m}, claiming[n] # NoClaim
      PROVE  /\ claiming[n].commit.id[1] = n /\ claiming[n].commit.id[2] <= minted'[n]
             /\ claiming[n].pc = "push" => \A q \in Packages : ~Knows(q, claiming[n].commit.id)
             /\ claiming[n].pc = "readBack" => On(claiming[n].package, claiming[n].commit)
  BY <1>1, <1>6 DEF ClaimInv, ClaimsAreOwn
<1>7. ClaimsAreOwn'
  <2>1. minted[m] + 1 <= minted[m] + 1
    BY <1>3
  <2>2. QED
    BY <1>1, <1>2, <1>5, <1>6, <2>1 DEF ClaimsAreOwn, On, Knows
<1>8. QED
  BY <1>1, <1>4, <1>7 DEF ClaimInv, RecordedIsThere, NoBlindTakeOver, On

\* The push that is accepted: every branch keeps what it has, and this one ends
\* in the commit.
LEMMA PushStep ==
  ASSUME ClaimTypeOK, ClaimInv, NEW m \in Machines, Push(m)
  PROVE  ClaimInv'
<1> DEFINE c == claiming[m]
<1> DEFINE p == c.package
<1> DEFINE s == claims[p]
<1>1. c # NoClaim /\ c.pc = "push"
  BY DEF Push, NoClaim
<1>2. c \in ClaimsUnderWay /\ p \in Packages /\ c.commit \in Commits /\ s \in Seq(Commits)
  BY <1>1, CommitTypes
<1>3. c.commit.id[1] = m /\ c.commit.id[2] <= minted[m] /\ \A q \in Packages : ~Knows(q, c.commit.id)
  BY <1>1 DEF ClaimInv, ClaimsAreOwn
<1>4. CASE UNCHANGED claims /\ claiming' = [claiming EXCEPT ![m] = NoClaim]
  BY <1>4, IdleStep DEF Push
<1>5. CASE /\ Accepts(s, c.commit)
           /\ claims' = [claims EXCEPT ![p] = Extended(s, c.commit)]
           /\ \/ claiming' = [claiming EXCEPT ![m].pc = "readBack"]
              \/ claiming' = [claiming EXCEPT ![m] = NoClaim]
  <2>1. /\ claims'[p] = Extended(s, c.commit)
        /\ \A q \in Packages \ {p} : claims'[q] = claims[q]
    BY <1>2, <1>5 DEF ClaimTypeOK
  <2>2. \A i \in 1..Len(s) : s[i].id # c.commit.id
    BY <1>2, <1>3 DEF Knows
  <2>3. /\ Len(claims'[p]) = Len(s) + 1 /\ claims'[p][Len(s) + 1] = c.commit
        /\ \A i \in 1..Len(s) : claims'[p][i] = s[i]
        /\ c.commit.parent = IF Len(s) = 0 THEN NoCommit ELSE s[Len(s)].id
    BY <1>2, <1>5, <2>1, <2>2, AcceptedPush
  <2>4. \A q \in Packages : Len(claims[q]) \in Nat
    BY CommitTypes
  <2>5. \A i \in 1..(Len(s) + 1) : i = Len(s) + 1 \/ i \in 1..Len(s)
    BY <1>2, <2>4
  <2>6. \A q \in Packages : \A commit : On(q, commit) => On(q, commit)'
    <3>1. ASSUME NEW q \in Packages, NEW i \in 1..Len(claims[q])
          PROVE  i \in 1..Len(claims'[q]) /\ claims'[q][i] = claims[q][i]
      <4>1. CASE q = p
        BY <2>3, <2>4, <4>1
      <4>2. CASE q # p
        BY <2>1, <4>2
      <4>3. QED
        BY <4>1, <4>2
    <3>2. QED
      BY <3>1 DEF On
  <2>7. \E i \in 1..Len(claims'[p]) : claims'[p][i] = c.commit
    <3>1. Len(s) + 1 \in 1..Len(claims'[p])
      BY <1>2, <2>3, <2>4
    <3>2. QED
      BY <2>3, <3>1
  <2>8. \A q \in Packages : \A id : Knows(q, id)' => Knows(q, id) \/ id = c.commit.id
    <3>1. ASSUME NEW q \in Packages, NEW i \in 1..Len(claims'[q])
          PROVE  claims'[q][i] = c.commit \/ (i \in 1..Len(claims[q]) /\ claims'[q][i] = claims[q][i])
      <4>1. CASE q = p
        BY <2>3, <2>5, <4>1
      <4>2. CASE q # p
        BY <2>1, <4>2
      <4>3. QED
        BY <4>1, <4>2
    <3>2. QED
      BY <3>1 DEF Knows
  <2>9. UNCHANGED <<minted, recorded>>
    BY DEF Push
  <2>10. IdsAreMinted'
    <3>1. ASSUME NEW i \in 1..Len(claims'[p])
          PROVE  claims'[p][i].id[2] <= minted[claims'[p][i].id[1]]
      BY <1>2, <1>3, <2>3, <2>5 DEF ClaimInv, IdsAreMinted
    <3>2. QED
      BY <2>1, <2>9, <3>1 DEF ClaimInv, IdsAreMinted
  <2>11. /\ \A n \in Machines \ {m} : claiming'[n] = claiming[n]
         /\ claiming'[m] = NoClaim \/ claiming'[m] = [c EXCEPT !.pc = "readBack"]
    BY <1>5 DEF ClaimTypeOK
  <2>12. ClaimsAreOwn'
    <3>1. ASSUME NEW n \in Machines \ {m}, claiming[n] # NoClaim, NEW q \in Packages,
                 claiming[n].pc = "push"
          PROVE  ~Knows(q, claiming[n].commit.id)'
      <4>1. claiming[n].commit.id[1] = n /\ ~Knows(q, claiming[n].commit.id)
        BY <3>1 DEF ClaimInv, ClaimsAreOwn
      <4>2. claiming[n].commit.id # c.commit.id
        BY <1>3, <4>1
      <4>3. \A id : Knows(q, id)' => Knows(q, id) \/ id = c.commit.id
        BY <2>8
      <4>4. ~(\E i \in 1..Len(claims'[q]) : claims'[q][i].id = claiming[n].commit.id)
        BY <4>1, <4>2, <4>3 DEF Knows
      <4>5. claiming'[n] = claiming[n]
        BY <2>11
      <4>6. QED
        BY <4>4, <4>5 DEF Knows
    <3>2. ASSUME NEW n \in Machines \ {m}, claiming[n] # NoClaim
          PROVE  /\ claiming[n].commit.id[1] = n /\ claiming[n].commit.id[2] <= minted[n]
                 /\ claiming[n].pc = "readBack" => On(claiming[n].package, claiming[n].commit)
                 /\ claiming[n].package \in Packages
      BY <3>2, CommitTypes DEF ClaimInv, ClaimsAreOwn
    <3>3. claiming'[m] # NoClaim =>
            /\ claiming'[m].commit = c.commit /\ claiming'[m].package = p
            /\ claiming'[m].pc = "readBack"
      BY <1>2, <2>11 DEF ClaimsUnderWay
    <3>4. ASSUME NEW n \in Machines \ {m}, claiming'[n] # NoClaim
          PROVE  /\ claiming'[n].commit.id[1] = n /\ claiming'[n].commit.id[2] <= minted'[n]
                 /\ claiming'[n].pc = "push" => \A q \in Packages : ~Knows(q, claiming[n].commit.id)'
                 /\ claiming'[n].pc = "readBack" => On(claiming[n].package, claiming[n].commit)'
      <4>1. claiming'[n] = claiming[n]
        BY <2>11
      <4>2. On(claiming[n].package, claiming[n].commit) => On(claiming[n].package, claiming[n].commit)'
        <5>1. claiming[n].package \in Packages
          BY <3>2, <3>4, <4>1
        <5>2. ASSUME On(claiming[n].package, claiming[n].commit)
              PROVE  \E i \in 1..Len(claims'[claiming[n].package]) :
                       claims'[claiming[n].package][i] = claiming[n].commit
          BY <2>6, <5>1, <5>2 DEF On
        <5>3. QED
          BY <4>1, <5>2 DEF On
      <4>3. QED
        BY <2>9, <3>1, <3>2, <3>4, <4>1, <4>2
    <3>5. claiming'[m] # NoClaim =>
            /\ claiming'[m].commit.id[1] = m /\ claiming'[m].commit.id[2] <= minted'[m]
            /\ claiming'[m].pc # "push" /\ On(claiming[m].package, claiming[m].commit)'
      BY <1>3, <2>7, <2>9, <3>3 DEF On
    <3>6. QED
      BY <3>4, <3>5 DEF ClaimsAreOwn, On, Knows
  <2>13. RecordedIsThere'
    <3>1. \A x \in recorded : x[2] \in Packages
      BY DEF ClaimTypeOK
    <3>2. QED
      BY ZenonT(30), <2>6, <2>9, <3>1 DEF ClaimInv, RecordedIsThere, On
  <2>14. NoBlindTakeOver'
    <3>1. ASSUME NEW i \in 1..Len(claims'[p])
          PROVE  claims'[p][i].parent = IF i = 1 THEN NoCommit ELSE claims'[p][i - 1].id
      <4>1. CASE i = Len(s) + 1
        <5>1. i # 1 => Len(s) \in 1..Len(s) /\ i - 1 = Len(s)
          BY <1>2, <2>4, <4>1
        <5>2. QED
          BY <1>2, <2>3, <2>4, <4>1, <5>1
      <4>2. CASE i \in 1..Len(s)
        <5>1. i # 1 => i - 1 \in 1..Len(s)
          BY <1>2, <2>4, <4>2
        <5>2. s[i].parent = IF i = 1 THEN NoCommit ELSE s[i - 1].id
          BY <1>2, <4>2 DEF ClaimInv, NoBlindTakeOver
        <5>3. QED
          BY <2>3, <4>2, <5>1, <5>2
      <4>3. QED
        BY <2>3, <2>5, <4>1, <4>2
    <3>2. QED
      BY <2>1, <3>1 DEF ClaimInv, NoBlindTakeOver
  <2>15. QED
    BY <2>10, <2>12, <2>13, <2>14 DEF ClaimInv
<1>6. QED
  BY <1>4, <1>5 DEF Push

LEMMA ReadBackStep ==
  ASSUME ClaimTypeOK, ClaimInv, NEW m \in Machines, ReadBackClaim(m)
  PROVE  ClaimInv'
<1> DEFINE c == claiming[m]
<1>1. c # NoClaim /\ c.pc = "readBack"
  BY DEF ReadBackClaim, NoClaim
<1>2. On(c.package, c.commit) /\ c.commit.id[1] = m
  BY <1>1 DEF ClaimInv, ClaimsAreOwn
<1>3. recorded' = recorded \/ recorded' = recorded \cup {<<m, c.package, c.commit>>}
  BY DEF ReadBackClaim
<1>4. UNCHANGED <<claims, minted>> /\ claiming' = [claiming EXCEPT ![m] = NoClaim]
  BY DEF ReadBackClaim
<1>5. RecordedIsThere'
  BY <1>2, <1>3, <1>4 DEF ClaimInv, RecordedIsThere, On
<1>6. claiming'[m] = NoClaim /\ \A n \in Machines \ {m} : claiming'[n] = claiming[n]
  BY <1>4 DEF ClaimTypeOK
<1>7. ClaimsAreOwn'
  BY <1>4, <1>6 DEF ClaimInv, ClaimsAreOwn, On, Knows
<1>8. QED
  BY <1>4, <1>5, <1>7 DEF ClaimInv, IdsAreMinted, NoBlindTakeOver

LEMMA NextClaim == ASSUME ClaimTypeOK, ClaimInv, [ClaimNext]_claimVars PROVE ClaimInv'
<1>1. CASE UNCHANGED claimVars
  BY <1>1, OtherStep DEF claimVars
<1>2. ASSUME NEW m \in Machines, StopClaiming(m) PROVE ClaimInv'
  BY <1>2, IdleStep DEF StopClaiming
<1>3. QED
  BY <1>1, <1>2, PlanStep, PushStep, ReadBackStep DEF ClaimNext

LEMMA ClaimInvHolds == ClaimSpec => [](ClaimTypeOK /\ ClaimInv)
<1>1. ClaimInit => ClaimTypeOK /\ ClaimInv
  BY InitType, InitClaim
<1>2. ClaimTypeOK /\ ClaimInv /\ [ClaimNext]_claimVars => (ClaimTypeOK /\ ClaimInv)'
  BY NextType, NextClaim
<1>3. QED
  BY <1>1, <1>2, PTL DEF ClaimSpec

\* A machine that recorded has its own claim on the remote branch, for good.
THEOREM StartedMachinesHoldTheirClaim == ClaimSpec => []StartedIsOnRemote
<1>1. ClaimTypeOK /\ ClaimInv => StartedIsOnRemote
  <2>1. SUFFICES ASSUME ClaimInv, NEW x \in recorded
                 PROVE  x[3].id \in Ids(claims[x[2]]) /\ x[3].id[1] = x[1]
    BY DEF StartedIsOnRemote
  <2>2. PICK i \in 1..Len(claims[x[2]]) : claims[x[2]][i] = x[3]
    BY <2>1 DEF ClaimInv, RecordedIsThere, On
  <2>3. QED
    BY <2>1, <2>2 DEF ClaimInv, RecordedIsThere, Ids
<1>2. QED
  BY <1>1, ClaimInvHolds, PTL

\* No claim is taken over unseen.
THEOREM TakeOversFollowClaims == ClaimSpec => []NoBlindTakeOver
<1>1. ClaimTypeOK /\ ClaimInv => NoBlindTakeOver
  BY DEF ClaimInv
<1>2. QED
  BY <1>1, ClaimInvHolds, PTL

\* Of the machines that recorded a package without taking it over there is at
\* most one: their commits have no parent, and a branch has one such commit.
THEOREM FreePackagesHaveOneStarter == ClaimSpec => []OneStartsAFreePackage
<1>1. ClaimTypeOK /\ ClaimInv => OneStartsAFreePackage
  <2>1. SUFFICES ASSUME ClaimTypeOK, ClaimInv, NEW x \in recorded, NEW y \in recorded, x[2] = y[2],
                        x[3].parent = NoCommit, y[3].parent = NoCommit
                 PROVE  x = y
    BY DEF OneStartsAFreePackage
  <2>2. x \in Machines \X Packages \X Commits /\ y \in Machines \X Packages \X Commits
    BY <2>1 DEF ClaimTypeOK
  <2>3. ASSUME NEW z \in recorded, z[2] = x[2], z[3].parent = NoCommit
        PROVE  z[3] = claims[x[2]][1]
    <3>1. PICK i \in 1..Len(claims[x[2]]) : claims[x[2]][i] = z[3]
      BY <2>1, <2>3 DEF ClaimInv, RecordedIsThere, On
    <3>2. CASE i = 1
      BY <3>1, <3>2
    <3>3. CASE i # 1
      <4>1. i - 1 \in 1..Len(claims[x[2]])
        BY <2>1, <2>2, <3>1, <3>3, CommitTypes
      <4>2. claims[x[2]][i - 1].id \in Machines \X (1..MaxClaims)
        BY <2>1, <2>2, <4>1, CommitTypes DEF Commits
      <4>3. claims[x[2]][i].parent = claims[x[2]][i - 1].id
        BY <2>1, <2>2, <3>1, <3>3 DEF ClaimInv, NoBlindTakeOver
      <4>4. QED
        BY <2>3, <3>1, <4>2, <4>3, WorkAssumption DEF NoCommit, WorkAssumption
    <3>4. QED
      BY <3>2, <3>3
  <2>4. x[3] = y[3]
    BY <2>1, <2>3
  <2>5. x[1] = y[1]
    BY <2>1, <2>4 DEF ClaimInv, RecordedIsThere
  <2>6. QED
    BY <2>1, <2>2, <2>4, <2>5
<1>2. QED
  BY <1>1, ClaimInvHolds, PTL

-----------------------------------------------------------------------------
(* Results.                                                                *)

WholeIsGiven == \A m \in Machines : tree[m].state = "whole" => tree[m].docs \in Given(m)

Directories == [state : {"absent", "whole", "torn"}, docs : Bundles]

LEMMA NoDirectories ==
  /\ Nothing \in Bundles /\ NoDirectory \in Directories
  /\ \A b \in Bundles : Whole(b) \in Directories
  /\ \A b \in Bundles : CutShort(b) \subseteq Directories
  /\ \A b \in Bundles : \A d \in CutShort(b) : d.state = "torn"
<1>1. Nothing \in Bundles
  BY DEF Nothing, Bundles
<1>2. ASSUME NEW b \in Bundles, NEW d \in CutShort(b)
      PROVE  d \in Directories /\ d.state = "torn"
  <2>1. PICK part \in SUBSET Names :
          d = [state |-> "torn", docs |-> [n \in Names |-> IF n \in part THEN b[n] ELSE 0]]
    BY <1>2 DEF CutShort
  <2>2. [n \in Names |-> IF n \in part THEN b[n] ELSE 0] \in Bundles
    BY DEF Bundles
  <2>3. QED
    BY <2>1, <2>2 DEF Directories
<1>3. QED
  BY <1>1, <1>2 DEF NoDirectory, Whole, Directories

LEMMA InitResults == ASSUME ResultInit PROVE ResultTypeOK /\ WholeIsGiven /\ CollectedIsOneResult
<1>1. ResultTypeOK
  <2>1. documents \in [Machines -> Bundles] /\ collected \in [Names -> (Machines \cup {0}) \X Nat]
    BY NoDirectories DEF ResultInit, Absent
  <2>2. tree \in [Machines -> Directories]
    BY NoDirectories DEF ResultInit
  <2>3. \A m \in Machines : fetched[m] \in 0..Len(results[m])
    BY DEF ResultInit
  <2>4. results \in [Machines -> Seq(Bundles)]
    BY DEF ResultInit
  <2>5. QED
    BY <2>1, <2>2, <2>3, <2>4 DEF ResultInit, ResultTypeOK, Directories
<1>2. WholeIsGiven
  BY DEF ResultInit, WholeIsGiven, NoDirectory
<1>3. CollectedIsOneResult
  <2>1. \A m \in Machines : m # 0
    BY WorkAssumption DEF WorkAssumption
  <2>2. \A n \in Names : collected[n][1] = 0
    BY DEF ResultInit, Absent
  <2>3. QED
    BY <2>1, <2>2 DEF CollectedIsOneResult
<1>4. QED
  BY <1>1, <1>2, <1>3

\* A branch only grows, and so does what was laid out: what was given stays so.
LEMMA GivenStays ==
  ASSUME ResultTypeOK, ResultNext, NEW m \in Machines
  PROVE  Given(m) \subseteq Given(m)'
<1>1. laid \subseteq laid'
  BY DEF ResultNext, Harvest, Send, ReturnHome, CheckOut, PutAway, Preview, Fetch, Collect
<1>2. \/ results' = results
      \/ \E x \in Machines, docs \in Bundles : results' = [results EXCEPT ![x] = Append(@, docs)]
  <2>1. ASSUME NEW x \in Machines, Send(x)
        PROVE  \/ results' = results
               \/ \E docs \in Bundles : results' = [results EXCEPT ![x] = Append(@, docs)]
    <3>1. Layouts(x) \subseteq Bundles
      BY NoDirectories DEF Layouts, ResultTypeOK
    <3>2. QED
      BY <2>1, <3>1 DEF Send
  <2>2. QED
    BY <2>1 DEF ResultNext, Harvest, ReturnHome, CheckOut, PutAway, Preview, Fetch, Collect
<1>3. results[m] \in Seq(Bundles) /\ Len(results[m]) \in Nat
  BY DEF ResultTypeOK
<1>4. ASSUME NEW i \in 1..Len(results[m])
      PROVE  i \in 1..Len(results'[m]) /\ results'[m][i] = results[m][i]
  <2>1. CASE results' = results
    BY <1>4, <2>1
  <2>2. ASSUME NEW x \in Machines, NEW docs \in Bundles,
               results' = [results EXCEPT ![x] = Append(@, docs)]
        PROVE  i \in 1..Len(results'[m]) /\ results'[m][i] = results[m][i]
    <3>1. CASE x = m
      <4>1. results'[m] = Append(results[m], docs)
        BY <2>2, <3>1 DEF ResultTypeOK
      <4>2. QED
        BY <1>3, <1>4, <4>1
    <3>2. CASE x # m
      BY <1>4, <2>2, <3>2 DEF ResultTypeOK
    <3>3. QED
      BY <3>1, <3>2
  <2>3. QED
    BY <1>2, <2>1, <2>2
<1>5. QED
  BY <1>1, <1>4 DEF Given

LEMMA GivenType ==
  ASSUME ResultTypeOK, NEW m \in Machines, fetched[m] # 0
  PROVE  results[m][fetched[m]] \in Bundles /\ results[m][fetched[m]] \in Given(m)
<1>1. fetched[m] \in 1..Len(results[m]) /\ results[m] \in Seq(Bundles)
  BY DEF ResultTypeOK
<1>2. QED
  BY <1>1 DEF Given

LEMMA LayoutTypes ==
  ASSUME ResultTypeOK, NEW m \in Machines
  PROVE  Layouts(m) \subseteq Bundles
BY NoDirectories DEF ResultTypeOK, Layouts

\* The directory a result is taken from, where it matches its receipt.
LEMMA CollectedFromGiven ==
  ASSUME ResultTypeOK, WholeIsGiven, NEW m \in Machines,
         ResultDir(m).state # "absent", MatchesReceipt(ResultDir(m))
  PROVE  ResultDir(m).docs \in Bundles /\ ResultDir(m).docs \in Given(m)
<1>1. CASE tree[m].state # "absent"
  <2>1. tree[m] \in Directories /\ ResultDir(m) = tree[m]
    BY <1>1 DEF ResultTypeOK, Directories, ResultDir
  <2>2. tree[m].state = "whole"
    BY <1>1, <2>1 DEF MatchesReceipt, Directories
  <2>3. QED
    BY <2>1, <2>2 DEF WholeIsGiven, Directories
<1>2. CASE tree[m].state = "absent"
  <2>1. fetched[m] # 0
    BY <1>2 DEF ResultDir, NoDirectory
  <2>2. ResultDir(m) = Whole(results[m][fetched[m]])
    BY <1>2, <2>1 DEF ResultDir
  <2>3. QED
    BY <2>1, <2>2, GivenType DEF Whole
<1>3. QED
  BY <1>1, <1>2

\* What collecting leaves of a name: what was there, or nothing, or what the
\* directory of one machine has of it.
LEMMA CollectTakes ==
  ASSUME ResultTypeOK, WholeIsGiven, NEW asked \in SUBSET Machines, Collect(asked)
  PROVE  \/ \E names \in SUBSET Names :
              collected' = [n \in Names |-> IF n \in names THEN collected[n] ELSE Absent]
         \/ /\ \E value \in [Names -> (Machines \cup {0}) \X Nat] : collected' = value
            /\ \A n \in Names :
                 \/ collected'[n] = Absent
                 \/ \E m \in Machines :
                      /\ ResultDir(m).state # "absent" /\ MatchesReceipt(ResultDir(m))
                      /\ collected'[n] = <<m, ResultDir(m).docs[n]>>
<1> DEFINE dirs == [m \in Machines |-> IF m \in asked THEN ResultDir(m) ELSE NoDirectory]
<1> DEFINE found == {m \in Machines : dirs[m].state # "absent"}
<1> DEFINE good == {m \in found : \A x \in found : x <= m => MatchesReceipt(dirs[x])}
<1>1. CASE collected' \in Emptied
  BY <1>1 DEF Emptied
<1>2. CASE \E last \in good : collected' \in Filled(dirs, good, last)
  <2>1. PICK last \in good : collected' \in Filled(dirs, good, last)
    BY <1>2
  <2>2. PICK names \in SUBSET Names : \E cut \in SUBSET Names :
          collected' = [n \in Names |-> IF n \in cut THEN Absent
             ELSE Merged([m \in Machines |-> IF m \notin good \/ m > last THEN {}
                                             ELSE IF m = last THEN names ELSE Names], dirs, n)]
    <3> DEFINE Value(names, cut) == [n \in Names |-> IF n \in cut THEN Absent
             ELSE Merged([m \in Machines |-> IF m \notin good \/ m > last THEN {}
                                             ELSE IF m = last THEN names ELSE Names], dirs, n)]
    <3> DEFINE Cuts(names) == {{}} \cup {{n} : n \in {x \in Names \ names : dirs[last].docs[x] # 0}}
    <3>1. Filled(dirs, good, last) = UNION {{Value(names, cut) : cut \in Cuts(names)} : names \in SUBSET Names}
      BY DEF Filled
    <3>2. \A names \in SUBSET Names : Cuts(names) \subseteq SUBSET Names
      OBVIOUS
    <3> HIDE DEF Value, Cuts
    <3>3. PICK names \in SUBSET Names : collected' \in {Value(names, cut) : cut \in Cuts(names)}
      BY <2>1, <3>1
    <3>4. \E cut \in SUBSET Names : collected' = Value(names, cut)
      BY <3>2, <3>3
    <3>5. QED
      BY <3>4 DEF Value
  <2>2a. PICK cut \in SUBSET Names :
          collected' = [n \in Names |-> IF n \in cut THEN Absent
             ELSE Merged([m \in Machines |-> IF m \notin good \/ m > last THEN {}
                                             ELSE IF m = last THEN names ELSE Names], dirs, n)]
    BY <2>2
  <2> DEFINE copied == [m \in Machines |-> IF m \notin good \/ m > last THEN {}
                                           ELSE IF m = last THEN names ELSE Names]
  <2>3. ASSUME NEW m \in Machines, NEW n \in copied[m]
        PROVE  /\ ResultDir(m).state # "absent" /\ MatchesReceipt(ResultDir(m))
               /\ dirs[m] = ResultDir(m)
    <3>1. m \in good
      BY <2>3
    <3>2. m \in found /\ m <= m
      BY <3>1, WorkAssumption DEF WorkAssumption
    <3>3. dirs[m].state # "absent" /\ MatchesReceipt(dirs[m])
      BY <3>1, <3>2
    <3>4. m \in asked
      BY <3>3 DEF NoDirectory
    <3>5. QED
      BY <3>3, <3>4
  <2>4. ASSUME NEW n \in Names
        PROVE  \/ Merged(copied, dirs, n) = Absent
               \/ \E m \in Machines :
                    n \in copied[m] /\ Merged(copied, dirs, n) = <<m, dirs[m].docs[n]>>
    <3> DEFINE have == {m \in Machines : n \in copied[m] /\ dirs[m].docs[n] # 0}
    <3> DEFINE owner == CHOOSE m \in have : \A x \in have : x <= m
    <3>1. CASE have = {}
      BY <3>1 DEF Merged
    <3>2. CASE have # {}
      <4>1. \E m \in have : \A x \in have : x <= m
        BY <3>2, WorkAssumption DEF WorkAssumption
      <4>2. owner \in have
        BY <4>1
      <4>3. Merged(copied, dirs, n) = <<owner, dirs[owner].docs[n]>>
        BY <3>2 DEF Merged
      <4>4. QED
        BY <4>2, <4>3
    <3>3. QED
      BY <3>1, <3>2
  <2>5. ASSUME NEW n \in Names
        PROVE  \/ collected'[n] = Absent
               \/ \E m \in Machines :
                    /\ ResultDir(m).state # "absent" /\ MatchesReceipt(ResultDir(m))
                    /\ collected'[n] = <<m, ResultDir(m).docs[n]>>
    <3>1. collected'[n] = IF n \in cut THEN Absent ELSE Merged(copied, dirs, n)
      BY <2>2a
    <3>2. CASE Merged(copied, dirs, n) = Absent
      BY <3>1, <3>2
    <3>3. ASSUME NEW m \in Machines, n \in copied[m], Merged(copied, dirs, n) = <<m, dirs[m].docs[n]>>
          PROVE  /\ ResultDir(m).state # "absent" /\ MatchesReceipt(ResultDir(m))
                 /\ Merged(copied, dirs, n) = <<m, ResultDir(m).docs[n]>>
      BY <2>3, <3>3
    <3>4. QED
      BY <2>4, <3>1, <3>2, <3>3
  <2>6. collected' \in [Names -> (Machines \cup {0}) \X Nat]
    <3>1. ASSUME NEW n \in Names PROVE collected'[n] \in (Machines \cup {0}) \X Nat
      <4>1. ASSUME NEW m \in Machines,
                   ResultDir(m).state # "absent" /\ MatchesReceipt(ResultDir(m))
            PROVE  ResultDir(m).docs[n] \in Nat
        BY <4>1, CollectedFromGiven DEF Bundles
      <4>2. Absent \in (Machines \cup {0}) \X Nat
        BY DEF Absent
      <4>3. \A m \in Machines : \A v \in Nat : <<m, v>> \in (Machines \cup {0}) \X Nat
        OBVIOUS
      <4>4. QED
        BY <2>5, <4>1, <4>2, <4>3
    <3>2. QED
      BY <2>2a, <3>1
  <2>7. QED
    BY <2>5, <2>6
<1>3. QED
  BY <1>1, <1>2 DEF Collect

LEMMA NextResultType ==
  ASSUME ResultTypeOK, WholeIsGiven, [ResultNext]_resultVars
  PROVE  ResultTypeOK'
<1> USE DEF Directories
<1>1. CASE UNCHANGED resultVars
  BY <1>1 DEF resultVars, ResultTypeOK
<1>2. ASSUME NEW m \in Machines, NEW n \in Names, Harvest(m, n) PROVE ResultTypeOK'
  <2>1. documents[m] \in Bundles
    BY DEF ResultTypeOK
  <2>2. [documents[m] EXCEPT ![n] = documents[m][n] + 1] \in Bundles
    BY <2>1 DEF Bundles
  <2>3. documents' \in [Machines -> Bundles]
    BY <1>2, <2>2 DEF Harvest, ResultTypeOK
  <2>4. QED
    BY <1>2, <2>3 DEF Harvest, ResultTypeOK
<1>3. CASE Preview
  <2>1. PICK docs \in Layouts(Coordinator) :
          \/ tree' = [tree EXCEPT ![Coordinator] = Whole(docs)] /\ laid' = laid \cup {docs}
          \/ /\ \E torn \in CutShort(docs) : tree' = [tree EXCEPT ![Coordinator] = torn]
             /\ laid' = laid
    BY <1>3 DEF Preview
  <2>2. Coordinator \in Machines
    BY ResultAssumption DEF ResultAssumption
  <2>3. docs \in Bundles
    BY <2>1, <2>2, LayoutTypes
  <2>4. tree' \in [Machines -> Directories] /\ laid' \subseteq Bundles
    <3>1. Whole(docs) \in Directories /\ CutShort(docs) \subseteq Directories
      BY <2>3, NoDirectories
    <3>2. tree \in [Machines -> Directories] /\ laid \subseteq Bundles
      BY DEF ResultTypeOK
    <3>3. QED
      BY <2>1, <2>3, <3>1, <3>2
  <2>5. QED
    BY <1>3, <2>4 DEF Preview, ResultTypeOK
<1>4. ASSUME NEW m \in Machines, Send(m) PROVE ResultTypeOK'
  <2>1. PICK docs \in Layouts(m), landed \in BOOLEAN, stays \in BOOLEAN, answered \in BOOLEAN :
          /\ results' = IF landed THEN [results EXCEPT ![m] = Append(@, docs)] ELSE results
          /\ onResult' = [onResult EXCEPT ![m] = stays /\ (landed \/ @)]
          /\ IF m = Coordinator
               THEN /\ tree' = [tree EXCEPT ![m] = IF stays THEN Whole(docs) ELSE NoDirectory]
                    /\ laid' = laid \cup {docs}
                    /\ fetched' = IF landed /\ answered
                                    THEN [fetched EXCEPT ![m] = Len(results[m]) + 1] ELSE fetched
               ELSE UNCHANGED <<tree, laid, fetched>>
    BY <1>4 DEF Send
  <2>2. docs \in Bundles /\ results[m] \in Seq(Bundles) /\ Len(results[m]) \in Nat
    BY <2>1, LayoutTypes DEF ResultTypeOK
  <2>3. /\ Append(results[m], docs) \in Seq(Bundles)
        /\ Len(Append(results[m], docs)) = Len(results[m]) + 1
    BY <2>2
  <2>4. results' \in [Machines -> Seq(Bundles)]
    BY <2>1, <2>3 DEF ResultTypeOK
  <2>5. /\ \A x \in Machines \ {m} : results'[x] = results[x] /\ fetched'[x] = fetched[x]
        /\ \/ results'[m] = results[m] /\ fetched'[m] = fetched[m]
           \/ /\ results'[m] = Append(results[m], docs)
              /\ fetched'[m] = fetched[m] \/ fetched'[m] = Len(results[m]) + 1
    <3>1. results \in [Machines -> Seq(Bundles)] /\ fetched \in [Machines -> Nat]
      BY DEF ResultTypeOK
    <3>2. CASE landed
      BY <2>1, <3>1, <3>2
    <3>3. CASE ~landed
      BY <2>1, <3>1, <3>3
    <3>4. QED
      BY <3>2, <3>3
  <2>6. \A x \in Machines : fetched'[x] \in 0..Len(results'[x])
    <3>1. \A x \in Machines : fetched[x] \in 0..Len(results[x])
      BY DEF ResultTypeOK
    <3>2. fetched'[m] \in 0..Len(results'[m])
      BY <2>2, <2>3, <2>5, <3>1
    <3>3. QED
      BY <2>5, <3>1, <3>2
  <2>7. fetched' \in [Machines -> Nat]
    BY <2>1, <2>2 DEF ResultTypeOK
  <2>8. onResult' \in [Machines -> BOOLEAN]
    <3>1. onResult \in [Machines -> BOOLEAN]
      BY DEF ResultTypeOK
    <3>2. (stays /\ (landed \/ onResult[m])) \in BOOLEAN
      OBVIOUS
    <3>3. QED
      BY <2>1, <3>1, <3>2
  <2>9. tree' \in [Machines -> Directories] /\ laid' \subseteq Bundles
    <3>1. Whole(docs) \in Directories /\ NoDirectory \in Directories
      BY <2>2, NoDirectories
    <3>2. tree \in [Machines -> Directories] /\ laid \subseteq Bundles
      BY DEF ResultTypeOK
    <3>3. QED
      BY <2>1, <2>2, <3>1, <3>2
  <2>10. QED
    BY <1>4, <2>4, <2>6, <2>7, <2>8, <2>9 DEF Send, ResultTypeOK
<1>5. ASSUME NEW m \in Machines, ReturnHome(m) PROVE ResultTypeOK'
  <2>1. tree' \in [Machines -> Directories]
    BY <1>5, NoDirectories DEF ReturnHome, ResultTypeOK
  <2>2. QED
    BY <1>5, <2>1 DEF ReturnHome, ResultTypeOK
<1>6. CASE Fetch
  <2>1. \A m \in Machines : Len(results[m]) \in Nat
    BY DEF ResultTypeOK
  <2>2. QED
    BY <1>6, <2>1 DEF Fetch, ResultTypeOK
<1>7. ASSUME NEW m \in Machines, CheckOut(m) PROVE ResultTypeOK'
  <2>1. results[m][fetched[m]] \in Bundles
    BY <1>7, GivenType DEF CheckOut
  <2>2. Whole(results[m][fetched[m]]) \in Directories
    BY <2>1, NoDirectories
  <2>3. tree' \in [Machines -> Directories]
    BY <1>7, <2>2 DEF CheckOut, ResultTypeOK
  <2>4. QED
    BY <1>7, <2>3 DEF CheckOut, ResultTypeOK
<1>8. ASSUME NEW m \in Machines, PutAway(m) PROVE ResultTypeOK'
  <2>1. tree' \in [Machines -> Directories]
    BY <1>8, NoDirectories DEF PutAway, ResultTypeOK
  <2>2. QED
    BY <1>8, <2>1 DEF PutAway, ResultTypeOK
<1>9. ASSUME NEW asked \in SUBSET Machines, Collect(asked) PROVE ResultTypeOK'
  <2>1. collected' \in [Names -> (Machines \cup {0}) \X Nat]
    <3>1. Absent \in (Machines \cup {0}) \X Nat /\ collected \in [Names -> (Machines \cup {0}) \X Nat]
      BY DEF Absent, ResultTypeOK
    <3>2. QED
      BY <1>9, <3>1, CollectTakes
  <2>2. QED
    BY <1>9, <2>1 DEF Collect, ResultTypeOK
<1>10. QED
  BY <1>1, <1>2, <1>3, <1>4, <1>5, <1>6, <1>7, <1>8, <1>9 DEF ResultNext

LEMMA NextWholeIsGiven ==
  ASSUME ResultTypeOK, WholeIsGiven, [ResultNext]_resultVars
  PROVE  WholeIsGiven'
<1>1. CASE UNCHANGED resultVars
  BY <1>1 DEF resultVars, WholeIsGiven, Given
<1>2. SUFFICES ASSUME ResultNext, NEW m \in Machines, tree'[m].state = "whole"
               PROVE  tree'[m].docs \in Given(m)'
  BY <1>1 DEF WholeIsGiven
<1>3. CASE tree'[m] = tree[m]
  BY <1>2, <1>3, GivenStays DEF WholeIsGiven
<1>4. NoDirectory.state # "whole"
  BY DEF NoDirectory
<1>5. ASSUME Preview PROVE tree'[m].docs \in Given(m)'
  <2>1. PICK docs \in Layouts(Coordinator) :
          \/ tree' = [tree EXCEPT ![Coordinator] = Whole(docs)] /\ laid' = laid \cup {docs}
          \/ \E torn \in CutShort(docs) : tree' = [tree EXCEPT ![Coordinator] = torn]
    BY <1>5 DEF Preview
  <2>2. docs \in Bundles
    BY <2>1, LayoutTypes, ResultAssumption DEF ResultAssumption
  <2>3. CASE m # Coordinator
    BY <1>3, <2>1, <2>3 DEF ResultTypeOK
  <2>4. CASE m = Coordinator
    <3>1. CASE tree' = [tree EXCEPT ![Coordinator] = Whole(docs)] /\ laid' = laid \cup {docs}
      <4>1. tree'[m] = Whole(docs) /\ docs \in laid'
        BY <2>4, <3>1 DEF ResultTypeOK
      <4>2. QED
        BY <2>4, <4>1 DEF Whole, Given
    <3>2. CASE \E torn \in CutShort(docs) : tree' = [tree EXCEPT ![Coordinator] = torn]
      <4>1. tree'[m] \in CutShort(docs)
        BY <2>4, <3>2 DEF ResultTypeOK
      <4>2. QED
        BY <1>2, <2>2, <4>1, NoDirectories
    <3>3. QED
      BY <2>1, <3>1, <3>2
  <2>5. QED
    BY <2>3, <2>4
<1>6. ASSUME NEW x \in Machines, Send(x) PROVE tree'[m].docs \in Given(m)'
  <2>1. CASE m = x /\ x = Coordinator
    <3>1. PICK docs \in Layouts(x), stays \in BOOLEAN :
            /\ tree' = [tree EXCEPT ![x] = IF stays THEN Whole(docs) ELSE NoDirectory]
            /\ laid' = laid \cup {docs}
      BY <1>6, <2>1 DEF Send
    <3>2. tree'[m] = IF stays THEN Whole(docs) ELSE NoDirectory
      BY <2>1, <3>1 DEF ResultTypeOK
    <3>3. tree'[m] = Whole(docs)
      BY <1>2, <1>4, <3>2
    <3>4. QED
      BY <2>1, <3>1, <3>3 DEF Whole, Given
  <2>2. CASE ~(m = x /\ x = Coordinator)
    <3>1. tree'[m] = tree[m]
      BY <1>6, <2>2 DEF Send, ResultTypeOK
    <3>2. QED
      BY <1>3, <3>1
  <2>3. QED
    BY <2>1, <2>2
<1>7. ASSUME NEW x \in Machines, CheckOut(x) PROVE tree'[m].docs \in Given(m)'
  <2>1. CASE m = x
    <3>1. tree'[m] = Whole(results[m][fetched[m]])
      BY <1>7, <2>1 DEF CheckOut, ResultTypeOK
    <3>2. results[m][fetched[m]] \in Given(m)
      BY <1>7, <2>1, GivenType DEF CheckOut
    <3>3. QED
      BY <1>2, <3>1, <3>2, GivenStays DEF Whole
  <2>2. CASE m # x
    BY <1>3, <1>7, <2>2 DEF CheckOut, ResultTypeOK
  <2>3. QED
    BY <2>1, <2>2
<1>8. ASSUME NEW x \in Machines, PutAway(x) \/ ReturnHome(x)
      PROVE  tree'[m] = tree[m] \/ tree'[m] = NoDirectory
  <2>1. tree' = tree \/ tree' = [tree EXCEPT ![x] = NoDirectory]
    BY <1>8 DEF PutAway, ReturnHome
  <2>2. QED
    BY <2>1 DEF ResultTypeOK
<1>9. ASSUME \/ \E x \in Machines, n \in Names : Harvest(x, n)
             \/ Fetch
             \/ \E asked \in SUBSET Machines : Collect(asked)
      PROVE  tree'[m] = tree[m]
  BY <1>9 DEF Harvest, Fetch, Collect
<1>10. QED
  BY <1>2, <1>3, <1>4, <1>5, <1>6, <1>7, <1>8, <1>9 DEF ResultNext

LEMMA NextCollected ==
  ASSUME ResultTypeOK, WholeIsGiven, CollectedIsOneResult, [ResultNext]_resultVars
  PROVE  CollectedIsOneResult'
<1>1. CASE UNCHANGED resultVars
  BY <1>1 DEF resultVars, CollectedIsOneResult, Given
<1>2. ASSUME ResultNext, collected' = collected PROVE CollectedIsOneResult'
  <2>1. \A m \in Machines : Given(m) \subseteq Given(m)'
    BY <1>2, GivenStays
  <2>2. QED
    BY <1>2, <2>1 DEF CollectedIsOneResult
<1>3. ASSUME NEW asked \in SUBSET Machines, Collect(asked) PROVE CollectedIsOneResult'
  <2>1. SUFFICES ASSUME NEW m \in Machines, {n \in Names : collected'[n][1] = m} # {}
                 PROVE  \E b \in Given(m) : \A n \in Names : collected'[n][1] = m => collected'[n][2] = b[n]
    BY <1>3 DEF CollectedIsOneResult, Collect, Given
  <2>2. m # 0 /\ Absent[1] = 0
    BY WorkAssumption DEF WorkAssumption, Absent
  <2>3. ASSUME NEW names \in SUBSET Names,
               collected' = [n \in Names |-> IF n \in names THEN collected[n] ELSE Absent]
        PROVE  \E b \in Given(m) : \A n \in Names : collected'[n][1] = m => collected'[n][2] = b[n]
    <3>1. \A n \in Names : collected'[n][1] = m => collected'[n] = collected[n]
      BY <2>2, <2>3
    <3>2. {n \in Names : collected[n][1] = m} # {}
      BY <2>1, <3>1
    <3>3. PICK b \in Given(m) : \A n \in {x \in Names : collected[x][1] = m} : collected[n][2] = b[n]
      BY <3>2 DEF CollectedIsOneResult
    <3>4. QED
      BY <3>1, <3>3
  <2>4. ASSUME \A n \in Names :
                 \/ collected'[n] = Absent
                 \/ \E x \in Machines :
                      /\ ResultDir(x).state # "absent" /\ MatchesReceipt(ResultDir(x))
                      /\ collected'[n] = <<x, ResultDir(x).docs[n]>>
        PROVE  \E b \in Given(m) : \A n \in Names : collected'[n][1] = m => collected'[n][2] = b[n]
    <3>1. ASSUME NEW n \in Names, collected'[n][1] = m
          PROVE  /\ ResultDir(m).state # "absent" /\ MatchesReceipt(ResultDir(m))
                 /\ collected'[n][2] = ResultDir(m).docs[n]
      BY <2>2, <2>4, <3>1
    <3>2. ResultDir(m).docs \in Given(m)
      BY <2>1, <3>1, CollectedFromGiven
    <3>3. QED
      BY <3>1, <3>2
  <2>5. QED
    BY <1>3, <2>3, <2>4, CollectTakes
<1>4. QED
  BY <1>1, <1>2, <1>3
     DEF ResultNext, Harvest, Send, ReturnHome, CheckOut, PutAway, Preview, Fetch

\* What is collected of a machine comes from one result that machine has given,
\* document for document.
THEOREM CollectedComesFromOneResult == ResultSpec => []CollectedIsOneResult
<1> DEFINE Inv == ResultTypeOK /\ WholeIsGiven /\ CollectedIsOneResult
<1>1. ResultInit => Inv
  BY InitResults
<1>2. Inv /\ [ResultNext]_resultVars => Inv'
  BY NextResultType, NextWholeIsGiven, NextCollected
<1>3. Inv => CollectedIsOneResult
  OBVIOUS
<1>4. QED
  BY <1>1, <1>2, <1>3, PTL DEF ResultSpec
=============================================================================
