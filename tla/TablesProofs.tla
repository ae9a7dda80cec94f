----------------------------- MODULE TablesProofs -----------------------------
(***************************************************************************)
(* Proofs about the Worker's two small tables, for any number of requests. *)
(* Flags: the open-flag cap is exceeded by no more than the requests in    *)
(* flight, and the counter hides no open flag.  OverlayTags: no agent      *)
(* replaces a person's live row, an edit replaces the row it was made      *)
(* from, and the daily cap is exceeded by no more than the requests in     *)
(* flight.                                                                 *)
(*                                                                         *)
(* The two properties of Flags are inductive; its type invariant is not:   *)
(* that the counter never exceeds the number of flags needs the flags      *)
(* inserted and not yet counted (Room).  Those of OverlayTags need what a  *)
(* request still knows of its row as long as the version is the one it     *)
(* read (SeenStands, LookStands).                                          *)
(***************************************************************************)
EXTENDS Tables, FiniteSetTheorems, TLAPS

Taken == {f \in Ids : flags[f] # Free}
Room == flagCount + Cardinality(At("inserted")) <= Cardinality(Taken)
CountedOn(t) == {r \in At("counted") : request[r].target = t}

IInv == TypeOK /\ Room /\ FlagsBounded /\ CountNeverLow

-----------------------------------------------------------------------------
(* Lemmas: how the sets that are counted change.                           *)

\* Everything that is counted is finite.
LEMMA Finite ==
  /\ IsFiniteSet(OpenFlags) /\ Cardinality(OpenFlags) \in Nat
  /\ IsFiniteSet(Taken) /\ Cardinality(Taken) \in Nat
  /\ Cardinality(Taken) <= Cardinality(Ids)
  /\ \A t : IsFiniteSet(OpenOn(t)) /\ Cardinality(OpenOn(t)) \in Nat
  /\ \A t : /\ IsFiniteSet(CountedOn(t)) /\ Cardinality(CountedOn(t)) \in Nat
            /\ Cardinality(CountedOn(t)) <= Cardinality(Requests)
  /\ \A pc : IsFiniteSet(At(pc)) /\ Cardinality(At(pc)) \in Nat
  /\ Cardinality(Requests) \in Nat /\ Cardinality(Ids) \in Nat
<1>1. \A S : S \subseteq Ids => /\ IsFiniteSet(S) /\ Cardinality(S) \in Nat
                               /\ Cardinality(S) <= Cardinality(Ids)
  BY FS_Subset, FS_CardinalityType, FlagsAssumption DEF FlagsAssumption
<1>2. \A S : S \subseteq Requests => /\ IsFiniteSet(S) /\ Cardinality(S) \in Nat
                                    /\ Cardinality(S) <= Cardinality(Requests)
  BY FS_Subset, FS_CardinalityType, FlagsAssumption DEF FlagsAssumption
<1>3. OpenFlags \subseteq Ids /\ Taken \subseteq Ids /\ \A t : OpenOn(t) \subseteq Ids
  BY DEF OpenFlags, Taken, OpenOn
<1>4. \A pc : At(pc) \subseteq Requests
  BY DEF At
<1>5. \A t : CountedOn(t) \subseteq Requests
  BY <1>4 DEF CountedOn
<1>6. Cardinality(Requests) \in Nat /\ Cardinality(Ids) \in Nat
  BY FS_CardinalityType, FlagsAssumption DEF FlagsAssumption
<1>7. QED
  BY <1>1, <1>2, <1>3, <1>4, <1>5, <1>6

\* A finite set gains or loses at most one element.
LEMMA OneMore ==
  ASSUME NEW S, NEW x, IsFiniteSet(S), x \notin S
  PROVE  Cardinality(S \cup {x}) = Cardinality(S) + 1
BY FS_AddElement

LEMMA AtMostOneMore ==
  \A S, x : IsFiniteSet(S) /\ Cardinality(S) \in Nat =>
    /\ IsFiniteSet(S \cup {x})
    /\ Cardinality(S \cup {x}) <= Cardinality(S) + 1
<1>1. SUFFICES ASSUME NEW S, NEW x, IsFiniteSet(S), Cardinality(S) \in Nat
               PROVE  /\ IsFiniteSet(S \cup {x})
                      /\ Cardinality(S \cup {x}) <= Cardinality(S) + 1
  OBVIOUS
<1>2. QED
  BY <1>1, FS_AddElement

LEMMA OneLess ==
  ASSUME NEW S, NEW x, IsFiniteSet(S), x \in S
  PROVE  Cardinality(S \ {x}) = Cardinality(S) - 1
BY FS_RemoveElement

\* A request moves on: the set of requests at each place.
LEMMA Moves ==
  ASSUME TypeOK, NEW r \in Requests, NEW w, request' = [request EXCEPT ![r] = w]
  PROVE  /\ \A pc : At(pc)' = IF w.pc = pc THEN At(pc) \cup {r} ELSE At(pc) \ {r}
         /\ \A t : CountedOn(t)' = IF w.pc = "counted" /\ w.target = t
                                   THEN CountedOn(t) \cup {r} ELSE CountedOn(t) \ {r}
         /\ \A pc : r \in At(pc) <=> request[r].pc = pc
<1>1. \A q \in Requests : request'[q] = IF q = r THEN w ELSE request[q]
  BY DEF TypeOK
<1>2. \A pc, q : q \in At(pc)' <=> q \in Requests /\ request'[q].pc = pc
  BY DEF At
<1>3. \A t, q : q \in CountedOn(t)' <=> /\ q \in Requests /\ request'[q].pc = "counted"
                                     /\ request'[q].target = t
  BY <1>2 DEF CountedOn
<1>4. \A pc : At(pc)' = IF w.pc = pc THEN At(pc) \cup {r} ELSE At(pc) \ {r}
  BY <1>1, <1>2 DEF At
<1>5. \A t : CountedOn(t)' = IF w.pc = "counted" /\ w.target = t
                             THEN CountedOn(t) \cup {r} ELSE CountedOn(t) \ {r}
  BY <1>1, <1>3 DEF CountedOn, At
<1>6. QED
  BY <1>4, <1>5 DEF At

\* The counts at the places that matter after the request moves on.
LEMMA Counts ==
  ASSUME TypeOK, NEW r \in Requests, NEW w, request' = [request EXCEPT ![r] = w],
         w.pc # "counted"
  PROVE  /\ (w.pc = "inserted" /\ request[r].pc # "inserted") =>
              Cardinality(At("inserted"))' = Cardinality(At("inserted")) + 1
         /\ (w.pc # "inserted" /\ request[r].pc = "inserted") =>
              Cardinality(At("inserted"))' = Cardinality(At("inserted")) - 1
         /\ (w.pc # "inserted" /\ request[r].pc # "inserted") =>
              Cardinality(At("inserted"))' = Cardinality(At("inserted"))
         /\ (w.pc = "closed" /\ request[r].pc # "closed") =>
              Cardinality(At("closed"))' = Cardinality(At("closed")) + 1
         /\ (w.pc # "closed" /\ request[r].pc = "closed") =>
              Cardinality(At("closed"))' = Cardinality(At("closed")) - 1
         /\ (w.pc # "closed" /\ request[r].pc # "closed") =>
              Cardinality(At("closed"))' = Cardinality(At("closed"))
         /\ \A t : Cardinality(CountedOn(t))' = Cardinality(CountedOn(t))
                - (IF request[r].pc = "counted" /\ request[r].target = t THEN 1 ELSE 0)
<1>1. ASSUME NEW pc \in {"inserted", "closed"}
      PROVE  Cardinality(At(pc)') = Cardinality(At(pc))
                + (IF w.pc = pc /\ request[r].pc # pc THEN 1 ELSE 0)
                - (IF w.pc # pc /\ request[r].pc = pc THEN 1 ELSE 0)
  <2>1. /\ At(pc)' = IF w.pc = pc THEN At(pc) \cup {r} ELSE At(pc) \ {r}
        /\ r \in At(pc) <=> request[r].pc = pc
    BY Moves
  <2>2. IsFiniteSet(At(pc)) /\ Cardinality(At(pc)) \in Nat
    BY Finite
  <2>3. /\ Cardinality(At(pc) \cup {r}) =
             IF r \in At(pc) THEN Cardinality(At(pc)) ELSE Cardinality(At(pc)) + 1
        /\ Cardinality(At(pc) \ {r}) =
             IF r \in At(pc) THEN Cardinality(At(pc)) - 1 ELSE Cardinality(At(pc))
    BY <2>2, FS_AddElement, FS_RemoveElement
  <2>4. QED
    BY <2>1, <2>2, <2>3
<1>2. ASSUME NEW t
      PROVE  Cardinality(CountedOn(t)') = Cardinality(CountedOn(t))
                - (IF request[r].pc = "counted" /\ request[r].target = t THEN 1 ELSE 0)
  <2>1. /\ CountedOn(t)' = CountedOn(t) \ {r}
        /\ r \in CountedOn(t) <=> request[r].pc = "counted" /\ request[r].target = t
    <3>1. CountedOn(t)' = CountedOn(t) \ {r}
      BY Moves
    <3>2. r \in CountedOn(t) <=> request[r].pc = "counted" /\ request[r].target = t
      BY DEF CountedOn, At
    <3>3. QED
      BY <3>1, <3>2
  <2>2. IsFiniteSet(CountedOn(t)) /\ Cardinality(CountedOn(t)) \in Nat
    BY Finite
  <2>3. Cardinality(CountedOn(t) \ {r}) =
          IF r \in CountedOn(t) THEN Cardinality(CountedOn(t)) - 1 ELSE Cardinality(CountedOn(t))
    BY <2>2, FS_RemoveElement
  <2>4. QED
    BY <2>1, <2>2, <2>3
<1>3. /\ Cardinality(At("inserted")) \in Nat /\ Cardinality(At("closed")) \in Nat
  BY Finite
<1>4. QED
  BY <1>1, <1>2, <1>3

-----------------------------------------------------------------------------
(* The steps.                                                              *)

\* FlagsBounded in terms of the sets named above.
LEMMA Bounded ==
  FlagsBounded <=>
    \A t \in Targets : Cardinality(OpenOn(t)) + Cardinality(CountedOn(t))
                         <= Cap + Cardinality(Requests) - 1
BY DEF FlagsBounded, CountedOn

\* While the flags stay as they are, so is everything counted of them.
LEMMA SameFlags ==
  ASSUME flags' = flags
  PROVE  /\ OpenFlags' = OpenFlags /\ Taken' = Taken
         /\ \A t : OpenOn(t)' = OpenOn(t)
BY DEF OpenFlags, Taken, OpenOn

\* A request that passes the check: fewer than Cap are open, and fewer requests
\* than there are wait besides it.
LEMMA CountOpenStep ==
  ASSUME IInv, NEW r \in Requests, NEW t \in Targets, CountOpen(r, t)
  PROVE  IInv'
<1> PICK w : w = [pc |-> "counted", target |-> t]
  OBVIOUS
<1>0. w.pc = "counted" /\ w.target = t
  OBVIOUS
<1>1. /\ request[r].pc = "idle" /\ Cardinality(OpenOn(t)) < Cap
      /\ request' = [request EXCEPT ![r] = w]
      /\ flags' = flags /\ flagCount' = flagCount /\ lost' = lost
  BY DEF CountOpen, Accepts
<1>2. TypeOK'
  BY <1>1 DEF IInv, TypeOK
<1>3. ASSUME NEW pc \in {"inserted", "closed"} PROVE At(pc)' = At(pc)
  <2>1. At(pc)' = At(pc) \ {r}
    BY ZenonT(30), <1>0, <1>1, Moves DEF IInv
  <2>2. r \notin At(pc)
    BY <1>1 DEF At
  <2>3. QED
    BY <2>1, <2>2
<1>4. Room' /\ CountNeverLow'
  BY <1>1, <1>3, SameFlags DEF IInv, Room, CountNeverLow
<1>5. ASSUME NEW u \in Targets
      PROVE  Cardinality(OpenOn(u))' + Cardinality(CountedOn(u))' <= Cap + Cardinality(Requests) - 1
  <2>1. OpenOn(u)' = OpenOn(u)
    BY <1>1, SameFlags
  <2>2. CASE u = t
    <3>1. Cardinality(CountedOn(u)') <= Cardinality(Requests)
      <4>1. CountedOn(u)' \subseteq Requests
        BY DEF CountedOn, At
      <4>2. QED
        BY <4>1, FS_Subset, FlagsAssumption DEF FlagsAssumption
    <3>2. Cardinality(CountedOn(u)') \in Nat
      <4>1. CountedOn(u)' \subseteq Requests
        BY DEF CountedOn, At
      <4>2. QED
        BY <4>1, FS_Subset, FS_CardinalityType, FlagsAssumption DEF FlagsAssumption
    <3>3. QED
      BY <1>1, <2>1, <2>2, <3>1, <3>2, Finite, FlagsAssumption DEF FlagsAssumption
  <2>3. CASE u # t
    <3>1. CountedOn(u)' = CountedOn(u)
      <4>1. CountedOn(u)' = CountedOn(u) \ {r}
        BY ZenonT(30), <1>0, <1>1, <2>3, Moves DEF IInv
      <4>2. r \notin CountedOn(u)
        BY <1>1 DEF CountedOn, At
      <4>3. QED
        BY <4>1, <4>2
    <3>2. QED
      BY <2>1, <3>1, Bounded DEF IInv
  <2>4. QED
    BY <2>2, <2>3
<1>6. FlagsBounded'
  BY <1>5 DEF FlagsBounded, CountedOn
<1>7. QED
  BY <1>2, <1>4, <1>6 DEF IInv

\* The flag that a waiting request inserts takes the request's place.
LEMMA InsertStep == ASSUME IInv, NEW r \in Requests, Insert(r) PROVE IInv'
<1> PICK w : w = [pc |-> "inserted"]
  OBVIOUS
<1>0. w.pc = "inserted"
  OBVIOUS
<1>1. /\ request[r].pc = "counted" /\ request' = [request EXCEPT ![r] = w]
      /\ flagCount' = flagCount /\ lost' = lost
  BY DEF Insert
<1> PICK f \in Ids : /\ flags[f] = Free
                     /\ flags' = [flags EXCEPT ![f] = Flag(request[r].target, "open")]
  BY DEF Insert
<1> PICK t \in Targets : t = request[r].target
  BY <1>1 DEF IInv, TypeOK, Idle
<1>2. /\ flags' = [flags EXCEPT ![f] = Flag(t, "open")]
      /\ \A g \in Ids : flags'[g] = IF g = f THEN Flag(t, "open") ELSE flags[g]
  BY DEF IInv, TypeOK
<1>3. Flag(t, "open").status = "open" /\ Flag(t, "open").target = t /\ Free.status = "free"
  BY DEF Flag, Free
<1>4. /\ OpenFlags' = OpenFlags \cup {f} /\ f \notin OpenFlags
      /\ Taken' = Taken \cup {f} /\ f \notin Taken
  <2>1. Flag(t, "open") # Free
    BY <1>3
  <2>2. QED
    BY <1>2, <1>3, <2>1 DEF OpenFlags, Taken
<1>5. \A u : OpenOn(u)' = IF u = t THEN OpenOn(u) \cup {f} ELSE OpenOn(u)
  BY <1>2, <1>3, <1>4 DEF OpenOn
<1>6. f \notin OpenOn(t)
  BY <1>4 DEF OpenOn
<1>7. /\ Cardinality(OpenFlags') = Cardinality(OpenFlags) + 1
      /\ Cardinality(Taken') = Cardinality(Taken) + 1
      /\ Cardinality(OpenOn(t)') = Cardinality(OpenOn(t)) + 1
  BY <1>4, <1>5, <1>6, Finite, OneMore
<1>8. /\ Cardinality(At("inserted")') = Cardinality(At("inserted")) + 1
      /\ Cardinality(At("closed")') = Cardinality(At("closed"))
      /\ \A u : Cardinality(CountedOn(u)') = Cardinality(CountedOn(u)) - (IF u = t THEN 1 ELSE 0)
  <2>1. w.pc # "counted"
    BY <1>0
  <2>3. \A u : Cardinality(CountedOn(u))' = Cardinality(CountedOn(u))
                - (IF request[r].pc = "counted" /\ request[r].target = u THEN 1 ELSE 0)
    BY <1>1, <2>1, Counts DEF IInv
  <2>4. /\ Cardinality(At("inserted")') = Cardinality(At("inserted")) + 1
        /\ Cardinality(At("closed")') = Cardinality(At("closed"))
    BY <1>0, <1>1, Counts DEF IInv
  <2>5. QED
    BY <1>1, <2>3, <2>4
<1>9. TypeOK'
  <2>1. flags' \in [Ids -> {Free} \cup {Flag(u, s) : u \in Targets, s \in {"open", "resolved"}}]
    BY <1>2 DEF IInv, TypeOK
  <2>2. w \in {Idle, [pc |-> "inserted"], [pc |-> "closed"]}
    OBVIOUS
  <2>3. request' \in [Requests -> {Idle, [pc |-> "inserted"], [pc |-> "closed"]}
                    \cup [pc : {"counted"}, target : Targets]
                    \cup [pc : {"looked"}, flag : Ids]]
    BY <1>1, <2>2 DEF IInv, TypeOK
  <2>4. QED
    BY <1>1, <2>1, <2>3 DEF IInv, TypeOK
<1>10. Room'
  BY <1>1, <1>7, <1>8, Finite DEF IInv, Room, TypeOK
<1>11. CountNeverLow'
  BY <1>1, <1>7, <1>8, Finite DEF IInv, CountNeverLow, TypeOK
<1>12. ASSUME NEW u \in Targets
      PROVE  Cardinality(OpenOn(u)') + Cardinality(CountedOn(u)') <= Cap + Cardinality(Requests) - 1
  <2>1. Cardinality(OpenOn(u)) + Cardinality(CountedOn(u)) <= Cap + Cardinality(Requests) - 1
    BY Bounded DEF IInv
  <2>2. CASE u = t
    BY <1>7, <1>8, <2>1, <2>2, Finite, FlagsAssumption DEF FlagsAssumption
  <2>3. CASE u # t
    BY <1>5, <1>8, <2>1, <2>3, Finite
  <2>4. QED
    BY <2>2, <2>3
<1>13. FlagsBounded'
  BY <1>12 DEF FlagsBounded, CountedOn
<1>14. QED
  BY <1>9, <1>10, <1>11, <1>13 DEF IInv

\* A request that goes on without raising a flag leaves room for the others.
LEMMA StillBounded ==
  ASSUME IInv, NEW r \in Requests, NEW w, request' = [request EXCEPT ![r] = w],
         w.pc # "counted", \A t : OpenOn(t)' \subseteq OpenOn(t)
  PROVE  FlagsBounded'
<1>1. ASSUME NEW t \in Targets
      PROVE  Cardinality(OpenOn(t)') + Cardinality(CountedOn(t)') <= Cap + Cardinality(Requests) - 1
  <2>1. Cardinality(OpenOn(t)) + Cardinality(CountedOn(t)) <= Cap + Cardinality(Requests) - 1
    BY Bounded DEF IInv
  <2>2. Cardinality(OpenOn(t)') <= Cardinality(OpenOn(t)) /\ Cardinality(OpenOn(t)') \in Nat
    BY Finite, FS_Subset, FS_CardinalityType
  <2>3. CountedOn(t)' \subseteq CountedOn(t)
    <3>1. CountedOn(t)' = CountedOn(t) \ {r}
      BY Moves DEF IInv
    <3>2. QED
      BY <3>1
  <2>4. /\ Cardinality(CountedOn(t)') <= Cardinality(CountedOn(t))
        /\ Cardinality(CountedOn(t)') \in Nat
    BY <2>3, Finite, FS_Subset, FS_CardinalityType
  <2>5. QED
    BY <2>1, <2>2, <2>4, Finite, FlagsAssumption DEF FlagsAssumption
<1>2. QED
  BY <1>1 DEF FlagsBounded, CountedOn

\* The record of a request that is not waiting to insert.
LEMMA RequestType ==
  ASSUME TypeOK, NEW r \in Requests, NEW w, request' = [request EXCEPT ![r] = w],
         w \in {Idle, [pc |-> "inserted"], [pc |-> "closed"]} \cup [pc : {"looked"}, flag : Ids]
  PROVE  request' \in [Requests -> {Idle, [pc |-> "inserted"], [pc |-> "closed"]}
                    \cup [pc : {"counted"}, target : Targets]
                    \cup [pc : {"looked"}, flag : Ids]]
BY DEF TypeOK

LEMMA IncrementStep == ASSUME IInv, NEW r \in Requests, Increment(r) PROVE IInv'
<1>1. /\ request[r].pc = "inserted" /\ flagCount' = flagCount + 1
      /\ request' = [request EXCEPT ![r] = Idle] /\ Idle.pc = "idle"
      /\ flags' = flags /\ lost' = lost
  BY DEF Increment, Idle
<1>2. /\ Cardinality(At("inserted"))' = Cardinality(At("inserted")) - 1
      /\ Cardinality(At("closed"))' = Cardinality(At("closed"))
  BY <1>1, Counts DEF IInv
<1>3. Cardinality(At("inserted")) > 0
  <2>1. r \in At("inserted")
    BY <1>1 DEF At
  <2>2. QED
    BY <2>1, Finite, FS_EmptySet
<1>4. flagCount + 1 <= Cardinality(Ids)
  BY <1>3, Finite DEF IInv, Room, TypeOK
<1>5. TypeOK'
  <2>1. flagCount' \in 0..Cardinality(Ids)
    BY <1>1, <1>4, Finite DEF IInv, TypeOK
  <2>2. QED
    BY <1>1, <2>1, RequestType DEF IInv, TypeOK
<1>6. Room'
  BY <1>1, <1>2, SameFlags, Finite DEF IInv, Room, TypeOK
<1>7. CountNeverLow'
  BY <1>1, <1>2, SameFlags, Finite DEF IInv, CountNeverLow, TypeOK
<1>8. FlagsBounded'
  BY <1>1, SameFlags, StillBounded
<1>9. QED
  BY <1>5, <1>6, <1>7, <1>8 DEF IInv

LEMMA LookStep == ASSUME IInv, NEW r \in Requests, NEW f \in Ids, Look(r, f) PROVE IInv'
<1> PICK w : w = [pc |-> "looked", flag |-> f]
  OBVIOUS
<1>1. /\ request[r].pc = "idle" /\ flagCount' = flagCount
      /\ request' = [request EXCEPT ![r] = w] /\ w.pc = "looked"
      /\ flags' = flags /\ lost' = lost
  BY DEF Look
<1>2. /\ Cardinality(At("inserted"))' = Cardinality(At("inserted"))
      /\ Cardinality(At("closed"))' = Cardinality(At("closed"))
  BY <1>1, Counts DEF IInv
<1>3. TypeOK'
  <2>1. w \in [pc : {"looked"}, flag : Ids]
    OBVIOUS
  <2>2. QED
    BY <1>1, <2>1, RequestType DEF IInv, TypeOK
<1>4. Room' /\ CountNeverLow'
  BY <1>1, <1>2, SameFlags DEF IInv, Room, CountNeverLow
<1>5. FlagsBounded'
  BY <1>1, SameFlags, StillBounded
<1>6. QED
  BY <1>3, <1>4, <1>5 DEF IInv

\* One of several resolves closes the flag; the others go away.
LEMMA CloseFlagStep == ASSUME IInv, NEW r \in Requests, CloseFlag(r) PROVE IInv'
<1>1. request[r].pc = "looked" /\ flagCount' = flagCount /\ lost' = lost
  BY DEF CloseFlag
<1> PICK f \in Ids : f = request[r].flag
  BY <1>1 DEF IInv, TypeOK, Idle
<1>2. CASE /\ ~StillOpen(f) /\ flags' = flags
           /\ request' = [request EXCEPT ![r] = Idle]
  <2>1. Idle.pc = "idle"
    BY DEF Idle
  <2>2. /\ Cardinality(At("inserted"))' = Cardinality(At("inserted"))
        /\ Cardinality(At("closed"))' = Cardinality(At("closed"))
    BY <1>1, <1>2, <2>1, Counts DEF IInv
  <2>3. TypeOK'
    BY <1>1, <1>2, RequestType DEF IInv, TypeOK
  <2>4. Room' /\ CountNeverLow'
    BY <1>1, <1>2, <2>2, SameFlags DEF IInv, Room, CountNeverLow
  <2>5. FlagsBounded'
    BY <1>2, <2>1, SameFlags, StillBounded
  <2>6. QED
    BY <2>3, <2>4, <2>5 DEF IInv
<1>3. CASE /\ StillOpen(f) /\ flags' = [flags EXCEPT ![f].status = "resolved"]
           /\ request' = [request EXCEPT ![r] = [pc |-> "closed"]]
  <2> PICK w : w = [pc |-> "closed"]
    OBVIOUS
  <2>1. w.pc = "closed" /\ request' = [request EXCEPT ![r] = w]
    BY <1>3
  <2>2. /\ Cardinality(At("inserted"))' = Cardinality(At("inserted"))
        /\ Cardinality(At("closed"))' = Cardinality(At("closed")) + 1
    BY <1>1, <2>1, Counts DEF IInv
  <2>3. PICK t \in Targets : flags[f] = Flag(t, "open")
    BY <1>3 DEF StillOpen, IInv, TypeOK, Flag, Free
  <2>4. /\ \A g \in Ids : flags'[g] = IF g = f THEN Flag(t, "resolved") ELSE flags[g]
        /\ flags' \in [Ids -> {Free} \cup {Flag(u, s) : u \in Targets, s \in {"open", "resolved"}}]
    <3>1. [flags[f] EXCEPT !.status = "resolved"] = Flag(t, "resolved")
      BY <2>3 DEF Flag
    <3>2. flags' = [flags EXCEPT ![f] = Flag(t, "resolved")]
      BY <1>3, <3>1
    <3>3. QED
      BY <3>2 DEF IInv, TypeOK
  <2>5. OpenFlags' = OpenFlags \ {f} /\ f \in OpenFlags
    BY <1>3, <2>4 DEF OpenFlags, Flag, StillOpen
  <2>6. Taken' = Taken
    BY <2>3, <2>4 DEF Taken, Flag, Free
  <2>7. \A u : OpenOn(u)' \subseteq OpenOn(u)
    <3> SUFFICES ASSUME NEW u, NEW g, g \in OpenOn(u)' PROVE g \in OpenOn(u)
      OBVIOUS
    <3>1. g \in OpenFlags' /\ flags'[g].target = u
      BY DEF OpenOn
    <3>2. g \in OpenFlags /\ g # f /\ g \in Ids
      BY <2>5, <3>1 DEF OpenFlags
    <3>3. flags'[g] = flags[g]
      BY <2>4, <3>2
    <3>4. QED
      BY <3>1, <3>2, <3>3 DEF OpenOn
  <2>8. Cardinality(OpenFlags') = Cardinality(OpenFlags) - 1
    BY <2>5, OneLess, Finite
  <2>9. TypeOK'
    <3>1. w \in {Idle, [pc |-> "inserted"], [pc |-> "closed"]}
      OBVIOUS
    <3>2. QED
      BY <1>1, <2>1, <2>4, <3>1, RequestType DEF IInv, TypeOK
  <2>10. Room'
    BY <1>1, <2>2, <2>6 DEF IInv, Room
  <2>11. CountNeverLow'
    BY <1>1, <2>2, <2>8, Finite DEF IInv, CountNeverLow, TypeOK
  <2>12. FlagsBounded'
    BY <2>1, <2>7, StillBounded
  <2>13. QED
    BY <2>9, <2>10, <2>11, <2>12 DEF IInv
<1>4. QED
  BY <1>2, <1>3 DEF CloseFlag

\* The clamp at 0 never takes off more than the flag that was closed.
LEMMA DecrementStep == ASSUME IInv, NEW r \in Requests, Decrement(r) PROVE IInv'
<1>1. /\ request[r].pc = "closed" /\ flagCount' = Lowered(flagCount)
      /\ request' = [request EXCEPT ![r] = Idle] /\ Idle.pc = "idle"
      /\ flags' = flags /\ lost' = lost
  BY DEF Decrement, Idle
<1>2. /\ Cardinality(At("inserted"))' = Cardinality(At("inserted"))
      /\ Cardinality(At("closed"))' = Cardinality(At("closed")) - 1
  BY <1>1, Counts DEF IInv
<1>3. /\ flagCount \in 0..Cardinality(Ids)
      /\ flagCount' \in 0..Cardinality(Ids) /\ flagCount' <= flagCount
      /\ flagCount' >= flagCount - 1
  BY <1>1, Finite DEF IInv, TypeOK, Lowered
<1>4. TypeOK'
  BY <1>1, <1>3, RequestType DEF IInv, TypeOK
<1>5. Room'
  BY <1>1, <1>2, <1>3, SameFlags, Finite DEF IInv, Room
<1>6. CountNeverLow'
  BY <1>1, <1>2, <1>3, SameFlags, Finite DEF IInv, CountNeverLow, TypeOK
<1>7. FlagsBounded'
  BY <1>1, SameFlags, StillBounded
<1>8. QED
  BY <1>4, <1>5, <1>6, <1>7 DEF IInv

LEMMA FailStep == ASSUME IInv, NEW r \in Requests, Fail(r) PROVE IInv'
<1> DEFINE n == IF request[r].pc = "inserted" THEN lost.flags + 1 ELSE lost.flags
<1>1. /\ request' = [request EXCEPT ![r] = Idle] /\ Idle.pc = "idle"
      /\ flags' = flags /\ flagCount' = flagCount
      /\ lost.requests < MaxLost
      /\ lost' = [flags |-> n, requests |-> lost.requests + 1]
  BY DEF Fail, Idle
<1>2. /\ Cardinality(At("inserted"))' = Cardinality(At("inserted"))
                                     - (IF request[r].pc = "inserted" THEN 1 ELSE 0)
      /\ Cardinality(At("closed"))' <= Cardinality(At("closed"))
      /\ Cardinality(At("closed"))' \in Int
  <2> PICK w : w = Idle
    OBVIOUS
  <2>1. w.pc = "idle" /\ request' = [request EXCEPT ![r] = w]
    BY <1>1
  <2>2. /\ request[r].pc = "inserted" =>
             Cardinality(At("inserted"))' = Cardinality(At("inserted")) - 1
        /\ request[r].pc # "inserted" =>
             Cardinality(At("inserted"))' = Cardinality(At("inserted"))
        /\ \/ Cardinality(At("closed"))' = Cardinality(At("closed")) - 1
           \/ Cardinality(At("closed"))' = Cardinality(At("closed"))
    BY <2>1, Counts DEF IInv
  <2>3. Cardinality(At("closed")) \in Nat /\ Cardinality(At("inserted")) \in Nat
    BY Finite
  <2>4. QED
    BY <2>2, <2>3
<1>3. lost.flags \in Nat /\ lost.requests \in 0..MaxLost /\ flagCount \in Nat
  BY Finite DEF IInv, TypeOK
<1>4. lost'.flags = n /\ n \in Nat /\ lost' \in [flags : Nat, requests : 0..MaxLost]
  BY <1>1, <1>3, FlagsAssumption DEF FlagsAssumption
<1>5. TypeOK'
  BY <1>1, <1>4, RequestType DEF IInv, TypeOK
<1>6. Room'
  BY <1>1, <1>2, <1>3, SameFlags, Finite DEF IInv, Room
<1>7. CountNeverLow'
  BY <1>1, <1>2, <1>3, <1>4, SameFlags, Finite DEF IInv, CountNeverLow
<1>8. FlagsBounded'
  BY <1>1, SameFlags, StillBounded
<1>9. QED
  BY <1>5, <1>6, <1>7, <1>8 DEF IInv

-----------------------------------------------------------------------------
(* The invariant.                                                          *)

LEMMA InitIInv == ASSUME Init PROVE IInv
<1>1. /\ OpenFlags = {} /\ Taken = {} /\ \A t : OpenOn(t) = {}
  BY DEF Init, OpenFlags, Taken, OpenOn, Free
<1>2. /\ \A pc \in {"inserted", "closed", "counted"} : At(pc) = {}
  BY DEF Init, At, Idle
<1>3. \A t : CountedOn(t) = {}
  BY <1>2 DEF CountedOn
<1>4. TypeOK
  BY Finite, FlagsAssumption DEF Init, TypeOK, FlagsAssumption
<1>5. Cardinality({}) = 0
  BY FS_EmptySet
<1>6. Room /\ CountNeverLow
  BY <1>1, <1>2, <1>5 DEF Init, Room, CountNeverLow
<1>7. FlagsBounded
  <2>1. 0 <= Cap + Cardinality(Requests) - 1
    BY Finite, FlagsAssumption DEF FlagsAssumption
  <2>2. QED
    BY <1>1, <1>3, <1>5, <2>1, Bounded
<1>8. QED
  BY <1>4, <1>6, <1>7 DEF IInv

LEMMA NextIInv == ASSUME IInv, [Next]_vars PROVE IInv'
<1>1. CASE UNCHANGED vars
  BY <1>1 DEF vars, IInv, TypeOK, Room, FlagsBounded, CountNeverLow, OpenFlags, Taken,
    OpenOn, At
<1>2. CASE Next
  BY <1>2, CountOpenStep, InsertStep, IncrementStep, LookStep, CloseFlagStep,
     DecrementStep, FailStep DEF Next
<1>3. QED
  BY <1>1, <1>2

LEMMA IInvHolds == Spec => []IInv
BY InitIInv, NextIInv, PTL DEF Spec

\* Every variable keeps its type: the counter is never negative and never above
\* the number of flags.
THEOREM TypeCorrect == Spec => []TypeOK
BY IInvHolds, PTL DEF IInv

\* A target never has more open flags than the cap and the requests in flight
\* allow.
THEOREM CapHolds == Spec => []FlagsBounded
BY IInvHolds, PTL DEF IInv

\* The counter never hides an open flag, but for the increments still to come
\* or lost with their request.
THEOREM CounterHidesNothing == Spec => []CountNeverLow
BY IInvHolds, PTL DEF IInv

-----------------------------------------------------------------------------
(* The community overlay.                                                  *)

\* What a page showed is the row, as long as its version is.
SeenStands ==
  \A r \in TagRequests :
    LET q == tagging[r]
    IN q # Waiting /\ q.seen # Unseen =>
         /\ q.seen.version <= tags[q.pair].version
         /\ q.seen.version = tags[q.pair].version => q.seen = tags[q.pair]

\* What a request found permitted is, as long as the version is the one it read.
LookStands ==
  \A r \in TagRequests :
    LET q == tagging[r]
    IN q.pc \in {"looked", "agreed"} =>
         /\ q.current <= tags[q.pair].version
         /\ q.current = tags[q.pair].version =>
              MayEdit(q.user, tags[q.pair]) /\ BaseMatches(q, tags[q.pair])

\* A request past the agreement is a person's or has its owner's.
AgreementStands ==
  \A r \in TagRequests :
    tagging[r].pc = "agreed" => CanAgree(tagging[r].user) \/ AccountOf[tagging[r].user] \in agreed

TagIInv == TagTypeOK /\ SeenStands /\ LookStands /\ AgreementStands /\ RowsAreAgreed

LEMMA InitTagIInv == ASSUME TagInit PROVE TagIInv
<1>1. \A k \in Pairs : tags[k] = NoRow
  BY DEF TagInit
<1>2. \A r \in TagRequests : tagging[r] = Waiting
  BY DEF TagInit
<1>3. TagTypeOK
  BY DEF TagInit, TagTypeOK
<1>4. SeenStands /\ LookStands /\ AgreementStands
  BY <1>2 DEF SeenStands, LookStands, AgreementStands, Waiting
<1>5. RowsAreAgreed
  BY <1>1, TagsAssumption DEF RowsAreAgreed, NoRow, Nobody, TagsAssumption
<1>6. QED
  BY <1>3, <1>4, <1>5 DEF TagIInv

\* The requests by the place they are at.
Tagging == [pc : {"loaded", "counted", "looked", "agreed"}, user : Users, pair : Pairs,
            intent : Intents, seen : {Unseen, NoRow} \cup Rows, current : 0..MaxVersion]

LEMMA TagTypes ==
  ASSUME TagTypeOK, NEW r \in TagRequests, tagging[r] # Waiting
  PROVE  /\ tagging[r] \in Tagging
         /\ tags[tagging[r].pair] \in {NoRow} \cup Rows
         /\ tags[tagging[r].pair].version \in 0..MaxVersion
<1>1. tagging[r] \in Tagging
  BY DEF TagTypeOK, Tagging
<1>2. tagging[r].pair \in Pairs
  BY <1>1 DEF Tagging
<1>3. QED
  BY <1>1, <1>2, TagsAssumption DEF TagTypeOK, Rows, NoRow, TagsAssumption

LEMMA LoadStep ==
  ASSUME TagIInv, NEW r \in TagRequests, NEW u \in Users, NEW k \in Pairs, NEW intent \in Intents,
         Load(r, u, k, intent)
  PROVE  TagIInv'
<1> USE DEF TagIInv
<1>1. PICK seen \in {tags[k]} \cup {Unseen} :
        tagging' = [tagging EXCEPT ![r] =
          [pc |-> "loaded", user |-> u, pair |-> k, intent |-> intent, seen |-> seen, current |-> 0]]
  BY DEF Load
<1>2. UNCHANGED <<tags, agreed>>
  BY DEF Load
<1>3. tags[k] \in {NoRow} \cup Rows
  BY DEF TagTypeOK
<1>4. TagTypeOK'
  BY <1>1, <1>2, <1>3, TagsAssumption DEF TagTypeOK, TagsAssumption
<1>5. /\ tagging'[r].pc = "loaded" /\ tagging'[r].pair = k /\ tagging'[r].seen \in {tags[k], Unseen}
      /\ \A x \in TagRequests \ {r} : tagging'[x] = tagging[x]
  BY <1>1 DEF TagTypeOK
<1>6. tags[k].version \in Int
  BY <1>3, TagsAssumption DEF NoRow, Rows, TagsAssumption
<1>7. SeenStands'
  BY <1>2, <1>5, <1>6 DEF SeenStands
<1>8. LookStands' /\ AgreementStands'
  BY <1>2, <1>5 DEF LookStands, AgreementStands, MayEdit, BaseMatches
<1>9. RowsAreAgreed'
  BY <1>2 DEF RowsAreAgreed
<1>10. QED
  BY <1>4, <1>7, <1>8, <1>9

\* A step that refuses a request and leaves the tables alone.
LEMMA RefuseStep ==
  ASSUME TagIInv, NEW r \in TagRequests, Refuse(r), UNCHANGED <<tags, agreed>>
  PROVE  TagIInv'
<1> USE DEF TagIInv
<1>1. TagTypeOK'
  BY DEF TagTypeOK, Refuse
<1>2. tagging'[r] = Waiting /\ \A x \in TagRequests \ {r} : tagging'[x] = tagging[x]
  BY DEF TagTypeOK, Refuse
<1>3. Waiting.pc = "idle"
  BY DEF Waiting
<1>4. SeenStands'
  BY <1>2 DEF SeenStands
<1>5. LookStands' /\ AgreementStands'
  BY <1>2, <1>3 DEF LookStands, AgreementStands, MayEdit, BaseMatches
<1>6. QED
  BY <1>1, <1>4, <1>5 DEF RowsAreAgreed

LEMMA CountTodayStep ==
  ASSUME TagIInv, NEW r \in TagRequests, CountToday(r)
  PROVE  TagIInv'
<1> USE DEF TagIInv
<1>1. CASE Refuse(r)
  BY <1>1, RefuseStep DEF CountToday
<1>2. CASE Proceed(r, "counted")
  <2>1. tagging[r] # Waiting
    BY DEF CountToday, Waiting
  <2>2. tagging[r] \in Tagging
    BY <2>1, TagTypes
  <2>3. tagging' = [tagging EXCEPT ![r] = [tagging[r] EXCEPT !.pc = "counted"]]
    BY <1>2 DEF Proceed
  <2>4. UNCHANGED <<tags, agreed>>
    BY DEF CountToday
  <2>5. TagTypeOK'
    BY <2>2, <2>3, <2>4 DEF TagTypeOK, Tagging
  <2>6. /\ tagging'[r].pc = "counted" /\ tagging'[r].pair = tagging[r].pair
        /\ tagging'[r].seen = tagging[r].seen
        /\ \A x \in TagRequests \ {r} : tagging'[x] = tagging[x]
    BY <2>2, <2>3 DEF TagTypeOK, Tagging
  <2>7. SeenStands'
    BY <2>1, <2>4, <2>6 DEF SeenStands
  <2>8. LookStands' /\ AgreementStands'
    BY <2>4, <2>6 DEF LookStands, AgreementStands, MayEdit, BaseMatches
  <2>9. QED
    BY <2>4, <2>5, <2>7, <2>8 DEF RowsAreAgreed
<1>3. QED
  BY <1>1, <1>2 DEF CountToday

LEMMA ExamineStep ==
  ASSUME TagIInv, NEW r \in TagRequests, Examine(r)
  PROVE  TagIInv'
<1> USE DEF TagIInv
<1> DEFINE q == tagging[r]
<1> DEFINE row == tags[q.pair]
<1>1. CASE Refuse(r)
  BY <1>1, RefuseStep DEF Examine
<1>2. CASE /\ MayEdit(q.user, row) /\ BaseMatches(q, row)
           /\ tagging' = [tagging EXCEPT ![r].pc = "looked", ![r].current = row.version]
  <2>1. q # Waiting
    BY DEF Examine, Waiting
  <2>2. q \in Tagging /\ row.version \in 0..MaxVersion
    BY <2>1, TagTypes
  <2>3. UNCHANGED <<tags, agreed>>
    BY DEF Examine
  <2>4. /\ tagging'[r] = [q EXCEPT !.pc = "looked", !.current = row.version]
    BY <1>2 DEF TagTypeOK
  <2>5. tagging'[r] \in Tagging
    BY <2>2, <2>4 DEF Tagging
  <2>6. TagTypeOK'
    BY <1>2, <2>3, <2>4, <2>5 DEF TagTypeOK, Tagging
  <2>7. /\ tagging'[r].pc = "looked" /\ tagging'[r].pair = q.pair /\ tagging'[r].user = q.user
        /\ tagging'[r].seen = q.seen /\ tagging'[r].current = row.version
        /\ \A x \in TagRequests \ {r} : tagging'[x] = tagging[x]
    BY <1>2, <2>2, <2>4 DEF Tagging, TagTypeOK
  <2>8. SeenStands'
    BY <2>1, <2>3, <2>7 DEF SeenStands
  <2>9. LookStands'
    <3>1. row.version <= row.version
      BY <2>2, TagsAssumption DEF TagsAssumption
    <3>2. MayEdit(tagging'[r].user, row) /\ BaseMatches(tagging'[r], row)
      BY <1>2, <2>7 DEF BaseMatches
    <3>3. tags'[tagging'[r].pair] = row
      BY <2>3, <2>7
    <3>4. QED
      BY <2>3, <2>7, <3>1, <3>2, <3>3 DEF LookStands, MayEdit, BaseMatches
  <2>10. AgreementStands'
    BY <2>3, <2>7 DEF AgreementStands
  <2>11. QED
    BY <2>3, <2>6, <2>8, <2>9, <2>10 DEF RowsAreAgreed
<1>3. QED
  BY <1>1, <1>2 DEF Examine

LEMMA RequireAgreementStep ==
  ASSUME TagIInv, NEW r \in TagRequests, RequireAgreement(r)
  PROVE  TagIInv'
<1> USE DEF TagIInv
<1> DEFINE q == tagging[r]
<1>1. CASE Refuse(r)
  BY <1>1, RefuseStep DEF RequireAgreement
<1>2. CASE (AccountOf[q.user] \in agreed \/ CanAgree(q.user)) /\ Proceed(r, "agreed")
  <2>1. q # Waiting /\ q.pc = "looked"
    BY DEF RequireAgreement, Waiting
  <2>2. q \in Tagging
    BY <2>1, TagTypes
  <2>3. UNCHANGED <<tags, agreed>>
    BY DEF RequireAgreement
  <2>4. tagging' = [tagging EXCEPT ![r] = [q EXCEPT !.pc = "agreed"]]
    BY <1>2 DEF Proceed
  <2>5. TagTypeOK'
    BY <2>2, <2>3, <2>4 DEF TagTypeOK, Tagging
  <2>6. /\ tagging'[r].pc = "agreed" /\ tagging'[r].pair = q.pair /\ tagging'[r].user = q.user
        /\ tagging'[r].seen = q.seen /\ tagging'[r].current = q.current
        /\ \A x \in TagRequests \ {r} : tagging'[x] = tagging[x]
    BY <2>2, <2>4 DEF TagTypeOK, Tagging
  <2>7. SeenStands'
    BY <2>1, <2>3, <2>6 DEF SeenStands
  <2>8. LookStands'
    BY <2>1, <2>3, <2>6 DEF LookStands, MayEdit, BaseMatches
  <2>9. AgreementStands'
    BY <1>2, <2>3, <2>6 DEF AgreementStands, CanAgree
  <2>10. QED
    BY <2>3, <2>5, <2>7, <2>8, <2>9 DEF RowsAreAgreed
<1>3. QED
  BY <1>1, <1>2 DEF RequireAgreement

\* The row that a request writes.
LEMMA WrittenRow ==
  ASSUME TagTypeOK, NEW q \in Tagging, tags[q.pair].version < MaxVersion
  PROVE  /\ Written(q, tags[q.pair]) \in Rows
         /\ Written(q, tags[q.pair]).version = tags[q.pair].version + 1
<1>1. q.pair \in Pairs /\ q.user \in Users
  BY DEF Tagging
<1>2. tags[q.pair] \in {NoRow} \cup Rows
  BY <1>1 DEF TagTypeOK
<1>3. tags[q.pair].version \in Nat
  BY <1>2, TagsAssumption DEF NoRow, Rows, TagsAssumption
<1>4. tags[q.pair].version # 0 => tags[q.pair].by \in Users
  BY <1>2 DEF NoRow, Rows
<1>5. tags[q.pair].version + 1 \in 1..MaxVersion
  BY <1>3, TagsAssumption DEF TagsAssumption
<1>6. QED
  BY <1>1, <1>4, <1>5 DEF Written, Rows

LEMMA WriteRowStep ==
  ASSUME TagIInv, NEW r \in TagRequests, WriteRow(r)
  PROVE  TagIInv'
<1> USE DEF TagIInv
<1> DEFINE q == tagging[r]
<1> DEFINE k == q.pair
<1> DEFINE account == AccountOf[q.user]
<1>1. q # Waiting /\ q.pc = "agreed" /\ tags[k].version < MaxVersion
  BY DEF WriteRow, Waiting
<1>2. q \in Tagging /\ k \in Pairs /\ q.user \in Users
  BY <1>1, TagTypes DEF Tagging
<1>3. tagging'[r] = Waiting /\ \A x \in TagRequests \ {r} : tagging'[x] = tagging[x]
  BY DEF TagTypeOK, WriteRow, Refuse
<1>4. Waiting.pc = "idle"
  BY DEF Waiting
<1>5. agreed \subseteq agreed' /\ account \in agreed'
  BY <1>1 DEF WriteRow, AgreementStands
<1>6. \A p \in Pairs : tags[p] \in {NoRow} \cup Rows /\ tags[p].version \in Nat
  BY TagsAssumption DEF TagTypeOK, NoRow, Rows, TagsAssumption
<1>7. AgreementStands'
  BY <1>3, <1>4, <1>5 DEF AgreementStands, CanAgree
<1>8. agreed' \subseteq {AccountOf[u] : u \in Users} /\ tagging' \in [TagRequests -> {Waiting} \cup Tagging]
  BY <1>2 DEF WriteRow, Refuse, TagTypeOK, Tagging
<1>9. CASE ~SameRow(q, tags[k])
  <2>1. tags' = tags
    BY <1>9 DEF WriteRow
  <2>2. TagTypeOK'
    BY <1>8, <2>1 DEF TagTypeOK, Tagging
  <2>3. SeenStands'
    BY <1>3, <2>1 DEF SeenStands
  <2>4. LookStands'
    BY <1>3, <1>4, <2>1 DEF LookStands, MayEdit, BaseMatches
  <2>5. RowsAreAgreed'
    BY <1>5, <2>1 DEF RowsAreAgreed
  <2>6. QED
    BY <1>7, <2>2, <2>3, <2>4, <2>5
<1>10. CASE SameRow(q, tags[k])
  <2>1. tags' = [tags EXCEPT ![k] = Written(q, tags[k])]
    BY <1>10 DEF WriteRow
  <2>2. /\ tags'[k] = Written(q, tags[k]) /\ tags'[k] \in Rows
        /\ tags'[k].version = tags[k].version + 1
        /\ \A p \in Pairs \ {k} : tags'[p] = tags[p]
    BY <1>1, <1>2, <2>1, WrittenRow DEF TagTypeOK
  <2>3. TagTypeOK'
    BY <1>2, <1>8, <2>1, <2>2 DEF TagTypeOK, Tagging
  <2>4. SUFFICES ASSUME NEW x \in TagRequests \ {r}, tagging[x] # Waiting
                 PROVE  /\ tagging[x].seen # Unseen =>
                              /\ tagging[x].seen.version <= tags'[tagging[x].pair].version
                              /\ tagging[x].seen.version = tags'[tagging[x].pair].version
                                   => tagging[x].seen = tags'[tagging[x].pair]
                        /\ tagging[x].pc \in {"looked", "agreed"} =>
                              /\ tagging[x].current <= tags'[tagging[x].pair].version
                              /\ tagging[x].current = tags'[tagging[x].pair].version
                                   => tags'[tagging[x].pair] = tags[tagging[x].pair]
    <3>1. SeenStands'
      BY <1>3, <2>4 DEF SeenStands
    <3>2. LookStands'
      BY <1>3, <1>4, <2>4 DEF LookStands, MayEdit, BaseMatches
    <3>3. RowsAreAgreed'
      <4>1. ASSUME NEW u \in Users, u \in {tags'[k].by, tags'[k].removedBy}
            PROVE  u = q.user \/ u \in {tags[k].by, tags[k].removedBy}
        BY <1>2, <2>2, <4>1, TagsAssumption DEF Written, Nobody, TagsAssumption
      <4>2. QED
        BY <1>2, <1>5, <2>2, <4>1 DEF RowsAreAgreed
    <3>4. QED
      BY <1>7, <2>3, <3>1, <3>2, <3>3
  <2>5. tagging[x] \in Tagging /\ tagging[x].pair \in Pairs
    BY <2>4, TagTypes DEF Tagging
  <2>6. tagging[x].seen.version \in Nat /\ tagging[x].current \in Nat
    BY <2>5, TagsAssumption DEF Tagging, Unseen, NoRow, Rows, TagsAssumption
  <2>7. CASE tagging[x].pair # k
    BY <2>2, <2>4, <2>5, <2>7 DEF SeenStands, LookStands
  <2>8. CASE tagging[x].pair = k
    BY <1>2, <1>6, <2>2, <2>4, <2>6, <2>8 DEF SeenStands, LookStands
  <2>9. QED
    BY <2>7, <2>8
<1>11. QED
  BY <1>9, <1>10

LEMMA NextTagIInv == ASSUME TagIInv, [TagNext]_tagVars PROVE TagIInv'
<1>1. CASE UNCHANGED tagVars
  BY <1>1 DEF tagVars, TagIInv, TagTypeOK, SeenStands, LookStands, AgreementStands,
    RowsAreAgreed, MayEdit, BaseMatches
<1>2. ASSUME NEW r \in TagRequests, Abort(r) PROVE TagIInv'
  BY <1>2, RefuseStep DEF Abort
<1>3. CASE TagNext
  BY <1>2, <1>3, LoadStep, CountTodayStep, ExamineStep, RequireAgreementStep, WriteRowStep DEF TagNext
<1>4. QED
  BY <1>1, <1>3

LEMMA TagIInvHolds == TagSpec => []TagIInv
BY InitTagIInv, NextTagIInv, PTL DEF TagSpec

\* Only WriteRow changes a row, the row that the request asked for and read.
LEMMA OnlyWriteRow ==
  ASSUME TagIInv, [TagNext]_tagVars, NEW k \in Pairs, tags'[k] # tags[k]
  PROVE  \E r \in TagRequests :
           /\ Edits(r, k) /\ tagging[r] \in Tagging
           /\ SameRow(tagging[r], tags[k])
<1>1. PICK r \in TagRequests : WriteRow(r)
  BY DEF TagNext, tagVars, Load, CountToday, Examine, RequireAgreement, Abort
<1>2. tagging[r] # Waiting /\ tagging[r].pc = "agreed"
  BY <1>1 DEF WriteRow, Waiting
<1>3. tagging[r].pair = k /\ SameRow(tagging[r], tags[k])
  BY <1>1 DEF WriteRow, TagIInv, TagTypeOK
<1>4. tagging'[r] = Waiting
  BY <1>1 DEF WriteRow, Refuse, TagIInv, TagTypeOK
<1>5. QED
  BY <1>2, <1>3, <1>4, TagTypes DEF Edits, TagIInv

\* No agent changes, removes or replaces a row that a person wrote and that is
\* live.
THEOREM PeoplesRowsStand == TagSpec => HumanRowsStand
<1>1. ASSUME TagIInv, [TagNext]_tagVars, NEW k \in Pairs,
             Live(tags[k]), tags[k].by \notin Agents, tags'[k] # tags[k]
      PROVE  \E r \in TagRequests : Edits(r, k) /\ tagging[r].user \notin Agents
  <2>1. PICK r \in TagRequests : Edits(r, k) /\ SameRow(tagging[r], tags[k])
    BY <1>1, OnlyWriteRow
  <2>2. MayEdit(tagging[r].user, tags[k])
    BY <1>1, <2>1 DEF TagIInv, LookStands, SameRow, Edits
  <2>3. QED
    BY <1>1, <2>1, <2>2 DEF MayEdit
<1>2. TagIInv /\ [TagNext]_tagVars => [SparesHumanRows]_tagVars
  BY <1>1 DEF SparesHumanRows
<1>3. QED
  BY <1>2, TagIInvHolds, PTL DEF TagSpec, HumanRowsStand

\* An edit replaces the row that its page showed.
THEOREM EditsReplaceWhatWasSeen == TagSpec => ReplacesWhatWasSeen
<1>1. ASSUME TagIInv, [TagNext]_tagVars, NEW k \in Pairs, tags'[k] # tags[k]
      PROVE  \E r \in TagRequests : Edits(r, k) /\ tagging[r].seen \in {Unseen, tags[k]}
  <2>1. PICK r \in TagRequests : Edits(r, k) /\ SameRow(tagging[r], tags[k])
    BY <1>1, OnlyWriteRow
  <2>2. BaseMatches(tagging[r], tags[k])
    BY <1>1, <2>1 DEF TagIInv, LookStands, SameRow, Edits
  <2>3. tagging[r] # Waiting
    BY <2>1 DEF Edits, Waiting
  <2>4. QED
    BY <1>1, <2>1, <2>2, <2>3 DEF TagIInv, SeenStands, BaseMatches, Edits
<1>2. TagIInv /\ [TagNext]_tagVars => [ReplacesSeen]_tagVars
  BY <1>1 DEF ReplacesSeen
<1>3. QED
  BY <1>2, TagIInvHolds, PTL DEF TagSpec, ReplacesWhatWasSeen

\* Whoever wrote a row, the account behind has accepted the terms.
THEOREM TermsBeforeRows == TagSpec => []RowsAreAgreed
BY TagIInvHolds, PTL DEF TagIInv

-----------------------------------------------------------------------------
(* The daily cap.                                                          *)

\* An account's requests that were counted and have not written.
Underway(account) ==
  {r \in TagRequests : /\ tagging[r].pc \in {"counted", "looked", "agreed"}
                       /\ AccountOf[tagging[r].user] = account}

LEMMA FiniteTags ==
  /\ \A a : IsFiniteSet(WrittenBy(a)) /\ Cardinality(WrittenBy(a)) \in Nat
  /\ \A S \in SUBSET TagRequests : /\ IsFiniteSet(S) /\ Cardinality(S) \in Nat
                                   /\ Cardinality(S) <= Cardinality(TagRequests)
  /\ Cardinality(TagRequests) \in Nat
<1>1. \A a : WrittenBy(a) \subseteq Pairs
  BY DEF WrittenBy
<1>2. QED
  BY <1>1, FS_Subset, FS_CardinalityType, TagsAssumption DEF TagsAssumption

\* Where no row changes and no request is counted, the bound stays.
LEMMA NotCounted ==
  ASSUME RowsBounded, UNCHANGED tags, \A a \in Users : Underway(a)' \subseteq Underway(a)
  PROVE  RowsBounded'
<1>1. ASSUME NEW a \in Users
      PROVE  Cardinality(WrittenBy(a))' + Cardinality(Underway(a))'
               <= DailyCap + Cardinality(TagRequests) - 1
  <2>1. WrittenBy(a)' = WrittenBy(a)
    BY DEF WrittenBy
  <2>2. Underway(a) \in SUBSET TagRequests /\ Underway(a)' \in SUBSET TagRequests
    BY DEF Underway
  <2>3. Cardinality(Underway(a)') <= Cardinality(Underway(a))
    BY <2>2, FiniteTags, FS_Subset
  <2>4. Cardinality(WrittenBy(a)) + Cardinality(Underway(a)) <= DailyCap + Cardinality(TagRequests) - 1
    BY DEF RowsBounded, Underway
  <2>5. QED
    BY <2>1, <2>2, <2>3, <2>4, FiniteTags, TagsAssumption DEF TagsAssumption
<1>2. QED
  BY <1>1 DEF RowsBounded, Underway

\* The request is counted below the cap, beside the account's other requests.
LEMMA CountTodayCap ==
  ASSUME TagTypeOK, RowsBounded, NEW r \in TagRequests, CountToday(r)
  PROVE  RowsBounded'
<1> DEFINE account == AccountOf[tagging[r].user]
<1>1. /\ \A x \in TagRequests \ {r} : tagging'[x] = tagging[x]
      /\ UNCHANGED tags
  BY DEF CountToday, Proceed, Refuse, TagTypeOK
<1>2. tagging'[r] = Waiting \/ tagging'[r] = [tagging[r] EXCEPT !.pc = "counted"]
  BY DEF CountToday, Proceed, Refuse, TagTypeOK
<1>3. tagging[r] \in Tagging
  BY TagTypes DEF CountToday, Waiting
<1>4. tagging'[r].pc \in {"counted", "looked", "agreed"} => AccountOf[tagging'[r].user] = account
  BY <1>2, <1>3 DEF Waiting, Tagging
<1>5. CASE ~Allowed(account)
  <2>1. tagging'[r].pc = "idle"
    BY <1>5, <1>2 DEF CountToday, Refuse, Waiting, TagTypeOK
  <2>2. \A a \in Users : Underway(a)' \subseteq Underway(a)
    BY <1>1, <2>1 DEF Underway
  <2>3. QED
    BY <1>1, <2>2, NotCounted
<1>6. CASE Allowed(account)
  <2>1. ASSUME NEW a \in Users
        PROVE  Cardinality(WrittenBy(a))' + Cardinality(Underway(a))'
                 <= DailyCap + Cardinality(TagRequests) - 1
    <3>1. WrittenBy(a)' = WrittenBy(a)
      BY <1>1 DEF WrittenBy
    <3>2. Underway(a) \in SUBSET TagRequests /\ Underway(a)' \in SUBSET TagRequests
      BY DEF Underway
    <3>3. CASE a = account
      <4>1. Cardinality(WrittenBy(a)) < DailyCap
        BY <1>6, <3>3 DEF Allowed
      <4>2. QED
        BY <3>1, <3>2, <4>1, FiniteTags, TagsAssumption DEF TagsAssumption
    <3>4. CASE a # account
      <4>1. Underway(a)' \subseteq Underway(a)
        BY <1>1, <1>4, <3>4 DEF Underway
      <4>2. Cardinality(Underway(a)') <= Cardinality(Underway(a))
        BY <3>2, <4>1, FiniteTags, FS_Subset
      <4>3. Cardinality(WrittenBy(a)) + Cardinality(Underway(a)) <= DailyCap + Cardinality(TagRequests) - 1
        BY DEF RowsBounded, Underway
      <4>4. QED
        BY <3>1, <3>2, <4>2, <4>3, FiniteTags, TagsAssumption DEF TagsAssumption
    <3>5. QED
      BY <3>3, <3>4
  <2>2. QED
    BY <2>1 DEF RowsBounded, Underway
<1>7. QED
  BY <1>5, <1>6

\* A write trades a request underway for at most one row, its account's.
LEMMA WriteRowCap ==
  ASSUME TagTypeOK, RowsBounded, NEW r \in TagRequests, WriteRow(r)
  PROVE  RowsBounded'
<1> DEFINE q == tagging[r]
<1> DEFINE k == q.pair
<1> DEFINE account == AccountOf[q.user]
<1>1. q \in Tagging /\ q.pc = "agreed" /\ k \in Pairs /\ q.user \in Users
  BY TagTypes DEF WriteRow, Waiting, Tagging
<1>2. /\ tagging'[r].pc = "idle"
      /\ \A x \in TagRequests \ {r} : tagging'[x] = tagging[x]
      /\ \A p \in Pairs \ {k} : tags'[p] = tags[p]
      /\ tags'[k] \in {tags[k], Written(q, tags[k])}
  BY <1>1 DEF WriteRow, Refuse, Waiting, TagTypeOK
<1>3. ASSUME NEW a \in Users
      PROVE  Cardinality(WrittenBy(a))' + Cardinality(Underway(a))'
               <= DailyCap + Cardinality(TagRequests) - 1
  <2>1. Underway(a) \in SUBSET TagRequests /\ Underway(a)' \in SUBSET TagRequests
    BY DEF Underway
  <2>2. Cardinality(WrittenBy(a)) + Cardinality(Underway(a)) <= DailyCap + Cardinality(TagRequests) - 1
    BY DEF RowsBounded, Underway
  <2>3. IsFiniteSet(WrittenBy(a)') /\ Cardinality(WrittenBy(a)') \in Nat
    <3>1. WrittenBy(a)' \subseteq Pairs
      BY DEF WrittenBy
    <3>2. QED
      BY <3>1, FS_Subset, FS_CardinalityType, TagsAssumption DEF TagsAssumption
  <2>4. CASE a = account
    <3>1. Underway(a)' = Underway(a) \ {r} /\ r \in Underway(a)
      BY <1>1, <1>2, <2>4 DEF Underway
    <3>2. Cardinality(Underway(a)') = Cardinality(Underway(a)) - 1
      BY <2>1, <3>1, FiniteTags, OneLess
    <3>3. WrittenBy(a)' \subseteq WrittenBy(a) \cup {k}
      BY <1>2 DEF WrittenBy
    <3>4. IsFiniteSet(WrittenBy(a) \cup {k})
          /\ Cardinality(WrittenBy(a) \cup {k}) <= Cardinality(WrittenBy(a)) + 1
      <4>1. IsFiniteSet(WrittenBy(a)) /\ Cardinality(WrittenBy(a)) \in Nat
        BY FiniteTags
      <4>2. QED
        BY <4>1, AtMostOneMore
    <3>5. Cardinality(WrittenBy(a)') <= Cardinality(WrittenBy(a) \cup {k})
      BY <3>3, <3>4, FS_Subset
    <3>6. QED
      BY <2>1, <2>2, <2>3, <3>2, <3>4, <3>5, FiniteTags, FS_CardinalityType, TagsAssumption DEF TagsAssumption
  <2>5. CASE a # account
    <3>1. Underway(a)' \subseteq Underway(a)
      BY <1>2 DEF Underway
    <3>2. WrittenBy(a)' \subseteq WrittenBy(a)
      <4>1. k \in WrittenBy(a)' => k \in WrittenBy(a)
        <5>1. CASE tags'[k] = tags[k]
          BY <5>1 DEF WrittenBy
        <5>2. CASE tags'[k] = Written(q, tags[k])
          <6>1. /\ Written(q, tags[k]).by \in {q.user, tags[k].by}
                /\ Written(q, tags[k]).by # q.user => tags[k].version # 0
                /\ Written(q, tags[k]).removedBy \in {q.user, Nobody}
            BY DEF Written
          <6>2. tags[k].version # 0 => tags[k].version > 0
            BY <1>1, TagsAssumption DEF TagTypeOK, NoRow, Rows, TagsAssumption
          <6>3. QED
            BY <1>1, <2>5, <5>2, <6>1, <6>2 DEF WrittenBy
        <5>3. QED
          BY <1>2, <5>1, <5>2
      <4>2. QED
        BY <1>2, <4>1 DEF WrittenBy
    <3>3. QED
      BY <2>1, <2>2, <2>3, <3>1, <3>2, FiniteTags, FS_Subset, TagsAssumption DEF TagsAssumption
  <2>6. QED
    BY <2>4, <2>5
<1>4. QED
  BY <1>3 DEF RowsBounded, Underway

LEMMA InitCap == ASSUME TagInit PROVE RowsBounded
<1>1. \A a : WrittenBy(a) = {} /\ Underway(a) = {}
  BY DEF TagInit, WrittenBy, NoRow, Underway, Waiting
<1>2. QED
  BY <1>1, FiniteTags, FS_EmptySet, TagsAssumption DEF RowsBounded, Underway, TagsAssumption

\* Every other step leaves the tables alone and counts nobody.
LEMMA NextCap == ASSUME TagTypeOK, RowsBounded, [TagNext]_tagVars PROVE RowsBounded'
<1>1. ASSUME NEW r \in TagRequests, NEW u \in Users, NEW k \in Pairs, NEW intent \in Intents,
             Load(r, u, k, intent)
      PROVE  RowsBounded'
  <2>1. tagging'[r].pc = "loaded" /\ \A x \in TagRequests \ {r} : tagging'[x] = tagging[x]
    BY <1>1 DEF Load, TagTypeOK
  <2>2. \A a \in Users : Underway(a)' \subseteq Underway(a)
    BY <2>1 DEF Underway
  <2>3. QED
    BY <1>1, <2>2, NotCounted DEF Load
<1>2. ASSUME NEW r \in TagRequests, Refuse(r), UNCHANGED tags
      PROVE  RowsBounded'
  <2>1. tagging'[r].pc = "idle" /\ \A x \in TagRequests \ {r} : tagging'[x] = tagging[x]
    BY <1>2 DEF Refuse, Waiting, TagTypeOK
  <2>2. \A a \in Users : Underway(a)' \subseteq Underway(a)
    BY <2>1 DEF Underway
  <2>3. QED
    BY <1>2, <2>2, NotCounted
<1>3. ASSUME NEW r \in TagRequests, Examine(r) \/ RequireAgreement(r), ~Refuse(r)
      PROVE  RowsBounded'
  <2>1. tagging[r] \in Tagging /\ tagging[r].pc \in {"counted", "looked"}
    BY <1>3, TagTypes DEF Examine, RequireAgreement, Waiting
  <2>2. /\ tagging'[r].user = tagging[r].user
        /\ \A x \in TagRequests \ {r} : tagging'[x] = tagging[x]
    BY <1>3, <2>1 DEF Examine, RequireAgreement, Proceed, TagTypeOK, Tagging
  <2>3. \A a \in Users : Underway(a)' \subseteq Underway(a)
    BY <2>1, <2>2 DEF Underway
  <2>4. UNCHANGED tags
    BY <1>3 DEF Examine, RequireAgreement
  <2>5. QED
    BY <2>3, <2>4, NotCounted
<1>4. CASE UNCHANGED tagVars
  BY <1>4 DEF tagVars, RowsBounded, WrittenBy
<1>5. CASE TagNext
  BY <1>1, <1>2, <1>3, <1>5, CountTodayCap, WriteRowCap
     DEF TagNext, Examine, RequireAgreement, Abort
<1>6. QED
  BY <1>4, <1>5

\* An account exceeds the daily cap by no more than its requests underway.
THEOREM DailyCapHolds == TagSpec => []RowsBounded
<1>1. TagInit => RowsBounded
  BY InitCap
<1>2. TagIInv /\ RowsBounded /\ [TagNext]_tagVars => RowsBounded'
  BY NextCap DEF TagIInv
<1>3. QED
  BY <1>1, <1>2, TagIInvHolds, PTL DEF TagSpec

-----------------------------------------------------------------------------
(* Both surfaces.                                                          *)

\* Each surface does beside the other what it does alone.
THEOREM SurfacesAreApart == TablesSpec => Spec /\ TagSpec
<1>1. TablesInit => Init /\ TagInit
  BY DEF TablesInit
<1>2. [TablesNext]_tablesVars => [Next]_vars /\ [TagNext]_tagVars
  BY DEF TablesNext, tablesVars, vars, tagVars
<1>3. QED
  BY <1>1, <1>2, PTL DEF TablesSpec, Spec, TagSpec

\* The tables keep their types: no request leaves a row half-written, and the
\* counter never exceeds the flags, for all its separate updates.
THEOREM TablesKeepTypes == TablesSpec => []TablesTyped
<1>1. IInv /\ TagIInv => TablesTyped
  BY DEF IInv, TagIInv, TablesTyped
<1>2. QED
  BY <1>1, SurfacesAreApart, IInvHolds, TagIInvHolds, PTL
=============================================================================
