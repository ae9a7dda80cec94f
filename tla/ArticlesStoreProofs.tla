------------------------- MODULE ArticlesStoreProofs -------------------------
(***************************************************************************)
(* Proofs about ArticlesStore, for any builds, pages, universes, operators *)
(* and number of runs: readers find what an object refers to at every      *)
(* moment, a run that ended done left its build exactly, and only a        *)
(* rollback publishes an older build.                                      *)
(*                                                                         *)
(* The argument: as long as runs do not overlap, the run under way knows   *)
(* the bucket (Knows): what it has put is there, what it has still to      *)
(* delete is all that is stale, and current.json is no newer than what     *)
(* --store publishes.  The order of the writes does the rest: what is put  *)
(* next finds everything it refers to, and what is deleted next is         *)
(* referred to by nothing.                                                 *)
(***************************************************************************)
EXTENDS ArticlesStore, TLAPS

\* At most one run is under way.
Alone == \A o, q \in Operators : run[o] # NotRunning /\ run[q] # NotRunning => o = q

\* What a run under way knows of the bucket when it has it for itself.
Knows(r) ==
  /\ r.pc \in {"listed", "unpublish"} => r.live = (bucket[Current] # NoObject)
  /\ r.pc = "listed" => r.todo = Objects(r.build)
  /\ r.pc = "unpublish" => r.build = NoObject
  /\ r.pc = "uploads" =>
       /\ r.todo \subseteq Objects(r.build) /\ r.build # NoObject
       /\ \A k \in Objects(r.build) \ r.todo : bucket[k] = r.build
       /\ r.mode = "store" => bucket[Current] <= r.build
  /\ r.pc \in {"listing", "deletes"} =>
       /\ \A k \in Objects(r.build) : bucket[k] = r.build
       /\ r.build = NoObject => bucket[Current] = NoObject
  /\ r.pc = "deletes" =>
       r.todo = {k \in Listing : k \notin Objects(r.build)}

\* A run whose comparison succeeded and after which nobody wrote.
Compared ==
  \A o \in Operators :
    /\ run[o] # NotRunning => (run[o].mode = "unpublish" <=> run[o].build = NoObject)
    /\ (run[o].pc = "readback" /\ run[o].ok /\ last.by = o /\ last.build = run[o].build)
         => Matches(run[o].build)

\* What holds of the bucket at every moment.
Referenced ==
  /\ bucket[<<"index">>] # NoObject =>
       \A p \in PagesOf[bucket[<<"index">>]] : bucket[<<"article", p>>] # NoObject
  /\ \A p \in Pages :
       bucket[<<"article", p>>] # NoObject =>
         /\ bucket[<<"records", p>>] # NoObject
         /\ bucket[<<"universe", UniverseOf[bucket[<<"article", p>>]]>>] # NoObject
Whole == \A k \in Objects(bucket[Current]) : bucket[k] # NoObject

StoreInv ==
  /\ StoreTypeOK /\ Compared /\ DoneMeansExact
  /\ ~overlapped =>
       /\ Alone /\ \A o \in Operators : run[o] # NotRunning => Knows(run[o])
       /\ Referenced /\ Whole

-----------------------------------------------------------------------------
(* Lemmas about keys and objects.                                          *)

Runs ==
  [pc : {"listed", "uploads", "unpublish", "listing", "deletes", "verify", "readback"},
   mode : Modes, build : Builds \cup {NoObject}, live : BOOLEAN, todo : SUBSET Keys, ok : BOOLEAN]

LEMMA KeyKinds ==
  /\ <<"index">> \in Keys /\ Current \in Keys /\ Current # <<"index">>
  /\ \A p \in Pages : <<"records", p>> \in Keys /\ <<"article", p>> \in Keys
  /\ \A u \in Universes : <<"universe", u>> \in Keys
<1>1. <<"index">>[1] = "index" /\ <<"current">>[1] = "current"
  OBVIOUS
<1>2. QED
  BY <1>1 DEF Keys, Current

LEMMA Ranks ==
  /\ \A u : UploadRank(<<"universe", u>>) = 0
  /\ \A p : UploadRank(<<"records", p>>) = 1 /\ UploadRank(<<"article", p>>) = 2
  /\ UploadRank(<<"index">>) = 3 /\ UploadRank(Current) = 4
  /\ \A k \in Keys : UploadRank(k) \in 0..4 /\ (k # Current => UploadRank(k) < 4)
<1>1. /\ \A u : <<"universe", u>>[1] = "universe"
      /\ \A p : <<"records", p>>[1] = "records" /\ <<"article", p>>[1] = "article"
      /\ <<"index">>[1] = "index" /\ Current[1] = "current"
  BY DEF Current
<1>2. /\ \A u : UploadRank(<<"universe", u>>) = 0
      /\ \A p : UploadRank(<<"records", p>>) = 1 /\ UploadRank(<<"article", p>>) = 2
      /\ UploadRank(<<"index">>) = 3 /\ UploadRank(Current) = 4
  BY <1>1 DEF UploadRank
<1>3. ASSUME NEW k \in Keys PROVE UploadRank(k) \in 0..4 /\ (k # Current => UploadRank(k) < 4)
  <2>1. \/ \E u \in Universes : k = <<"universe", u>>
        \/ \E p \in Pages : k = <<"records", p>> \/ k = <<"article", p>>
        \/ k = <<"index">> \/ k = Current
    BY DEF Keys
  <2>2. QED
    BY <1>2, <2>1
<1>4. QED
  BY <1>2, <1>3

LEMMA ObjectsOf ==
  ASSUME NEW b \in Builds
  PROVE  /\ b # NoObject /\ Objects(b) \subseteq Keys
         /\ <<"index">> \in Objects(b) /\ Current \in Objects(b)
         /\ UniverseOf[b] \in Universes /\ <<"universe", UniverseOf[b]>> \in Objects(b)
         /\ PagesOf[b] \subseteq Pages
         /\ \A p \in PagesOf[b] : <<"records", p>> \in Objects(b) /\ <<"article", p>> \in Objects(b)
<1>1. b # NoObject /\ UniverseOf[b] \in Universes /\ PagesOf[b] \subseteq Pages
  BY StoreAssumption DEF StoreAssumption, NoObject
<1>2. Objects(b) = {<<"universe", UniverseOf[b]>>, <<"index">>, Current}
                     \cup {<<kind, p>> : kind \in {"records", "article"}, p \in PagesOf[b]}
  BY <1>1 DEF Objects
<1>3. QED
  BY <1>1, <1>2 DEF Keys

\* An article is among a build's objects with its page only.
LEMMA ArticleObjects ==
  ASSUME NEW b \in Builds, NEW p, <<"article", p>> \in Objects(b)
  PROVE  p \in PagesOf[b]
<1>1. b # NoObject
  BY ObjectsOf
<1>2. \/ <<"article", p>> = <<"universe", UniverseOf[b]>>
      \/ <<"article", p>> = <<"index">> \/ <<"article", p>> = Current
      \/ \E kind \in {"records", "article"}, q \in PagesOf[b] : <<"article", p>> = <<kind, q>>
  BY <1>1 DEF Objects
<1>3. /\ <<"article", p>>[1] = "article" /\ <<"universe", UniverseOf[b]>>[1] = "universe"
      /\ <<"index">>[1] = "index" /\ Current[1] = "current"
  BY DEF Current
<1>4. PICK kind \in {"records", "article"}, q \in PagesOf[b] : <<"article", p>> = <<kind, q>>
  BY <1>2, <1>3
<1>5. QED
  BY <1>4

LEMMA BuildNumbers == \A b \in Builds \cup {NoObject} : b \in Nat
BY StoreAssumption DEF StoreAssumption, NoObject

LEMMA NoObjects == Objects(NoObject) = {}
BY DEF Objects

LEMMA StoreTypes ==
  ASSUME StoreTypeOK
  PROVE  /\ \A k \in Keys : bucket[k] \in Builds \cup {NoObject}
         /\ \A o \in Operators : run[o] = NotRunning \/ run[o] \in Runs
         /\ NotRunning.pc = "idle" /\ \A r \in Runs : r # NotRunning
         /\ NotRunning.pc \notin {"listed", "uploads", "unpublish", "listing", "deletes", "verify", "readback"}
<1>1. \A r \in Runs : r.pc # "idle"
  BY DEF Runs
<1>2. QED
  BY <1>1 DEF StoreTypeOK, Runs, NotRunning

-----------------------------------------------------------------------------
(* Writes in the order of UploadRank keep the bucket as readers want it.   *)

LEMMA PutIsSafe ==
  ASSUME StoreTypeOK, Referenced, Whole, NEW b \in Builds, NEW todo, NEW k \in NextUpload(todo),
         todo \subseteq Objects(b), \A j \in Objects(b) \ todo : bucket[j] = b,
         bucket' = [bucket EXCEPT ![k] = b]
  PROVE  Referenced' /\ Whole'
<1>1. k \in Objects(b) /\ k \in Keys /\ b # NoObject
  BY ObjectsOf DEF NextUpload
<1>2. bucket'[k] = b /\ \A j \in Keys \ {k} : bucket'[j] = bucket[j]
  BY <1>1 DEF StoreTypeOK
<1>3. \A j \in Keys : bucket[j] # NoObject => bucket'[j] # NoObject
  BY <1>1, <1>2
<1>4. \A j \in Objects(b) : UploadRank(j) < UploadRank(k) => bucket'[j] # NoObject
  <2>1. ASSUME NEW j \in Objects(b), UploadRank(j) < UploadRank(k) PROVE j \notin todo
    <3>1. j \in Keys /\ UploadRank(j) \in 0..4 /\ UploadRank(k) \in 0..4
      BY <1>1, ObjectsOf, Ranks
    <3>2. j \in todo => UploadRank(k) <= UploadRank(j)
      BY DEF NextUpload
    <3>3. QED
      BY <2>1, <3>1, <3>2
  <2>2. QED
    BY <1>1, <1>3, <2>1, ObjectsOf
<1>5. ASSUME bucket'[<<"index">>] # NoObject, NEW p \in PagesOf[bucket'[<<"index">>]]
      PROVE  bucket'[<<"article", p>>] # NoObject
  <2>1. CASE k = <<"index">>
    <3>1. <<"article", p>> \in Objects(b)
      BY <1>2, <1>5, <2>1, ObjectsOf
    <3>2. UploadRank(<<"article", p>>) < UploadRank(k)
      BY <2>1, Ranks
    <3>3. QED
      BY <1>4, <3>1, <3>2
  <2>2. CASE k # <<"index">>
    <3>1. bucket'[<<"index">>] = bucket[<<"index">>]
      BY <1>2, <2>2, KeyKinds
    <3>2. p \in Pages /\ bucket[<<"article", p>>] # NoObject
      BY <1>5, <3>1, StoreTypes, KeyKinds, ObjectsOf DEF Referenced
    <3>3. QED
      BY <1>3, <3>2, KeyKinds
  <2>3. QED
    BY <2>1, <2>2
<1>6. ASSUME NEW p \in Pages, bucket'[<<"article", p>>] # NoObject
      PROVE  /\ bucket'[<<"records", p>>] # NoObject
             /\ bucket'[<<"universe", UniverseOf[bucket'[<<"article", p>>]]>>] # NoObject
  <2>1. CASE k = <<"article", p>>
    <3>1. p \in PagesOf[b]
      BY <1>1, <2>1, ArticleObjects
    <3>2. /\ <<"records", p>> \in Objects(b) /\ <<"universe", UniverseOf[b]>> \in Objects(b)
          /\ UploadRank(<<"records", p>>) < UploadRank(k)
          /\ UploadRank(<<"universe", UniverseOf[b]>>) < UploadRank(k)
      BY <2>1, <3>1, ObjectsOf, Ranks
    <3>3. QED
      BY <1>2, <1>4, <2>1, <3>2
  <2>2. CASE k # <<"article", p>>
    <3>1. bucket'[<<"article", p>>] = bucket[<<"article", p>>] /\ bucket[<<"article", p>>] \in Builds
      BY <1>2, <1>6, <2>2, KeyKinds, StoreTypes
    <3>2. /\ bucket[<<"records", p>>] # NoObject
          /\ bucket[<<"universe", UniverseOf[bucket[<<"article", p>>]]>>] # NoObject
      BY <1>6, <3>1 DEF Referenced
    <3>3. <<"records", p>> \in Keys /\ <<"universe", UniverseOf[bucket[<<"article", p>>]]>> \in Keys
      BY <3>1, KeyKinds, ObjectsOf
    <3>4. QED
      BY <1>3, <3>1, <3>2, <3>3
  <2>3. QED
    BY <2>1, <2>2
<1>7. ASSUME NEW j \in Objects(bucket'[Current]) PROVE bucket'[j] # NoObject
  <2>1. CASE k = Current
    <3>1. j \in Objects(b) /\ j \in Keys
      BY <1>2, <1>7, <2>1, ObjectsOf
    <3>2. j # Current => UploadRank(j) < UploadRank(k)
      BY <2>1, <3>1, Ranks
    <3>3. QED
      BY <1>1, <1>2, <1>4, <2>1, <3>1, <3>2
  <2>2. CASE k # Current
    <3>1. bucket'[Current] = bucket[Current] /\ bucket[Current] \in Builds \cup {NoObject}
      BY <1>2, <2>2, KeyKinds, StoreTypes
    <3>2. bucket[j] # NoObject /\ j \in Keys
      BY <1>7, <3>1, NoObjects, ObjectsOf DEF Whole
    <3>3. QED
      BY <1>3, <3>2
  <2>3. QED
    BY <2>1, <2>2
<1>8. QED
  BY <1>5, <1>6, <1>7 DEF Referenced, Whole

LEMMA DeleteIsSafe ==
  ASSUME StoreTypeOK, Referenced, Whole, NEW b \in Builds \cup {NoObject}, NEW todo,
         todo = {j \in Listing : j \notin Objects(b)}, NEW k \in NextDelete(todo),
         \A j \in Objects(b) : bucket[j] = b, b = NoObject => bucket[Current] = NoObject,
         bucket' = [bucket EXCEPT ![k] = NoObject]
  PROVE  Referenced' /\ Whole'
<1>1. k \in Keys /\ k \notin Objects(b)
  BY DEF NextDelete, Listing
<1>2. bucket'[k] = NoObject /\ \A j \in Keys \ {k} : bucket'[j] = bucket[j]
  BY <1>1 DEF StoreTypeOK
<1>3. ASSUME NEW i \in Keys, bucket[i] # NoObject, i \notin Objects(b), NEW j \in Keys,
             UploadRank(j) < UploadRank(i), bucket[j] # NoObject
      PROVE  bucket'[j] # NoObject
  <2>1. UploadRank(k) >= UploadRank(i)
    BY <1>3 DEF NextDelete, Listing
  <2>2. UploadRank(i) \in 0..4 /\ UploadRank(j) \in 0..4 /\ UploadRank(k) \in 0..4
    BY <1>1, <1>3, Ranks
  <2>3. j # k
    BY <1>3, <2>1, <2>2
  <2>4. QED
    BY <1>2, <1>3, <2>3
<1>4. \A j \in Objects(b) : j \in Keys /\ bucket'[j] = b /\ b \in Builds
  BY <1>1, <1>2, ObjectsOf, NoObjects
<1>5. ASSUME bucket'[<<"index">>] # NoObject, NEW p \in PagesOf[bucket'[<<"index">>]]
      PROVE  bucket'[<<"article", p>>] # NoObject
  <2>1. bucket'[<<"index">>] = bucket[<<"index">>] /\ bucket[<<"index">>] \in Builds
    BY <1>2, <1>5, KeyKinds, StoreTypes
  <2>2. p \in Pages /\ bucket[<<"article", p>>] # NoObject
    BY <1>5, <2>1, ObjectsOf DEF Referenced
  <2>3. CASE <<"index">> \in Objects(b)
    <3>1. p \in PagesOf[b] /\ b \in Builds
      BY <1>4, <1>5, <2>3
    <3>2. <<"article", p>> \in Objects(b)
      BY <3>1, ObjectsOf
    <3>3. QED
      BY <1>4, <3>1, <3>2, ObjectsOf
  <2>4. CASE <<"index">> \notin Objects(b)
    <3>1. UploadRank(<<"article", p>>) < UploadRank(<<"index">>)
      BY Ranks
    <3>2. <<"article", p>> \in Keys /\ <<"index">> \in Keys /\ bucket[<<"index">>] # NoObject
      BY <2>1, <2>2, KeyKinds, ObjectsOf
    <3>3. QED
      BY <1>3, <2>2, <2>4, <3>1, <3>2
  <2>5. QED
    BY <2>3, <2>4
<1>6. ASSUME NEW p \in Pages, bucket'[<<"article", p>>] # NoObject
      PROVE  /\ bucket'[<<"records", p>>] # NoObject
             /\ bucket'[<<"universe", UniverseOf[bucket'[<<"article", p>>]]>>] # NoObject
  <2>1. bucket'[<<"article", p>>] = bucket[<<"article", p>>] /\ bucket[<<"article", p>>] \in Builds
    BY <1>2, <1>6, KeyKinds, StoreTypes
  <2>2. /\ bucket[<<"records", p>>] # NoObject
        /\ bucket[<<"universe", UniverseOf[bucket[<<"article", p>>]]>>] # NoObject
    BY <1>6, <2>1 DEF Referenced
  <2>3. /\ <<"records", p>> \in Keys /\ <<"universe", UniverseOf[bucket[<<"article", p>>]]>> \in Keys
        /\ <<"article", p>> \in Keys
    BY <2>1, KeyKinds, ObjectsOf
  <2>4. CASE <<"article", p>> \in Objects(b)
    <3>1. p \in PagesOf[b] /\ b \in Builds /\ bucket'[<<"article", p>>] = b
      BY <1>4, <2>4, ArticleObjects
    <3>2. <<"records", p>> \in Objects(b) /\ <<"universe", UniverseOf[b]>> \in Objects(b) /\ b # NoObject
      BY <3>1, ObjectsOf
    <3>3. QED
      BY <1>4, <3>1, <3>2
  <2>5. CASE <<"article", p>> \notin Objects(b)
    <3>1. /\ UploadRank(<<"records", p>>) < UploadRank(<<"article", p>>)
          /\ UploadRank(<<"universe", UniverseOf[bucket[<<"article", p>>]]>>) < UploadRank(<<"article", p>>)
      BY Ranks
    <3>2. bucket[<<"article", p>>] # NoObject
      BY <1>6, <2>1
    <3>3. QED
      BY <1>3, <2>1, <2>2, <2>3, <2>5, <3>1, <3>2
  <2>6. QED
    BY <2>4, <2>5
<1>7. ASSUME NEW j \in Objects(bucket'[Current]) PROVE bucket'[j] # NoObject
  <2>1. bucket'[Current] # NoObject
    BY <1>7, NoObjects
  <2>2. bucket'[Current] = bucket[Current]
    BY <1>2, <2>1, KeyKinds
  <2>3. b \in Builds
    BY <2>1, <2>2
  <2>4. bucket'[Current] = b
    BY <1>4, <2>3, ObjectsOf
  <2>5. QED
    BY <1>4, <1>7, <2>3, <2>4, ObjectsOf
<1>8. QED
  BY <1>5, <1>6, <1>7 DEF Referenced, Whole

LEMMA TakeOfflineIsSafe ==
  ASSUME StoreTypeOK, Referenced, Whole, bucket' = [bucket EXCEPT ![Current] = NoObject]
  PROVE  Referenced' /\ Whole'
<1>1. /\ bucket'[Current] = NoObject /\ \A j \in Keys \ {Current} : bucket'[j] = bucket[j]
      /\ bucket'[<<"index">>] = bucket[<<"index">>]
  BY KeyKinds DEF StoreTypeOK
<1>2. /\ \A u : <<"universe", u>> # Current /\ \A p : <<"records", p>> # Current /\ <<"article", p>> # Current
  <2>1. /\ \A u : <<"universe", u>>[1] = "universe" /\ Current[1] = "current"
        /\ \A p : <<"records", p>>[1] = "records" /\ <<"article", p>>[1] = "article"
    BY DEF Current
  <2>2. QED
    BY <2>1
<1>3. ASSUME NEW p \in Pages
      PROVE  bucket'[<<"article", p>>] = bucket[<<"article", p>>] /\ bucket'[<<"records", p>>] = bucket[<<"records", p>>]
  BY <1>1, <1>2, KeyKinds
<1>4. ASSUME NEW u \in Universes PROVE bucket'[<<"universe", u>>] = bucket[<<"universe", u>>]
  BY <1>1, <1>2, KeyKinds
<1>5. ASSUME NEW p \in Pages, bucket'[<<"article", p>>] # NoObject
      PROVE  /\ bucket'[<<"records", p>>] # NoObject
             /\ bucket'[<<"universe", UniverseOf[bucket'[<<"article", p>>]]>>] # NoObject
  <2>1. bucket[<<"article", p>>] \in Builds /\ UniverseOf[bucket[<<"article", p>>]] \in Universes
    BY <1>3, <1>5, StoreTypes, KeyKinds, ObjectsOf
  <2>2. QED
    BY <1>3, <1>4, <1>5, <2>1 DEF Referenced
<1>6. ASSUME bucket'[<<"index">>] # NoObject, NEW p \in PagesOf[bucket'[<<"index">>]]
      PROVE  bucket'[<<"article", p>>] # NoObject
  <2>1. bucket[<<"index">>] \in Builds
    BY <1>1, <1>6, StoreTypes, KeyKinds
  <2>2. p \in Pages
    BY <1>1, <1>6, <2>1, ObjectsOf
  <2>3. QED
    BY <1>1, <1>3, <1>6, <2>2 DEF Referenced
<1>7. Whole'
  BY <1>1, NoObjects DEF Whole
<1>8. QED
  BY <1>5, <1>6, <1>7 DEF Referenced

-----------------------------------------------------------------------------
(* What a step of a run leaves of the invariant: a step that writes        *)
(* nothing, one that writes one object, and one that ends the run.         *)

LEMMA RunTypes ==
  ASSUME StoreInv, NEW o \in Operators, NEW r, r = NotRunning \/ r \in Runs, Advance(o, r)
  PROVE  /\ run'[o] = r /\ \A q \in Operators \ {o} : run'[q] = run[q]
         /\ run' \in [Operators -> {NotRunning} \cup Runs]
BY DEF StoreInv, StoreTypeOK, Advance, Runs

LEMMA AloneStays ==
  ASSUME StoreInv, NEW o \in Operators, run[o] # NotRunning, NEW r, r = NotRunning \/ r \in Runs, Advance(o, r),
         ~overlapped, r # NotRunning => Knows(r)'
  PROVE  Alone' /\ \A q \in Operators : (run[q] # NotRunning => Knows(run[q]))'
<1>1. Alone /\ run'[o] = r /\ \A q \in Operators \ {o} : run'[q] = run[q]
  BY RunTypes DEF StoreInv
<1>2. \A q \in Operators \ {o} : run'[q] = NotRunning
  BY <1>1 DEF Alone
<1>3. Alone'
  BY <1>1, <1>2 DEF Alone
<1>4. \A q \in Operators : (run[q] # NotRunning => Knows(run[q]))'
  BY <1>1, <1>2 DEF Knows, Listing
<1>5. QED
  BY <1>3, <1>4

LEMMA ReadStep ==
  ASSUME StoreInv, NEW o \in Operators, run[o] # NotRunning, NEW r, r = NotRunning \/ r \in Runs, Advance(o, r),
         UNCHANGED <<bucket, started, overlapped, last>>,
         r # NotRunning => r.mode = run[o].mode /\ r.build = run[o].build,
         r.pc = "readback" /\ r.ok => (run[o].pc = "readback" /\ run[o].ok) \/ Matches(r.build),
         ~overlapped /\ Knows(run[o]) /\ r # NotRunning => Knows(r)
  PROVE  StoreInv'
<1>1. run'[o] = r /\ (\A q \in Operators \ {o} : run'[q] = run[q]) /\ run' \in [Operators -> {NotRunning} \cup Runs]
  BY RunTypes
<1>2. StoreTypeOK'
  BY <1>1 DEF StoreInv, StoreTypeOK, Runs
<1>3. Compared'
  <2>1. r.pc = "readback" => r # NotRunning
    BY DEF NotRunning
  <2>2. QED
    BY <1>1, <2>1 DEF StoreInv, Compared, Matches
<1>4. DoneMeansExact'
  BY DEF StoreInv, DoneMeansExact
<1>5. ASSUME ~overlapped' 
      PROVE  Alone' /\ (\A q \in Operators : (run[q] # NotRunning => Knows(run[q]))') /\ Referenced' /\ Whole'
  <2>1. ~overlapped /\ Knows(run[o]) /\ Referenced /\ Whole
    BY <1>5 DEF StoreInv
  <2>2. r # NotRunning => Knows(r)'
    BY <2>1 DEF Knows, Listing
  <2>3. Referenced' /\ Whole'
    BY <2>1 DEF Referenced, Whole
  <2>4. QED
    BY <2>1, <2>2, <2>3, AloneStays
<1>6. QED
  BY <1>2, <1>3, <1>4, <1>5 DEF StoreInv

LEMMA WriteStep ==
  ASSUME StoreInv, NEW o \in Operators, run[o] # NotRunning, NEW r, r = NotRunning \/ r \in Runs, Advance(o, r),
         NEW k \in Keys, NEW v \in Builds \cup {NoObject}, Write(o, k, v),
         r # NotRunning => r.mode = run[o].mode /\ r.build = run[o].build,
         r.pc # "readback",
         ~overlapped /\ Knows(run[o]) /\ Referenced /\ Whole
           => Knows(r)' /\ Referenced' /\ Whole'
  PROVE  StoreInv'
<1>1. run'[o] = r /\ (\A q \in Operators \ {o} : run'[q] = run[q]) /\ run' \in [Operators -> {NotRunning} \cup Runs]
  BY RunTypes
<1>2. last' = [by |-> o, build |-> run[o].build, done |-> FALSE]
  BY DEF Write
<1>3. StoreTypeOK'
  <2>1. run[o].build \in Builds \cup {NoObject}
    BY StoreTypes DEF StoreInv, Runs
  <2>2. QED
    BY <1>1, <1>2, <2>1 DEF StoreInv, StoreTypeOK, Runs, Write
<1>4. Compared'
  BY <1>1, <1>2 DEF StoreInv, Compared
<1>5. DoneMeansExact'
  BY <1>2 DEF DoneMeansExact
<1>6. ASSUME ~overlapped'
      PROVE  Alone' /\ (\A q \in Operators : (run[q] # NotRunning => Knows(run[q]))') /\ Referenced' /\ Whole'
  <2>1. ~overlapped /\ Knows(run[o]) /\ Referenced /\ Whole
    BY <1>6 DEF StoreInv, Write
  <2>2. QED
    BY <2>1, AloneStays
<1>7. QED
  BY <1>3, <1>4, <1>5, <1>6 DEF StoreInv

LEMMA FinishStep ==
  ASSUME StoreInv, NEW o \in Operators, run[o] # NotRunning, NEW ok \in BOOLEAN, Finish(o, ok),
         ok /\ last.by = o /\ last.build = run[o].build => Matches(run[o].build)
  PROVE  StoreInv'
<1>1. Advance(o, NotRunning) /\ UNCHANGED <<bucket, started, overlapped>>
  BY DEF Finish
<1>2. run'[o] = NotRunning /\ (\A q \in Operators \ {o} : run'[q] = run[q]) /\ run' \in [Operators -> {NotRunning} \cup Runs]
  BY <1>1, RunTypes
<1>3. /\ last' \in {NoWriter} \cup [by : Operators, build : Builds \cup {NoObject}, done : BOOLEAN]
      /\ last'.by = last.by /\ last'.build = last.build
      /\ last'.done => last.done \/ (ok /\ last.by = o /\ last.build = run[o].build)
  <2>1. CASE ok /\ last.by = o /\ last.build = run[o].build
    <3>1. last' = [last EXCEPT !.done = TRUE]
      BY <2>1 DEF Finish
    <3>2. last \in [by : Operators, build : Builds \cup {NoObject}, done : BOOLEAN]
      <4>1. CASE last = NoWriter
        BY <2>1, <4>1, StoreTypes DEF NoWriter, StoreInv, Runs
      <4>2. QED
        BY <4>1 DEF StoreInv, StoreTypeOK
    <3>3. QED
      BY <2>1, <3>1, <3>2
  <2>2. CASE ~(ok /\ last.by = o /\ last.build = run[o].build)
    BY <2>2 DEF Finish, StoreInv, StoreTypeOK
  <2>3. QED
    BY <2>1, <2>2
<1>4. StoreTypeOK'
  BY <1>1, <1>2, <1>3 DEF StoreInv, StoreTypeOK, Runs
<1>5. Compared'
  <2>1. NotRunning.pc # "readback"
    BY DEF NotRunning
  <2>2. QED
    BY <1>1, <1>2, <1>3, <2>1 DEF StoreInv, Compared, Matches
<1>6. DoneMeansExact'
  BY <1>1, <1>3 DEF StoreInv, DoneMeansExact, Matches
<1>7. ASSUME ~overlapped'
      PROVE  Alone' /\ (\A q \in Operators : (run[q] # NotRunning => Knows(run[q]))') /\ Referenced' /\ Whole'
  <2>1. ~overlapped /\ Referenced /\ Whole
    BY <1>1, <1>7 DEF StoreInv
  <2>2. Referenced' /\ Whole'
    BY <1>1, <2>1 DEF Referenced, Whole
  <2>3. QED
    BY <1>1, <2>1, <2>2, AloneStays
<1>8. QED
  BY <1>4, <1>5, <1>6, <1>7 DEF StoreInv

-----------------------------------------------------------------------------
(* One lemma per step of a run.                                            *)

LEMMA StartStep ==
  ASSUME StoreInv, NEW o \in Operators, NEW mode \in Modes, NEW b \in Builds \cup {NoObject},
         Start(o, mode, b)
  PROVE  StoreInv'
<1>1. PICK r : r = [pc |-> "listed", mode |-> mode, build |-> b, live |-> Current \in Listing,
                    todo |-> Objects(b), ok |-> TRUE]
  OBVIOUS
<1>2. r \in Runs /\ r # NotRunning
  <2>1. Objects(b) \subseteq Keys
    BY ObjectsOf, NoObjects
  <2>2. QED
    BY <1>1, <2>1, StoreTypes DEF StoreInv, Runs
<1>3. Advance(o, r) /\ run[o] = NotRunning
  BY <1>1 DEF Start
<1>4. run'[o] = r /\ (\A q \in Operators \ {o} : run'[q] = run[q]) /\ run' \in [Operators -> {NotRunning} \cup Runs]
  BY <1>2, <1>3, RunTypes
<1>5. StoreTypeOK'
  <2>1. started' \in 0..MaxRuns
    BY StoreAssumption DEF StoreAssumption, Start, StoreInv, StoreTypeOK
  <2>2. overlapped' \in BOOLEAN /\ UNCHANGED <<bucket, last>>
    BY DEF Start
  <2>3. QED
    BY <1>4, <2>1, <2>2 DEF StoreInv, StoreTypeOK, Runs
<1>6. Compared'
  BY <1>1, <1>4 DEF StoreInv, Compared, Matches, Start
<1>7. DoneMeansExact'
  BY DEF StoreInv, DoneMeansExact, Start
<1>8. ASSUME ~overlapped'
      PROVE  Alone' /\ (\A q \in Operators : (run[q] # NotRunning => Knows(run[q]))') /\ Referenced' /\ Whole'
  <2>1. ~overlapped /\ (\A q \in Operators : run[q] = NotRunning) /\ UNCHANGED bucket
    BY <1>8 DEF Start
  <2>2. Referenced' /\ Whole'
    BY <2>1 DEF StoreInv, Referenced, Whole
  <2>3. Knows(r)
    BY <1>1, KeyKinds DEF Knows, Listing
  <2>4. (\A q \in Operators \ {o} : run'[q] = NotRunning) /\ run'[o] = r
    BY <1>4, <2>1
  <2>5. Alone'
    BY <2>4 DEF Alone
  <2>6. \A q \in Operators : (run[q] # NotRunning => Knows(run[q]))'
    BY <2>1, <2>3, <2>4 DEF Knows, Listing
  <2>7. QED
    BY <2>2, <2>5, <2>6
<1>9. QED
  BY <1>5, <1>6, <1>7, <1>8 DEF StoreInv

LEMMA ReadLiveStep ==
  ASSUME StoreInv, NEW o \in Operators, ReadLive(o)
  PROVE  StoreInv'
<1>1. run[o] \in Runs /\ run[o] # NotRunning /\ run[o].pc = "listed"
  BY StoreTypes DEF ReadLive, StoreInv
<1>2. UNCHANGED <<bucket, started, overlapped, last>>
  BY DEF ReadLive
<1> DEFINE live == IF run[o].live THEN bucket[Current] ELSE NoObject
<1>3. CASE RightDirection(run[o].mode, run[o].build, live)
  <2>1. PICK r : r = [run[o] EXCEPT !.pc = IF run[o].mode = "unpublish" THEN "unpublish" ELSE "uploads"]
    OBVIOUS
  <2>2. r \in Runs /\ r = [run[o] EXCEPT !.pc = r.pc] /\ r.pc = IF run[o].mode = "unpublish" THEN "unpublish" ELSE "uploads"
    BY <1>1, <2>1 DEF Runs
  <2>3. Advance(o, r)
    BY <1>3, <2>1 DEF ReadLive
  <2>4. run[o].mode = "unpublish" <=> run[o].build = NoObject
    BY <1>1 DEF StoreInv, Compared
  <2>5. ASSUME Knows(run[o]) PROVE Knows(r)
    <3>1. r.todo = Objects(r.build) /\ r.live = (bucket[Current] # NoObject) /\ r.mode = run[o].mode
      BY <1>1, <2>1, <2>5 DEF Knows, Runs
    <3>2. r.pc = "uploads" /\ r.mode = "store" => bucket[Current] <= r.build
      <4>1. r.build = run[o].build /\ r.live = run[o].live /\ r.build \in Builds \cup {NoObject}
        BY <1>1, <2>1 DEF Runs
      <4>2. bucket[Current] = live
        BY <3>1, <4>1
      <4>3. live = NoObject \/ run[o].mode = "unpublish" \/ (IF run[o].mode = "store" THEN live <= run[o].build ELSE run[o].build <= live)
        BY <1>3 DEF RightDirection
      <4>4. r.build \in Nat
        BY <4>1, BuildNumbers
      <4>5. HAVE r.pc = "uploads" /\ r.mode = "store"
      <4>6. live = NoObject \/ live <= run[o].build
        BY <3>1, <4>3, <4>5
      <4>7. QED
        BY <4>1, <4>2, <4>4, <4>6 DEF NoObject
    <3>3. r.build = NoObject <=> r.pc = "unpublish"
      BY <1>1, <2>1, <2>2, <2>4 DEF Runs
    <3>4. QED
      BY <2>2, <3>1, <3>2, <3>3 DEF Knows
  <2>6. r.pc # "readback" /\ r.mode = run[o].mode /\ r.build = run[o].build
    BY <1>1, <2>1, <2>2 DEF Runs
  <2>7. QED
    BY <1>1, <1>2, <2>2, <2>3, <2>5, <2>6, ReadStep
<1>4. CASE ~RightDirection(run[o].mode, run[o].build, live)
  <2>1. Advance(o, NotRunning)
    BY <1>4 DEF ReadLive
  <2>2. NotRunning.pc # "readback"
    BY DEF NotRunning
  <2>3. QED
    BY <1>1, <1>2, <2>1, <2>2, ReadStep
<1>5. QED
  BY <1>3, <1>4

LEMMA PutStep ==
  ASSUME StoreInv, NEW o \in Operators, Put(o)
  PROVE  StoreInv'
<1>1. run[o] \in Runs /\ run[o] # NotRunning /\ run[o].pc = "uploads"
  BY StoreTypes DEF Put, StoreInv
<1>2. PICK k \in NextUpload(run[o].todo) :
        /\ Write(o, k, run[o].build)
        /\ Advance(o, [run[o] EXCEPT !.todo = @ \ {k}, !.pc = IF run[o].todo = {k} THEN "listing" ELSE @])
  BY DEF Put
<1>3. PICK r : r = [run[o] EXCEPT !.todo = @ \ {k}, !.pc = IF run[o].todo = {k} THEN "listing" ELSE @]
  OBVIOUS
<1>4. k \in run[o].todo /\ k \in Keys
  BY <1>1 DEF NextUpload, Runs
<1>5. /\ r \in Runs /\ r # NotRunning /\ r.mode = run[o].mode /\ r.build = run[o].build
      /\ r.todo = run[o].todo \ {k} /\ r.pc = IF run[o].todo = {k} THEN "listing" ELSE "uploads"
  <2>1. r \in Runs
    BY <1>1, <1>3 DEF Runs
  <2>2. QED
    BY <1>1, <1>3, <2>1, StoreTypes DEF Runs, StoreInv
<1>6. bucket' = [bucket EXCEPT ![k] = run[o].build] /\ run[o].build \in Builds \cup {NoObject}
  BY <1>1, <1>2 DEF Write, Runs
<1>7. ASSUME Knows(run[o]), Referenced, Whole
      PROVE  Knows(r)' /\ Referenced' /\ Whole'
  <2>1. /\ run[o].todo \subseteq Objects(run[o].build) /\ run[o].build \in Builds
        /\ \A j \in Objects(run[o].build) \ run[o].todo : bucket[j] = run[o].build
        /\ run[o].mode = "store" => bucket[Current] <= run[o].build
    BY <1>1, <1>6, <1>7 DEF Knows
  <2>2. Referenced' /\ Whole'
    BY <1>6, <1>7, <2>1, PutIsSafe DEF StoreInv
  <2>3. bucket'[k] = r.build /\ \A j \in Keys \ {k} : bucket'[j] = bucket[j]
    BY <1>4, <1>5, <1>6 DEF StoreInv, StoreTypeOK
  <2>4. \A j \in Objects(r.build) \ r.todo : bucket'[j] = r.build
    BY <1>5, <2>1, <2>3, ObjectsOf
  <2>5. r.mode = "store" => bucket'[Current] <= r.build
    <3>1. r.build \in Nat
      BY <1>5, <2>1, BuildNumbers
    <3>2. QED
      BY <1>5, <2>1, <2>3, <3>1, KeyKinds
  <2>6. r.build # NoObject /\ r.todo \subseteq Objects(r.build)
    BY <1>5, <2>1, ObjectsOf
  <2>7. r.pc = "listing" => r.todo = {}
    BY <1>5
  <2>8. QED
    BY <1>5, <2>2, <2>4, <2>5, <2>6, <2>7 DEF Knows
<1>8. Advance(o, r) /\ Write(o, k, run[o].build)
  BY <1>2, <1>3
<1>9. QED
  <2>1. r.pc # "readback"
    BY <1>5
  <2>2. QED
    BY <1>1, <1>4, <1>5, <1>6, <1>7, <1>8, <2>1, WriteStep

LEMMA TakeOfflineStep ==
  ASSUME StoreInv, NEW o \in Operators, TakeOffline(o)
  PROVE  StoreInv'
<1>1. run[o] \in Runs /\ run[o] # NotRunning /\ run[o].pc = "unpublish"
  BY StoreTypes DEF TakeOffline, StoreInv
<1>2. PICK r : r = [run[o] EXCEPT !.pc = "listing"]
  OBVIOUS
<1>3. /\ r \in Runs /\ r # NotRunning /\ r.mode = run[o].mode /\ r.build = run[o].build
      /\ r.pc = "listing" /\ Advance(o, r)
  <2>1. r \in Runs
    BY <1>1, <1>2 DEF Runs
  <2>2. QED
    BY <1>1, <1>2, <2>1, StoreTypes DEF Runs, StoreInv, TakeOffline
<1>4. CASE run[o].live /\ Write(o, Current, NoObject)
  <2>1. bucket' = [bucket EXCEPT ![Current] = NoObject]
    BY <1>4 DEF Write
  <2>2. ASSUME Knows(run[o]), Referenced, Whole
        PROVE  Knows(r)' /\ Referenced' /\ Whole'
    <3>1. Referenced' /\ Whole'
      BY <2>1, <2>2, TakeOfflineIsSafe DEF StoreInv
    <3>2. bucket'[Current] = NoObject
      BY <2>1, KeyKinds DEF StoreInv, StoreTypeOK
    <3>3. QED
      BY <1>1, <1>3, <2>2, <3>1, <3>2, NoObjects DEF Knows
  <2>3. QED
    BY <1>1, <1>3, <1>4, <2>2, WriteStep, KeyKinds
<1>5. CASE ~run[o].live /\ UNCHANGED <<bucket, started, overlapped, last>>
  <2>1. ASSUME Knows(run[o]) PROVE Knows(r)
    BY <1>1, <1>3, <1>5, <2>1, NoObjects DEF Knows
  <2>2. QED
    BY <1>1, <1>3, <1>5, <2>1, ReadStep
<1>6. QED
  BY <1>4, <1>5 DEF TakeOffline

LEMMA ListStaleStep ==
  ASSUME StoreInv, NEW o \in Operators, ListStale(o)
  PROVE  StoreInv'
<1>1. run[o] \in Runs /\ run[o] # NotRunning /\ run[o].pc = "listing"
  BY StoreTypes DEF ListStale, StoreInv
<1> DEFINE stale == Listing \ Objects(run[o].build)
<1>2. PICK r : r = [run[o] EXCEPT !.todo = stale, !.pc = IF stale = {} THEN "verify" ELSE "deletes"]
  OBVIOUS
<1>3. /\ r \in Runs /\ r # NotRunning /\ r.mode = run[o].mode /\ r.build = run[o].build
      /\ r.todo = stale /\ r.pc \in {"verify", "deletes"} /\ Advance(o, r)
  <2>1. r \in Runs
    BY <1>1, <1>2 DEF Runs, Listing
  <2>2. QED
    BY <1>1, <1>2, <2>1, StoreTypes DEF Runs, StoreInv, ListStale
<1>4. ASSUME Knows(run[o]) PROVE Knows(r)
  BY <1>1, <1>3, <1>4 DEF Knows
<1>5. UNCHANGED <<bucket, started, overlapped, last>>
  BY DEF ListStale
<1>6. QED
  BY <1>1, <1>3, <1>4, <1>5, ReadStep

LEMMA DeleteStep ==
  ASSUME StoreInv, NEW o \in Operators, Delete(o)
  PROVE  StoreInv'
<1>1. run[o] \in Runs /\ run[o] # NotRunning /\ run[o].pc = "deletes"
  BY StoreTypes DEF Delete, StoreInv
<1>2. PICK k \in NextDelete(run[o].todo) :
        /\ Write(o, k, NoObject)
        /\ Advance(o, [run[o] EXCEPT !.todo = @ \ {k}, !.pc = IF run[o].todo = {k} THEN "verify" ELSE @])
  BY DEF Delete
<1>3. PICK r : r = [run[o] EXCEPT !.todo = @ \ {k}, !.pc = IF run[o].todo = {k} THEN "verify" ELSE @]
  OBVIOUS
<1>4. k \in run[o].todo /\ k \in Keys
  BY <1>1 DEF NextDelete, Runs
<1>5. /\ r \in Runs /\ r # NotRunning /\ r.mode = run[o].mode /\ r.build = run[o].build
      /\ r.todo = run[o].todo \ {k} /\ r.pc \in {"verify", "deletes"}
  <2>1. r \in Runs
    BY <1>1, <1>3 DEF Runs
  <2>2. QED
    BY <1>1, <1>3, <2>1, StoreTypes DEF Runs, StoreInv
<1>6. bucket' = [bucket EXCEPT ![k] = NoObject] /\ run[o].build \in Builds \cup {NoObject}
  BY <1>1, <1>2 DEF Write, Runs
<1>7. ASSUME Knows(run[o]), Referenced, Whole
      PROVE  Knows(r)' /\ Referenced' /\ Whole'
  <2>1. /\ run[o].todo = {j \in Listing : j \notin Objects(run[o].build)}
        /\ \A j \in Objects(run[o].build) : bucket[j] = run[o].build
        /\ run[o].build = NoObject => bucket[Current] = NoObject
    BY <1>1, <1>7 DEF Knows
  <2>2. Referenced' /\ Whole'
    BY <1>2, <1>6, <1>7, <2>1, DeleteIsSafe DEF StoreInv
  <2>3. bucket'[k] = NoObject /\ \A j \in Keys \ {k} : bucket'[j] = bucket[j]
    BY <1>4, <1>6 DEF StoreInv, StoreTypeOK
  <2>4. \A j \in Objects(r.build) : bucket'[j] = r.build
    <3>1. k \notin Objects(r.build)
      BY <1>4, <1>5, <2>1
    <3>2. Objects(r.build) \subseteq Keys
      BY <1>5, <1>6, ObjectsOf, NoObjects
    <3>3. QED
      BY <1>5, <2>1, <2>3, <3>1, <3>2
  <2>5. r.build = NoObject => bucket'[Current] = NoObject
    BY <1>5, <2>1, <2>3, KeyKinds
  <2>6. r.todo = {j \in Listing' : j \notin Objects(r.build)}
    <3>1. Listing' = Listing \ {k}
      BY <1>4, <2>3 DEF Listing
    <3>2. QED
      BY <1>5, <2>1, <3>1
  <2>7. QED
    BY <1>5, <2>2, <2>4, <2>5, <2>6 DEF Knows
<1>8. Advance(o, r) /\ Write(o, k, NoObject)
  BY <1>2, <1>3
<1>9. QED
  <2>1. r.pc # "readback"
    BY <1>5
  <2>2. QED
    BY <1>1, <1>4, <1>5, <1>7, <1>8, <2>1, WriteStep

LEMMA VerifyListingStep ==
  ASSUME StoreInv, NEW o \in Operators, VerifyListing(o)
  PROVE  StoreInv'
<1>1. run[o] \in Runs /\ run[o] # NotRunning /\ run[o].pc = "verify"
  BY StoreTypes DEF VerifyListing, StoreInv
<1>2. CASE run[o].mode = "unpublish"
  <2>1. Finish(o, Listing = {})
    BY <1>2 DEF VerifyListing
  <2>2. run[o].build = NoObject
    BY <1>1, <1>2 DEF StoreInv, Compared
  <2>3. Listing = {} => Matches(run[o].build)
    BY <2>2, NoObjects DEF Matches, Listing
  <2>4. (Listing = {}) \in BOOLEAN
    OBVIOUS
  <2>5. QED
    BY <1>1, <2>1, <2>3, <2>4, FinishStep
<1>3. CASE run[o].mode # "unpublish"
  <2>1. PICK r : r = [run[o] EXCEPT !.pc = "readback", !.ok = Matches(run[o].build), !.todo = Objects(run[o].build)]
    OBVIOUS
  <2>2. /\ r.mode = run[o].mode /\ r.build = run[o].build
        /\ r.ok = Matches(r.build) /\ r.pc = "readback"
    BY <1>1, <2>1 DEF Runs
  <2>3. r \in Runs /\ r # NotRunning
    <3>1. Objects(run[o].build) \subseteq Keys /\ Matches(run[o].build) \in BOOLEAN
      BY <1>1, ObjectsOf, NoObjects DEF Runs, Matches
    <3>2. r \in Runs
      BY <1>1, <2>1, <3>1 DEF Runs
    <3>3. QED
      BY <3>2, StoreTypes DEF StoreInv
  <2>4. Advance(o, r) /\ UNCHANGED <<bucket, started, overlapped, last>>
    BY <1>3, <2>1 DEF VerifyListing
  <2>5. Knows(r)
    BY <2>2 DEF Knows
  <2>6. QED
    BY <1>1, <2>2, <2>3, <2>4, <2>5, ReadStep
<1>4. QED
  BY <1>2, <1>3

LEMMA ReadBackStep ==
  ASSUME StoreInv, NEW o \in Operators, ReadBack(o)
  PROVE  StoreInv'
<1>1. run[o] \in Runs /\ run[o] # NotRunning /\ run[o].pc = "readback"
  BY StoreTypes DEF ReadBack, StoreInv
<1>2. PICK k \in NextUpload(run[o].todo) :
        IF run[o].todo # {k}
          THEN /\ Advance(o, [run[o] EXCEPT !.todo = @ \ {k}, !.ok = run[o].ok /\ bucket[k] = run[o].build])
               /\ UNCHANGED <<bucket, started, overlapped, last>>
          ELSE Finish(o, run[o].ok /\ bucket[k] = run[o].build)
  BY DEF ReadBack
<1>3. run[o].ok \in BOOLEAN /\ run[o].todo \subseteq Keys
  BY <1>1 DEF Runs
<1>4. CASE run[o].todo = {k}
  <2>1. Finish(o, run[o].ok /\ bucket[k] = run[o].build)
    BY <1>2, <1>4
  <2>2. run[o].ok /\ last.by = o /\ last.build = run[o].build => Matches(run[o].build)
    BY <1>1 DEF StoreInv, Compared
  <2>3. (run[o].ok /\ bucket[k] = run[o].build) \in BOOLEAN
    OBVIOUS
  <2>4. QED
    BY <1>1, <2>1, <2>2, <2>3, FinishStep
<1>5. CASE run[o].todo # {k}
  <2>1. PICK r : r = [run[o] EXCEPT !.todo = @ \ {k}, !.ok = run[o].ok /\ bucket[k] = run[o].build]
    OBVIOUS
  <2>2. /\ r.mode = run[o].mode /\ r.build = run[o].build /\ r.pc = "readback"
        /\ r.ok => run[o].ok
    BY <1>1, <2>1 DEF Runs
  <2>3. r \in Runs /\ r # NotRunning
    <3>1. r \in Runs
      BY <1>1, <1>3, <2>1 DEF Runs
    <3>2. QED
      BY <3>1, StoreTypes DEF StoreInv
  <2>4. Advance(o, r) /\ UNCHANGED <<bucket, started, overlapped, last>>
    BY <1>2, <1>5, <2>1
  <2>5. Knows(r)
    BY <2>2 DEF Knows
  <2>6. QED
    BY <1>1, <2>2, <2>3, <2>4, <2>5, ReadStep
<1>6. QED
  BY <1>4, <1>5

LEMMA StopStep ==
  ASSUME StoreInv, NEW o \in Operators, Stop(o)
  PROVE  StoreInv'
<1>1. /\ run[o] # NotRunning /\ Advance(o, NotRunning) /\ UNCHANGED <<bucket, started, overlapped, last>>
      /\ NotRunning.pc # "readback"
  BY DEF Stop, NotRunning
<1>2. QED
  BY <1>1, ReadStep

LEMMA StoreStart == StoreInit => StoreInv
<1> SUFFICES ASSUME StoreInit PROVE StoreInv
  OBVIOUS
<1>1. StoreTypeOK
  <2>1. started = 0 /\ overlapped = FALSE /\ last = NoWriter
    BY DEF StoreInit
  <2>2. MaxRuns \in Nat
    BY StoreAssumption DEF StoreAssumption
  <2>3. started \in 0..MaxRuns
    BY <2>1, <2>2
  <2>4. bucket \in [Keys -> Builds \cup {NoObject}] /\ run \in [Operators -> {NotRunning}]
    BY DEF StoreInit
  <2>5. QED
    BY <2>1, <2>3, <2>4 DEF StoreTypeOK
<1>2. (\A o \in Operators : run[o] = NotRunning) /\ (\A k \in Keys : bucket[k] = NoObject) /\ last.done = FALSE
  BY DEF StoreInit, NoWriter
<1>3. Compared /\ DoneMeansExact /\ Alone /\ \A o \in Operators : run[o] # NotRunning => Knows(run[o])
  <2>1. NotRunning.pc # "readback"
    BY DEF NotRunning
  <2>2. QED
    BY <1>2, <2>1 DEF Compared, DoneMeansExact, Alone
<1>4. Referenced /\ Whole
  BY <1>2, KeyKinds, NoObjects DEF Referenced, Whole
<1>5. QED
  BY <1>1, <1>3, <1>4 DEF StoreInv

LEMMA StoreStep == StoreInv /\ [StoreNext]_storeVars => StoreInv'
<1> SUFFICES ASSUME StoreInv, [StoreNext]_storeVars PROVE StoreInv'
  OBVIOUS
<1>1. CASE UNCHANGED storeVars
  BY <1>1 DEF storeVars, StoreInv, StoreTypeOK, Compared, Matches, DoneMeansExact, Alone, Knows, Listing,
     Referenced, Whole
<1>2. ASSUME NEW o \in Operators, NEW mode \in Modes, NEW b \in Builds \cup {NoObject}, Start(o, mode, b)
      PROVE  StoreInv'
  BY <1>2, StartStep
<1>3. ASSUME NEW o \in Operators, ReadLive(o) \/ Put(o) \/ TakeOffline(o)
      PROVE  StoreInv'
  BY <1>3, ReadLiveStep, PutStep, TakeOfflineStep
<1>4. ASSUME NEW o \in Operators, ListStale(o) \/ Delete(o)
      PROVE  StoreInv'
  BY <1>4, ListStaleStep, DeleteStep
<1>5. ASSUME NEW o \in Operators, VerifyListing(o) \/ ReadBack(o) \/ Stop(o)
      PROVE  StoreInv'
  BY <1>5, VerifyListingStep, ReadBackStep, StopStep
<1>6. QED
  BY <1>1, <1>2, <1>3, <1>4, <1>5 DEF StoreNext

LEMMA StoreAlways == StoreSpec => []StoreInv
BY StoreStart, StoreStep, PTL DEF StoreSpec

-----------------------------------------------------------------------------
(* The theorems.                                                           *)

\* Variables have their types: keys hold builds, runs are where the script can be.
THEOREM TypeCorrect == StoreSpec => []StoreTypeOK
<1>1. StoreInv => StoreTypeOK
  BY DEF StoreInv
<1>2. QED
  BY <1>1, StoreAlways, PTL

\* Readers find the articles an index lists, and the records and the universe
\* an article names, at every moment of publishes, rollbacks and unpublishes
\* that do not overlap, wherever one of them stopped (upload_store.py orders
\* uploads so that what is referred to comes first, deletes the other way).
THEOREM ReadersFindReferences == StoreSpec => []NothingDangles
<1>1. StoreInv => NothingDangles
  BY DEF StoreInv, Referenced, NothingDangles
<1>2. QED
  BY <1>1, StoreAlways, PTL

\* While current.json names a build, all objects of that build are there.
THEOREM CurrentStaysWhole == StoreSpec => []CurrentIsWhole
<1>1. StoreInv => CurrentIsWhole
  BY DEF StoreInv, Whole, CurrentIsWhole
<1>2. QED
  BY <1>1, StoreAlways, PTL

\* A run that wrote last and ended done left exactly its build, however runs overlapped.
THEOREM DoneRunsAreExact == StoreSpec => []DoneMeansExact
<1>1. StoreInv => DoneMeansExact
  BY DEF StoreInv
<1>2. QED
  BY <1>1, StoreAlways, PTL

\* The live build gets older only by a run of --rollback-to: what --store read
\* of current.json still bounds it when current.json is written.
THEOREM OnlyRollbacksGoBack == StoreSpec => OnlyRollbackGoesBack
<1> DEFINE Back ==
      (~overlapped /\ bucket'[Current] # NoObject /\ bucket'[Current] < bucket[Current])
        => \E o \in Operators : run[o] # NotRunning /\ run[o].mode = "rollback"
<1>1. StoreInv /\ [StoreNext]_storeVars => [Back]_storeVars
  <2> SUFFICES ASSUME StoreInv, StoreNext, ~overlapped, bucket'[Current] # NoObject, bucket'[Current] < bucket[Current]
               PROVE  \E o \in Operators : run[o] # NotRunning /\ run[o].mode = "rollback"
    OBVIOUS
  <2>1. bucket[Current] \in Nat
    BY StoreTypes, KeyKinds, BuildNumbers DEF StoreInv
  <2>2. bucket'[Current] # bucket[Current]
    BY <2>1
  <2>3. ASSUME NEW o \in Operators, NEW k \in Keys, NEW v, Write(o, k, v)
        PROVE  k = Current /\ bucket'[Current] = v
    BY <2>2, <2>3, KeyKinds DEF Write, StoreInv, StoreTypeOK
  <2>4. PICK o \in Operators : Put(o) \/ TakeOffline(o) \/ Delete(o)
    BY <2>2 DEF StoreNext, Start, ReadLive, ListStale, VerifyListing, ReadBack, Finish, Stop
  <2>5. run[o] \in Runs /\ run[o] # NotRunning
    BY <2>4, StoreTypes DEF StoreInv, Put, TakeOffline, Delete
  <2>6. CASE Put(o)
    <3>1. run[o].pc = "uploads" /\ Knows(run[o])
      BY <2>5, <2>6 DEF Put, StoreInv
    <3>2. PICK k \in NextUpload(run[o].todo) : Write(o, k, run[o].build)
      BY <2>6 DEF Put
    <3>3. k \in Keys
      BY <2>5, <3>2 DEF NextUpload, Runs
    <3>4. bucket'[Current] = run[o].build
      BY <2>3, <3>2, <3>3
    <3>5. run[o].build \in Nat
      BY <2>5, BuildNumbers DEF Runs
    <3>6. run[o].mode # "store"
      BY <2>1, <3>1, <3>4, <3>5 DEF Knows
    <3>7. run[o].mode # "unpublish"
      <4>1. run[o].build # NoObject
        BY <3>1 DEF Knows
      <4>2. QED
        BY <2>5, <4>1 DEF StoreInv, Compared
    <3>8. QED
      BY <2>5, <3>6, <3>7 DEF Runs, Modes
  <2>7. CASE TakeOffline(o)
    <3>1. Write(o, Current, NoObject)
      BY <2>2, <2>7 DEF TakeOffline
    <3>2. QED
      BY <2>3, <3>1, KeyKinds
  <2>8. CASE Delete(o)
    <3>1. PICK k \in NextDelete(run[o].todo) : Write(o, k, NoObject)
      BY <2>8 DEF Delete
    <3>2. k \in Keys
      BY <2>5, <3>1 DEF NextDelete, Runs
    <3>3. QED
      BY <2>3, <3>1, <3>2
  <2>9. QED
    BY <2>4, <2>6, <2>7, <2>8
<1>2. QED
  BY <1>1, StoreAlways, PTL DEF StoreSpec, OnlyRollbackGoesBack
=============================================================================
