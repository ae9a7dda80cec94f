---------------------------- MODULE ArticlesStore ----------------------------
(***************************************************************************)
(* The bucket of the published articles store, and the runs of             *)
(* scripts/articles/upload_store.py that write it (--store, --rollback-to, *)
(* --unpublish).  Objects are overwritten in place under fixed keys and    *)
(* the bucket has no transaction: what readers may rely on is the order of *)
(* the writes.  A run may stop at any request, and the request it stops at *)
(* may have taken effect or not.                                           *)
(*                                                                         *)
(* Left out: signing, faulty listings, ETags that are not those of the     *)
(* bytes sent, keys the script refuses to touch, dry runs (they write      *)
(* nothing); marked pages and the manifest object, which are ranked and    *)
(* replaced as the records and the index are.                              *)
(***************************************************************************)
EXTENDS Integers, FiniteSets

CONSTANTS
  Operators,   \* people who may run the script
  Builds,      \* built stores, numbered in the order of built_at
  Pages,       \* Wikipedia pages
  Universes,   \* frozen library universes, by their sha
  PagesOf,     \* the pages of a build
  UniverseOf,  \* the universe a build was made against
  MaxRuns      \* bound on the runs of the script

ASSUME StoreAssumption ==
  /\ Builds \subseteq Nat \ {0} /\ MaxRuns \in Nat
  /\ PagesOf \in [Builds -> SUBSET Pages] /\ UniverseOf \in [Builds -> Universes]

VARIABLES
  bucket,      \* object key -> the build whose bytes it holds, or NoObject
  run,         \* each operator's run of the script
  started,     \* runs started so far
  overlapped,  \* two runs have been under way at once
  last         \* the run that wrote last, its build, and whether it ended done

storeVars == <<bucket, run, started, overlapped, last>>

NoObject == 0
Current == <<"current">>
Keys == {<<"universe", u>> : u \in Universes}
          \cup {<<kind, p>> : kind \in {"records", "article"}, p \in Pages}
          \cup {<<"index">>, Current}

\* What a build, or none of them, puts in the bucket.
Objects(b) ==
  IF b = NoObject THEN {}
  ELSE {<<"universe", UniverseOf[b]>>, <<"index">>, Current}
         \cup {<<kind, p>> : kind \in {"records", "article"}, p \in PagesOf[b]}

\* Mutant: keys outside the prefix are taken for the store's.
UnfilteredListing == {k \in Keys : bucket[k] # NoObject} \cup {<<"foreign">>}

Listing == {k \in Keys : bucket[k] # NoObject}

\* Mutant: what refers to others goes first.
ReversedRank(k) ==
  CASE k[1] = "universe" -> 3 [] k[1] = "records" -> 2 [] k[1] = "article" -> 1
    [] k[1] = "index" -> 0 [] k[1] = "current" -> 4

\* Mutant: current.json goes up first.
SwitchFirstRank(k) ==
  CASE k[1] = "universe" -> 1 [] k[1] = "records" -> 2 [] k[1] = "article" -> 3
    [] k[1] = "index" -> 4 [] k[1] = "current" -> 0

UploadRank(k) ==
  CASE k[1] = "universe" -> 0 [] k[1] = "records" -> 1 [] k[1] = "article" -> 2
    [] k[1] = "index" -> 3 [] k[1] = "current" -> 4

NextUpload(S) == {k \in S : \A j \in S : UploadRank(k) <= UploadRank(j)}
NextDelete(S) == {k \in S : \A j \in S : UploadRank(k) >= UploadRank(j)}

NotRunning == [pc |-> "idle"]
NoWriter == [by |-> "nobody", build |-> NoObject, done |-> FALSE]
Modes == {"store", "rollback", "unpublish"}

StoreTypeOK ==
  /\ bucket \in [Keys -> Builds \cup {NoObject}]
  /\ run \in [Operators -> {NotRunning} \cup
       [pc : {"listed", "uploads", "unpublish", "listing", "deletes", "verify", "readback"},
        mode : Modes, build : Builds \cup {NoObject}, live : BOOLEAN,
        todo : SUBSET Keys, ok : BOOLEAN]]
  /\ started \in 0..MaxRuns /\ overlapped \in BOOLEAN
  /\ last \in {NoWriter} \cup [by : Operators, build : Builds \cup {NoObject}, done : BOOLEAN]

StoreInit ==
  /\ bucket = [k \in Keys |-> NoObject]
  /\ run = [o \in Operators |-> NotRunning]
  /\ started = 0 /\ overlapped = FALSE /\ last = NoWriter

-----------------------------------------------------------------------------
(* A run, request by request.                                              *)

Advance(o, r) == run' = [run EXCEPT ![o] = r]

\* The planning listing, which says whether current.json is there.
Start(o, mode, b) ==
  /\ run[o] = NotRunning /\ started < MaxRuns
  /\ mode = "unpublish" <=> b = NoObject
  /\ Advance(o, [pc |-> "listed", mode |-> mode, build |-> b, live |-> Current \in Listing,
              todo |-> Objects(b), ok |-> TRUE])
  /\ started' = started + 1
  /\ overlapped' = (overlapped \/ \E q \in Operators : run[q] # NotRunning)
  /\ UNCHANGED <<bucket, last>>

\* Mutant: the two modes are not told apart.
AnyDirection(mode, new, live) == TRUE

\* --store publishes nothing older than the live build, --rollback-to nothing
\* newer; with no live build there is no direction.
RightDirection(mode, new, live) ==
  live = NoObject \/ mode = "unpublish" \/ (IF mode = "store" THEN live <= new ELSE new <= live)

\* current.json is read if it was listed; a run in the wrong direction is
\* refused with nothing written.
ReadLive(o) ==
  LET r == run[o]
      live == IF r.live THEN bucket[Current] ELSE NoObject
  IN /\ r.pc = "listed"
     /\ Advance(o, IF RightDirection(r.mode, r.build, live)
                  THEN [r EXCEPT !.pc = IF r.mode = "unpublish" THEN "unpublish" ELSE "uploads"]
                  ELSE NotRunning)
     /\ UNCHANGED <<bucket, started, overlapped, last>>

Write(o, k, value) ==
  /\ bucket' = [bucket EXCEPT ![k] = value]
  /\ last' = [by |-> o, build |-> run[o].build, done |-> FALSE]
  /\ UNCHANGED <<started, overlapped>>

Put(o) ==
  LET r == run[o]
  IN /\ r.pc = "uploads"
     /\ \E k \in NextUpload(r.todo) :
          /\ Write(o, k, r.build)
          /\ Advance(o, [r EXCEPT !.todo = @ \ {k}, !.pc = IF r.todo = {k} THEN "listing" ELSE @])

\* --unpublish takes current.json away first, if the plan saw it.
TakeOffline(o) ==
  LET r == run[o]
  IN /\ r.pc = "unpublish"
     /\ Advance(o, [r EXCEPT !.pc = "listing"])
     /\ \/ r.live /\ Write(o, Current, NoObject)
        \/ ~r.live /\ UNCHANGED <<bucket, started, overlapped, last>>

\* A fresh listing: what the build does not list is to go.
ListStale(o) ==
  LET r == run[o]  stale == Listing \ Objects(r.build)
  IN /\ r.pc = "listing"
     /\ Advance(o, [r EXCEPT !.todo = stale, !.pc = IF stale = {} THEN "verify" ELSE "deletes"])
     /\ UNCHANGED <<bucket, started, overlapped, last>>

Delete(o) ==
  LET r == run[o]
  IN /\ r.pc = "deletes"
     /\ \E k \in NextDelete(r.todo) :
          /\ Write(o, k, NoObject)
          /\ Advance(o, [r EXCEPT !.todo = @ \ {k}, !.pc = IF r.todo = {k} THEN "verify" ELSE @])

Finish(o, ok) ==
  /\ Advance(o, NotRunning)
  /\ last' = IF ok /\ last.by = o /\ last.build = run[o].build
               THEN [last EXCEPT !.done = TRUE] ELSE last
  /\ UNCHANGED <<bucket, started, overlapped>>

\* Mutant: what the manifest does not list is not looked for.
ListsAll(b) == \A k \in Objects(b) : bucket[k] = b

Matches(b) == \A k \in Keys : bucket[k] = IF k \in Objects(b) THEN b ELSE NoObject

\* The final listing: after a publish every size and ETag is compared, nothing
\* may be missing or extra; after --unpublish nothing may be left.
VerifyListing(o) ==
  LET r == run[o]
  IN /\ r.pc = "verify"
     /\ IF r.mode = "unpublish"
          THEN Finish(o, Listing = {})
          ELSE /\ Advance(o, [r EXCEPT !.pc = "readback", !.ok = Matches(r.build), !.todo = Objects(r.build)])
               /\ UNCHANGED <<bucket, started, overlapped, last>>

\* Every object is read back; the run is done only if all was as it should be.
ReadBack(o) ==
  LET r == run[o]
  IN /\ r.pc = "readback"
     /\ \E k \in NextUpload(r.todo) :
          LET ok == r.ok /\ bucket[k] = r.build
          IN IF r.todo # {k}
               THEN /\ Advance(o, [r EXCEPT !.todo = @ \ {k}, !.ok = ok])
                    /\ UNCHANGED <<bucket, started, overlapped, last>>
               ELSE Finish(o, ok)

\* A request fails after its retries, or the operator interrupts: the last
\* write may have reached the bucket.
Stop(o) ==
  /\ run[o] # NotRunning
  /\ Advance(o, NotRunning)
  /\ UNCHANGED <<bucket, started, overlapped, last>>

StoreNext ==
  \E o \in Operators :
    \/ \E mode \in Modes, b \in Builds \cup {NoObject} : Start(o, mode, b)
    \/ ReadLive(o) \/ Put(o) \/ TakeOffline(o) \/ ListStale(o) \/ Delete(o)
    \/ VerifyListing(o) \/ ReadBack(o) \/ Stop(o)

StoreSpec == StoreInit /\ [][StoreNext]_storeVars

-----------------------------------------------------------------------------
(* What must hold.  Readers take every object by its key, at any moment, so *)
(* the first two speak of every state of the bucket, runs that stopped      *)
(* half-way included; they assume one run at a time.                        *)

\* What an object of the bucket refers to is in the bucket: the articles an
\* index lists, and the records and the universe an article names.
NothingDangles ==
  ~overlapped =>
    /\ bucket[<<"index">>] # NoObject =>
         \A p \in PagesOf[bucket[<<"index">>]] : bucket[<<"article", p>>] # NoObject
    /\ \A p \in Pages :
         bucket[<<"article", p>>] # NoObject =>
           /\ bucket[<<"records", p>>] # NoObject
           /\ bucket[<<"universe", UniverseOf[bucket[<<"article", p>>]]>>] # NoObject

\* While current.json names a build every object of that build is there,
\* though a publish under way may have replaced its bytes.
CurrentIsWhole ==
  ~overlapped => \A k \in Objects(bucket[Current]) : bucket[k] # NoObject

\* The run that wrote last and ended done left exactly its build, or nothing,
\* whatever other runs did beside it.
DoneMeansExact ==
  last.done => \A k \in Keys : bucket[k] = IF k \in Objects(last.build) THEN last.build ELSE NoObject

\* A live build is replaced by an older one only by --rollback-to.
OnlyRollbackGoesBack ==
  [][ (~overlapped /\ bucket'[Current] # NoObject /\ bucket'[Current] < bucket[Current])
        => \E o \in Operators : run[o] # NotRunning /\ run[o].mode = "rollback" ]_storeVars
=============================================================================
