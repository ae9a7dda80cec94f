-------------------------- MODULE AnnotationRules --------------------------
(***************************************************************************)
(* The annotations of one article and what a write of each kind may make   *)
(* of them: validation.ts (findLostHuman, stampProvenance, findMatch),     *)
(* proposals.ts (applyProposalFields) and the provenance rules of the save *)
(* handler in index.ts.                                                    *)
(*                                                                         *)
(* An annotation is what the rules tell apart: the statement it is         *)
(* anchored on (anchorSig), a content (every other field but id and        *)
(* provenance, the status included) and a provenance.  An article maps     *)
(* each annotation id to an annotation or to NoAnn: a write may give an id *)
(* another anchor.  An item posted without an id shows up under the id     *)
(* healAnnotationIds gives it: its twin's when no other item claims it     *)
(* (the same as posting that id), else one nothing was stored under.       *)
(***************************************************************************)
CONSTANTS
  AnnIds,       \* ids an annotation of this article may carry
  Anchors,      \* the statements of the article
  Contents,     \* what an annotation may say
  Tombstones,   \* the contents whose status is 'rejected'
  NoAnn         \* "no annotation under this id"

Provenances == {"human", "ai", "ai-moderated"}
Annotation  == [anchor : Anchors, content : Contents, prov : Provenances]
Snapshot    == [AnnIds -> Annotation \cup {NoAnn}]
Empty       == [a \in AnnIds |-> NoAnn]

ASSUME AnnotationAssumption ==
  /\ Tombstones \subseteq Contents
  /\ NoAnn \notin Annotation

Human(a) == a # NoAnn /\ a.prov = "human"
Live(a)  == a # NoAnn /\ a.content \notin Tombstones

-----------------------------------------------------------------------------
(* What a save may make of the stored annotations s.                       *)

Keeps(s, f, a) == s[a] # NoAnn /\ f[a] = s[a]
Drops(f, a)    == f[a] = NoAnn
IsNew(s, f, a) == s[a] = NoAnn /\ f[a] # NoAnn

\* An id keeps its annotation but another anchor or content is posted under it.
Rewrites(s, f, a) ==
  /\ s[a] # NoAnn /\ f[a] # NoAnn
  /\ <<f[a].anchor, f[a].content>> # <<s[a].anchor, s[a].content>>

\* findMatch of an item x without an id: what is stored on its statement.
Twins(s, x) == {b \in AnnIds : s[b] # NoAnn /\ s[b].anchor = x.anchor}

\* The statements a person's tombstone is on.
Vetoed(s) == {s[b].anchor : b \in {d \in AnnIds : Human(s[d]) /\ ~Live(s[d])}}

\* Mutant: tombstones are not protected.
LiveHumansKept(s, f) ==
  \A a \in AnnIds : (Human(s[a]) /\ Live(s[a])) => f[a] = s[a]

\* findLostHuman: an AI save keeps every human annotation, tombstones too.
HumansKept(s, f) == \A a \in AnnIds : Human(s[a]) => f[a] = s[a]

\* Mutant: posted provenance is believed.
BotFinalsBelieved(s) == {f \in Snapshot : HumansKept(s, f)}

\* A pipeline save: provenance 'human' survives only where findMatch pairs
\* the posted item with a human one: by id, or (an item posted without an id,
\* which then gets a fresh one) by the statement it is anchored on.
BotFinals(s) ==
  {f \in Snapshot :
     /\ HumansKept(s, f)
     /\ \A a \in AnnIds : Human(f[a]) =>
          Human(s[a]) \/ (s[a] = NoAnn /\ \E b \in Twins(s, f[a]) : Human(s[b]))}

\* An agent's save: what it adds or changes is 'ai', and what it adds may not
\* be live on a vetoed statement.  An item under a stored id is not looked up,
\* whatever anchor it now carries.
AgentFinals(s) ==
  {f \in Snapshot :
     /\ HumansKept(s, f)
     /\ \A a \in AnnIds :
          \/ Keeps(s, f, a) \/ Drops(f, a)
          \/ Rewrites(s, f, a) /\ f[a].prov = "ai"
          \/ /\ IsNew(s, f, a) /\ f[a].prov = "ai"
             /\ Live(f[a]) => f[a].anchor \notin Vetoed(s)}

\* A person's save: what changes or is new becomes 'human', what does not
\* keeps its provenance (an exact copy without an id keeps its twin's).
SessionFinals(s) ==
  {f \in Snapshot : \A a \in AnnIds :
     \/ Keeps(s, f, a) \/ Drops(f, a)
     \/ (Rewrites(s, f, a) \/ IsNew(s, f, a)) /\ Human(f[a])
     \/ IsNew(s, f, a) /\ \E b \in Twins(s, f[a]) : f[a] = s[b]}

\* Applying a delta, which never holds an anchor: a person's approval makes it
\* 'human'; the pipeline's relabels a human annotation 'ai-moderated' and never
\* mints 'human'.
Applied(old, to, who) ==
  [anchor |-> old.anchor, content |-> to,
   prov |-> IF who = "person" THEN "human"
            ELSE IF old.prov = "human" THEN "ai-moderated" ELSE old.prov]
=============================================================================
