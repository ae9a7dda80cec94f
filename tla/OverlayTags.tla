----------------------------- MODULE OverlayTags -----------------------------
(***************************************************************************)
(* The community overlay of the articles plane (wiki/src/articles.ts): one  *)
(* D1 row per pair of a passage and a declaration, added, changed, removed  *)
(* and restored by people and by their agents, under a compare-and-set on   *)
(* the row's version.  A write takes several awaited steps, and requests    *)
(* run side by side.                                                        *)
(*                                                                         *)
(* Left out: relations and notes, reasons, campaigns and everything else    *)
(* copied from the store, bursts (the rate limiters), the site's brake, the *)
(* two tiers (one cap) and the end of the day: every row is of today.       *)
(***************************************************************************)
EXTENDS Integers, FiniteSets

CONSTANTS
  Users,         \* people and agents
  AccountOf,     \* an agent's owner; a person's own account
  Pairs,         \* pair_keys
  Located,       \* pairs the sealed store has a location for
  TagRequests,   \* requests served at a time
  DailyCap,      \* rows an account may have written in a day
  MaxVersion     \* bound on the version of a row

ASSUME TagsAssumption ==
  /\ "nobody" \notin Users
  /\ AccountOf \in [Users -> Users] /\ \A u \in Users : AccountOf[AccountOf[u]] = AccountOf[u]
  /\ Located \subseteq Pairs /\ IsFiniteSet(Pairs) /\ IsFiniteSet(TagRequests)
  /\ DailyCap \in Nat \ {0} /\ MaxVersion \in Nat

VARIABLES
  tags,    \* article_tags: each pair's row, version 0 where there is none
  agreed,  \* user_agreements: accounts that accepted the CC0 terms
  tagging  \* requests in progress

tagVars == <<tags, agreed, tagging>>

Nobody == "nobody"
Agents == {u \in Users : AccountOf[u] # u}
NoRow == [version |-> 0, by |-> Nobody, removedBy |-> Nobody]
Rows == [version : 1..MaxVersion, by : Users, removedBy : Users \cup {Nobody}]
Live(row) == row.version > 0 /\ row.removedBy = Nobody
Waiting == [pc |-> "idle"]
Unseen == [version |-> 0]

\* "tag" adds or changes a row; "live" and "removed" are states it is set to.
Intents == {"tag", "live", "removed"}

TagTypeOK ==
  /\ tags \in [Pairs -> {NoRow} \cup Rows]
  /\ agreed \subseteq {AccountOf[u] : u \in Users}
  /\ tagging \in [TagRequests -> {Waiting} \cup
       [pc : {"loaded", "counted", "looked", "agreed"}, user : Users, pair : Pairs, intent : Intents,
        seen : {Unseen, NoRow} \cup Rows, current : 0..MaxVersion]]

TagInit ==
  /\ tags = [k \in Pairs |-> NoRow]
  /\ agreed = {}
  /\ tagging = [r \in TagRequests |-> Waiting]

-----------------------------------------------------------------------------

Proceed(r, pc) == tagging' = [tagging EXCEPT ![r].pc = pc]
Refuse(r) == tagging' = [tagging EXCEPT ![r] = Waiting]

\* A client shows the article and its overlay; later it posts an edit of what it
\* showed.  An agent must say which version it read, a page may.
Load(r, u, k, intent) ==
  /\ tagging[r] = Waiting
  /\ \E seen \in {tags[k]} \cup (IF u \in Agents THEN {} ELSE {Unseen}) :
       tagging' = [tagging EXCEPT ![r] =
         [pc |-> "loaded", user |-> u, pair |-> k, intent |-> intent,
          seen |-> seen, current |-> 0]]
  /\ UNCHANGED <<tags, agreed>>

\* The rows the account, the person and their agents, last wrote or removed.
WrittenBy(account) ==
  {k \in Pairs : /\ tags[k].version > 0
                 /\ \E u \in {tags[k].by, tags[k].removedBy} \ {Nobody} : AccountOf[u] = account}

\* Mutant: the cap is not looked at.
NoAllowance(account) == TRUE

Allowed(account) == Cardinality(WrittenBy(account)) < DailyCap

CountToday(r) ==
  /\ tagging[r].pc = "loaded"
  /\ IF Allowed(AccountOf[tagging[r].user]) THEN Proceed(r, "counted") ELSE Refuse(r)
  /\ UNCHANGED <<tags, agreed>>

\* Mutant: an agent may take over what a person wrote.
AgentMayEditAny(user, row) == TRUE

\* A person's live row is not an agent's to change.
MayEdit(user, row) == ~(user \in Agents /\ Live(row) /\ row.by \notin Agents)

\* Mutant: the version the client read is not compared.
BaseIgnored(q, row) == TRUE

BaseMatches(q, row) == q.seen # Unseen => q.seen.version = row.version

\* There is a row, or a location of the store, to set the state of.
Exists(q, row) == q.intent = "tag" \/ row.version > 0 \/ q.pair \in Located

Examine(r) ==
  LET q == tagging[r]  row == tags[q.pair]
  IN /\ q.pc = "counted"
     /\ IF Exists(q, row) /\ MayEdit(q.user, row) /\ BaseMatches(q, row)
          THEN tagging' = [tagging EXCEPT ![r].pc = "looked", ![r].current = row.version]
          ELSE Refuse(r)
     /\ UNCHANGED <<tags, agreed>>

\* A person may accept the terms with this edit.
CanAgree(user) == user \notin Agents

RequireAgreement(r) ==
  LET q == tagging[r]
  IN /\ q.pc = "looked"
     /\ \/ (AccountOf[q.user] \in agreed \/ CanAgree(q.user)) /\ Proceed(r, "agreed")
        \/ AccountOf[q.user] \notin agreed /\ Refuse(r)
     /\ UNCHANGED <<tags, agreed>>

\* A tag is the user's; a state is set on the row as it is, or, where the store
\* has the location, on a row copied from there.
Written(q, row) ==
  [version |-> row.version + 1,
   by |-> IF q.intent = "tag" \/ row.version = 0 THEN q.user ELSE row.by,
   removedBy |-> IF q.intent = "removed" THEN q.user ELSE Nobody]

\* Mutant: the write does not compare the version.
AnyRow(q, row) == TRUE

\* The upsert's and the update's condition; for a row that was missing, that it
\* still is.
SameRow(q, row) == row.version = q.current

\* One batch: the row, if it still is the one that was read, and in any case the
\* agreement of a person who gave it.
WriteRow(r) ==
  LET q == tagging[r]  row == tags[q.pair]
  IN /\ q.pc = "agreed" /\ row.version < MaxVersion
     /\ tags' = IF SameRow(q, row) THEN [tags EXCEPT ![q.pair] = Written(q, row)] ELSE tags
     /\ agreed' = IF CanAgree(q.user) THEN agreed \cup {AccountOf[q.user]} ELSE agreed
     /\ Refuse(r)

\* An await rejects, or the client goes away before it posts.
Abort(r) ==
  /\ tagging[r] # Waiting
  /\ Refuse(r)
  /\ UNCHANGED <<tags, agreed>>

TagNext ==
  \E r \in TagRequests :
    \/ \E u \in Users, k \in Pairs, intent \in Intents : Load(r, u, k, intent)
    \/ CountToday(r) \/ Examine(r) \/ RequireAgreement(r) \/ WriteRow(r) \/ Abort(r)

TagSpec == TagInit /\ [][TagNext]_tagVars

-----------------------------------------------------------------------------
(* What must hold.                                                         *)

Edits(r, k) == tagging[r].pc = "agreed" /\ tagging[r].pair = k /\ tagging'[r] = Waiting

SparesHumanRows ==
  \A k \in Pairs :
    (Live(tags[k]) /\ tags[k].by \notin Agents /\ tags'[k] # tags[k])
      => \E r \in TagRequests : Edits(r, k) /\ tagging[r].user \notin Agents

\* No agent changes, removes or replaces a row that a person wrote and that is
\* live, whatever happens between its look at the row and its write.
HumanRowsStand == [][SparesHumanRows]_tagVars

ReplacesSeen ==
  \A k \in Pairs : tags'[k] # tags[k] =>
    \E r \in TagRequests : Edits(r, k) /\ tagging[r].seen \in {Unseen, tags[k]}

\* An edit that says what it read replaces just that: no other edit came in
\* between the page and the write, and none that was undone again.
ReplacesWhatWasSeen == [][ReplacesSeen]_tagVars

\* Whoever wrote or removed a row, the account behind has accepted the terms: no
\* agent's write comes before its owner's agreement.
RowsAreAgreed ==
  \A k \in Pairs, u \in Users : u \in {tags[k].by, tags[k].removedBy} => AccountOf[u] \in agreed

\* The cap of a day is read before the write: an account exceeds it by no more
\* than the requests it has under way.
RowsBounded ==
  \A account \in Users :
    Cardinality(WrittenBy(account))
      + Cardinality({r \in TagRequests : /\ tagging[r].pc \in {"counted", "looked", "agreed"}
                                         /\ AccountOf[tagging[r].user] = account})
      <= DailyCap + Cardinality(TagRequests) - 1
=============================================================================
