----------------------------- MODULE LyricsReviews -----------------------------
(***************************************************************************)
(* The private review items of the lyrics source pipeline and the ledger   *)
(* of the decisions taken on them.  The domain key is a digest of kind,    *)
(* analysis, song, fingerprint and evidence, so a table of items is a      *)
(* function from keys to rows; a key without a row has state "absent".     *)
(* A candidate item carries the candidates to choose from (none when the   *)
(* scan itself was in doubt), an artifact item the one that was fetched.   *)
(***************************************************************************)
EXTENDS LyricsJobs

CONSTANTS
    Gates,      \* the separately decidable gates of an artifact item
    Keys,       \* (actor, idempotency key) pairs of the administrators
    NoRequest   \* no request has used the key

ReviewKeys ==
    [kind : {"candidate"}, music : Music, fp : Fingerprints,
     cands : {S \in SUBSET Candidates : Cardinality(S) # 1}]
      \cup
    [kind : {"artifact"}, music : Music, fp : Fingerprints,
     cands : {{c} : c \in Candidates}]

ReviewProvider(k) ==
    IF k.kind = "candidate" THEN Fandom
    ELSE ProviderOf[CHOOSE c \in Candidates : k.cands = {c}]

ReviewStates == {"absent", "pending", "approved", "rejected", "superseded"}

Items == [state : ReviewStates, version : Nat,
          gates : [Gates -> {"n/a", "pending", "approved", "rejected"}]]

\* The requests that can be recorded for the items ks: the version of each item
\* that was decided, and what became of it.
RequestsOn(ks) == [gate : Gates \cup {"candidate", "overall"},
                   decision : {"selected", "excluded", "approved", "rejected"},
                   seen : [ks -> Nat], answer : [ks -> Items]]

ASSUME ReviewsAssumption ==
    /\ "candidate" \notin Gates /\ "overall" \notin Gates
    /\ \A ks \in SUBSET ReviewKeys : NoRequest \notin RequestsOn(ks)

NoReview == [state |-> "absent", version |-> 0, gates |-> [g \in Gates |-> "n/a"]]

FreshReview(k) ==
    [state |-> "pending", version |-> 1,
     gates |-> [g \in Gates |-> IF k.kind = "artifact" THEN "pending" ELSE "n/a"]]

Supersede(row) == [row EXCEPT !.state = "superseded", !.version = @ + 1]

\* createLyricsSourceReviewTx for each key of ks: pending items of another
\* generation of the same song end, then INSERT ... ON CONFLICT DO NOTHING.
CreateReviews(table, ks) ==
    [k \in ReviewKeys |->
        IF k \in ks /\ table[k].state = "absent" THEN FreshReview(k)
        ELSE IF /\ table[k].state = "pending"
                /\ \E n \in ks : /\ n.kind = k.kind /\ n.music = k.music
                                 /\ ReviewProvider(n) = ReviewProvider(k)
                                 /\ n.fp # k.fp
        THEN Supersede(table[k]) ELSE table[k]]

\* A catalog row that changes ends the song's pending items of every kind
\* and provider whose fingerprint is not the new one.
SupersedeStale(table, m, fp) ==
    [k \in ReviewKeys |->
        IF k.music = m /\ k.fp # fp /\ table[k].state = "pending"
        THEN Supersede(table[k]) ELSE table[k]]

-----------------------------------------------------------------------------
(* Decisions.  A request names the items it decides, each with the version *)
(* the administrator saw.                                                  *)

\* What a decision makes of an item.
Decided(row, gate, decision) ==
    LET gates == [g \in Gates |-> IF gate \in {g, "overall"}
                                  THEN decision ELSE row.gates[g]]
    IN  [version |-> row.version + 1, gates |-> gates,
         state |-> CASE decision = "selected" -> "approved"
                     [] decision \in {"excluded", "rejected"} -> "rejected"
                     [] \A g \in Gates : gates[g] = "approved" -> "approved"
                     [] OTHER -> row.state]

\* The conditions under which a request may change item k.
Decidable(k, row, gate, version) ==
    /\ row.state = "pending" /\ row.version = version
    /\ IF gate = "candidate" THEN k.kind = "candidate"
       ELSE /\ k.kind = "artifact"
            /\ gate \in Gates => row.gates[gate] = "pending"

\* The ledger rows on item k: one per request that decided it.
DecisionsOn(ledger, k) ==
    {ledger[i] : i \in {j \in Keys : /\ ledger[j] # NoRequest
                                     /\ k \in DOMAIN ledger[j].seen}}

\* The item after version v - 1, with what the ledger says was decided on it.
Rebuild(ledger, k, v, item) ==
    LET ds == {d \in DecisionsOn(ledger, k) : d.seen[k] + 1 = v}
    IN  IF ds = {} THEN item
        ELSE LET d == CHOOSE x \in ds : TRUE
             IN  [Decided(item, d.gate, d.decision) EXCEPT !.version = v]

\* The item at every version so far, from its creation on.
History(ledger, k, version) ==
    LET item[v \in 1..version] ==
            IF v = 1 THEN FreshReview(k) ELSE Rebuild(ledger, k, v, item[v - 1])
    IN  item

\* A mistaken form of the next operator: the item as it is now.
CurrentItem(ledger, k, row, version) == row

\* loadLyricsSourceReviewItemAtVersion: the item as the decision that made
\* this version left it, rebuilt from the ledger once the item has moved on.
ItemAtVersion(ledger, k, row, version) ==
    IF row.version = version THEN row ELSE History(ledger, k, version)[version]
=============================================================================
