---------------------------- MODULE LyricsAuthority ----------------------------
(***************************************************************************)
(* The authoritative lyrics of one song in SQLite and the transactions     *)
(* that change them.  Text is abstracted to the set of edits it holds.  A  *)
(* song without a document is the blank one, of revision 0; a legacy       *)
(* document has a publication row, a source-v3 one is served unless the    *)
(* song is withdrawn.  Every transaction runs under the song's lock and    *)
(* first compares the revision the request was made on.                    *)
(***************************************************************************)
EXTENDS Integers, FiniteSets, FiniteSetsExt

CONSTANTS
    Edits,          \* the edits anybody may make
    BundleRevision  \* revision of the song in the embedded bundle, 0 if none

ASSUME BundleAssumption == BundleRevision \in Nat

\* Publish and unpublish keep the publication row and the marker apart.
IsDocument(d) ==
    /\ d \in [kind : {"legacy", "v3"}, rev : Nat, content : SUBSET Edits,
              pub : Nat, withdrawn : BOOLEAN]
    /\ d.pub <= d.rev
    /\ d.withdrawn => d.pub = 0

Blank == [kind |-> "legacy", rev |-> 0, content |-> {}, pub |-> 0, withdrawn |-> FALSE]

\* What canonicalDocument hashes: the document as the API returns it.  The
\* withdrawal marker is not a part of it.
Fingerprint(d) == [kind |-> d.kind, rev |-> d.rev, content |-> d.content, pub |-> d.pub]

\* A save, of either kind, that changes the text.
Save(d, content) == [d EXCEPT !.rev = @ + 1, !.content = content]

\* A mistaken form of the next operator: the withdrawal is left in place.
PublishWithdrawn(d) == [d EXCEPT !.pub = d.rev]

Publish(d) == [d EXCEPT !.pub = d.rev, !.withdrawn = FALSE]

Unpublish(d) == [d EXCEPT !.pub = 0, !.withdrawn = TRUE]

\* SetSourceV3LyricsWithdrawn: the marker alone decides.
SetWithdrawn(d, withdrawn) == [d EXCEPT !.withdrawn = withdrawn]

\* nextRevision: above every revision stored or bundled, and above 1.
NextRevision(d) == Max({d.rev, d.pub, BundleRevision, 1}) + 1

\* replaceTx: every row of the song is swapped for one source-v3 document.
PublishDocument(d, content) ==
    [kind |-> "v3", rev |-> NextRevision(d), content |-> content,
     pub |-> 0, withdrawn |-> FALSE]
=============================================================================
