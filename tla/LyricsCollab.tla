----------------------------- MODULE LyricsCollab -----------------------------
(***************************************************************************)
(* Collaborative editing of one song.  Peers edit a shared document in a   *)
(* room; a room has an epoch, and the durable row of the song (snapshot    *)
(* and update log) accepts updates of its own epoch only.  A checkpoint    *)
(* turns the shared draft into the authoritative lyrics; whoever changes   *)
(* the lyrics otherwise retires the room and seeds a new epoch.            *)
(*                                                                         *)
(* A shared document is a CRDT: its text is the set of edits it holds, and *)
(* merging is union; its "revision" key is written by the server alone, so *)
(* the later value wins.  opMu serialises the operations of the service,   *)
(* which take several steps each; the lyrics store, the connections and    *)
(* the ygo server (external) do not take it.                               *)
(***************************************************************************)
EXTENDS LyricsAuthority

CONSTANTS
    Peers,      \* browser connections, each of them one at a time
    NoPeer,
    MaxEpoch,   \* bound: epochs of the room
    MaxRev,     \* bound: revisions of the lyrics
    MaxFaults   \* bound: restarts, revocations and restores

ASSUME CollabAssumption ==
    /\ MaxEpoch \in Nat \ {0} /\ MaxRev \in Nat /\ MaxFaults \in Nat
    /\ NoPeer \notin Peers

VARIABLES
    doc,        \* the authoritative lyrics
    row,        \* lyrics_collab_documents and _updates of the song
    live,       \* epoch -> the room in memory, or Closed
    peer,       \* connection -> where it is
    op,         \* the operation that holds opMu
    resets,     \* handlers that have changed doc and owe a replacement
    typed,      \* edit -> epoch of the room it was typed in, 0 if none
    faults

vars == <<doc, row, live, peer, op, resets, typed, faults>>

Epochs == 1..MaxEpoch
Closed == [at |-> "closed", edits |-> {}, rev |-> 0, queued |-> {}]
Out == [at |-> "out", epoch |-> 0]
Free == [at |-> "free", seen |-> Fingerprint(Blank), epoch |-> 0, edits |-> {},
         rev |-> 0, from |-> NoPeer]

\* The durable row seeded from authority a; epoch 0 means that there is none.
Seed(e, a) == [epoch |-> e, base |-> a, snap |-> a.content, rev |-> a.rev, log |-> {}]

Durable(r) == r.snap \cup r.log

\* The next epoch of the row, never one that was used before.
NextSeed(r, a) == Seed(r.epoch + 1, a)

\* ensureRoom: the row is there and was made from the lyrics as they are.
InStep == row.epoch > 0 /\ row.base = Fingerprint(doc)

Init ==
    /\ doc \in {Blank, Save(Blank, {}), PublishDocument(Blank, {})}
    /\ row = Seed(0, Fingerprint(Blank))
    /\ live = [e \in Epochs |-> Closed]
    /\ peer = [p \in Peers |-> Out]
    /\ op = Free
    /\ resets = 0
    /\ typed = [x \in Edits |-> 0]
    /\ faults = 0

IsOpen(e) == live[e].at = "open"

Fault == faults < MaxFaults /\ faults' = faults + 1

\* Epochs that n more replacements may take, within the bound.
EpochsLeft(n) ==
    row.epoch + resets + (IF op.at \in {"free", "close", "adopt"} THEN 0 ELSE 1) + n <= MaxEpoch

-----------------------------------------------------------------------------
(* The ygo server, as the service uses it.                                 *)

\* A mistaken form of the next operator: the epoch is not compared.
AcceptedUnfenced(e) == IF IsOpen(e) THEN live[e].queued ELSE {}

\* What StoreUpdate accepts of the queue of room e: nothing of another epoch.
Accepted(e) == IF IsOpen(e) /\ row.epoch = e THEN live[e].queued ELSE {}

\* CloseRoom of each of the rooms es: the queue is drained, peers dropped.
Dropped(es) ==
    [p \in Peers |-> IF peer[p].at = "in" /\ peer[p].epoch \in es THEN Out ELSE peer[p]]

CloseLive(es) ==
    /\ row' = [row EXCEPT !.log = @ \cup UNION {Accepted(e) : e \in es}]
    /\ live' = [e \in Epochs |-> IF e \in es /\ IsOpen(e) THEN Closed ELSE live[e]]

CloseRooms(es) == CloseLive(es) /\ peer' = Dropped(es)

\* A mistaken form of the next operator: nothing is ever frozen.
NeverRetiring(e) == FALSE

\* While a first save freezes its epoch, no room of it can be opened.
Retiring(e) ==
    op.at \in {"freeze", "copy", "save"} /\ op.seen.rev = 0 /\ op.epoch = e

\* An admitted connection joins the room; the first one has it loaded.
Join(p) ==
    /\ peer[p].at = "admitted" /\ IsOpen(peer[p].epoch)
    /\ peer' = [peer EXCEPT ![p].at = "in"]
    /\ UNCHANGED <<doc, row, live, op, resets, typed, faults>>

LoadDoc(p) ==
    LET e == peer[p].epoch
    IN  /\ peer[p].at = "admitted" /\ live[e].at = "closed"
        /\ IF row.epoch = e
           THEN /\ live' = [live EXCEPT ![e] = [Closed EXCEPT !.at = "loading",
                                !.edits = Durable(row), !.rev = row.rev]]
                /\ UNCHANGED peer
           ELSE peer' = [peer EXCEPT ![p] = Out] /\ UNCHANGED live
        /\ UNCHANGED <<doc, row, op, resets, typed, faults>>

\* OnLoadDocument ends the loading; a retiring room is refused.
Open(e) ==
    /\ live[e].at = "loading"
    /\ IF Retiring(e)
       THEN /\ live' = [live EXCEPT ![e] = Closed]
            /\ peer' = [p \in Peers |-> IF peer[p].at = "admitted" /\ peer[p].epoch = e
                                        THEN Out ELSE peer[p]]
       ELSE live' = [live EXCEPT ![e].at = "open"] /\ UNCHANGED peer
    /\ UNCHANGED <<doc, row, op, resets, typed, faults>>

Type(p, x) ==
    LET e == peer[p].epoch
    IN  /\ peer[p].at = "in" /\ typed[x] = 0 /\ x \notin doc.content
        /\ typed' = [typed EXCEPT ![x] = e]
        /\ live' = [live EXCEPT ![e].edits = @ \cup {x}, ![e].queued = @ \cup {x}]
        /\ UNCHANGED <<doc, row, peer, op, resets, faults>>

\* The persistence worker stores the queue, or has it refused.
Flush(e) ==
    /\ live[e].queued # {}
    /\ row' = [row EXCEPT !.log = @ \cup Accepted(e)]
    /\ live' = [live EXCEPT ![e].queued = {}]
    /\ UNCHANGED <<doc, peer, op, resets, typed, faults>>

Compact(e) ==
    /\ IsOpen(e) /\ row.epoch = e /\ row.log # {}
    /\ row' = [row EXCEPT !.snap = @ \cup row.log, !.log = {}]
    /\ UNCHANGED <<doc, live, peer, op, resets, typed, faults>>

\* An idle room is flushed and evicted.
Evict(e) ==
    /\ IsOpen(e) /\ \A p \in Peers : ~(peer[p].at = "in" /\ peer[p].epoch = e)
    /\ CloseRooms({e})
    /\ UNCHANGED <<doc, op, resets, typed, faults>>

Leave(p) ==
    /\ peer[p].at # "out"
    /\ peer' = [peer EXCEPT ![p] = Out]
    /\ UNCHANGED <<doc, row, live, op, resets, typed, faults>>

-----------------------------------------------------------------------------
(* Tickets and connections.                                                *)

\* A ticket for the room as it is; a missing row is created, and a row that
\* is out of step is reseeded first.
IssueTicket(p) ==
    /\ op.at = "free" /\ peer[p].at = "out" /\ (InStep \/ EpochsLeft(1))
    /\ IF row.epoch > 0 /\ ~InStep
       THEN op' = [Free EXCEPT !.at = "reseed", !.seen = Fingerprint(doc), !.from = p]
            /\ UNCHANGED <<row, peer>>
       ELSE /\ row' = IF row.epoch = 0 THEN Seed(1, Fingerprint(doc)) ELSE row
            /\ peer' = [peer EXCEPT ![p] = [Out EXCEPT !.at = "ticket", !.epoch = row'.epoch]]
            /\ UNCHANGED op
    /\ UNCHANGED <<doc, live, resets, typed, faults>>

\* The first upgrade consumes the ticket, before it waits for opMu.
ConsumeTicket(p) ==
    /\ peer[p].at = "ticket"
    /\ peer' = [peer EXCEPT ![p].at = "granted"]
    /\ UNCHANGED <<doc, row, live, op, resets, typed, faults>>

Authorize(p) ==
    /\ peer[p].at = "granted" /\ op.at = "free"
    /\ peer' = [peer EXCEPT ![p] = IF InStep /\ row.epoch = peer[p].epoch
                                   THEN [@ EXCEPT !.at = "admitted"] ELSE Out]
    /\ UNCHANGED <<doc, row, live, op, resets, typed, faults>>

\* revalidateConnection, for the epoch: the room of an old one is closed.
Revalidate(p) ==
    /\ peer[p].at = "in" /\ peer[p].epoch # row.epoch
    /\ CloseRooms({peer[p].epoch})
    /\ UNCHANGED <<doc, op, resets, typed, faults>>

\* RevokeUser, or a revalidation that finds the account or gate changed.
Revoke(p) ==
    /\ peer[p].at = "in"
    /\ CloseRooms({peer[p].epoch})
    /\ Fault
    /\ UNCHANGED <<doc, op, resets, typed>>

-----------------------------------------------------------------------------
(* A replacement of the room by the lyrics as they are, under opMu.        *)

\* The handler that changed the lyrics gets opMu and reads them.
BeginReplace ==
    /\ resets > 0 /\ op.at = "free"
    /\ resets' = resets - 1
    /\ op' = [Free EXCEPT !.at = "reseed", !.seen = Fingerprint(doc)]
    /\ UNCHANGED <<doc, row, live, peer, typed, faults>>

\* The transaction that seeds the next epoch; unused tickets are withdrawn.
NoTickets == [p \in Peers |-> IF peer[p].at = "ticket" THEN Out ELSE peer[p]]

Reseed ==
    /\ op.at = "reseed"
    /\ row' = NextSeed(row, op.seen)
    /\ peer' = NoTickets
    /\ op' = [op EXCEPT !.at = "close", !.epoch = row.epoch + 1]
    /\ UNCHANGED <<doc, live, resets, typed, faults>>

\* Every other room is closed; a ticket that asked for this is issued now.
CloseRetired ==
    LET es == Epochs \ {op.epoch}
    IN  /\ op.at = "close"
        /\ CloseLive(es)
        /\ peer' = IF op.from # NoPeer /\ InStep
                   THEN [Dropped(es) EXCEPT ![op.from] =
                            [Out EXCEPT !.at = "ticket", !.epoch = row.epoch]]
                   ELSE Dropped(es)
        /\ op' = Free
        /\ UNCHANGED <<doc, resets, typed, faults>>

\* RetireAll, which follows a restore while every editor is still shut out.
RetireAll ==
    /\ op.at = "retire"
    /\ row' = IF row.epoch = 0 THEN row ELSE NextSeed(row, Fingerprint(doc))
    /\ live' = [e \in Epochs |-> Closed]
    /\ peer' = [p \in Peers |-> IF peer[p].at = "ticket" THEN Out ELSE Dropped(Epochs)[p]]
    /\ op' = Free
    /\ UNCHANGED <<doc, resets, typed, faults>>

\* An operation ends early: a conflict, a failed statement or close, a timeout.
Abandon ==
    /\ op.at # "free"
    /\ op' = Free
    /\ UNCHANGED <<doc, row, live, peer, resets, typed, faults>>

-----------------------------------------------------------------------------
(* A checkpoint of the shared draft, under opMu.                           *)

\* The first save of a song retires the whole epoch before it reads the draft.
BeginCheckpoint ==
    /\ op.at = "free" /\ InStep /\ (row.base.rev > 0 \/ EpochsLeft(1))
    /\ op' = [Free EXCEPT !.at = IF row.base.rev = 0 THEN "freeze" ELSE "copy",
                          !.seen = row.base, !.epoch = row.epoch]
    /\ peer' = IF row.base.rev = 0 THEN NoTickets ELSE peer
    /\ UNCHANGED <<doc, row, live, resets, typed, faults>>

Freeze ==
    /\ op.at = "freeze"
    /\ CloseRooms({op.epoch})
    /\ op' = IF row.epoch = op.epoch THEN [op EXCEPT !.at = "copy"] ELSE Free
    /\ UNCHANGED <<doc, resets, typed, faults>>

\* The draft: the room's if it is open, else the durable one, if it is still
\* of the epoch and base read first.  Its revision must be the authority's.
Copy ==
    LET e == op.epoch
        fresh == row.epoch = e /\ row.base = op.seen
        draft == IF IsOpen(e) THEN live[e] ELSE [edits |-> Durable(row), rev |-> row.rev]
    IN  /\ op.at = "copy"
        /\ IsOpen(e) \/ fresh
        /\ draft.rev = op.seen.rev
        /\ op' = [op EXCEPT !.at = "save", !.edits = draft.edits, !.rev = draft.rev]
        /\ UNCHANGED <<doc, row, live, peer, resets, typed, faults>>

\* A mistaken form of the next operator: the encoding taken before replaces the
\* snapshot and the log.
OverwrittenRow(d, encoded) ==
    [row EXCEPT !.base = Fingerprint(d), !.rev = d.rev, !.snap = encoded, !.log = {}]

\* commitCheckpointTx: what is stored by now is merged with the encoding.
CheckpointedRow(d, encoded) ==
    [row EXCEPT !.base = Fingerprint(d), !.rev = d.rev,
                !.snap = Durable(row) \cup encoded, !.log = {}]

\* A mistaken form of the next operator: the store does not compare revisions.
SaveUnchecked == op.seen.kind = doc.kind

\* What the store requires of the draft: it is of the stored kind and revision.
SaveAllowed == op.seen.kind = doc.kind /\ op.rev = doc.rev

\* The transaction that saves the lyrics and advances the row.  The room may
\* have more edits by now, and the encoding may hold them; the lyrics do not.
SaveCheckpoint ==
    LET changed == op.edits # doc.content \/ doc.rev = 0
        new == IF changed THEN Save(doc, op.edits) ELSE doc
    IN  /\ op.at = "save" /\ SaveAllowed /\ new.rev <= MaxRev
        /\ row.epoch = op.epoch /\ row.base = op.seen
        /\ doc' = new
        /\ \E encoded \in {op.edits, op.edits \cup live[op.epoch].edits} :
               row' = IF op.seen.rev = 0 THEN NextSeed(row, Fingerprint(new))
                                         ELSE CheckpointedRow(new, encoded)
        /\ op' = IF changed /\ op.seen.rev > 0
                 THEN [op EXCEPT !.at = "adopt", !.rev = new.rev] ELSE Free
        /\ UNCHANGED <<live, peer, resets, typed, faults>>

\* The open room takes the new revision; when it cannot, it is closed.
Adopt ==
    /\ op.at = "adopt"
    /\ \/ /\ live' = IF IsOpen(op.epoch) THEN [live EXCEPT ![op.epoch].rev = op.rev] ELSE live
          /\ UNCHANGED <<row, peer>>
       \/ IsOpen(op.epoch) /\ CloseRooms({op.epoch})
    /\ op' = Free
    /\ UNCHANGED <<doc, resets, typed, faults>>

-----------------------------------------------------------------------------
(* The other handlers that change the lyrics.  They hold the song's lock,  *)
(* never opMu, and call for a replacement after their commit.              *)

NotRestoring == op.at # "retire"

Owe == resets' = resets + 1

\* handleLyricsSave, of either kind.
DirectSave(x) ==
    /\ NotRestoring /\ doc.rev < MaxRev /\ EpochsLeft(1)
    /\ x \notin doc.content /\ typed[x] = 0
    /\ doc' = Save(doc, doc.content \cup {x})
    /\ Owe /\ UNCHANGED <<row, live, peer, op, typed, faults>>

PublishLyrics ==
    /\ NotRestoring /\ EpochsLeft(1)
    /\ doc.kind = "legacy" /\ doc.rev > 0 /\ Publish(doc) # doc
    /\ doc' = Publish(doc)
    /\ Owe /\ UNCHANGED <<row, live, peer, op, typed, faults>>

UnpublishLyrics ==
    /\ NotRestoring /\ EpochsLeft(1)
    /\ doc.kind = "legacy" /\ doc.rev > 0 /\ Unpublish(doc) # doc
    /\ doc' = Unpublish(doc)
    /\ Owe /\ UNCHANGED <<row, live, peer, op, typed, faults>>

\* Source-v3 songs: neither of these two replaces the room.
SetSourceV3LyricsWithdrawn(withdrawn) ==
    /\ NotRestoring /\ doc.kind = "v3" /\ doc.withdrawn # withdrawn
    /\ doc' = SetWithdrawn(doc, withdrawn)
    /\ UNCHANGED <<row, live, peer, op, resets, typed, faults>>

MutateLyricsTranslationEdition ==
    /\ NotRestoring /\ doc.kind = "v3" /\ doc.rev < MaxRev
    /\ doc' = Save(doc, doc.content)
    /\ UNCHANGED <<row, live, peer, op, resets, typed, faults>>

\* The epoch is taken away in the transaction that swaps the document.
Fence == row' = IF row.epoch = 0 THEN row ELSE [row EXCEPT !.epoch = @ + 1, !.log = {}]

PublishLyricsDocument ==
    /\ NotRestoring /\ NextRevision(doc) <= MaxRev /\ EpochsLeft(2)
    /\ doc' = PublishDocument(doc, {})
    /\ Fence
    /\ Owe /\ UNCHANGED <<live, peer, op, typed, faults>>

\* The restore of a backup, when the gate has drained every editor.
Restore(d) ==
    /\ op.at = "free" /\ resets = 0
    /\ \A p \in Peers : peer[p].at \in {"out", "ticket", "granted"}
    /\ EpochsLeft(2) /\ Fault
    /\ doc' = d
    /\ Fence
    /\ op' = [Free EXCEPT !.at = "retire"]
    /\ UNCHANGED <<live, peer, resets, typed>>

\* The process ends and starts again: what was only queued is lost.
Restart ==
    /\ Fault
    /\ live' = [e \in Epochs |-> Closed]
    /\ peer' = [p \in Peers |-> Out]
    /\ op' = Free
    /\ resets' = 0
    /\ typed' = [x \in Edits |-> IF \E e \in Epochs : x \in live[e].queued THEN 0 ELSE typed[x]]
    /\ UNCHANGED <<doc, row>>

-----------------------------------------------------------------------------
PeerStep(p) ==
    \/ Join(p) \/ LoadDoc(p) \/ Leave(p) \/ IssueTicket(p)
    \/ ConsumeTicket(p) \/ Authorize(p) \/ Revalidate(p) \/ Revoke(p)
    \/ \E x \in Edits : Type(p, x)

RoomStep(e) == Open(e) \/ Flush(e) \/ Compact(e) \/ Evict(e)

Operation ==
    \/ BeginReplace \/ Reseed \/ CloseRetired \/ RetireAll \/ Abandon
    \/ BeginCheckpoint \/ Freeze \/ Copy \/ SaveCheckpoint \/ Adopt

StoreStep ==
    \/ \E x \in Edits : DirectSave(x)
    \/ PublishLyrics \/ UnpublishLyrics
    \/ \E withdrawn \in BOOLEAN : SetSourceV3LyricsWithdrawn(withdrawn)
    \/ MutateLyricsTranslationEdition \/ PublishLyricsDocument
    \/ \E d \in {Blank, Save(Blank, {})} : Restore(d)
    \/ Restart

Next ==
    \/ \E p \in Peers : PeerStep(p)
    \/ \E e \in Epochs : RoomStep(e)
    \/ Operation
    \/ StoreStep

Spec == Init /\ [][Next]_vars

-----------------------------------------------------------------------------
\* Type correctness: no room, ticket or operation is ahead of the epoch of the
\* row, and, after publish, unpublish, withdrawal, save, takeover and restore
\* in any order, "a publication row and a withdrawal never coexist" (IsDocument).
TypeOK ==
    /\ IsDocument(doc)
    /\ row.epoch \in 0..MaxEpoch /\ Durable(row) \subseteq Edits /\ row.rev \in Nat
    /\ \A e \in Epochs : /\ live[e].queued \subseteq live[e].edits
                         /\ live[e].edits \subseteq Edits
                         /\ live[e].at # "closed" => e <= row.epoch
    /\ \A p \in Peers : peer[p].epoch <= row.epoch
    /\ op.epoch <= row.epoch
    /\ resets \in Nat /\ faults \in 0..MaxFaults
    /\ typed \in [Edits -> 0..MaxEpoch]

\* What a peer typed in the current room is stored or still queued there,
\* whatever loads, compactions, evictions, closes and checkpoints happened
\* since (commitCheckpointTx: "never write that potentially stale encoding
\* over a newer compacted snapshot").
TypedKept ==
    \A x \in Edits : typed[x] = row.epoch /\ row.epoch > 0 =>
        x \in Durable(row) \cup live[row.epoch].queued

\* A room that has been retired cannot write into the one that replaced it:
\* while the epoch stays, only text typed in that epoch becomes durable.
RetiredInert ==
    [][row'.epoch = row.epoch =>
          \A x \in Durable(row') \ Durable(row) : typed[x] = row.epoch]_vars

\* The first save of a song, which discards the room it came from, has every
\* edit the room accepted ("no update can enter later", Checkpoint).
FirstSaveComplete ==
    [][op.at = "save" /\ op' # op /\ row'.epoch # row.epoch =>
          Durable(row) \cup live[row.epoch].edits \subseteq doc'.content]_vars

\* A checkpoint never undoes a save, an import or a takeover that was
\* committed between the reading of the draft and the checkpoint's own save.
CheckpointOnlyAdds ==
    [][op.at = "save" /\ op' # op => doc.content \subseteq doc'.content]_vars
=============================================================================
