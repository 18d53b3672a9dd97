-------------------------- MODULE LyricsCollabProofs --------------------------
(***************************************************************************)
(* Proofs about collaborative editing, for any number of connections,      *)
(* edits, epochs, revisions and faults.                                    *)
(***************************************************************************)
EXTENDS LyricsCollab, TLAPS

Authorities == [kind : {"legacy", "v3"}, rev : Nat, content : SUBSET Edits, pub : Nat]

\* A source-v3 document has no publication row.
Documents == {d \in [kind : {"legacy", "v3"}, rev : Nat, content : SUBSET Edits,
                     pub : Nat, withdrawn : BOOLEAN] :
                 IsDocument(d) /\ (d.kind = "v3" => d.pub = 0)}

Rows == [epoch : 0..MaxEpoch, base : Authorities, snap : SUBSET Edits, rev : Nat,
         log : SUBSET Edits]

Rooms == [at : {"closed", "loading", "open"}, edits : SUBSET Edits, rev : Nat,
          queued : SUBSET Edits]

Places == [at : {"out", "ticket", "granted", "admitted", "in"}, epoch : 0..MaxEpoch]

Operations == [at : {"free", "reseed", "close", "retire", "freeze", "copy", "save", "adopt"},
               seen : Authorities, epoch : 0..MaxEpoch, edits : SUBSET Edits, rev : Nat,
               from : Peers \cup {NoPeer}]

Types ==
    /\ doc \in Documents
    /\ row \in Rows
    /\ live \in [Epochs -> Rooms]
    /\ peer \in [Peers -> Places]
    /\ op \in Operations
    /\ resets \in Nat /\ faults \in 0..MaxFaults
    /\ typed \in [Edits -> 0..MaxEpoch]

\* An operation that is going to take an epoch, and one that checkpoints.
TakesEpoch == \/ op.at \in {"reseed", "retire"}
              \/ op.at \in {"freeze", "copy", "save"} /\ op.seen.rev = 0
Checkpoints == op.at \in {"freeze", "copy", "save"}

\* The epochs that are owed fit the bound, and nothing is of a later epoch
\* than the row.
EpochOrder ==
    /\ row.epoch + resets + (IF TakesEpoch THEN 1 ELSE 0) <= MaxEpoch
    /\ \A e \in Epochs : live[e].at # "closed" => e <= row.epoch
    /\ \A p \in Peers : /\ peer[p].epoch <= row.epoch
                        /\ peer[p].at # "out" => peer[p].epoch > 0
    /\ op.epoch <= row.epoch
    /\ \A x \in Edits : typed[x] <= row.epoch

\* Rooms in memory: only an open one has peers and a queue, and a queue holds
\* what was typed in that room.
RoomState ==
    /\ \A e \in Epochs :
        /\ live[e].at = "closed" => live[e] = Closed
        /\ live[e].at # "open" => live[e].queued = {}
        /\ live[e].queued \subseteq live[e].edits
        /\ \A x \in live[e].queued : typed[x] = e
    /\ \A p \in Peers : peer[p].at = "in" => live[peer[p].epoch].at = "open"

\* The row holds the text of the authority it was made from, and the room of
\* its epoch holds what the row holds and what is still queued.
RowState ==
    /\ row.base.content \subseteq row.snap
    /\ row.rev = row.base.rev
    /\ \A e \in Epochs : e = row.epoch /\ live[e].at # "closed" =>
          /\ Durable(row) \subseteq live[e].edits
          /\ live[e].edits \subseteq Durable(row) \cup live[e].queued

\* While a checkpoint runs the authority it began with can only be saved over
\* by a later revision, and its draft has at least the text of that authority.
CheckpointState ==
    /\ Checkpoints \/ op.at = "adopt" => op.epoch \in Epochs
    /\ Checkpoints =>
        /\ row.epoch = op.epoch => row.base = op.seen
        /\ doc.rev >= op.seen.rev
        /\ doc.rev = op.seen.rev => doc.content = op.seen.content
    /\ op.at \in {"freeze", "copy"} /\ live[op.epoch].at # "closed"
          => op.seen.content \subseteq live[op.epoch].edits
    /\ op.at = "save" =>
        /\ op.rev = op.seen.rev
        /\ op.seen.content \subseteq op.edits
        /\ row.epoch = op.epoch => op.edits \subseteq Durable(row) \cup live[op.epoch].queued
    /\ op.at \in {"copy", "save"} /\ op.seen.rev = 0 => live[op.epoch].at # "open"
    /\ op.at = "save" /\ op.seen.rev = 0 /\ row.epoch = op.epoch
          => Durable(row) \subseteq op.edits

IInv == Types /\ EpochOrder /\ RoomState /\ RowState /\ CheckpointState /\ TypedKept

-----------------------------------------------------------------------------
(* Steps of the connections.                                               *)

\* Only the places of the connections change.
LEMMA PeersStep ==
    ASSUME IInv, UNCHANGED <<doc, row, live, op, resets, typed, faults>>,
           peer' \in [Peers -> Places],
           \A p \in Peers : /\ peer'[p].epoch <= row.epoch
                            /\ peer'[p].at # "out" => peer'[p].epoch > 0
                            /\ peer'[p].at = "in" => live[peer'[p].epoch].at = "open"
    PROVE  IInv'
<1>1. Types' /\ TypedKept'
  BY DEF IInv, Types, TypedKept
<1>2. EpochOrder'
  BY DEF IInv, EpochOrder, TakesEpoch
<1>3. RoomState'
  BY DEF IInv, RoomState
<1>4. RowState' /\ CheckpointState'
  BY DEF IInv, RowState, CheckpointState, Checkpoints
<1> QED
  BY <1>1, <1>2, <1>3, <1>4 DEF IInv

\* One connection moves to another place, in an epoch that exists.
LEMMA OnePeerStep ==
    ASSUME IInv, UNCHANGED <<doc, row, live, op, resets, typed, faults>>,
           NEW p \in Peers, NEW q \in Places, peer' = [peer EXCEPT ![p] = q],
           q.epoch <= row.epoch, q.at # "out" => q.epoch > 0,
           q.at = "in" => live[q.epoch].at = "open"
    PROVE  IInv'
<1>1. peer \in [Peers -> Places]
  BY DEF IInv, Types
<1>2. \A r \in Peers : peer'[r] = IF r = p THEN q ELSE peer[r]
  BY <1>1
<1>3. \A r \in Peers : /\ peer[r].epoch <= row.epoch
                       /\ peer[r].at # "out" => peer[r].epoch > 0
                       /\ peer[r].at = "in" => live[peer[r].epoch].at = "open"
  BY DEF IInv, EpochOrder, RoomState
<1>4. peer' \in [Peers -> Places]
  BY <1>1
<1> QED
  BY <1>2, <1>3, <1>4, PeersStep

\* The place of a connection that is not there has its type.
LEMMA OutIsPlace == Out \in Places /\ Out.at = "out" /\ Out.epoch = 0
  BY CollabAssumption DEF Out, Places

\* A connection moves on within its epoch.
LEMMA PlaceAt ==
    ASSUME NEW q \in Places, NEW a \in {"ticket", "granted", "admitted", "in"}
    PROVE  LET r == [q EXCEPT !.at = a] IN r \in Places /\ r.at = a /\ r.epoch = q.epoch
  BY DEF Places

\* A connection consumes its ticket, is authorized, joins its room or leaves.
LEMMA JoinStep ==
    ASSUME IInv, NEW p \in Peers,
           Join(p) \/ Leave(p) \/ ConsumeTicket(p) \/ Authorize(p)
    PROVE  IInv'
<1>1. peer \in [Peers -> Places] /\ row.epoch \in Nat
  BY DEF IInv, Types, Rows
<1>2. UNCHANGED <<doc, row, live, op, resets, typed, faults>>
  BY DEF Join, Leave, ConsumeTicket, Authorize
<1>3. \/ peer' = [peer EXCEPT ![p] = Out]
      \/ /\ peer[p].at # "out"
         /\ \E a \in {"granted", "admitted", "in"} :
               /\ peer' = [peer EXCEPT ![p] = [peer[p] EXCEPT !.at = a]]
               /\ a = "in" => live[peer[p].epoch].at = "open"
  BY <1>1 DEF Join, Leave, ConsumeTicket, Authorize, IsOpen
<1>4. CASE peer' = [peer EXCEPT ![p] = Out]
  <2>1. Out.epoch <= row.epoch
    BY <1>1, OutIsPlace
  <2>2. ~(Out.at # "out") /\ ~(Out.at = "in")
    BY OutIsPlace
  <2> QED
    BY <1>2, <1>4, <2>1, <2>2, OutIsPlace, OnePeerStep
<1>5. ASSUME NEW a \in {"granted", "admitted", "in"}, peer[p].at # "out",
             peer' = [peer EXCEPT ![p] = [peer[p] EXCEPT !.at = a]],
             a = "in" => live[peer[p].epoch].at = "open"
      PROVE  IInv'
  <2> DEFINE q == [peer[p] EXCEPT !.at = a]
  <2>1. q \in Places /\ q.at = a /\ q.epoch = peer[p].epoch
    <3>1. peer[p] \in Places /\ a \in {"ticket", "granted", "admitted", "in"}
      BY <1>1
    <3> QED
      BY <3>1, PlaceAt
  <2>2. q.epoch <= row.epoch /\ q.epoch > 0
    BY <1>5, <2>1 DEF IInv, EpochOrder
  <2> HIDE DEF q
  <2> QED
    BY <1>2, <1>5, <2>1, <2>2, OnePeerStep DEF q
<1> QED
  BY <1>3, <1>4, <1>5

-----------------------------------------------------------------------------
(* Rooms are closed.                                                       *)

\* A closed room is empty and has nothing queued.
LEMMA ClosedIsRoom ==
    /\ Closed \in Rooms /\ Closed.at = "closed"
    /\ Closed.queued = {} /\ Closed.edits = {}
  BY DEF Closed, Rooms

\* What closing rooms does to the row and to the rooms: what is stored or
\* queued of the present epoch stays stored or queued.
LEMMA CloseKeeps ==
    ASSUME IInv, NEW es \in SUBSET Epochs, CloseLive(es), typed' = typed
    PROVE  /\ row' \in Rows /\ row'.epoch = row.epoch /\ row'.base = row.base
           /\ row'.snap = row.snap /\ row'.rev = row.rev
           /\ live' \in [Epochs -> Rooms]
           /\ \A e \in Epochs : live'[e] = IF e \in es /\ live[e].at = "open"
                                           THEN Closed ELSE live[e]
           /\ Durable(row) \subseteq Durable(row')
           /\ \A e \in Epochs : e = row.epoch =>
                 Durable(row) \cup live[e].queued = Durable(row') \cup live'[e].queued
           /\ RowState' /\ TypedKept'
           /\ \A x \in Durable(row') \ Durable(row) : typed[x] = row.epoch
<1> DEFINE more == UNION {Accepted(e) : e \in es}
<1>1. row \in Rows /\ live \in [Epochs -> Rooms] /\ RowState /\ TypedKept /\ EpochOrder
  BY DEF IInv, Types
<1>2. row' = [row EXCEPT !.log = row.log \cup more]
  BY DEF CloseLive
<1>3. live' = [e \in Epochs |-> IF e \in es /\ live[e].at = "open" THEN Closed ELSE live[e]]
  BY DEF CloseLive, IsOpen
<1>4. row.epoch \in 0..MaxEpoch /\ MaxEpoch \in Nat
  BY <1>1, CollabAssumption DEF Rows
<1>5. more = IF row.epoch \in es /\ live[row.epoch].at = "open"
             THEN live[row.epoch].queued ELSE {}
  BY DEF Accepted, IsOpen
<1>6. more \subseteq Edits
  BY <1>1, <1>5 DEF Rooms
<1> HIDE DEF more
<1>7. /\ row' \in Rows /\ row'.epoch = row.epoch /\ row'.base = row.base
      /\ row'.snap = row.snap /\ row'.rev = row.rev /\ row'.log = row.log \cup more
  <2> DEFINE l == row.log \cup more
  <2>1. l \in SUBSET Edits
    BY <1>1, <1>6 DEF Rows
  <2> HIDE DEF l
  <2>2. row' = [row EXCEPT !.log = l]
    BY <1>2 DEF l
  <2>3. /\ row' \in Rows /\ row'.epoch = row.epoch /\ row'.base = row.base
        /\ row'.snap = row.snap /\ row'.rev = row.rev /\ row'.log = l
    BY <1>1, <2>1, <2>2 DEF Rows
  <2> QED
    BY <2>3 DEF l
<1>8. live' \in [Epochs -> Rooms]
  BY <1>1, <1>3, ClosedIsRoom
<1>9. \A e \in Epochs : live'[e] = IF e \in es /\ live[e].at = "open" THEN Closed ELSE live[e]
  BY <1>3
<1>10. Durable(row') = Durable(row) \cup more
  BY <1>7 DEF Durable
<1>11. \A e \in Epochs : e = row.epoch =>
          Durable(row) \cup live[e].queued = Durable(row') \cup live'[e].queued
  BY <1>5, <1>9, <1>10, ClosedIsRoom
<1>12. RowState'
  <2>1. row'.base.content \subseteq row'.snap /\ row'.rev = row'.base.rev
    BY <1>1, <1>7 DEF RowState
  <2>2. ASSUME NEW e \in Epochs, e = row'.epoch, live'[e].at # "closed"
        PROVE  /\ Durable(row') \subseteq live'[e].edits
               /\ live'[e].edits \subseteq Durable(row') \cup live'[e].queued
    <3>1. live'[e] = live[e] /\ e = row.epoch /\ live[e].at # "closed"
      BY <1>7, <1>9, <2>2, ClosedIsRoom
    <3>2. more = {}
      BY <1>5, <1>9, <2>2, <3>1, ClosedIsRoom
    <3> QED
      BY <1>1, <1>10, <3>1, <3>2 DEF RowState
  <2> QED
    BY <2>1, <2>2 DEF RowState
<1>13. TypedKept'
  <2> SUFFICES ASSUME NEW x \in Edits, typed[x] = row.epoch, row.epoch > 0
               PROVE  x \in Durable(row') \cup live'[row.epoch].queued
    BY <1>7 DEF TypedKept
  <2>1. row.epoch \in Epochs
    BY <1>4 DEF Epochs
  <2>2. x \in Durable(row) \cup live[row.epoch].queued
    BY <1>1 DEF TypedKept
  <2> QED
    BY <1>11, <2>1, <2>2
<1>14. \A x \in more : typed[x] = row.epoch
  BY <1>5 DEF IInv, RoomState
<1> QED
  BY <1>7, <1>8, <1>9, <1>10, <1>11, <1>12, <1>13, <1>14

\* The connections that remain when the rooms of some epochs are closed.
LEMMA DroppedPeers ==
    ASSUME IInv, NEW es
    PROVE  /\ Dropped(es) \in [Peers -> Places]
           /\ \A p \in Peers : \/ Dropped(es)[p] = Out
                              \/ /\ Dropped(es)[p] = peer[p]
                                 /\ peer[p].at = "in" => peer[p].epoch \notin es
  BY OutIsPlace DEF IInv, Types, Dropped

\* Rooms are closed, whoever is in them leaves, and the operation that had
\* this done goes on.
LEMMA ClosingStep ==
    ASSUME IInv, NEW es \in SUBSET Epochs, CloseLive(es),
           UNCHANGED <<doc, resets, typed>>, faults' \in 0..MaxFaults,
           peer' \in [Peers -> Places],
           \A p \in Peers : /\ peer'[p].epoch <= row.epoch
                            /\ peer'[p].at # "out" => peer'[p].epoch > 0
                            /\ peer'[p].at = "in" =>
                                 peer'[p] = peer[p] /\ peer[p].epoch \notin es,
           op' \in Operations, op'.epoch <= row.epoch, TakesEpoch' => TakesEpoch,
           CheckpointState'
    PROVE  IInv'
<1>1. /\ row' \in Rows /\ row'.epoch = row.epoch
      /\ live' \in [Epochs -> Rooms]
      /\ \A e \in Epochs : live'[e] = IF e \in es /\ live[e].at = "open"
                                      THEN Closed ELSE live[e]
      /\ RowState' /\ TypedKept'
  BY CloseKeeps
<1>2. Types'
  BY <1>1 DEF IInv, Types
<1>3. EpochOrder'
  <2>1. row'.epoch + resets' + (IF TakesEpoch' THEN 1 ELSE 0) <= MaxEpoch
    BY <1>1, CollabAssumption DEF IInv, EpochOrder, Types, Rows
  <2>2. \A e \in Epochs : live'[e].at # "closed" => e <= row'.epoch
    BY <1>1, ClosedIsRoom DEF IInv, EpochOrder
  <2>3. \A x \in Edits : typed'[x] <= row'.epoch
    BY <1>1 DEF IInv, EpochOrder
  <2> QED
    BY <1>1, <2>1, <2>2, <2>3 DEF EpochOrder
<1>4. RoomState'
  <2>1. ASSUME NEW e \in Epochs
        PROVE  /\ live'[e].at = "closed" => live'[e] = Closed
               /\ live'[e].at # "open" => live'[e].queued = {}
               /\ live'[e].queued \subseteq live'[e].edits
               /\ \A x \in live'[e].queued : typed'[x] = e
    BY <1>1, ClosedIsRoom DEF IInv, RoomState
  <2>2. ASSUME NEW p \in Peers, peer'[p].at = "in"
        PROVE  live'[peer'[p].epoch].at = "open"
    <3>1. peer'[p] = peer[p] /\ peer[p].epoch \notin es /\ live[peer[p].epoch].at = "open"
      BY <2>2 DEF IInv, RoomState
    <3>2. peer[p].epoch \in Epochs
      BY <2>2, <3>1, CollabAssumption DEF IInv, Types, EpochOrder, Places, Epochs
    <3> QED
      BY <1>1, <3>1, <3>2
  <2> QED
    BY <2>1, <2>2 DEF RoomState
<1> QED
  BY <1>1, <1>2, <1>3, <1>4 DEF IInv

\* Rooms are closed by somebody else than the operation under way.
LEMMA CloseRoomsStep ==
    ASSUME IInv, NEW es \in SUBSET Epochs, CloseRooms(es),
           UNCHANGED <<doc, op, resets, typed>>, faults' \in 0..MaxFaults
    PROVE  IInv'
<1>1. CloseLive(es) /\ peer' = Dropped(es)
  BY DEF CloseRooms
<1>2. /\ row'.epoch = row.epoch /\ row'.base = row.base
      /\ live' \in [Epochs -> Rooms]
      /\ \A e \in Epochs : live'[e] = IF e \in es /\ live[e].at = "open"
                                      THEN Closed ELSE live[e]
      /\ \A e \in Epochs : e = row.epoch =>
             Durable(row) \cup live[e].queued = Durable(row') \cup live'[e].queued
  BY <1>1, CloseKeeps
<1>3. CheckpointState'
  <2>0. CheckpointState /\ RoomState
    BY DEF IInv
  <2>1. CASE op.at \in {"freeze", "copy", "save", "adopt"}
    <3>1. op.epoch \in Epochs
      BY <2>0, <2>1 DEF CheckpointState, Checkpoints
    <3>2. /\ op.at \in {"freeze", "copy"} /\ live'[op.epoch].at # "closed"
                => op.seen.content \subseteq live'[op.epoch].edits
          /\ op.at \in {"copy", "save"} /\ op.seen.rev = 0 => live'[op.epoch].at # "open"
      BY <1>2, <2>0, <3>1, ClosedIsRoom DEF CheckpointState
    <3>3. ASSUME op.at = "save", row.epoch = op.epoch
          PROVE  op.edits \subseteq Durable(row') \cup live'[op.epoch].queued
      BY <1>2, <2>0, <3>1, <3>3 DEF CheckpointState
    <3>4. ASSUME op.at = "save", row.epoch = op.epoch, op.seen.rev = 0
          PROVE  Durable(row') \subseteq op.edits
      <4>1. live[op.epoch].at # "open" /\ Durable(row) \subseteq op.edits
        BY <2>0, <3>4 DEF CheckpointState
      <4>2. live[op.epoch].queued = {}
        BY <2>0, <3>1, <4>1 DEF RoomState
      <4> QED
        BY <1>2, <3>1, <3>4, <4>1, <4>2
    <3> QED
      BY <1>2, <2>0, <3>1, <3>2, <3>3, <3>4 DEF CheckpointState, Checkpoints
  <2>2. CASE op.at \notin {"freeze", "copy", "save", "adopt"}
    BY <2>2 DEF CheckpointState, Checkpoints
  <2> QED
    BY <2>1, <2>2
<1>4. /\ peer' \in [Peers -> Places]
      /\ \A p \in Peers : /\ peer'[p].epoch <= row.epoch
                          /\ peer'[p].at # "out" => peer'[p].epoch > 0
                          /\ peer'[p].at = "in" =>
                                 peer'[p] = peer[p] /\ peer[p].epoch \notin es
  <2>1. \A p \in Peers : /\ peer[p].epoch <= row.epoch
                         /\ peer[p].at # "out" => peer[p].epoch > 0
    BY DEF IInv, EpochOrder
  <2>2. 0 <= row.epoch
    BY CollabAssumption DEF IInv, Types, Rows
  <2> QED
    BY <1>1, <2>1, <2>2, DroppedPeers, OutIsPlace
<1>5. op' \in Operations /\ op'.epoch <= row.epoch /\ (TakesEpoch' => TakesEpoch)
  BY DEF IInv, Types, EpochOrder, TakesEpoch
<1>6. UNCHANGED <<doc, resets, typed>>
  OBVIOUS
<1> QED
  BY <1>1, <1>3, <1>4, <1>5, <1>6, ClosingStep

\* A fault is counted within the bound.
LEMMA FaultBound ==
    ASSUME IInv, Fault
    PROVE  faults' \in 0..MaxFaults
  BY CollabAssumption DEF IInv, Types, Fault

\* The server of the rooms evicts an idle one.
LEMMA EvictStep ==
    ASSUME IInv, NEW e \in Epochs, Evict(e)
    PROVE  IInv'
<1>1. {e} \in SUBSET Epochs /\ faults' \in 0..MaxFaults
  BY DEF Evict, IInv, Types
<1> QED
  BY <1>1, CloseRoomsStep DEF Evict

\* A connection is revalidated, or its session is revoked.
LEMMA RevokeStep ==
    ASSUME IInv, NEW p \in Peers, Revalidate(p) \/ Revoke(p)
    PROVE  IInv'
<1> DEFINE e == peer[p].epoch
<1>1. peer[p].at = "in" /\ CloseRooms({e}) /\ UNCHANGED <<doc, op, resets, typed>>
  BY DEF Revalidate, Revoke
<1>2. {e} \in SUBSET Epochs
  BY <1>1, CollabAssumption DEF IInv, Types, EpochOrder, Places, Epochs
<1>3. faults' \in 0..MaxFaults
  BY FaultBound DEF Revalidate, Revoke, IInv, Types
<1> HIDE DEF e
<1> QED
  BY <1>1, <1>2, <1>3, CloseRoomsStep

-----------------------------------------------------------------------------
(* Frames of the other steps.                                              *)

\* Outside a checkpoint nothing is said of one.
LEMMA NoCheckpoint ==
    ASSUME op'.at \notin {"freeze", "copy", "save", "adopt"}
    PROVE  CheckpointState' /\ ~Checkpoints'
  BY DEF CheckpointState, Checkpoints

\* Neither the row nor a room changes.
LEMMA OperationStep ==
    ASSUME IInv, UNCHANGED <<row, live, typed, faults>>,
           doc' \in Documents, resets' \in Nat, op' \in Operations,
           op'.epoch <= row.epoch, CheckpointState',
           row.epoch + resets' + (IF TakesEpoch' THEN 1 ELSE 0) <= MaxEpoch,
           peer' \in [Peers -> Places],
           \A p \in Peers : /\ peer'[p].epoch <= row.epoch
                            /\ peer'[p].at # "out" => peer'[p].epoch > 0
                            /\ peer'[p].at = "in" => live[peer'[p].epoch].at = "open"
    PROVE  IInv'
<1>1. Types' /\ TypedKept'
  BY DEF IInv, Types, TypedKept
<1>2. EpochOrder'
  BY DEF IInv, EpochOrder
<1>3. RoomState'
  BY DEF IInv, RoomState
<1>4. RowState'
  BY DEF IInv, RowState
<1> QED
  BY <1>1, <1>2, <1>3, <1>4 DEF IInv

\* Connections that stay where they are stay valid.
LEMMA SamePeers ==
    ASSUME IInv, peer' = peer
    PROVE  /\ peer' \in [Peers -> Places]
           /\ \A p \in Peers : /\ peer'[p].epoch <= row.epoch
                               /\ peer'[p].at # "out" => peer'[p].epoch > 0
                               /\ peer'[p].at = "in" => live[peer'[p].epoch].at = "open"
  BY DEF IInv, Types, EpochOrder, RoomState

\* The row moves to its next epoch, in which no room has been opened and
\* nothing typed yet.
LEMMA NewEpochStep ==
    ASSUME IInv, UNCHANGED <<typed>>, row' \in Rows, row'.epoch = row.epoch + 1,
           row'.base.content \subseteq row'.snap, row'.rev = row'.base.rev,
           live' \in [Epochs -> Rooms], \A e \in Epochs : live'[e] \in {live[e], Closed},
           doc' \in Documents, resets' \in Nat, faults' \in 0..MaxFaults,
           op' \in Operations, op'.epoch <= row.epoch + 1, CheckpointState',
           row.epoch + 1 + resets' + (IF TakesEpoch' THEN 1 ELSE 0) <= MaxEpoch,
           peer' \in [Peers -> Places],
           \A p \in Peers : /\ peer'[p].epoch <= row.epoch + 1
                            /\ peer'[p].at # "out" => peer'[p].epoch > 0
                            /\ peer'[p].at = "in" => live'[peer'[p].epoch].at = "open"
    PROVE  IInv'
<1>0. row.epoch \in Nat /\ typed \in [Edits -> 0..MaxEpoch] /\ MaxEpoch \in Nat
  BY CollabAssumption DEF IInv, Types, Rows
<1>1. Types'
  BY DEF IInv, Types
<1>2. EpochOrder'
  <2>1. \A e \in Epochs : live'[e].at # "closed" => e <= row'.epoch
    BY <1>0, ClosedIsRoom, CollabAssumption DEF IInv, EpochOrder, Epochs
  <2>2. \A x \in Edits : typed'[x] <= row'.epoch
    BY <1>0 DEF IInv, EpochOrder
  <2> QED
    BY <2>1, <2>2 DEF EpochOrder
<1>3. RoomState'
  BY ClosedIsRoom DEF IInv, RoomState
<1>4. RowState'
  <2>1. \A e \in Epochs : e = row'.epoch => live'[e].at = "closed"
    BY <1>0, ClosedIsRoom DEF IInv, EpochOrder
  <2> QED
    BY <2>1 DEF RowState
<1>5. TypedKept'
  BY <1>0 DEF IInv, EpochOrder, TypedKept
<1> QED
  BY <1>1, <1>2, <1>3, <1>4, <1>5 DEF IInv

\* The operation that is not under way has its type.
LEMMA FreeIsOperation ==
    Free \in Operations /\ Free.at = "free" /\ Free.epoch = 0
<1>1. Fingerprint(Blank) \in Authorities
  BY DEF Fingerprint, Blank, Authorities
<1> HIDE DEF Fingerprint
<1> QED
  BY <1>1, CollabAssumption DEF Free, Operations

\* The authority of a document: its revision, content and kind.
LEMMA DocFingerprint ==
    ASSUME NEW d \in Documents
    PROVE  /\ Fingerprint(d) \in Authorities
           /\ Fingerprint(d).rev = d.rev /\ Fingerprint(d).content = d.content
           /\ Fingerprint(d).kind = d.kind
  BY DEF Fingerprint, Documents, Authorities

\* A row seeded from an authority has its type.
LEMMA SeedIsRow ==
    ASSUME NEW e \in 0..MaxEpoch, NEW a \in Authorities
    PROVE  /\ Seed(e, a) \in Rows /\ Seed(e, a).epoch = e
           /\ Seed(e, a).base = a /\ Seed(e, a).snap = a.content /\ Seed(e, a).rev = a.rev
  BY DEF Seed, Rows, Authorities

\* The row is seeded anew.
LEMMA SeedStep ==
    ASSUME IInv, NEW a \in Authorities, row' = NextSeed(row, a), row.epoch + 1 <= MaxEpoch
    PROVE  /\ row' \in Rows /\ row'.epoch = row.epoch + 1
           /\ row'.base.content \subseteq row'.snap /\ row'.rev = row'.base.rev
<1>1. row.epoch + 1 \in 0..MaxEpoch
  BY CollabAssumption DEF IInv, Types, Rows
<1>2. row' = Seed(row.epoch + 1, a)
  BY DEF NextSeed
<1> QED
  BY <1>1, <1>2, SeedIsRow

\* An operation returns early, wherever it is.
LEMMA AbandonStep ==
    ASSUME IInv, Abandon
    PROVE  IInv'
<1>1. CheckpointState' /\ ~TakesEpoch' /\ op' \in Operations /\ op'.epoch = 0
  BY FreeIsOperation, NoCheckpoint DEF Abandon, TakesEpoch
<1>2. row.epoch \in Nat /\ resets \in Nat /\ row.epoch + resets <= MaxEpoch
  BY CollabAssumption DEF IInv, Types, Rows, EpochOrder
<1>3. doc' \in Documents
  BY DEF IInv, Types, Abandon
<1>4. resets' \in Nat /\ op'.epoch <= row.epoch
      /\ row.epoch + resets' + (IF TakesEpoch' THEN 1 ELSE 0) <= MaxEpoch
  BY <1>1, <1>2 DEF Abandon
<1>5. UNCHANGED <<row, live, typed, faults>> /\ peer' = peer
  BY DEF Abandon
<1> QED
  BY <1>1, <1>3, <1>4, <1>5, SamePeers, OperationStep

\* An operation moves on within its epoch.
LEMMA OperationAt ==
    ASSUME NEW o \in Operations, NEW a \in {"reseed", "close", "retire", "freeze", "copy",
                                             "save", "adopt"}
    PROVE  LET n == [o EXCEPT !.at = a]
           IN  /\ n \in Operations /\ n.at = a /\ n.epoch = o.epoch /\ n.seen = o.seen
               /\ n.edits = o.edits /\ n.rev = o.rev /\ n.from = o.from
  BY DEF Operations

\* The operation that reads the authority and is going to replace the room.
LEMMA ReseedBegins ==
    ASSUME IInv, NEW q \in Peers \cup {NoPeer},
           op' = [Free EXCEPT !.at = "reseed", !.seen = Fingerprint(doc), !.from = q]
    PROVE  /\ op' \in Operations /\ op'.at = "reseed" /\ op'.epoch = 0
           /\ CheckpointState' /\ TakesEpoch'
<1> DEFINE a == Fingerprint(doc)
<1>1. a \in Authorities
  BY DocFingerprint DEF IInv, Types
<1> HIDE DEF a
<1>2. op' = [Free EXCEPT !.at = "reseed", !.seen = a, !.from = q]
  BY DEF a
<1>3. op' \in Operations /\ op'.at = "reseed" /\ op'.epoch = 0
  BY <1>1, <1>2, FreeIsOperation DEF Operations
<1> QED
  BY <1>3, NoCheckpoint DEF TakesEpoch

\* A ticket is issued for the epoch of the row.
LEMMA IssueTicketStep ==
    ASSUME IInv, NEW p \in Peers, IssueTicket(p)
    PROVE  IInv'
<1>0. /\ row \in Rows /\ row.epoch \in Nat /\ resets \in Nat /\ MaxEpoch \in Nat
      /\ doc \in Documents /\ faults \in 0..MaxFaults
      /\ op \in Operations /\ live \in [Epochs -> Rooms] /\ peer \in [Peers -> Places]
      /\ op.epoch <= row.epoch /\ CheckpointState
      /\ \A r \in Peers : /\ peer[r].epoch <= row.epoch
                          /\ peer[r].at # "out" => peer[r].epoch > 0
                          /\ peer[r].at = "in" => live[peer[r].epoch].at = "open"
  BY CollabAssumption DEF IInv, Types, Rows, EpochOrder, RoomState
<1>1. /\ op.at = "free" /\ UNCHANGED <<doc, live, resets, typed, faults>>
      /\ ~InStep => row.epoch + resets + 1 <= MaxEpoch
  BY <1>0 DEF IssueTicket, EpochsLeft
<1>2. CASE row.epoch > 0 /\ ~InStep
  <2>1. op' = [Free EXCEPT !.at = "reseed", !.seen = Fingerprint(doc), !.from = p]
        /\ UNCHANGED <<row, peer>>
    BY <1>2 DEF IssueTicket
  <2>2. op' \in Operations /\ op'.epoch = 0 /\ CheckpointState'
    BY <2>1, ReseedBegins
  <2>3. row.epoch + resets' + (IF TakesEpoch' THEN 1 ELSE 0) <= MaxEpoch
    BY <1>0, <1>1, <1>2
  <2>4. UNCHANGED <<row, live, typed, faults>> /\ doc' \in Documents
        /\ resets' \in Nat /\ op'.epoch <= row.epoch
    BY <1>0, <1>1, <2>1, <2>2
  <2> QED
    BY <2>1, <2>2, <2>3, <2>4, SamePeers, OperationStep
<1>3. CASE ~(row.epoch > 0 /\ ~InStep)
  <2> DEFINE e == row'.epoch
             q == [Out EXCEPT !.at = "ticket", !.epoch = e]
  <2>1. /\ row' = IF row.epoch = 0 THEN Seed(1, Fingerprint(doc)) ELSE row
        /\ peer' = [peer EXCEPT ![p] = q]
        /\ op' = op
    BY <1>3 DEF IssueTicket
  <2>2. CASE row.epoch = 0
    <3>0. 1 \in 0..MaxEpoch /\ row.epoch + 1 = 1 /\ Fingerprint(doc) \in Authorities
      BY <1>0, <2>2, CollabAssumption, DocFingerprint
    <3>1. /\ row' \in Rows /\ row'.epoch = row.epoch + 1
          /\ row'.base.content \subseteq row'.snap /\ row'.rev = row'.base.rev
      BY <2>1, <2>2, <3>0, SeedIsRow
    <3>2. ~InStep
      BY <2>2 DEF InStep
    <3>3. q \in Places /\ q.at = "ticket" /\ q.epoch = 1
      BY <3>0, <3>1 DEF Out, Places
    <3>4. peer' \in [Peers -> Places] /\ \A r \in Peers : peer'[r] = IF r = p THEN q ELSE peer[r]
      BY <1>0, <2>1, <3>3
    <3>5. ASSUME NEW r \in Peers
          PROVE  /\ peer'[r].epoch <= row.epoch + 1
                 /\ peer'[r].at # "out" => peer'[r].epoch > 0
                 /\ peer'[r].at = "in" => live'[peer'[r].epoch].at = "open"
      <4> HIDE DEF q
      <4>1. CASE r = p
        BY <3>0, <3>3, <3>4, <4>1
      <4>2. CASE r # p
        BY <1>0, <1>1, <2>2, <3>4, <4>2 DEF Places
      <4> QED
        BY <4>1, <4>2
    <3>6. CheckpointState' /\ ~TakesEpoch'
      BY <1>1, <2>1, NoCheckpoint DEF TakesEpoch
    <3>7. row.epoch + 1 + resets' + (IF TakesEpoch' THEN 1 ELSE 0) <= MaxEpoch
      BY <1>0, <1>1, <3>2, <3>6
    <3>8. /\ doc' \in Documents /\ resets' \in Nat /\ faults' \in 0..MaxFaults
          /\ op' \in Operations /\ op'.epoch <= row.epoch + 1 /\ UNCHANGED <<typed>>
          /\ live' \in [Epochs -> Rooms] /\ \A x \in Epochs : live'[x] \in {live[x], Closed}
      BY <1>0, <1>1, <2>1, <3>0 DEF Operations
    <3> QED
      BY <3>1, <3>4, <3>5, <3>6, <3>7, <3>8, NewEpochStep
  <2>3. CASE row.epoch # 0
    <3>1. row' = row
      BY <2>1, <2>3
    <3>2. q \in Places /\ q.at = "ticket" /\ q.epoch = row.epoch
      BY <1>0, <3>1 DEF Out, Places, Rows
    <3>3. UNCHANGED <<doc, row, live, op, resets, typed, faults>>
      BY <1>1, <2>1, <3>1
    <3>4. q.epoch <= row.epoch /\ q.epoch > 0 /\ ~(q.at = "in")
      BY <1>0, <2>3, <3>2
    <3> HIDE DEF q
    <3> QED
      BY <2>1, <3>2, <3>3, <3>4, OnePeerStep
  <2> QED
    BY <2>2, <2>3
<1> QED
  BY <1>2, <1>3

-----------------------------------------------------------------------------
(* One room changes.                                                       *)

\* What an operation under way needs of a step of the rooms.
LEMMA CheckpointKept ==
    ASSUME IInv, UNCHANGED <<doc, op>>, row'.epoch = row.epoch, row'.base = row.base,
           op.at \in {"freeze", "copy"} /\ live'[op.epoch].at # "closed"
              => op.seen.content \subseteq live'[op.epoch].edits,
           op.at \in {"copy", "save"} /\ op.seen.rev = 0 => live'[op.epoch].at # "open",
           op.at = "save" /\ row.epoch = op.epoch =>
              Durable(row) \cup live[op.epoch].queued
                 \subseteq Durable(row') \cup live'[op.epoch].queued,
           op.at = "save" /\ op.seen.rev = 0 /\ row.epoch = op.epoch =>
              Durable(row') \subseteq op.edits
    PROVE  CheckpointState'
<1>1. CheckpointState
  BY DEF IInv
<1>2. op.at = "save" /\ row.epoch = op.epoch =>
         op.edits \subseteq Durable(row') \cup live'[op.epoch].queued
  BY <1>1 DEF CheckpointState
<1> QED
  BY <1>1, <1>2 DEF CheckpointState, Checkpoints

\* Room e becomes r; what is stored or queued of the present epoch stays so.
LEMMA OneRoomStep ==
    ASSUME IInv, NEW e \in Epochs, NEW r \in Rooms, live' = [live EXCEPT ![e] = r],
           row' \in Rows, row'.epoch = row.epoch, row'.base = row.base,
           row.snap \subseteq row'.snap, row'.rev = row.rev,
           UNCHANGED <<doc, resets, faults>>,
           op' \in Operations, op'.epoch <= row.epoch, TakesEpoch' => TakesEpoch,
           typed' \in [Edits -> 0..MaxEpoch], \A x \in Edits : typed'[x] <= row.epoch,
           peer' \in [Peers -> Places],
           \A p \in Peers : /\ peer'[p].epoch <= row.epoch
                            /\ peer'[p].at # "out" => peer'[p].epoch > 0
                            /\ peer'[p].at = "in" => live'[peer'[p].epoch].at = "open",
           r.at # "closed" => e <= row.epoch,
           r.at = "closed" => r = Closed,
           r.at # "open" => r.queued = {},
           r.queued \subseteq r.edits,
           \A x \in r.queued : typed'[x] = e,
           \A f \in Epochs \ {e} : \A x \in live[f].queued : typed'[x] = f,
           e = row.epoch /\ r.at # "closed" =>
              Durable(row') \subseteq r.edits /\ r.edits \subseteq Durable(row') \cup r.queued,
           e # row.epoch => Durable(row') = Durable(row),
           CheckpointState', TypedKept'
    PROVE  IInv'
<1>0. /\ live \in [Epochs -> Rooms] /\ row.epoch \in Nat /\ resets \in Nat /\ MaxEpoch \in Nat
      /\ EpochOrder /\ RoomState /\ RowState
  BY CollabAssumption DEF IInv, Types, Rows
<1>1. live' \in [Epochs -> Rooms]
      /\ \A f \in Epochs : live'[f] = IF f = e THEN r ELSE live[f]
  BY <1>0
<1>2. Types'
  BY <1>1 DEF IInv, Types
<1>3. EpochOrder'
  <2>1. row'.epoch + resets' + (IF TakesEpoch' THEN 1 ELSE 0) <= MaxEpoch
    BY <1>0 DEF EpochOrder
  <2>2. \A f \in Epochs : live'[f].at # "closed" => f <= row'.epoch
    BY <1>0, <1>1 DEF EpochOrder
  <2> QED
    BY <2>1, <2>2 DEF EpochOrder
<1>4. RoomState'
  <2>1. ASSUME NEW f \in Epochs
        PROVE  /\ live'[f].at = "closed" => live'[f] = Closed
               /\ live'[f].at # "open" => live'[f].queued = {}
               /\ live'[f].queued \subseteq live'[f].edits
               /\ \A x \in live'[f].queued : typed'[x] = f
    <3>1. CASE f = e
      BY <1>1, <3>1
    <3>2. CASE f # e
      BY <1>0, <1>1, <3>2 DEF RoomState
    <3> QED
      BY <3>1, <3>2
  <2> QED
    BY <2>1 DEF RoomState
<1>5. RowState'
  <2>1. row'.base.content \subseteq row'.snap /\ row'.rev = row'.base.rev
    BY <1>0 DEF RowState
  <2>2. ASSUME NEW f \in Epochs, f = row'.epoch, live'[f].at # "closed"
        PROVE  /\ Durable(row') \subseteq live'[f].edits
               /\ live'[f].edits \subseteq Durable(row') \cup live'[f].queued
    <3>1. CASE f = e
      BY <1>1, <2>2, <3>1
    <3>2. CASE f # e
      BY <1>0, <1>1, <2>2, <3>2 DEF RowState
    <3> QED
      BY <3>1, <3>2
  <2> QED
    BY <2>1, <2>2 DEF RowState
<1> QED
  BY <1>2, <1>3, <1>4, <1>5 DEF IInv

\* The operation, the row and what was typed do not change.
LEMMA SameOperation ==
    ASSUME IInv, UNCHANGED <<row, op, typed>>
    PROVE  /\ row' \in Rows /\ row'.epoch = row.epoch /\ row'.base = row.base
           /\ row.snap \subseteq row'.snap /\ row'.rev = row.rev /\ Durable(row') = Durable(row)
           /\ op' \in Operations /\ op'.epoch <= row.epoch /\ (TakesEpoch' => TakesEpoch)
           /\ typed' \in [Edits -> 0..MaxEpoch] /\ \A x \in Edits : typed'[x] <= row.epoch
           /\ \A f \in Epochs : \A x \in live[f].queued : typed'[x] = f
  BY DEF IInv, Types, EpochOrder, RoomState, TakesEpoch, Durable

\* A room without a queue stands for another one: nothing typed is touched.
LEMMA IdleRoomStep ==
    ASSUME IInv, NEW e \in Epochs, NEW r \in Rooms, live' = [live EXCEPT ![e] = r],
           live[e].queued = {}, r.queued = {},
           UNCHANGED <<doc, row, op, resets, typed, faults>>,
           peer' \in [Peers -> Places],
           \A p \in Peers : /\ peer'[p].epoch <= row.epoch
                            /\ peer'[p].at # "out" => peer'[p].epoch > 0
                            /\ peer'[p].at = "in" => live'[peer'[p].epoch].at = "open",
           r.at # "closed" => e <= row.epoch,
           r.at = "closed" => r = Closed,
           e = row.epoch /\ r.at # "closed" => r.edits = Durable(row),
           op.at \in {"freeze", "copy"} /\ op.epoch = e /\ r.at # "closed"
              => op.seen.content \subseteq r.edits,
           op.at \in {"copy", "save"} /\ op.seen.rev = 0 /\ op.epoch = e => r.at # "open"
    PROVE  IInv'
<1>0. /\ live \in [Epochs -> Rooms] /\ RoomState /\ CheckpointState /\ TypedKept
      /\ row.epoch \in 0..MaxEpoch /\ MaxEpoch \in Nat
  BY CollabAssumption DEF IInv, Types, Rows
<1>1. \A f \in Epochs : live'[f] = IF f = e THEN r ELSE live[f]
  BY <1>0
<1>2. \A f \in Epochs : live'[f].queued = live[f].queued
  BY <1>1
<1>3. /\ row' \in Rows /\ row'.epoch = row.epoch /\ row'.base = row.base
      /\ row.snap \subseteq row'.snap /\ row'.rev = row.rev /\ Durable(row') = Durable(row)
      /\ op' \in Operations /\ op'.epoch <= row.epoch /\ (TakesEpoch' => TakesEpoch)
      /\ typed' \in [Edits -> 0..MaxEpoch] /\ \A x \in Edits : typed'[x] <= row.epoch
      /\ \A f \in Epochs : \A x \in live[f].queued : typed'[x] = f
  BY SameOperation
<1>4. TypedKept'
  <2> SUFFICES ASSUME NEW x \in Edits, typed[x] = row.epoch, row.epoch > 0
               PROVE  x \in Durable(row') \cup live'[row.epoch].queued
    BY DEF TypedKept
  <2>1. row.epoch \in Epochs
    BY <1>0 DEF Epochs
  <2> QED
    BY <1>0, <1>2, <1>3, <2>1 DEF TypedKept
<1>5. CheckpointState'
  <2>1. CASE op.at \in {"freeze", "copy", "save", "adopt"}
    <3>1. op.epoch \in Epochs
      BY <1>0, <2>1 DEF CheckpointState, Checkpoints
    <3>2. op.at \in {"freeze", "copy"} /\ live'[op.epoch].at # "closed"
             => op.seen.content \subseteq live'[op.epoch].edits
      BY <1>0, <1>1, <3>1 DEF CheckpointState
    <3>3. op.at \in {"copy", "save"} /\ op.seen.rev = 0 => live'[op.epoch].at # "open"
      BY <1>0, <1>1, <3>1 DEF CheckpointState
    <3>4. op.at = "save" /\ row.epoch = op.epoch =>
             Durable(row) \cup live[op.epoch].queued
                \subseteq Durable(row') \cup live'[op.epoch].queued
      BY <1>2, <1>3, <3>1
    <3>5. op.at = "save" /\ op.seen.rev = 0 /\ row.epoch = op.epoch =>
             Durable(row') \subseteq op.edits
      BY <1>0, <1>3 DEF CheckpointState
    <3> QED
      BY <1>3, <3>2, <3>3, <3>4, <3>5, CheckpointKept
  <2>2. CASE op.at \notin {"freeze", "copy", "save", "adopt"}
    BY <2>2, NoCheckpoint
  <2> QED
    BY <2>1, <2>2
<1>6. r.at # "open" => r.queued = {}
  OBVIOUS
<1>7. r.queued \subseteq r.edits /\ \A x \in r.queued : typed'[x] = e
  OBVIOUS
<1>8. e = row.epoch /\ r.at # "closed" =>
         Durable(row') \subseteq r.edits /\ r.edits \subseteq Durable(row') \cup r.queued
  BY <1>3
<1>9. UNCHANGED <<doc, resets, faults>>
  OBVIOUS
<1>10. \A f \in Epochs \ {e} : \A x \in live[f].queued : typed'[x] = f
  BY <1>3
<1> QED
  BY <1>3, <1>4, <1>5, <1>6, <1>7, <1>8, <1>9, <1>10, OneRoomStep

\* What every step knows of the connections and the rooms they are in.
LEMMA PeerFacts ==
    ASSUME IInv
    PROVE  /\ live \in [Epochs -> Rooms] /\ peer \in [Peers -> Places]
           /\ row \in Rows /\ row.epoch \in 0..MaxEpoch /\ MaxEpoch \in Nat
           /\ \A p \in Peers : /\ peer[p].epoch \in 0..MaxEpoch
                               /\ peer[p].epoch <= row.epoch
                               /\ peer[p].at # "out" => peer[p].epoch \in Epochs
                               /\ peer[p].at = "in" => live[peer[p].epoch].at = "open"
<1>1. /\ live \in [Epochs -> Rooms] /\ peer \in [Peers -> Places]
      /\ row \in Rows /\ row.epoch \in 0..MaxEpoch /\ MaxEpoch \in Nat
  BY CollabAssumption DEF IInv, Types, Rows
<1>2. \A p \in Peers : /\ peer[p].epoch \in 0..MaxEpoch
                       /\ peer[p].epoch <= row.epoch
                       /\ peer[p].at # "out" => peer[p].epoch > 0
                       /\ peer[p].at = "in" => live[peer[p].epoch].at = "open"
  BY <1>1 DEF Places, IInv, EpochOrder, RoomState
<1> QED
  BY <1>1, <1>2 DEF Epochs

\* A room is loaded from the row.
LEMMA LoadDocStep ==
    ASSUME IInv, NEW p \in Peers, LoadDoc(p)
    PROVE  IInv'
<1> DEFINE e == peer[p].epoch
<1>0. /\ live \in [Epochs -> Rooms] /\ peer \in [Peers -> Places]
      /\ row \in Rows /\ row.epoch \in 0..MaxEpoch /\ MaxEpoch \in Nat
      /\ \A q \in Peers : /\ peer[q].epoch \in 0..MaxEpoch
                          /\ peer[q].epoch <= row.epoch
                          /\ peer[q].at # "out" => peer[q].epoch \in Epochs
                          /\ peer[q].at = "in" => live[peer[q].epoch].at = "open"
  BY PeerFacts
<1>1. /\ peer[p].at = "admitted" /\ live[e].at = "closed" /\ e \in Epochs /\ e <= row.epoch
      /\ UNCHANGED <<doc, row, op, resets, typed, faults>>
  BY <1>0 DEF LoadDoc
<1>2. CASE row.epoch # e
  <2>1. peer' = [peer EXCEPT ![p] = Out] /\ UNCHANGED <<doc, row, live, op, resets, typed, faults>>
    BY <1>2 DEF LoadDoc
  <2>2. Out.epoch <= row.epoch /\ ~(Out.at # "out") /\ ~(Out.at = "in")
    BY <1>0, OutIsPlace
  <2> QED
    BY <2>1, <2>2, OutIsPlace, OnePeerStep
<1>3. CASE row.epoch = e
  <2> DEFINE d == Durable(row)
             v == row.rev
             r == [Closed EXCEPT !.at = "loading", !.edits = d, !.rev = v]
  <2>1. live' = [live EXCEPT ![e] = r] /\ peer' = peer
    BY <1>3 DEF LoadDoc
  <2>2. d \in SUBSET Edits /\ v \in Nat /\ row.snap \subseteq d
    BY <1>0 DEF Durable, Rows
  <2> HIDE DEF d, v
  <2>3. r \in Rooms /\ r.at = "loading" /\ r.edits = d /\ r.queued = {}
    BY <2>2 DEF Closed, Rooms
  <2> HIDE DEF r
  <2>4. live[e].queued = {}
    BY <1>1, ClosedIsRoom DEF IInv, RoomState
  <2>5. \A f \in Epochs : live'[f] = IF f = e THEN r ELSE live[f]
    BY <1>0, <1>1, <2>1
  <2>6. peer' \in [Peers -> Places] /\ \A q \in Peers : peer'[q] = peer[q]
    BY <1>0, <2>1
  <2>7. \A q \in Peers : /\ peer'[q].epoch <= row.epoch
                         /\ peer'[q].at # "out" => peer'[q].epoch > 0
                         /\ peer'[q].at = "in" => live'[peer'[q].epoch].at = "open"
    <3> SUFFICES ASSUME NEW q \in Peers
                 PROVE  /\ peer[q].epoch <= row.epoch
                        /\ peer[q].at # "out" => peer[q].epoch > 0
                        /\ peer[q].at = "in" => live'[peer[q].epoch].at = "open"
      BY <2>6
    <3>1. peer[q].at # "out" => peer[q].epoch > 0
      BY <1>0 DEF Epochs
    <3>2. ASSUME peer[q].at = "in" PROVE live'[peer[q].epoch].at = "open"
      <4>1. peer[q].epoch \in Epochs /\ live[peer[q].epoch].at = "open"
        BY <1>0, <3>2
      <4> QED
        BY <1>1, <2>5, <4>1
    <3> QED
      BY <1>0, <3>1, <3>2
  <2>8. r.at # "closed" => e <= row.epoch
    BY <1>1
  <2>9. (r.at = "closed" => r = Closed) /\ r.queued = {}
    BY <2>3
  <2>10. e = row.epoch /\ r.at # "closed" => r.edits = Durable(row)
    BY <2>3 DEF d
  <2>11. op.at \in {"freeze", "copy"} /\ op.epoch = e /\ r.at # "closed"
            => op.seen.content \subseteq r.edits
    <3>1. op.at \in {"freeze", "copy"} /\ op.epoch = e => row.base = op.seen
      BY <1>3 DEF IInv, CheckpointState, Checkpoints
    <3>2. row.base.content \subseteq d
      BY <2>2 DEF IInv, RowState
    <3> QED
      BY <2>3, <3>1, <3>2
  <2>12. op.at \in {"copy", "save"} /\ op.seen.rev = 0 /\ op.epoch = e => r.at # "open"
    BY <2>3
  <2> HIDE DEF e
  <2> QED
    BY <1>1, <2>1, <2>3, <2>4, <2>6, <2>7, <2>8, <2>9, <2>10, <2>11, <2>12, IdleRoomStep
<1> QED
  BY <1>2, <1>3

\* The loading of a room ends: it opens, or is refused while it is retired.
LEMMA OpenStep ==
    ASSUME IInv, NEW e \in Epochs, Open(e)
    PROVE  IInv'
<1>0. /\ live \in [Epochs -> Rooms] /\ peer \in [Peers -> Places]
      /\ row \in Rows /\ row.epoch \in 0..MaxEpoch /\ MaxEpoch \in Nat
      /\ \A q \in Peers : /\ peer[q].epoch \in 0..MaxEpoch
                          /\ peer[q].epoch <= row.epoch
                          /\ peer[q].at # "out" => peer[q].epoch \in Epochs
                          /\ peer[q].at = "in" => live[peer[q].epoch].at = "open"
  BY PeerFacts
<1>1. live[e].at = "loading" /\ UNCHANGED <<doc, row, op, resets, typed, faults>>
  BY DEF Open
<1>2. /\ e <= row.epoch /\ live[e].queued = {}
      /\ e = row.epoch => live[e].edits = Durable(row)
  BY <1>1 DEF IInv, EpochOrder, RoomState, RowState
<1>3. \E r \in Rooms :
         /\ live' = [live EXCEPT ![e] = r] /\ r.queued = {}
         /\ \/ r = Closed /\ peer' = [p \in Peers |->
                                IF peer[p].at = "admitted" /\ peer[p].epoch = e
                                THEN Out ELSE peer[p]]
            \/ /\ r.at = "open" /\ r.edits = live[e].edits /\ ~Retiring(e)
               /\ peer' = peer
  <2>1. CASE Retiring(e)
    BY <2>1, ClosedIsRoom DEF Open
  <2>2. CASE ~Retiring(e)
    <3> DEFINE r == [live[e] EXCEPT !.at = "open"]
    <3>1. live[e] \in Rooms
      BY <1>0
    <3>2. r \in Rooms /\ r.at = "open" /\ r.edits = live[e].edits /\ r.queued = live[e].queued
      BY <3>1 DEF Rooms
    <3>3. live' = [live EXCEPT ![e] = r] /\ peer' = peer
      BY <1>0, <2>2 DEF Open
    <3> HIDE DEF r
    <3> QED
      BY <1>2, <2>2, <3>2, <3>3
  <2> QED
    BY <2>1, <2>2
<1>4. PICK r \in Rooms :
         /\ live' = [live EXCEPT ![e] = r] /\ r.queued = {}
         /\ \/ r = Closed /\ peer' = [p \in Peers |->
                                IF peer[p].at = "admitted" /\ peer[p].epoch = e
                                THEN Out ELSE peer[p]]
            \/ /\ r.at = "open" /\ r.edits = live[e].edits /\ ~Retiring(e)
               /\ peer' = peer
  BY <1>3
<1>5. peer' \in [Peers -> Places] /\ \A q \in Peers : peer'[q] \in {peer[q], Out}
  BY <1>0, <1>4, OutIsPlace
<1>6. \A f \in Epochs : live'[f] = IF f = e THEN r ELSE live[f]
  BY <1>0, <1>4
<1>7. ASSUME NEW q \in Peers
      PROVE  /\ peer'[q].epoch <= row.epoch
             /\ peer'[q].at # "out" => peer'[q].epoch > 0
             /\ peer'[q].at = "in" => live'[peer'[q].epoch].at = "open"
  <2>1. CASE peer'[q] = Out
    BY <1>0, <2>1, OutIsPlace
  <2>2. CASE peer'[q] = peer[q]
    <3>1. peer[q].at # "out" => peer[q].epoch > 0
      BY <1>0 DEF Epochs
    <3>2. peer[q].at = "in" => live'[peer[q].epoch].at = "open"
      BY <1>0, <1>1, <1>6
    <3> QED
      BY <1>0, <2>2, <3>1, <3>2
  <2> QED
    BY <1>5, <2>1, <2>2
<1>8. r.at # "closed" => e <= row.epoch
  BY <1>2
<1>9. r.at = "closed" => r = Closed
  BY <1>4
<1>10. e = row.epoch /\ r.at # "closed" => r.edits = Durable(row)
  BY <1>2, <1>4, ClosedIsRoom
<1>11. op.at \in {"freeze", "copy"} /\ op.epoch = e /\ r.at # "closed"
          => op.seen.content \subseteq r.edits
  BY <1>1, <1>4, ClosedIsRoom DEF IInv, CheckpointState
<1>12. op.at \in {"copy", "save"} /\ op.seen.rev = 0 /\ op.epoch = e => r.at # "open"
  BY <1>4, ClosedIsRoom DEF Retiring
<1> QED
  BY <1>1, <1>2, <1>4, <1>5, <1>7, <1>8, <1>9, <1>10, <1>11, <1>12, IdleRoomStep

\* A connection types into its room.
LEMMA TypeStep ==
    ASSUME IInv, NEW p \in Peers, NEW x \in Edits, Type(p, x)
    PROVE  IInv'
<1> DEFINE e == peer[p].epoch
           r == [live[e] EXCEPT !.edits = @ \cup {x}, !.queued = @ \cup {x}]
<1>0. /\ live \in [Epochs -> Rooms] /\ peer \in [Peers -> Places]
      /\ row \in Rows /\ row.epoch \in 0..MaxEpoch /\ MaxEpoch \in Nat
      /\ \A q \in Peers : /\ peer[q].epoch \in 0..MaxEpoch
                          /\ peer[q].epoch <= row.epoch
                          /\ peer[q].at # "out" => peer[q].epoch \in Epochs
                          /\ peer[q].at = "in" => live[peer[q].epoch].at = "open"
  BY PeerFacts
<1>1. /\ peer[p].at = "in" /\ typed[x] = 0 /\ typed' = [typed EXCEPT ![x] = e]
      /\ UNCHANGED <<doc, row, peer, op, resets, faults>>
  BY DEF Type
<1>2. e \in Epochs /\ e <= row.epoch /\ live[e].at = "open" /\ e # 0
  BY <1>0, <1>1 DEF Epochs
<1>3. live' = [live EXCEPT ![e] = r]
  BY <1>0, <1>2 DEF Type
<1>4. live[e] \in Rooms
  BY <1>0, <1>2
<1>5. /\ r \in Rooms /\ r.at = "open"
      /\ r.edits = live[e].edits \cup {x} /\ r.queued = live[e].queued \cup {x}
  <2> DEFINE a == live[e].edits \cup {x}
             b == live[e].queued \cup {x}
  <2>1. a \in SUBSET Edits /\ b \in SUBSET Edits
    BY <1>4 DEF Rooms
  <2>2. r = [live[e] EXCEPT !.edits = a, !.queued = b]
    BY <1>4 DEF Rooms
  <2> HIDE DEF a, b, r
  <2>3. r \in Rooms /\ r.at = live[e].at /\ r.edits = a /\ r.queued = b
    BY <1>4, <2>1, <2>2 DEF Rooms
  <2> QED
    BY <1>2, <2>3 DEF a, b
<1> HIDE DEF r
<1>6. \A f \in Epochs : live'[f] = IF f = e THEN r ELSE live[f]
  BY <1>0, <1>3
<1>7. typed \in [Edits -> 0..MaxEpoch] /\ RoomState /\ RowState /\ CheckpointState /\ TypedKept
      /\ \A y \in Edits : typed[y] <= row.epoch
  BY DEF IInv, Types, EpochOrder
<1>8. /\ typed' \in [Edits -> 0..MaxEpoch]
      /\ \A y \in Edits : typed'[y] = IF y = x THEN e ELSE typed[y]
  BY <1>0, <1>1, <1>7
<1>9. \A y \in Edits : typed'[y] <= row.epoch
  BY <1>2, <1>7, <1>8
<1>10. /\ row' \in Rows /\ row'.epoch = row.epoch /\ row'.base = row.base
       /\ row.snap \subseteq row'.snap /\ row'.rev = row.rev /\ Durable(row') = Durable(row)
       /\ op' \in Operations /\ op'.epoch <= row.epoch /\ (TakesEpoch' => TakesEpoch)
  BY <1>1 DEF IInv, Types, EpochOrder, TakesEpoch, Durable
<1>11. peer' \in [Peers -> Places] /\ \A q \in Peers : peer'[q] = peer[q]
  BY <1>0, <1>1
<1>12. ASSUME NEW q \in Peers
       PROVE  /\ peer'[q].epoch <= row.epoch
              /\ peer'[q].at # "out" => peer'[q].epoch > 0
              /\ peer'[q].at = "in" => live'[peer'[q].epoch].at = "open"
  <2>1. peer[q].at # "out" => peer[q].epoch > 0
    BY <1>0 DEF Epochs
  <2>2. peer[q].at = "in" => live'[peer[q].epoch].at = "open"
    BY <1>0, <1>5, <1>6
  <2> QED
    BY <1>0, <1>11, <2>1, <2>2
<1>13. \A f \in Epochs : live[f].queued \subseteq Edits
                         /\ \A y \in live[f].queued : typed[y] = f /\ y # x
  <2> SUFFICES ASSUME NEW f \in Epochs
               PROVE  live[f].queued \subseteq Edits
                      /\ \A y \in live[f].queued : typed[y] = f /\ y # x
    OBVIOUS
  <2>1. live[f].queued \subseteq Edits /\ f # 0
    BY <1>0 DEF Rooms, Epochs
  <2>2. \A y \in live[f].queued : typed[y] = f
    BY <1>7 DEF RoomState
  <2> QED
    BY <1>1, <2>1, <2>2
<1>14. \A f \in Epochs : \A y \in live[f].queued : typed'[y] = f
  BY <1>8, <1>13
<1>15. r.queued \subseteq r.edits /\ \A y \in r.queued : typed'[y] = e
  <2>1. live[e].queued \subseteq live[e].edits
    BY <1>2, <1>7 DEF RoomState
  <2>2. \A y \in live[e].queued : typed'[y] = e
    BY <1>2, <1>14
  <2> QED
    BY <1>5, <1>8, <2>1, <2>2
<1>16. e = row.epoch /\ r.at # "closed" =>
          Durable(row') \subseteq r.edits /\ r.edits \subseteq Durable(row') \cup r.queued
  BY <1>2, <1>5, <1>7, <1>10 DEF RowState
<1>17. TypedKept'
  <2> SUFFICES ASSUME NEW y \in Edits, typed'[y] = row.epoch, row.epoch > 0
               PROVE  y \in Durable(row') \cup live'[row.epoch].queued
    BY <1>10 DEF TypedKept
  <2>1. row.epoch \in Epochs
    BY <1>0 DEF Epochs
  <2>2. CASE y = x
    BY <1>5, <1>6, <1>8, <2>1, <2>2
  <2>3. CASE y # x
    <3>1. y \in Durable(row) \cup live[row.epoch].queued
      BY <1>7, <1>8, <2>3 DEF TypedKept
    <3> QED
      BY <1>5, <1>6, <1>10, <2>1, <3>1
  <2> QED
    BY <2>2, <2>3
<1>18. CheckpointState'
  <2>1. CASE op.at \in {"freeze", "copy", "save", "adopt"}
    <3>1. op.epoch \in Epochs
      BY <1>7, <2>1 DEF CheckpointState, Checkpoints
    <3>2. op.at \in {"freeze", "copy"} /\ live'[op.epoch].at # "closed"
             => op.seen.content \subseteq live'[op.epoch].edits
      BY <1>2, <1>5, <1>6, <1>7, <3>1 DEF CheckpointState
    <3>3. op.at \in {"copy", "save"} /\ op.seen.rev = 0 => live'[op.epoch].at # "open"
      BY <1>2, <1>6, <1>7, <3>1 DEF CheckpointState
    <3>4. op.at = "save" /\ row.epoch = op.epoch =>
             Durable(row) \cup live[op.epoch].queued
                \subseteq Durable(row') \cup live'[op.epoch].queued
      BY <1>5, <1>6, <1>10, <3>1
    <3>5. op.at = "save" /\ op.seen.rev = 0 /\ row.epoch = op.epoch =>
             Durable(row') \subseteq op.edits
      BY <1>7, <1>10 DEF CheckpointState
    <3> QED
      BY <1>1, <1>10, <3>2, <3>3, <3>4, <3>5, CheckpointKept
  <2>2. CASE op.at \notin {"freeze", "copy", "save", "adopt"}
    BY <1>1, <2>2, NoCheckpoint
  <2> QED
    BY <2>1, <2>2
<1>19. /\ r.at # "closed" => e <= row.epoch
       /\ r.at = "closed" => r = Closed
       /\ r.at # "open" => r.queued = {}
       /\ e # row.epoch => Durable(row') = Durable(row)
       /\ \A f \in Epochs \ {e} : \A y \in live[f].queued : typed'[y] = f
       /\ UNCHANGED <<doc, resets, faults>>
  BY <1>1, <1>2, <1>5, <1>10, <1>14
<1> HIDE DEF e
<1> QED
  BY <1>2, <1>3, <1>5, <1>8, <1>9, <1>10, <1>11, <1>12, <1>15, <1>16, <1>17, <1>18, <1>19,
     OneRoomStep

\* A queued update is stored in the log of the row.
LEMMA FlushStep ==
    ASSUME IInv, NEW e \in Epochs, Flush(e)
    PROVE  IInv'
<1> DEFINE more == Accepted(e)
           l == row.log \cup more
           r == [live[e] EXCEPT !.queued = {}]
<1>0. /\ live \in [Epochs -> Rooms] /\ peer \in [Peers -> Places]
      /\ row \in Rows /\ row.epoch \in 0..MaxEpoch /\ MaxEpoch \in Nat
      /\ \A q \in Peers : /\ peer[q].epoch \in 0..MaxEpoch
                          /\ peer[q].epoch <= row.epoch
                          /\ peer[q].at # "out" => peer[q].epoch \in Epochs
                          /\ peer[q].at = "in" => live[peer[q].epoch].at = "open"
  BY PeerFacts
<1>1. live[e].queued # {} /\ UNCHANGED <<doc, peer, op, resets, typed, faults>>
  BY DEF Flush
<1>2. /\ typed \in [Edits -> 0..MaxEpoch] /\ RoomState /\ RowState /\ CheckpointState /\ TypedKept
      /\ \A y \in Edits : typed[y] <= row.epoch
  BY DEF IInv, Types, EpochOrder
<1>3. live[e].at = "open" /\ live[e] \in Rooms /\ e <= row.epoch
  BY <1>0, <1>1, <1>2 DEF RoomState, IInv, EpochOrder
<1>4. more = IF row.epoch = e THEN live[e].queued ELSE {}
  BY <1>3 DEF Accepted, IsOpen
<1>5. l \in SUBSET Edits
  BY <1>0, <1>3, <1>4 DEF Rows, Rooms
<1>6. row' = [row EXCEPT !.log = l] /\ live' = [live EXCEPT ![e] = r]
  BY <1>0 DEF Flush
<1> HIDE DEF more
<1>7. /\ row' \in Rows /\ row'.epoch = row.epoch /\ row'.base = row.base
      /\ row'.snap = row.snap /\ row'.rev = row.rev /\ Durable(row') = Durable(row) \cup more
  <2> HIDE DEF l
  <2>1. /\ row' \in Rows /\ row'.epoch = row.epoch /\ row'.base = row.base
        /\ row'.snap = row.snap /\ row'.rev = row.rev /\ row'.log = l
    BY <1>0, <1>5, <1>6 DEF Rows
  <2> QED
    BY <2>1 DEF Durable, l
<1>8. r \in Rooms /\ r.at = "open" /\ r.edits = live[e].edits /\ r.queued = {}
  BY <1>3 DEF Rooms
<1> HIDE DEF r, l
<1>9. \A f \in Epochs : live'[f] = IF f = e THEN r ELSE live[f]
  BY <1>0, <1>6
<1>10. \A f \in Epochs : f = row.epoch =>
          Durable(row) \cup live[f].queued = Durable(row') \cup live'[f].queued
  BY <1>4, <1>7, <1>8, <1>9
<1>11. TypedKept'
  <2> SUFFICES ASSUME NEW y \in Edits, typed[y] = row.epoch, row.epoch > 0
               PROVE  y \in Durable(row') \cup live'[row.epoch].queued
    BY <1>1, <1>7 DEF TypedKept
  <2>1. row.epoch \in Epochs
    BY <1>0 DEF Epochs
  <2>2. y \in Durable(row) \cup live[row.epoch].queued
    BY <1>2 DEF TypedKept
  <2> QED
    BY <1>10, <2>1, <2>2
<1>12. CheckpointState'
  <2>1. CASE op.at \in {"freeze", "copy", "save", "adopt"}
    <3>1. op.epoch \in Epochs
      BY <1>2, <2>1 DEF CheckpointState, Checkpoints
    <3>2. op.at \in {"freeze", "copy"} /\ live'[op.epoch].at # "closed"
             => op.seen.content \subseteq live'[op.epoch].edits
      BY <1>2, <1>3, <1>8, <1>9, <3>1 DEF CheckpointState
    <3>3. op.at \in {"copy", "save"} /\ op.seen.rev = 0 => live'[op.epoch].at # "open"
      BY <1>2, <1>3, <1>9, <3>1 DEF CheckpointState
    <3>4. op.at = "save" /\ row.epoch = op.epoch =>
             Durable(row) \cup live[op.epoch].queued
                \subseteq Durable(row') \cup live'[op.epoch].queued
      BY <1>10, <3>1
    <3>5. op.at = "save" /\ op.seen.rev = 0 /\ row.epoch = op.epoch =>
             Durable(row') \subseteq op.edits
      <4>1. op.at = "save" /\ op.seen.rev = 0 /\ row.epoch = op.epoch => more = {}
        BY <1>2, <1>3, <1>4 DEF CheckpointState
      <4> QED
        BY <1>2, <1>7, <4>1 DEF CheckpointState
    <3> QED
      BY <1>1, <1>7, <3>2, <3>3, <3>4, <3>5, CheckpointKept
  <2>2. CASE op.at \notin {"freeze", "copy", "save", "adopt"}
    BY <1>1, <2>2, NoCheckpoint
  <2> QED
    BY <2>1, <2>2
<1>13. peer' \in [Peers -> Places] /\ \A q \in Peers : peer'[q] = peer[q]
  BY <1>0, <1>1
<1>14. ASSUME NEW q \in Peers
       PROVE  /\ peer'[q].epoch <= row.epoch
              /\ peer'[q].at # "out" => peer'[q].epoch > 0
              /\ peer'[q].at = "in" => live'[peer'[q].epoch].at = "open"
  <2>1. peer[q].at # "out" => peer[q].epoch > 0
    BY <1>0 DEF Epochs
  <2>2. peer[q].at = "in" => live'[peer[q].epoch].at = "open"
    BY <1>0, <1>8, <1>9
  <2> QED
    BY <1>0, <1>13, <2>1, <2>2
<1>15. /\ op' \in Operations /\ op'.epoch <= row.epoch /\ (TakesEpoch' => TakesEpoch)
       /\ typed' \in [Edits -> 0..MaxEpoch] /\ \A x \in Edits : typed'[x] <= row.epoch
       /\ \A f \in Epochs \ {e} : \A x \in live[f].queued : typed'[x] = f
  BY <1>1 DEF IInv, Types, EpochOrder, RoomState, TakesEpoch
<1>16. e = row.epoch /\ r.at # "closed" =>
          Durable(row') \subseteq r.edits /\ r.edits \subseteq Durable(row') \cup r.queued
  <2> SUFFICES ASSUME e = row.epoch
               PROVE  Durable(row') \subseteq r.edits /\ r.edits \subseteq Durable(row') \cup r.queued
    OBVIOUS
  <2>1. /\ Durable(row) \subseteq live[e].edits /\ live[e].queued \subseteq live[e].edits
        /\ live[e].edits \subseteq Durable(row) \cup live[e].queued
    BY <1>2, <1>3 DEF RowState, RoomState
  <2> QED
    BY <1>4, <1>7, <1>8, <2>1
<1>17. /\ r.at # "closed" => e <= row.epoch
       /\ r.at = "closed" => r = Closed
       /\ r.at # "open" => r.queued = {}
       /\ e # row.epoch => Durable(row') = Durable(row)
       /\ r.queued \subseteq r.edits /\ \A y \in r.queued : typed'[y] = e
       /\ UNCHANGED <<doc, resets, faults>>
       /\ row.snap \subseteq row'.snap
  BY <1>1, <1>3, <1>4, <1>7, <1>8
<1> QED
  BY <1>6, <1>7, <1>8, <1>11, <1>12, <1>13, <1>14, <1>15, <1>16, <1>17, OneRoomStep

\* The log of the row is folded into its snapshot.
LEMMA CompactStep ==
    ASSUME IInv, NEW e \in Epochs, Compact(e)
    PROVE  IInv'
<1>1. UNCHANGED <<doc, live, peer, op, resets, typed, faults>> /\ row \in Rows
  BY DEF Compact, IInv, Types
<1>2. /\ row' \in Rows /\ row'.epoch = row.epoch /\ row'.base = row.base
      /\ row'.rev = row.rev /\ Durable(row') = Durable(row) /\ row.snap \subseteq row'.snap
  <2> DEFINE s == row.snap \cup row.log
  <2>1. row' = [row EXCEPT !.snap = s, !.log = {}] /\ s \in SUBSET Edits
    BY <1>1 DEF Compact, Rows
  <2> HIDE DEF s
  <2>2. /\ row' \in Rows /\ row'.epoch = row.epoch /\ row'.base = row.base
        /\ row'.rev = row.rev /\ row'.snap = s /\ row'.log = {}
    BY <1>1, <2>1 DEF Rows
  <2> QED
    BY <2>2 DEF Durable, s
<1>3. Types' /\ TypedKept'
  BY <1>1, <1>2 DEF IInv, Types, TypedKept
<1>4. EpochOrder'
  BY <1>1, <1>2 DEF IInv, EpochOrder, TakesEpoch
<1>5. RoomState'
  BY <1>1 DEF IInv, RoomState
<1>6. RowState'
  BY <1>1, <1>2 DEF IInv, RowState
<1>7. CheckpointState'
  BY <1>1, <1>2 DEF IInv, CheckpointState, Checkpoints
<1> QED
  BY <1>3, <1>4, <1>5, <1>6, <1>7 DEF IInv

-----------------------------------------------------------------------------
(* The operations that replace the room.                                   *)

\* What the operations need of the bound on epochs.
LEMMA EpochFacts ==
    ASSUME IInv
    PROVE  /\ row.epoch \in Nat /\ resets \in Nat /\ MaxEpoch \in Nat
           /\ row.epoch + resets <= MaxEpoch
           /\ TakesEpoch => row.epoch + resets + 1 <= MaxEpoch
           /\ op \in Operations /\ op.epoch \in Nat /\ op.epoch <= row.epoch
           /\ doc \in Documents /\ faults \in 0..MaxFaults
<1>1. /\ row.epoch \in Nat /\ resets \in Nat /\ MaxEpoch \in Nat
      /\ row.epoch + resets + (IF TakesEpoch THEN 1 ELSE 0) <= MaxEpoch
  BY CollabAssumption DEF IInv, Types, Rows, EpochOrder
<1>2. /\ op \in Operations /\ op.epoch <= row.epoch
      /\ doc \in Documents /\ faults \in 0..MaxFaults
  BY DEF IInv, Types, EpochOrder
<1>3. op.epoch \in Nat
  BY <1>2, CollabAssumption DEF Operations
<1> QED
  BY <1>1, <1>2, <1>3

\* A replacement takes opMu.
LEMMA BeginReplaceStep ==
    ASSUME IInv, BeginReplace
    PROVE  IInv'
<1>0. /\ row.epoch \in Nat /\ resets \in Nat /\ MaxEpoch \in Nat
      /\ row.epoch + resets <= MaxEpoch /\ doc \in Documents
  BY EpochFacts
<1>1. /\ resets > 0 /\ resets' = resets - 1
      /\ UNCHANGED <<doc, row, live, peer, typed, faults>>
  BY DEF BeginReplace
<1>2. op' \in Operations /\ op'.at = "reseed" /\ op'.epoch = 0
  <2> DEFINE a == Fingerprint(doc)
  <2>1. a \in Authorities /\ op' = [Free EXCEPT !.at = "reseed", !.seen = a]
    BY <1>0, DocFingerprint DEF BeginReplace
  <2> HIDE DEF a
  <2> QED
    BY <2>1, FreeIsOperation DEF Operations
<1>3. op' \in Operations /\ op'.epoch = 0 /\ CheckpointState'
  BY <1>2, NoCheckpoint
<1>4. /\ UNCHANGED <<row, live, typed, faults>> /\ doc' \in Documents /\ peer' = peer
      /\ resets' \in Nat /\ op'.epoch <= row.epoch
  BY <1>0, <1>1, <1>3
<1>5. row.epoch + resets' + (IF TakesEpoch' THEN 1 ELSE 0) <= MaxEpoch
  BY <1>0, <1>1
<1> QED
  BY <1>3, <1>4, <1>5, SamePeers, OperationStep

\* The row moves on, unused tickets are withdrawn or everybody leaves.
LEMMA FewerPeers ==
    ASSUME IInv, NEW ps, ps \in [Peers -> Places], \A p \in Peers : ps[p] \in {Out, peer[p]}
    PROVE  \A p \in Peers : /\ ps[p].epoch <= row.epoch
                            /\ ps[p].epoch <= row.epoch + 1
                            /\ ps[p].at # "out" => ps[p].epoch > 0
                            /\ ps[p].at = "in" => live[ps[p].epoch].at = "open"
<1>0. /\ row.epoch \in 0..MaxEpoch /\ MaxEpoch \in Nat
      /\ \A q \in Peers : /\ peer[q].epoch \in 0..MaxEpoch
                          /\ peer[q].epoch <= row.epoch
                          /\ peer[q].at # "out" => peer[q].epoch \in Epochs
                          /\ peer[q].at = "in" => live[peer[q].epoch].at = "open"
  BY PeerFacts
<1> SUFFICES ASSUME NEW p \in Peers
             PROVE  /\ ps[p].epoch <= row.epoch
                    /\ ps[p].epoch <= row.epoch + 1
                    /\ ps[p].at # "out" => ps[p].epoch > 0
                    /\ ps[p].at = "in" => live[ps[p].epoch].at = "open"
  OBVIOUS
<1>1. CASE ps[p] = Out
  BY <1>0, <1>1, OutIsPlace
<1>2. CASE ps[p] = peer[p]
  <2>1. peer[p].at # "out" => peer[p].epoch > 0
    BY <1>0 DEF Epochs
  <2>2. peer[p].epoch <= row.epoch + 1
    BY <1>0
  <2> QED
    BY <1>0, <1>2, <2>1, <2>2
<1> QED
  BY <1>1, <1>2

\* Withdrawing the tickets leaves the other connections where they are.
LEMMA NoTicketsPeers ==
    ASSUME IInv
    PROVE  NoTickets \in [Peers -> Places] /\ \A p \in Peers : NoTickets[p] \in {Out, peer[p]}
  BY OutIsPlace DEF NoTickets, IInv, Types

\* A replacement seeds the next epoch from the authority.
LEMMA ReseedStep ==
    ASSUME IInv, Reseed
    PROVE  IInv'
<1>0. /\ row.epoch \in Nat /\ resets \in Nat /\ MaxEpoch \in Nat /\ op \in Operations
      /\ TakesEpoch => row.epoch + resets + 1 <= MaxEpoch
      /\ doc \in Documents /\ faults \in 0..MaxFaults
  BY EpochFacts
<1>1. /\ op.at = "reseed" /\ row' = NextSeed(row, op.seen) /\ peer' = NoTickets
      /\ op' = [op EXCEPT !.at = "close", !.epoch = row.epoch + 1]
      /\ UNCHANGED <<doc, live, resets, typed, faults>>
  BY DEF Reseed
<1>2. row.epoch + resets + 1 <= MaxEpoch /\ row.epoch + 1 <= MaxEpoch
  BY <1>0, <1>1 DEF TakesEpoch
<1>3. op.seen \in Authorities
  BY <1>0 DEF Operations
<1>4. /\ row' \in Rows /\ row'.epoch = row.epoch + 1
      /\ row'.base.content \subseteq row'.snap /\ row'.rev = row'.base.rev
  BY <1>1, <1>2, <1>3, SeedStep
<1>5. op' \in Operations /\ op'.at = "close" /\ op'.epoch = row.epoch + 1
  <2> DEFINE n == row.epoch + 1
  <2>1. n \in 0..MaxEpoch
    BY <1>0, <1>2
  <2>2. op' = [op EXCEPT !.at = "close", !.epoch = n]
    BY <1>1
  <2> HIDE DEF n
  <2>3. op' \in Operations /\ op'.at = "close" /\ op'.epoch = n
    BY <1>0, <2>1, <2>2 DEF Operations
  <2> QED
    BY <2>3 DEF n
<1>6. CheckpointState' /\ ~TakesEpoch'
  BY <1>5, NoCheckpoint DEF TakesEpoch
<1>7. row.epoch + 1 + resets' + (IF TakesEpoch' THEN 1 ELSE 0) <= MaxEpoch
  BY <1>0, <1>1, <1>2, <1>6
<1>8. peer' \in [Peers -> Places] /\ \A p \in Peers : peer'[p] \in {Out, peer[p]}
  BY <1>1, NoTicketsPeers
<1>9. \A p \in Peers : /\ peer'[p].epoch <= row.epoch + 1
                       /\ peer'[p].at # "out" => peer'[p].epoch > 0
                       /\ peer'[p].at = "in" => live'[peer'[p].epoch].at = "open"
  BY <1>1, <1>8, FewerPeers
<1>10. /\ doc' \in Documents /\ resets' \in Nat /\ faults' \in 0..MaxFaults
       /\ op'.epoch <= row.epoch + 1 /\ UNCHANGED <<typed>>
       /\ live' \in [Epochs -> Rooms] /\ \A x \in Epochs : live'[x] \in {live[x], Closed}
  BY <1>0, <1>1, <1>5 DEF IInv, Types
<1> QED
  BY <1>4, <1>5, <1>6, <1>7, <1>8, <1>9, <1>10, NewEpochStep

\* Rooms are closed by an operation that ends with it.
LEMMA FreeEnds ==
    ASSUME IInv, op' = Free
    PROVE  /\ op' \in Operations /\ op'.epoch <= row.epoch /\ op'.epoch = 0
           /\ ~TakesEpoch' /\ CheckpointState'
  BY EpochFacts, FreeIsOperation, NoCheckpoint DEF TakesEpoch

\* A replacement closes the rooms of every other epoch.
LEMMA CloseRetiredStep ==
    ASSUME IInv, CloseRetired
    PROVE  IInv'
<1> DEFINE es == Epochs \ {op.epoch}
           n == row.epoch
           q == [Out EXCEPT !.at = "ticket", !.epoch = n]
<1>0. /\ peer \in [Peers -> Places] /\ row.epoch \in 0..MaxEpoch /\ MaxEpoch \in Nat
      /\ \A r \in Peers : /\ peer[r].epoch \in 0..MaxEpoch
                          /\ peer[r].epoch <= row.epoch
                          /\ peer[r].at # "out" => peer[r].epoch \in Epochs
  BY PeerFacts
<1>1. CloseLive(es) /\ op' = Free /\ UNCHANGED <<doc, resets, typed, faults>>
  BY DEF CloseRetired
<1>2. \/ peer' = Dropped(es)
      \/ op.from \in Peers /\ n > 0 /\ peer' = [Dropped(es) EXCEPT ![op.from] = q]
  <2>1. op.from # NoPeer => op.from \in Peers
    BY DEF IInv, Types, Operations
  <2> QED
    BY <2>1 DEF CloseRetired, InStep
<1>3. /\ Dropped(es) \in [Peers -> Places]
      /\ \A p \in Peers : \/ Dropped(es)[p] = Out
                          \/ /\ Dropped(es)[p] = peer[p]
                             /\ peer[p].at = "in" => peer[p].epoch \notin es
  BY DroppedPeers
<1>4. n \in 0..MaxEpoch
  BY <1>0
<1> HIDE DEF n
<1>5. q \in Places /\ q.at = "ticket" /\ q.epoch = n
  BY <1>4 DEF Out, Places
<1> HIDE DEF q
<1>6. /\ peer' \in [Peers -> Places]
      /\ \A p \in Peers : \/ peer'[p] = Dropped(es)[p]
                          \/ peer'[p] = q /\ n > 0
  BY <1>2, <1>3, <1>5
<1>7. ASSUME NEW p \in Peers
      PROVE  /\ peer'[p].epoch <= row.epoch
             /\ peer'[p].at # "out" => peer'[p].epoch > 0
             /\ peer'[p].at = "in" => peer'[p] = peer[p] /\ peer[p].epoch \notin es
  <2>1. CASE peer'[p] = q /\ n > 0
    <3>1. peer'[p].epoch = row.epoch /\ row.epoch > 0 /\ peer'[p].at = "ticket"
      BY <1>5, <2>1 DEF n
    <3> QED
      BY <1>0, <3>1
  <2>2. CASE peer'[p] = Out
    BY <1>0, <2>2, OutIsPlace
  <2>3. CASE peer'[p] = peer[p] /\ (peer[p].at = "in" => peer[p].epoch \notin es)
    <3>1. peer[p].at # "out" => peer[p].epoch > 0
      BY <1>0 DEF Epochs
    <3> QED
      BY <1>0, <2>3, <3>1
  <2> QED
    BY <1>3, <1>6, <2>1, <2>2, <2>3
<1>8. /\ op' \in Operations /\ op'.epoch <= row.epoch /\ (TakesEpoch' => TakesEpoch)
      /\ CheckpointState'
  BY <1>1, FreeEnds
<1>9. es \in SUBSET Epochs /\ UNCHANGED <<doc, resets, typed>> /\ faults' \in 0..MaxFaults
  BY <1>1 DEF IInv, Types
<1> HIDE DEF es
<1> QED
  BY <1>1, <1>6, <1>7, <1>8, <1>9, ClosingStep

\* After a restore every room is closed and every row retired.
LEMMA RetireAllStep ==
    ASSUME IInv, RetireAll
    PROVE  IInv'
<1>0. /\ row.epoch \in Nat /\ resets \in Nat /\ MaxEpoch \in Nat /\ op \in Operations
      /\ TakesEpoch => row.epoch + resets + 1 <= MaxEpoch
      /\ doc \in Documents /\ faults \in 0..MaxFaults
  BY EpochFacts
<1>1. /\ op.at = "retire" /\ op' = Free /\ live' = [e \in Epochs |-> Closed]
      /\ peer' = [p \in Peers |-> IF peer[p].at = "ticket" THEN Out ELSE Dropped(Epochs)[p]]
      /\ row' = IF row.epoch = 0 THEN row ELSE NextSeed(row, Fingerprint(doc))
      /\ UNCHANGED <<doc, resets, typed, faults>>
  BY DEF RetireAll
<1>2. row.epoch + resets + 1 <= MaxEpoch /\ row.epoch + 1 <= MaxEpoch
  BY <1>0, <1>1 DEF TakesEpoch
<1>3. op' \in Operations /\ op'.epoch = 0 /\ op'.epoch <= row.epoch
      /\ ~TakesEpoch' /\ CheckpointState'
  BY <1>1, FreeEnds
<1>4. live' \in [Epochs -> Rooms] /\ \A e \in Epochs : live'[e] = Closed
  BY <1>1, ClosedIsRoom
<1>5. /\ peer \in [Peers -> Places]
      /\ \A p \in Peers : /\ peer[p].at # "out" => peer[p].epoch \in Epochs
                          /\ peer[p].at = "in" => live[peer[p].epoch].at = "open"
  BY PeerFacts
<1>6. /\ Dropped(Epochs) \in [Peers -> Places]
      /\ \A p \in Peers : \/ Dropped(Epochs)[p] = Out
                          \/ /\ Dropped(Epochs)[p] = peer[p]
                             /\ peer[p].at = "in" => peer[p].epoch \notin Epochs
  BY DroppedPeers
<1>7. /\ peer' \in [Peers -> Places] /\ \A p \in Peers : peer'[p] \in {Out, peer[p]}
      /\ \A p \in Peers : peer'[p].at # "in"
  BY <1>1, <1>5, <1>6, OutIsPlace
<1>8. \A p \in Peers : /\ peer'[p].epoch <= row.epoch
                       /\ peer'[p].epoch <= row.epoch + 1
                       /\ peer'[p].at # "out" => peer'[p].epoch > 0
  BY <1>7, FewerPeers
<1>9. doc' \in Documents /\ resets' \in Nat /\ faults' \in 0..MaxFaults /\ UNCHANGED <<typed, faults>>
  BY <1>0, <1>1
<1>10. CASE row.epoch = 0
  <2>1. \A e \in Epochs : live[e] = Closed
    <3> SUFFICES ASSUME NEW e \in Epochs PROVE live[e].at = "closed"
      BY DEF IInv, RoomState
    <3> QED
      BY <1>10 DEF IInv, EpochOrder, Epochs
  <2>2. live' = live
    <3>1. live \in [Epochs -> Rooms]
      BY DEF IInv, Types
    <3> QED
      BY <1>4, <2>1, <3>1
  <2>3. UNCHANGED <<row, live, typed, faults>>
    BY <1>1, <1>10, <2>2
  <2>4. row.epoch + resets' + (IF TakesEpoch' THEN 1 ELSE 0) <= MaxEpoch
    BY <1>0, <1>1, <1>2, <1>3
  <2>5. \A p \in Peers : /\ peer'[p].epoch <= row.epoch
                         /\ peer'[p].at # "out" => peer'[p].epoch > 0
                         /\ peer'[p].at = "in" => live[peer'[p].epoch].at = "open"
    BY <1>7, <1>8
  <2> QED
    BY <1>3, <1>7, <1>9, <2>3, <2>4, <2>5, OperationStep
<1>11. CASE row.epoch # 0
  <2>1. row' = NextSeed(row, Fingerprint(doc)) /\ Fingerprint(doc) \in Authorities
    BY <1>0, <1>1, <1>11, DocFingerprint
  <2>2. /\ row' \in Rows /\ row'.epoch = row.epoch + 1
        /\ row'.base.content \subseteq row'.snap /\ row'.rev = row'.base.rev
    BY <1>2, <2>1, SeedStep
  <2>3. row.epoch + 1 + resets' + (IF TakesEpoch' THEN 1 ELSE 0) <= MaxEpoch
    BY <1>0, <1>1, <1>2, <1>3
  <2>4. \A p \in Peers : /\ peer'[p].epoch <= row.epoch + 1
                         /\ peer'[p].at # "out" => peer'[p].epoch > 0
                         /\ peer'[p].at = "in" => live'[peer'[p].epoch].at = "open"
    BY <1>7, <1>8
  <2>5. op'.epoch <= row.epoch + 1 /\ \A e \in Epochs : live'[e] \in {live[e], Closed}
    BY <1>0, <1>3, <1>4
  <2> QED
    BY <1>3, <1>4, <1>7, <1>9, <2>2, <2>3, <2>4, <2>5, NewEpochStep
<1> QED
  BY <1>10, <1>11

-----------------------------------------------------------------------------
(* The checkpoint.                                                         *)

\* A checkpoint takes opMu.
LEMMA BeginCheckpointStep ==
    ASSUME IInv, BeginCheckpoint
    PROVE  IInv'
<1> DEFINE a == IF row.base.rev = 0 THEN "freeze" ELSE "copy"
           b == row.base
           n == row.epoch
<1>0. /\ row.epoch \in Nat /\ resets \in Nat /\ MaxEpoch \in Nat
      /\ row.epoch + resets <= MaxEpoch
      /\ doc \in Documents /\ faults \in 0..MaxFaults
  BY EpochFacts
<1>1. /\ op.at = "free" /\ row.epoch > 0 /\ row.base = Fingerprint(doc)
      /\ row.base.rev > 0 \/ row.epoch + resets + 1 <= MaxEpoch
      /\ op' = [Free EXCEPT !.at = a, !.seen = b, !.epoch = n]
      /\ peer' = IF row.base.rev = 0 THEN NoTickets ELSE peer
      /\ UNCHANGED <<doc, row, live, resets, typed, faults>>
  BY <1>0 DEF BeginCheckpoint, InStep, EpochsLeft
<1>2. row \in Rows /\ b \in Authorities /\ n \in 0..MaxEpoch /\ n \in Epochs /\ b.rev \in Nat
  BY <1>0, <1>1 DEF IInv, Types, Rows, Authorities, Epochs
<1>3. /\ op' \in Operations /\ op'.at = a /\ op'.seen = b /\ op'.epoch = n
  <2> HIDE DEF b, n
  <2>1. a \in {"freeze", "copy"}
    OBVIOUS
  <2> HIDE DEF a
  <2> QED
    BY <1>1, <1>2, <2>1, FreeIsOperation DEF Operations
<1>4. CheckpointState'
  <2>1. op'.epoch \in Epochs /\ op'.seen = row'.base /\ op'.at # "save"
    BY <1>1, <1>2, <1>3
  <2>2. doc'.rev = op'.seen.rev /\ doc'.content = op'.seen.content
    BY <1>0, <1>1, <1>3, DocFingerprint
  <2>3. op'.at = "copy" => op'.seen.rev # 0
    BY <1>3
  <2>4. live'[op'.epoch].at # "closed" => op'.seen.content \subseteq live'[op'.epoch].edits
    <3>1. live[n].at # "closed" => row.base.content \subseteq live[n].edits
      BY <1>2 DEF IInv, RowState, Durable
    <3> QED
      BY <1>1, <1>3, <3>1
  <2>5. doc'.rev >= op'.seen.rev
    BY <1>2, <1>3, <2>2
  <2> QED
    BY <2>1, <2>2, <2>3, <2>4, <2>5 DEF CheckpointState, Checkpoints
<1>5. row.epoch + resets' + (IF TakesEpoch' THEN 1 ELSE 0) <= MaxEpoch
  <2>1. TakesEpoch' => b.rev = 0
    BY <1>3 DEF TakesEpoch
  <2> QED
    BY <1>0, <1>1, <1>2, <2>1
<1>6. peer' \in [Peers -> Places] /\ \A p \in Peers : peer'[p] \in {Out, peer[p]}
  BY <1>1, NoTicketsPeers DEF IInv, Types
<1>7. \A p \in Peers : /\ peer'[p].epoch <= row.epoch
                       /\ peer'[p].at # "out" => peer'[p].epoch > 0
                       /\ peer'[p].at = "in" => live[peer'[p].epoch].at = "open"
  BY <1>6, FewerPeers
<1>8. /\ UNCHANGED <<row, live, typed, faults>> /\ doc' \in Documents /\ resets' \in Nat
      /\ op'.epoch <= row.epoch
  BY <1>0, <1>1, <1>3
<1> QED
  BY <1>3, <1>4, <1>5, <1>6, <1>7, <1>8, OperationStep

\* A first save freezes its room.
LEMMA FreezeStep ==
    ASSUME IInv, Freeze
    PROVE  IInv'
<1> DEFINE es == {op.epoch}
<1>0. /\ row.epoch \in Nat /\ op \in Operations /\ op.epoch <= row.epoch
      /\ faults \in 0..MaxFaults /\ CheckpointState /\ RoomState
  BY EpochFacts DEF IInv
<1>1. /\ op.at = "freeze" /\ CloseLive(es) /\ peer' = Dropped(es)
      /\ op' = IF row.epoch = op.epoch THEN [op EXCEPT !.at = "copy"] ELSE Free
      /\ UNCHANGED <<doc, resets, typed, faults>>
  BY DEF Freeze, CloseRooms
<1>2. op.epoch \in Epochs /\ es \in SUBSET Epochs
  BY <1>0, <1>1 DEF CheckpointState, Checkpoints
<1>3. /\ row'.epoch = row.epoch /\ row'.base = row.base
      /\ \A e \in Epochs : live'[e] = IF e \in es /\ live[e].at = "open"
                                      THEN Closed ELSE live[e]
  BY <1>1, <1>2, CloseKeeps
<1>4. live'[op.epoch].at # "open" /\ (live'[op.epoch].at # "closed" => live'[op.epoch] = live[op.epoch])
  BY <1>2, <1>3, ClosedIsRoom
<1>5. /\ op' \in Operations /\ op'.epoch <= row.epoch /\ (TakesEpoch' => TakesEpoch)
      /\ CheckpointState'
  <2>1. CASE row.epoch = op.epoch
    <3>1. op' = [op EXCEPT !.at = "copy"]
      BY <1>1, <2>1
    <3>2. /\ op' \in Operations /\ op'.at = "copy" /\ op'.epoch = op.epoch /\ op'.seen = op.seen
      BY <1>0, <3>1, OperationAt
    <3>3. TakesEpoch' => TakesEpoch
      BY <1>1, <3>2 DEF TakesEpoch
    <3>4. CheckpointState'
      <4>1. /\ row.epoch = op.epoch => row.base = op.seen
            /\ doc.rev >= op.seen.rev
            /\ doc.rev = op.seen.rev => doc.content = op.seen.content
        BY <1>0, <1>1 DEF CheckpointState, Checkpoints
      <4>2. live'[op.epoch].at # "closed" => op.seen.content \subseteq live'[op.epoch].edits
        BY <1>0, <1>1, <1>4 DEF CheckpointState
      <4> QED
        BY <1>1, <1>2, <1>3, <1>4, <3>2, <4>1, <4>2 DEF CheckpointState, Checkpoints
    <3> QED
      BY <1>0, <3>2, <3>3, <3>4
  <2>2. CASE row.epoch # op.epoch
    BY <1>1, <2>2, FreeEnds
  <2> QED
    BY <2>1, <2>2
<1>6. /\ peer' \in [Peers -> Places]
      /\ \A p \in Peers : /\ peer'[p].epoch <= row.epoch
                          /\ peer'[p].at # "out" => peer'[p].epoch > 0
                          /\ peer'[p].at = "in" =>
                                peer'[p] = peer[p] /\ peer[p].epoch \notin es
  <2>1. \A p \in Peers : /\ peer[p].epoch <= row.epoch
                         /\ peer[p].at # "out" => peer[p].epoch > 0
    BY DEF IInv, EpochOrder
  <2> QED
    BY <1>0, <1>1, <2>1, DroppedPeers, OutIsPlace
<1>7. UNCHANGED <<doc, resets, typed>> /\ faults' \in 0..MaxFaults
  BY <1>0, <1>1
<1> HIDE DEF es
<1> QED
  BY <1>1, <1>2, <1>5, <1>6, <1>7, ClosingStep

\* A checkpoint copies the draft of its room.
LEMMA CopyStep ==
    ASSUME IInv, Copy
    PROVE  IInv'
<1> DEFINE e == op.epoch
           fresh == row.epoch = e /\ row.base = op.seen
           draft == IF IsOpen(e) THEN live[e] ELSE [edits |-> Durable(row), rev |-> row.rev]
           s == draft.edits
           v == draft.rev
<1>0. /\ row.epoch \in Nat /\ resets \in Nat /\ MaxEpoch \in Nat /\ op \in Operations
      /\ row.epoch + resets <= MaxEpoch /\ op.epoch <= row.epoch
      /\ TakesEpoch => row.epoch + resets + 1 <= MaxEpoch
      /\ doc \in Documents /\ faults \in 0..MaxFaults
      /\ CheckpointState /\ RoomState /\ RowState
  BY EpochFacts DEF IInv
<1>1. /\ op.at = "copy" /\ (IsOpen(e) \/ fresh) /\ v = op.seen.rev
      /\ op' = [op EXCEPT !.at = "save", !.edits = s, !.rev = v]
      /\ UNCHANGED <<doc, row, live, peer, resets, typed, faults>>
  BY DEF Copy
<1>2. e \in Epochs /\ live[e] \in Rooms /\ row \in Rows
  BY <1>0, <1>1 DEF CheckpointState, Checkpoints, IInv, Types
<1>3. s \in SUBSET Edits /\ v \in Nat
  BY <1>2 DEF Rooms, Rows, Durable
<1>4. op.seen.content \subseteq s
  <2>1. CASE IsOpen(e)
    BY <1>0, <1>1, <2>1 DEF CheckpointState, IsOpen
  <2>2. CASE ~IsOpen(e)
    BY <1>0, <1>1, <2>2 DEF RowState, Durable
  <2> QED
    BY <2>1, <2>2
<1>5. row.epoch = e => s \subseteq Durable(row) \cup live[e].queued
  BY <1>0, <1>2 DEF RowState, IsOpen
<1>6. op.seen.rev = 0 => live[e].at # "open" /\ Durable(row) \subseteq s
  BY <1>0, <1>1 DEF CheckpointState, IsOpen
<1>7. /\ row.epoch = e => row.base = op.seen
      /\ doc.rev >= op.seen.rev
      /\ doc.rev = op.seen.rev => doc.content = op.seen.content
  BY <1>0, <1>1 DEF CheckpointState, Checkpoints
<1> HIDE DEF s, v
<1>8. /\ op' \in Operations /\ op'.at = "save" /\ op'.epoch = e /\ op'.seen = op.seen
      /\ op'.edits = s /\ op'.rev = v
  BY <1>0, <1>1, <1>3 DEF Operations
<1>9. CheckpointState'
  BY <1>1, <1>2, <1>4, <1>5, <1>6, <1>7, <1>8 DEF CheckpointState, Checkpoints
<1>10. row.epoch + resets' + (IF TakesEpoch' THEN 1 ELSE 0) <= MaxEpoch
  <2>1. TakesEpoch' => TakesEpoch
    BY <1>1, <1>8 DEF TakesEpoch
  <2> QED
    BY <1>0, <1>1, <2>1
<1>11. /\ UNCHANGED <<row, live, typed, faults>> /\ doc' \in Documents /\ resets' \in Nat
       /\ op'.epoch <= row.epoch /\ peer' = peer
  BY <1>0, <1>1, <1>8
<1> QED
  BY <1>8, <1>9, <1>10, <1>11, SamePeers, OperationStep

-----------------------------------------------------------------------------
(* Documents.                                                              *)

\* The document of a song without lyrics has its type.
LEMMA BlankIsDocument == Blank \in Documents /\ Blank.rev = 0
<1>1. Blank \in [kind : {"legacy", "v3"}, rev : Nat, content : SUBSET Edits,
                 pub : Nat, withdrawn : BOOLEAN]
  BY DEF Blank
<1>2. Blank.pub <= Blank.rev /\ Blank.pub = 0 /\ Blank.rev = 0
  BY DEF Blank
<1> QED
  BY <1>1, <1>2 DEF Documents, IsDocument

\* A save makes the next revision.
LEMMA SaveIsDocument ==
    ASSUME NEW d \in Documents, NEW c \in SUBSET Edits
    PROVE  /\ Save(d, c) \in Documents /\ Save(d, c).rev = d.rev + 1 /\ Save(d, c).content = c
<1> DEFINE n == d.rev + 1
           new == [d EXCEPT !.rev = n, !.content = c]
<1>1. /\ d \in [kind : {"legacy", "v3"}, rev : Nat, content : SUBSET Edits,
                pub : Nat, withdrawn : BOOLEAN]
      /\ d.pub <= d.rev /\ (d.withdrawn => d.pub = 0) /\ (d.kind = "v3" => d.pub = 0)
  BY DEF Documents, IsDocument
<1>2. n \in Nat /\ d.pub <= n /\ d.rev \in Nat
  BY <1>1
<1>3. Save(d, c) = new
  BY <1>1 DEF Save
<1> HIDE DEF n
<1>4. /\ new \in [kind : {"legacy", "v3"}, rev : Nat, content : SUBSET Edits,
                  pub : Nat, withdrawn : BOOLEAN]
      /\ new.rev = n /\ new.content = c /\ new.pub = d.pub /\ new.kind = d.kind
      /\ new.withdrawn = d.withdrawn
  BY <1>1, <1>2
<1> HIDE DEF new
<1>5. new \in Documents
  BY <1>1, <1>2, <1>4 DEF Documents, IsDocument
<1> QED
  BY <1>3, <1>4, <1>5 DEF n

\* A publication changes neither revision nor content.
LEMMA PublishIsDocument ==
    ASSUME NEW d \in Documents, d.kind = "legacy"
    PROVE  /\ Publish(d) \in Documents /\ Publish(d).rev = d.rev
           /\ Publish(d).content = d.content
<1> DEFINE n == d.rev
           new == [d EXCEPT !.pub = n, !.withdrawn = FALSE]
<1>1. d \in [kind : {"legacy", "v3"}, rev : Nat, content : SUBSET Edits,
             pub : Nat, withdrawn : BOOLEAN]
  BY DEF Documents
<1>2. n \in Nat /\ n <= n
  BY <1>1
<1> HIDE DEF n
<1>3. /\ new \in [kind : {"legacy", "v3"}, rev : Nat, content : SUBSET Edits,
                  pub : Nat, withdrawn : BOOLEAN]
      /\ new.rev = d.rev /\ new.content = d.content /\ new.pub = n /\ new.kind = d.kind
      /\ ~new.withdrawn
  BY <1>1, <1>2
<1>4. new.pub <= new.rev
  BY <1>2, <1>3 DEF n
<1> HIDE DEF new
<1>5. new \in Documents
  BY <1>3, <1>4 DEF Documents, IsDocument
<1> QED
  BY <1>3, <1>5 DEF Publish, n, new

\* Unpublishing changes neither revision nor content.
LEMMA UnpublishIsDocument ==
    ASSUME NEW d \in Documents
    PROVE  /\ Unpublish(d) \in Documents /\ Unpublish(d).rev = d.rev
           /\ Unpublish(d).content = d.content
<1> DEFINE new == [d EXCEPT !.pub = 0, !.withdrawn = TRUE]
<1>1. d \in [kind : {"legacy", "v3"}, rev : Nat, content : SUBSET Edits,
             pub : Nat, withdrawn : BOOLEAN]
  BY DEF Documents
<1>2. /\ new \in [kind : {"legacy", "v3"}, rev : Nat, content : SUBSET Edits,
                  pub : Nat, withdrawn : BOOLEAN]
      /\ new.rev = d.rev /\ new.content = d.content /\ new.pub = 0
  BY <1>1
<1>3. new.pub <= new.rev
  BY <1>1, <1>2
<1> HIDE DEF new
<1>4. new \in Documents
  BY <1>2, <1>3 DEF Documents, IsDocument
<1> QED
  BY <1>2, <1>4 DEF Unpublish, new

\* A withdrawal, or its end, changes neither revision nor content.
LEMMA WithdrawnIsDocument ==
    ASSUME NEW d \in Documents, NEW w \in BOOLEAN, d.kind = "v3"
    PROVE  /\ SetWithdrawn(d, w) \in Documents /\ SetWithdrawn(d, w).rev = d.rev
           /\ SetWithdrawn(d, w).content = d.content
<1> DEFINE new == [d EXCEPT !.withdrawn = w]
<1>1. /\ d \in [kind : {"legacy", "v3"}, rev : Nat, content : SUBSET Edits,
                pub : Nat, withdrawn : BOOLEAN]
      /\ d.pub = 0 /\ d.pub <= d.rev
  BY DEF Documents, IsDocument
<1>2. /\ new \in [kind : {"legacy", "v3"}, rev : Nat, content : SUBSET Edits,
                  pub : Nat, withdrawn : BOOLEAN]
      /\ new.rev = d.rev /\ new.content = d.content /\ new.pub = 0 /\ new.pub <= new.rev
  BY <1>1
<1> HIDE DEF new
<1>3. new \in Documents
  BY <1>2 DEF Documents, IsDocument
<1> QED
  BY <1>2, <1>3 DEF SetWithdrawn, new

\* The revision of a takeover is above the stored one (lyricspublish).
LEMMA NextRevisionAbove ==
    ASSUME NEW d \in Documents
    PROVE  NextRevision(d) \in Nat /\ NextRevision(d) > d.rev
<1> DEFINE S == {d.rev, d.pub, BundleRevision, 1}
           top == CHOOSE x \in S : \A y \in S : x >= y
<1>1. d.rev \in Nat /\ d.pub \in Nat /\ BundleRevision \in Nat
  BY BundleAssumption DEF Documents
<1>2. \E x \in S : \A y \in S : x >= y
  <2>1. CASE \A y \in S : d.rev >= y
    BY <2>1
  <2>2. CASE \A y \in S : d.pub >= y
    BY <2>2
  <2>3. CASE \A y \in S : BundleRevision >= y
    BY <2>3
  <2>4. CASE \A y \in S : 1 >= y
    BY <2>4
  <2> QED
    BY <1>1, <2>1, <2>2, <2>3, <2>4
<1>3. top \in S /\ \A y \in S : top >= y
  BY <1>2
<1>4. NextRevision(d) = top + 1
  BY DEF NextRevision, Max
<1> HIDE DEF top
<1>5. top \in Nat /\ top >= d.rev
  BY <1>1, <1>3
<1> QED
  BY <1>1, <1>4, <1>5

\* A document takeover moves the revision on.
LEMMA TakeoverIsDocument ==
    ASSUME NEW d \in Documents, NEW c \in SUBSET Edits
    PROVE  /\ PublishDocument(d, c) \in Documents
           /\ PublishDocument(d, c).rev > d.rev
<1> DEFINE n == NextRevision(d)
           new == [kind |-> "v3", rev |-> n, content |-> c, pub |-> 0, withdrawn |-> FALSE]
<1>1. n \in Nat /\ n > d.rev
  BY NextRevisionAbove
<1> HIDE DEF n
<1>2. /\ new \in [kind : {"legacy", "v3"}, rev : Nat, content : SUBSET Edits,
                  pub : Nat, withdrawn : BOOLEAN]
      /\ new.rev = n /\ new.pub = 0 /\ ~new.withdrawn
  BY <1>1
<1> HIDE DEF new
<1>3. 0 <= n
  BY <1>1
<1>4. new \in Documents
  BY <1>2, <1>3 DEF Documents, IsDocument
<1> QED
  BY <1>1, <1>2, <1>4 DEF PublishDocument, new, n

-----------------------------------------------------------------------------
(* The save of a checkpoint, and what follows it.                          *)

\* What the save of a checkpoint finds and leaves: the draft has at least the
\* stored text, and nothing but stored or queued text of the present epoch.
LEMMA SaveFacts ==
    ASSUME IInv, SaveCheckpoint
    PROVE  /\ row.epoch = op.epoch /\ op.epoch \in Epochs
           /\ op.edits \subseteq Durable(row) \cup live[op.epoch].queued
           /\ doc' \in Documents /\ doc'.content = op.edits /\ doc.content \subseteq op.edits
           /\ op.seen.rev = 0 => Durable(row) \cup live[op.epoch].edits \subseteq op.edits
<1>0. /\ doc \in Documents /\ op \in Operations /\ live \in [Epochs -> Rooms]
      /\ CheckpointState /\ RoomState /\ RowState
  BY DEF IInv, Types
<1>1. /\ op.at = "save" /\ op.rev = doc.rev /\ row.epoch = op.epoch /\ row.base = op.seen
      /\ doc' = IF op.edits # doc.content \/ doc.rev = 0 THEN Save(doc, op.edits) ELSE doc
  BY DEF SaveCheckpoint, SaveAllowed
<1>2. /\ op.epoch \in Epochs /\ op.rev = op.seen.rev /\ op.seen.content \subseteq op.edits
      /\ doc.rev = op.seen.rev => doc.content = op.seen.content
      /\ op.edits \subseteq Durable(row) \cup live[op.epoch].queued
  BY <1>0, <1>1 DEF CheckpointState, Checkpoints
<1>3. doc.content \subseteq op.edits
  BY <1>1, <1>2
<1>4. op.edits \in SUBSET Edits
  BY <1>0 DEF Operations
<1>5. doc' \in Documents /\ doc'.content = op.edits
  BY <1>0, <1>1, <1>4, SaveIsDocument
<1>6. ASSUME op.seen.rev = 0
      PROVE  Durable(row) \cup live[op.epoch].edits \subseteq op.edits
  <2>1. live[op.epoch].at # "open" /\ Durable(row) \subseteq op.edits
    BY <1>0, <1>1, <1>6 DEF CheckpointState
  <2>2. live[op.epoch].queued = {}
    BY <1>0, <1>2, <2>1 DEF RoomState
  <2>3. live[op.epoch].edits \subseteq Durable(row)
    <3>1. CASE live[op.epoch].at = "closed"
      BY <1>0, <1>2, <3>1, ClosedIsRoom DEF RoomState
    <3>2. CASE live[op.epoch].at # "closed"
      BY <1>0, <1>1, <1>2, <2>2, <3>2 DEF RowState
    <3> QED
      BY <3>1, <3>2
  <2> QED
    BY <2>1, <2>3
<1> QED
  BY <1>1, <1>2, <1>3, <1>5, <1>6

\* A save that is not the first one adds stored or queued text to the row, and
\* the row has the text of the saved lyrics.
LEMMA SaveGrowsRow ==
    ASSUME IInv, SaveCheckpoint, op.seen.rev # 0
    PROVE  /\ row' \in Rows /\ row'.epoch = row.epoch
           /\ row'.base.content \subseteq row'.snap /\ row'.rev = row'.base.rev
           /\ Durable(row) \subseteq Durable(row')
           /\ Durable(row') \subseteq Durable(row) \cup live[op.epoch].queued
           /\ live[op.epoch].at # "closed" => Durable(row') \subseteq live[op.epoch].edits
<1> DEFINE r == live[op.epoch]
<1>0. /\ row.epoch = op.epoch /\ op.epoch \in Epochs
      /\ op.edits \subseteq Durable(row) \cup r.queued
      /\ doc' \in Documents /\ doc'.content = op.edits
  BY SaveFacts
<1>1. /\ row \in Rows /\ r \in Rooms /\ RoomState /\ RowState /\ op \in Operations
  BY <1>0 DEF IInv, Types
<1>2. PICK encoded \in {op.edits, op.edits \cup r.edits} : row' = CheckpointedRow(doc', encoded)
  BY DEF SaveCheckpoint
<1>3. r.edits \subseteq Durable(row) \cup r.queued /\ r.queued \subseteq r.edits
      /\ (r.at # "closed" => Durable(row) \subseteq r.edits)
  <2>1. CASE r.at = "closed"
    BY <1>0, <1>1, <2>1, ClosedIsRoom DEF RoomState
  <2>2. CASE r.at # "closed"
    BY <1>0, <1>1, <2>2 DEF RowState, RoomState
  <2> QED
    BY <2>1, <2>2
<1>4. /\ op.edits \subseteq encoded /\ encoded \subseteq Durable(row) \cup r.queued
      /\ encoded \in SUBSET Edits /\ Durable(row) \in SUBSET Edits
      /\ (r.at # "closed" => encoded \subseteq r.edits)
  <2>1. op.edits \in SUBSET Edits /\ r.edits \in SUBSET Edits /\ Durable(row) \in SUBSET Edits
    BY <1>1 DEF Operations, Rooms, Rows, Durable
  <2> QED
    BY <1>0, <1>2, <1>3, <2>1
<1> DEFINE a == Fingerprint(doc')
           v == doc'.rev
           s == Durable(row) \cup encoded
<1>5. a \in Authorities /\ a.rev = v /\ a.content = op.edits /\ v \in Nat
  BY <1>0, DocFingerprint DEF Documents
<1>6. s \in SUBSET Edits
  BY <1>4
<1>7. row' = [row EXCEPT !.base = a, !.rev = v, !.snap = s, !.log = {}]
  BY <1>2 DEF CheckpointedRow
<1> HIDE DEF a, v, s, r
<1>8. /\ row' \in Rows /\ row'.epoch = row.epoch /\ row'.base = a /\ row'.rev = v
      /\ row'.snap = s /\ row'.log = {}
  BY <1>1, <1>5, <1>6, <1>7 DEF Rows
<1>9. Durable(row') = s
  BY <1>8 DEF Durable
<1>10. op.edits \subseteq s /\ Durable(row) \subseteq s /\ s \subseteq Durable(row) \cup r.queued
       /\ (r.at # "closed" => s \subseteq r.edits)
  BY <1>3, <1>4 DEF s
<1> QED
  BY <1>5, <1>8, <1>9, <1>10 DEF r

\* A checkpoint commits against the authority it was made from.
LEMMA SaveCheckpointStep ==
    ASSUME IInv, SaveCheckpoint
    PROVE  IInv'
<1>0. /\ row.epoch \in Nat /\ resets \in Nat /\ MaxEpoch \in Nat /\ op \in Operations
      /\ row.epoch + resets <= MaxEpoch
      /\ TakesEpoch => row.epoch + resets + 1 <= MaxEpoch
      /\ doc \in Documents /\ faults \in 0..MaxFaults
  BY EpochFacts
<1>1. /\ row.epoch = op.epoch /\ op.epoch \in Epochs /\ doc' \in Documents
  BY SaveFacts
<1>2. op.at = "save" /\ UNCHANGED <<live, peer, resets, typed, faults>>
  BY DEF SaveCheckpoint
<1>3. CASE op.seen.rev = 0
  <2>1. row' = NextSeed(row, Fingerprint(doc')) /\ op' = Free
    <3>1. ~(op.seen.rev > 0)
      BY <1>3
    <3> QED
      BY <1>3, <3>1 DEF SaveCheckpoint
  <2>2. row.epoch + resets + 1 <= MaxEpoch /\ row.epoch + 1 <= MaxEpoch
    BY <1>0, <1>2, <1>3 DEF TakesEpoch
  <2>3. Fingerprint(doc') \in Authorities
    BY <1>1, DocFingerprint
  <2>4. /\ row' \in Rows /\ row'.epoch = row.epoch + 1
        /\ row'.base.content \subseteq row'.snap /\ row'.rev = row'.base.rev
    BY <2>1, <2>2, <2>3, SeedStep
  <2>5. op' \in Operations /\ op'.epoch = 0 /\ ~TakesEpoch' /\ CheckpointState'
    BY <2>1, FreeEnds
  <2>6. row.epoch + 1 + resets' + (IF TakesEpoch' THEN 1 ELSE 0) <= MaxEpoch
    BY <1>0, <1>2, <2>2, <2>5
  <2>7. peer' \in [Peers -> Places] /\ \A p \in Peers : peer'[p] \in {Out, peer[p]}
    BY <1>2 DEF IInv, Types
  <2>8. \A p \in Peers : /\ peer'[p].epoch <= row.epoch + 1
                         /\ peer'[p].at # "out" => peer'[p].epoch > 0
                         /\ peer'[p].at = "in" => live'[peer'[p].epoch].at = "open"
    BY <1>2, <2>7, FewerPeers
  <2>9. /\ resets' \in Nat /\ faults' \in 0..MaxFaults
        /\ op'.epoch <= row.epoch + 1 /\ UNCHANGED <<typed>>
        /\ live' \in [Epochs -> Rooms] /\ \A x \in Epochs : live'[x] \in {live[x], Closed}
    BY <1>0, <1>2, <2>5 DEF IInv, Types
  <2> QED
    BY <1>1, <2>4, <2>5, <2>6, <2>7, <2>8, <2>9, NewEpochStep
<1>4. CASE op.seen.rev # 0
  <2>1. /\ row' \in Rows /\ row'.epoch = row.epoch
        /\ row'.base.content \subseteq row'.snap /\ row'.rev = row'.base.rev
        /\ Durable(row) \subseteq Durable(row')
        /\ Durable(row') \subseteq Durable(row) \cup live[op.epoch].queued
        /\ live[op.epoch].at # "closed" => Durable(row') \subseteq live[op.epoch].edits
    BY <1>4, SaveGrowsRow
  <2>2. /\ op' \in Operations /\ op'.at \in {"adopt", "free"}
        /\ op'.epoch <= row.epoch /\ (op'.at = "adopt" => op'.epoch \in Epochs)
    <3>1. CASE op' = Free
      BY <1>0, <3>1, FreeIsOperation
    <3>2. CASE op' # Free
      <4>1. op' = [op EXCEPT !.at = "adopt", !.rev = doc'.rev]
        BY <3>2 DEF SaveCheckpoint
      <4> DEFINE v == doc'.rev
      <4>2. v \in Nat /\ op' = [op EXCEPT !.at = "adopt", !.rev = v]
        BY <1>1, <4>1 DEF Documents
      <4> HIDE DEF v
      <4>3. op' \in Operations /\ op'.at = "adopt" /\ op'.epoch = op.epoch
        BY <1>0, <4>2 DEF Operations
      <4> QED
        BY <1>0, <1>1, <4>3
    <3> QED
      BY <3>1, <3>2
  <2>3. CheckpointState' /\ ~TakesEpoch'
    BY <2>2 DEF CheckpointState, Checkpoints, TakesEpoch
  <2>4. Types'
    BY <1>1, <1>2, <2>1, <2>2 DEF IInv, Types
  <2>5. EpochOrder'
    <3>1. row'.epoch + resets' + (IF TakesEpoch' THEN 1 ELSE 0) <= MaxEpoch
      BY <1>0, <1>2, <2>1, <2>3
    <3> QED
      BY <1>2, <2>1, <2>2, <3>1 DEF IInv, EpochOrder
  <2>6. RoomState'
    BY <1>2 DEF IInv, RoomState
  <2>7. RowState'
    <3>1. ASSUME NEW e \in Epochs, e = row.epoch, live[e].at # "closed"
          PROVE  /\ Durable(row') \subseteq live[e].edits
                 /\ live[e].edits \subseteq Durable(row') \cup live[e].queued
      <4>1. live[e].edits \subseteq Durable(row) \cup live[e].queued
        BY <3>1 DEF IInv, RowState
      <4> QED
        BY <1>1, <2>1, <3>1, <4>1
    <3> QED
      BY <1>2, <2>1, <3>1 DEF RowState
  <2>8. TypedKept'
    BY <1>2, <2>1 DEF IInv, TypedKept
  <2> QED
    BY <2>3, <2>4, <2>5, <2>6, <2>7, <2>8 DEF IInv
<1> QED
  BY <1>3, <1>4

\* The checkpointed room takes the saved revision, or is closed.
LEMMA AdoptStep ==
    ASSUME IInv, Adopt
    PROVE  IInv'
<1> DEFINE e == op.epoch
<1>0. /\ op.at = "adopt" /\ op' = Free /\ UNCHANGED <<doc, resets, typed, faults>>
  BY DEF Adopt
<1>1. /\ e \in Epochs /\ op \in Operations /\ live \in [Epochs -> Rooms] /\ faults \in 0..MaxFaults
      /\ RoomState /\ RowState /\ TypedKept /\ row \in Rows
      /\ row.epoch \in Nat
  BY <1>0, EpochFacts DEF IInv, Types, CheckpointState
<1>2. /\ op' \in Operations /\ op'.epoch <= row.epoch /\ (TakesEpoch' => TakesEpoch)
      /\ CheckpointState'
  BY <1>0, FreeEnds
<1>3. CASE IsOpen(e) /\ CloseRooms({e})
  <2>1. CloseLive({e}) /\ peer' = Dropped({e}) /\ {e} \in SUBSET Epochs
    BY <1>1, <1>3 DEF CloseRooms
  <2>2. \A p \in Peers : /\ peer[p].epoch <= row.epoch
                         /\ peer[p].at # "out" => peer[p].epoch > 0
    BY DEF IInv, EpochOrder
  <2>3. /\ peer' \in [Peers -> Places]
        /\ \A p \in Peers : /\ peer'[p].epoch <= row.epoch
                            /\ peer'[p].at # "out" => peer'[p].epoch > 0
                            /\ peer'[p].at = "in" =>
                                  peer'[p] = peer[p] /\ peer[p].epoch \notin {e}
    BY <1>1, <2>1, <2>2, DroppedPeers, OutIsPlace
  <2>4. UNCHANGED <<doc, resets, typed>> /\ faults' \in 0..MaxFaults
    BY <1>0, <1>1
  <2> QED
    BY <1>2, <2>1, <2>3, <2>4, ClosingStep
<1>4. CASE UNCHANGED <<row, peer>> /\ live' = IF IsOpen(e) THEN [live EXCEPT ![e].rev = op.rev] ELSE live
  <2> DEFINE v == op.rev
             r == IF IsOpen(e) THEN [live[e] EXCEPT !.rev = v] ELSE live[e]
  <2>1. live' = [live EXCEPT ![e] = r]
    BY <1>1, <1>4
  <2>2. v \in Nat /\ live[e] \in Rooms
    BY <1>1 DEF Operations
  <2> HIDE DEF v
  <2>3. /\ r \in Rooms /\ r.at = live[e].at /\ r.edits = live[e].edits
        /\ r.queued = live[e].queued /\ (r.at # "open" => r = live[e])
    BY <2>2 DEF Rooms, IsOpen
  <2> HIDE DEF r
  <2>4. /\ live[e].at # "closed" => e <= row.epoch
        /\ live[e].at = "closed" => live[e] = Closed
        /\ live[e].at # "open" => live[e].queued = {}
        /\ live[e].queued \subseteq live[e].edits
        /\ \A x \in live[e].queued : typed'[x] = e
        /\ \A f \in Epochs \ {e} : \A x \in live[f].queued : typed'[x] = f
    BY <1>0, <1>1 DEF IInv, EpochOrder, RoomState
  <2>5. /\ r.at # "closed" => e <= row.epoch
        /\ r.at = "closed" => r = Closed
        /\ r.at # "open" => r.queued = {}
        /\ r.queued \subseteq r.edits
        /\ \A x \in r.queued : typed'[x] = e
    BY <2>3, <2>4
  <2>6. /\ row' \in Rows /\ row'.epoch = row.epoch /\ row'.base = row.base
        /\ row.snap \subseteq row'.snap /\ row'.rev = row.rev /\ Durable(row') = Durable(row)
    BY <1>1, <1>4
  <2>7. e = row.epoch /\ r.at # "closed" =>
           Durable(row') \subseteq r.edits /\ r.edits \subseteq Durable(row') \cup r.queued
    BY <1>1, <2>3, <2>6 DEF RowState
  <2>8. \A f \in Epochs : live'[f] = IF f = e THEN r ELSE live[f]
    BY <1>1, <2>1
  <2>9. \A f \in Epochs : live'[f].queued = live[f].queued /\ live'[f].at = live[f].at
    BY <2>3, <2>8
  <2>10. TypedKept'
    <3> SUFFICES ASSUME NEW x \in Edits, typed[x] = row.epoch, row.epoch > 0
                 PROVE  x \in Durable(row) \cup live'[row.epoch].queued
      BY <1>0, <1>4, <2>6 DEF TypedKept
    <3>1. row.epoch \in Epochs
      BY <1>1, CollabAssumption DEF Rows, Epochs
    <3> QED
      BY <1>1, <2>9, <3>1 DEF TypedKept
  <2>11. /\ peer' \in [Peers -> Places]
         /\ \A p \in Peers : /\ peer'[p].epoch <= row.epoch
                             /\ peer'[p].at # "out" => peer'[p].epoch > 0
                             /\ peer'[p].at = "in" => live'[peer'[p].epoch].at = "open"
    <3>1. /\ peer \in [Peers -> Places]
          /\ \A p \in Peers : /\ peer[p].epoch <= row.epoch
                              /\ peer[p].at # "out" => peer[p].epoch \in Epochs
                              /\ peer[p].at = "in" => live[peer[p].epoch].at = "open"
      BY PeerFacts
    <3>2. \A p \in Peers : /\ peer[p].at # "out" => peer[p].epoch > 0
                           /\ peer[p].at = "in" => live'[peer[p].epoch].at = "open"
      BY <2>9, <3>1 DEF Epochs
    <3> QED
      BY <1>4, <3>1, <3>2
  <2>12. typed' \in [Edits -> 0..MaxEpoch] /\ \A x \in Edits : typed'[x] <= row.epoch
    BY <1>0 DEF IInv, Types, EpochOrder
  <2>13. UNCHANGED <<doc, resets, faults>>
    BY <1>0
  <2>14. /\ \A f \in Epochs \ {e} : \A x \in live[f].queued : typed'[x] = f
         /\ e # row.epoch => Durable(row') = Durable(row)
    BY <2>4, <2>6
  <2> HIDE DEF e
  <2> QED
    BY <1>1, <1>2, <2>1, <2>3, <2>5, <2>6, <2>7, <2>10, <2>11, <2>12, <2>13, <2>14, OneRoomStep
<1> QED
  BY <1>3, <1>4 DEF Adopt

-----------------------------------------------------------------------------
(* The other handlers that change the lyrics.                              *)

\* The lyrics move on, or keep their revision and text, and nothing but the
\* number of replacements owed changes with them.
LEMMA DocStep ==
    ASSUME IInv, UNCHANGED <<row, live, peer, op, typed, faults>>,
           doc' \in Documents, doc'.rev >= doc.rev,
           doc'.rev = doc.rev => doc'.content = doc.content,
           \/ resets' = resets
           \/ resets' = resets + 1 /\ EpochsLeft(1)
    PROVE  IInv'
<1>0. /\ row.epoch \in Nat /\ resets \in Nat /\ MaxEpoch \in Nat /\ op \in Operations
      /\ row.epoch + resets <= MaxEpoch /\ op.epoch <= row.epoch
      /\ TakesEpoch => row.epoch + resets + 1 <= MaxEpoch
      /\ doc \in Documents
  BY EpochFacts
<1>1. doc.rev \in Nat /\ doc'.rev \in Nat /\ op.seen.rev \in Nat
  BY <1>0 DEF Documents, Operations, Authorities
<1>2. CheckpointState'
  <2>1. Checkpoints => /\ doc'.rev >= op.seen.rev
                       /\ doc'.rev = op.seen.rev => doc'.content = op.seen.content
    <3>1. Checkpoints => /\ doc.rev >= op.seen.rev
                         /\ doc.rev = op.seen.rev => doc.content = op.seen.content
      BY DEF IInv, CheckpointState
    <3> QED
      BY <1>1, <3>1
  <2> QED
    BY <2>1 DEF IInv, CheckpointState, Checkpoints
<1>3. /\ TakesEpoch' <=> TakesEpoch
      /\ TakesEpoch => op.at \notin {"free", "close", "adopt"}
  BY DEF TakesEpoch
<1>4. resets' \in Nat /\ row.epoch + resets' + (IF TakesEpoch' THEN 1 ELSE 0) <= MaxEpoch
  <2>1. CASE resets' = resets
    BY <1>0, <1>3, <2>1
  <2>2. CASE resets' = resets + 1 /\ EpochsLeft(1)
    <3>1. CASE TakesEpoch
      <4>1. row.epoch + resets + 1 + 1 <= MaxEpoch
        BY <1>3, <2>2, <3>1 DEF EpochsLeft
      <4> QED
        BY <1>0, <2>2, <4>1
    <3>2. CASE ~TakesEpoch
      <4>1. row.epoch + resets + 1 <= MaxEpoch
        <5>1. \/ row.epoch + resets + 0 + 1 <= MaxEpoch
              \/ row.epoch + resets + 1 + 1 <= MaxEpoch
          BY <2>2 DEF EpochsLeft
        <5> QED
          BY <1>0, <5>1
      <4> QED
        BY <1>0, <1>3, <2>2, <3>2, <4>1
    <3> QED
      BY <3>1, <3>2
  <2> QED
    BY <2>1, <2>2
<1>5. op' \in Operations /\ op'.epoch <= row.epoch /\ UNCHANGED <<row, live, typed, faults>>
      /\ peer' = peer
  BY <1>0
<1> QED
  BY <1>2, <1>4, <1>5, SamePeers, OperationStep

\* The store transactions that change lyrics without opMu.
LEMMA StoreSteps ==
    ASSUME IInv,
           \/ \E x \in Edits : DirectSave(x)
           \/ PublishLyrics \/ UnpublishLyrics
           \/ \E withdrawn \in BOOLEAN : SetSourceV3LyricsWithdrawn(withdrawn)
           \/ MutateLyricsTranslationEdition
    PROVE  IInv'
<1>0. doc \in Documents /\ doc.rev \in Nat /\ doc.content \in SUBSET Edits
  BY EpochFacts DEF Documents
<1>1. ASSUME NEW x \in Edits, DirectSave(x) PROVE IInv'
  <2>1. /\ doc' = Save(doc, doc.content \cup {x}) /\ resets' = resets + 1 /\ EpochsLeft(1)
        /\ UNCHANGED <<row, live, peer, op, typed, faults>>
    BY <1>1 DEF DirectSave, Owe
  <2>2. doc.content \cup {x} \in SUBSET Edits
    BY <1>0
  <2>3. doc' \in Documents /\ doc'.rev = doc.rev + 1
    BY <1>0, <2>1, <2>2, SaveIsDocument
  <2>4. doc'.rev >= doc.rev /\ ~(doc'.rev = doc.rev)
    BY <1>0, <2>3
  <2> QED
    BY <2>1, <2>3, <2>4, DocStep
<1>2. CASE PublishLyrics
  <2>1. /\ doc' = Publish(doc) /\ resets' = resets + 1 /\ EpochsLeft(1) /\ doc.kind = "legacy"
        /\ UNCHANGED <<row, live, peer, op, typed, faults>>
    BY <1>2 DEF PublishLyrics, Owe
  <2>2. doc' \in Documents /\ doc'.rev = doc.rev /\ doc'.content = doc.content
    BY <1>0, <2>1, PublishIsDocument
  <2>3. doc'.rev >= doc.rev
    BY <1>0, <2>2
  <2> QED
    BY <2>1, <2>2, <2>3, DocStep
<1>3. CASE UnpublishLyrics
  <2>1. /\ doc' = Unpublish(doc) /\ resets' = resets + 1 /\ EpochsLeft(1)
        /\ UNCHANGED <<row, live, peer, op, typed, faults>>
    BY <1>3 DEF UnpublishLyrics, Owe
  <2>2. doc' \in Documents /\ doc'.rev = doc.rev /\ doc'.content = doc.content
    BY <1>0, <2>1, UnpublishIsDocument
  <2>3. doc'.rev >= doc.rev
    BY <1>0, <2>2
  <2> QED
    BY <2>1, <2>2, <2>3, DocStep
<1>4. ASSUME NEW withdrawn \in BOOLEAN, SetSourceV3LyricsWithdrawn(withdrawn) PROVE IInv'
  <2>1. /\ doc' = SetWithdrawn(doc, withdrawn) /\ resets' = resets /\ doc.kind = "v3"
        /\ UNCHANGED <<row, live, peer, op, typed, faults>>
    BY <1>4 DEF SetSourceV3LyricsWithdrawn
  <2>2. doc' \in Documents /\ doc'.rev = doc.rev /\ doc'.content = doc.content
    BY <1>0, <2>1, WithdrawnIsDocument
  <2>3. doc'.rev >= doc.rev
    BY <1>0, <2>2
  <2> QED
    BY <2>1, <2>2, <2>3, DocStep
<1>5. CASE MutateLyricsTranslationEdition
  <2>1. /\ doc' = Save(doc, doc.content) /\ resets' = resets
        /\ UNCHANGED <<row, live, peer, op, typed, faults>>
    BY <1>5 DEF MutateLyricsTranslationEdition
  <2>2. doc' \in Documents /\ doc'.rev = doc.rev + 1 /\ doc'.content = doc.content
    BY <1>0, <2>1, SaveIsDocument
  <2>3. doc'.rev >= doc.rev
    BY <1>0, <2>2
  <2> QED
    BY <2>1, <2>2, <2>3, DocStep
<1> QED
  BY <1>1, <1>2, <1>3, <1>4, <1>5

\* A document is swapped and the epoch of the row taken away with it.
LEMMA FenceStep ==
    ASSUME IInv, Fence, row.epoch # 0, row.epoch + 1 <= MaxEpoch
    PROVE  /\ row' \in Rows /\ row'.epoch = row.epoch + 1
           /\ row'.base.content \subseteq row'.snap /\ row'.rev = row'.base.rev
<1> DEFINE n == row.epoch + 1
<1>1. row \in Rows /\ n \in 0..MaxEpoch
  BY CollabAssumption DEF IInv, Types, Rows
<1>2. row' = [row EXCEPT !.epoch = n, !.log = {}]
  BY <1>1 DEF Fence, Rows
<1> HIDE DEF n
<1>3. /\ row' \in Rows /\ row'.epoch = n /\ row'.base = row.base /\ row'.snap = row.snap
      /\ row'.rev = row.rev
  BY <1>1, <1>2 DEF Rows
<1> QED
  BY <1>3 DEF IInv, RowState, n

\* A published document takes the song over.
LEMMA TakeoverStep ==
    ASSUME IInv, PublishLyricsDocument
    PROVE  IInv'
<1>0. /\ row.epoch \in Nat /\ resets \in Nat /\ MaxEpoch \in Nat /\ op \in Operations
      /\ op.epoch \in Nat /\ op.epoch <= row.epoch
      /\ doc \in Documents /\ faults \in 0..MaxFaults
  BY EpochFacts
<1>1. /\ EpochsLeft(2) /\ doc' = PublishDocument(doc, {}) /\ Fence /\ resets' = resets + 1
      /\ UNCHANGED <<live, peer, op, typed, faults>>
  BY DEF PublishLyricsDocument, Owe
<1>2. doc' \in Documents /\ doc'.rev > doc.rev
  BY <1>0, <1>1, TakeoverIsDocument
<1>3. doc.rev \in Nat /\ doc'.rev \in Nat /\ op.seen.rev \in Nat
  BY <1>0, <1>2 DEF Documents, Operations, Authorities
<1>4. doc'.rev >= doc.rev /\ ~(doc'.rev = doc.rev)
  BY <1>2, <1>3
<1>5. /\ row.epoch + resets + 2 <= MaxEpoch
      /\ TakesEpoch => row.epoch + resets + 3 <= MaxEpoch
  <2>1. row.epoch + resets + 0 + 2 <= MaxEpoch \/ row.epoch + resets + 1 + 2 <= MaxEpoch
    BY <1>1 DEF EpochsLeft
  <2>2. TakesEpoch => row.epoch + resets + 1 + 2 <= MaxEpoch
    BY <1>1 DEF EpochsLeft, TakesEpoch
  <2> QED
    BY <1>0, <2>1, <2>2
<1>6. CASE row.epoch = 0
  <2>1. UNCHANGED <<row, live, peer, op, typed, faults>>
    BY <1>1, <1>6 DEF Fence
  <2>2. EpochsLeft(1)
    <3>1. CASE op.at \in {"free", "close", "adopt"}
      BY <1>0, <1>1, <3>1 DEF EpochsLeft
    <3>2. CASE op.at \notin {"free", "close", "adopt"}
      BY <1>0, <1>1, <3>2 DEF EpochsLeft
    <3> QED
      BY <3>1, <3>2
  <2> QED
    BY <1>1, <1>2, <1>4, <2>1, <2>2, DocStep
<1>7. CASE row.epoch # 0
  <2>1. row.epoch + 1 <= MaxEpoch
    BY <1>0, <1>5
  <2>2. /\ row' \in Rows /\ row'.epoch = row.epoch + 1
        /\ row'.base.content \subseteq row'.snap /\ row'.rev = row'.base.rev
    BY <1>1, <1>7, <2>1, FenceStep
  <2>3. row'.epoch # op.epoch
    BY <1>0, <2>2
  <2>4. CheckpointState'
    <3>1. Checkpoints => doc.rev >= op.seen.rev
      BY DEF IInv, CheckpointState
    <3>2. Checkpoints => doc'.rev >= op.seen.rev /\ doc'.rev # op.seen.rev
      BY <1>2, <1>3, <3>1
    <3> QED
      BY <1>1, <2>3, <3>2 DEF IInv, CheckpointState, Checkpoints
  <2>5. TakesEpoch' <=> TakesEpoch
    BY <1>1 DEF TakesEpoch
  <2>6. row.epoch + 1 + resets' + (IF TakesEpoch' THEN 1 ELSE 0) <= MaxEpoch
    BY <1>0, <1>1, <1>5, <2>5
  <2>7. peer' \in [Peers -> Places] /\ \A p \in Peers : peer'[p] \in {Out, peer[p]}
    BY <1>1 DEF IInv, Types
  <2>8. \A p \in Peers : /\ peer'[p].epoch <= row.epoch + 1
                         /\ peer'[p].at # "out" => peer'[p].epoch > 0
                         /\ peer'[p].at = "in" => live'[peer'[p].epoch].at = "open"
    BY <1>1, <2>7, FewerPeers
  <2>9. /\ resets' \in Nat /\ faults' \in 0..MaxFaults /\ op' \in Operations
        /\ op'.epoch <= row.epoch + 1 /\ UNCHANGED <<typed>>
        /\ live' \in [Epochs -> Rooms] /\ \A x \in Epochs : live'[x] \in {live[x], Closed}
    BY <1>0, <1>1 DEF IInv, Types
  <2> QED
    BY <1>2, <2>2, <2>4, <2>6, <2>7, <2>8, <2>9, NewEpochStep
<1> QED
  BY <1>6, <1>7

\* A restore replaces the lyrics.
LEMMA RestoreStep ==
    ASSUME IInv, NEW d \in {Blank, Save(Blank, {})}, Restore(d)
    PROVE  IInv'
<1>0. /\ row.epoch \in Nat /\ resets \in Nat /\ MaxEpoch \in Nat /\ row \in Rows
      /\ live \in [Epochs -> Rooms] /\ typed \in [Edits -> 0..MaxEpoch]
      /\ peer \in [Peers -> Places]
  BY EpochFacts DEF IInv, Types
<1>1. /\ op.at = "free" /\ resets = 0 /\ EpochsLeft(2) /\ Fault /\ doc' = d /\ Fence
      /\ op' = [Free EXCEPT !.at = "retire"] /\ UNCHANGED <<live, peer, resets, typed>>
  BY DEF Restore
<1>2. doc' \in Documents
  BY <1>1, BlankIsDocument, SaveIsDocument
<1>3. op' \in Operations /\ op'.at = "retire" /\ op'.epoch = 0
  BY <1>1, FreeIsOperation, OperationAt
<1>4. CheckpointState' /\ op'.epoch <= row.epoch /\ op'.epoch <= row.epoch + 1
  BY <1>0, <1>3, NoCheckpoint
<1>5. row.epoch + resets + 2 <= MaxEpoch /\ faults' \in 0..MaxFaults
  BY <1>0, <1>1, FaultBound DEF EpochsLeft
<1>6. CASE row.epoch = 0
  <2>1. row' = row
    BY <1>1, <1>6 DEF Fence
  <2>2. Types' /\ TypedKept'
    BY <1>1, <1>2, <1>3, <1>5, <2>1 DEF IInv, Types, TypedKept
  <2>3. EpochOrder'
    <3>1. row'.epoch + resets' + (IF TakesEpoch' THEN 1 ELSE 0) <= MaxEpoch
      BY <1>0, <1>1, <1>5, <2>1
    <3> QED
      BY <1>1, <1>4, <2>1, <3>1 DEF IInv, EpochOrder
  <2>4. RoomState' /\ RowState'
    BY <1>1, <2>1 DEF IInv, RoomState, RowState
  <2> QED
    BY <1>4, <2>2, <2>3, <2>4 DEF IInv
<1>7. CASE row.epoch # 0
  <2>1. row.epoch + 1 <= MaxEpoch
    BY <1>0, <1>5
  <2>2. /\ row' \in Rows /\ row'.epoch = row.epoch + 1
        /\ row'.base.content \subseteq row'.snap /\ row'.rev = row'.base.rev
    BY <1>1, <1>7, <2>1, FenceStep
  <2>3. row.epoch + 1 + resets' + (IF TakesEpoch' THEN 1 ELSE 0) <= MaxEpoch
    BY <1>0, <1>1, <1>5
  <2>4. peer' \in [Peers -> Places] /\ \A p \in Peers : peer'[p] \in {Out, peer[p]}
    BY <1>0, <1>1
  <2>5. \A p \in Peers : /\ peer'[p].epoch <= row.epoch + 1
                         /\ peer'[p].at # "out" => peer'[p].epoch > 0
                         /\ peer'[p].at = "in" => live'[peer'[p].epoch].at = "open"
    BY <1>1, <2>4, FewerPeers
  <2>6. /\ resets' \in Nat /\ UNCHANGED <<typed>>
        /\ live' \in [Epochs -> Rooms] /\ \A x \in Epochs : live'[x] \in {live[x], Closed}
    BY <1>0, <1>1
  <2> QED
    BY <1>2, <1>3, <1>4, <1>5, <2>2, <2>3, <2>4, <2>5, <2>6, NewEpochStep
<1> QED
  BY <1>6, <1>7

\* The process is replaced: rooms, connections and operations are gone.
LEMMA RestartStep ==
    ASSUME IInv, Restart
    PROVE  IInv'
<1>0. /\ row.epoch \in Nat /\ resets \in Nat /\ MaxEpoch \in Nat
      /\ row.epoch + resets <= MaxEpoch
      /\ typed \in [Edits -> 0..MaxEpoch] /\ RowState /\ TypedKept
      /\ row.epoch \in 0..MaxEpoch
  BY EpochFacts, PeerFacts DEF IInv, Types
<1>1. /\ Fault /\ live' = [e \in Epochs |-> Closed] /\ peer' = [p \in Peers |-> Out]
      /\ op' = Free /\ resets' = 0 /\ UNCHANGED <<doc, row>>
      /\ typed' = [x \in Edits |-> IF \E e \in Epochs : x \in live[e].queued THEN 0 ELSE typed[x]]
  BY DEF Restart
<1>2. /\ op' \in Operations /\ op'.epoch <= row.epoch /\ ~TakesEpoch' /\ CheckpointState'
  BY <1>1, FreeEnds
<1>3. live' \in [Epochs -> Rooms] /\ \A e \in Epochs : live'[e] = Closed
  BY <1>1, ClosedIsRoom
<1>4. peer' \in [Peers -> Places] /\ \A p \in Peers : peer'[p] = Out
  BY <1>1, OutIsPlace
<1>5. typed' \in [Edits -> 0..MaxEpoch]
  BY <1>0, <1>1
<1>6. faults' \in 0..MaxFaults
  BY <1>1, FaultBound
<1>7. Types'
  BY <1>1, <1>2, <1>3, <1>4, <1>5, <1>6 DEF IInv, Types
<1>8. EpochOrder'
  <2>1. \A x \in Edits : typed'[x] <= row.epoch
    <3> SUFFICES ASSUME NEW x \in Edits PROVE typed'[x] <= row.epoch
      OBVIOUS
    <3>1. typed[x] <= row.epoch
      BY DEF IInv, EpochOrder
    <3> QED
      BY <1>0, <1>1, <3>1
  <2>2. row'.epoch + resets' + (IF TakesEpoch' THEN 1 ELSE 0) <= MaxEpoch
    BY <1>0, <1>1, <1>2
  <2>3. \A e \in Epochs : live'[e].at # "closed" => e <= row'.epoch
    BY <1>3, ClosedIsRoom
  <2>4. \A p \in Peers : /\ peer'[p].epoch <= row'.epoch
                         /\ peer'[p].at # "out" => peer'[p].epoch > 0
    BY <1>0, <1>1, <1>4, OutIsPlace
  <2> QED
    BY <1>1, <1>2, <2>1, <2>2, <2>3, <2>4 DEF EpochOrder
<1>9. RoomState'
  BY <1>3, <1>4, ClosedIsRoom, OutIsPlace DEF RoomState
<1>10. RowState'
  BY <1>0, <1>1, <1>3, ClosedIsRoom DEF RowState
<1>11. TypedKept'
  <2> SUFFICES ASSUME NEW x \in Edits, typed'[x] = row.epoch, row.epoch > 0
               PROVE  x \in Durable(row)
    BY <1>1 DEF TypedKept
  <2>1. row.epoch \in Epochs
    BY <1>0 DEF Epochs
  <2>2. typed[x] = row.epoch /\ x \notin live[row.epoch].queued
    BY <1>1, <2>1
  <2> QED
    BY <1>0, <2>2 DEF TypedKept
<1> QED
  BY <1>2, <1>7, <1>8, <1>9, <1>10, <1>11 DEF IInv

-----------------------------------------------------------------------------
(* The theorems.                                                           *)

\* The service starts in a state of the invariant.
LEMMA CollabInit == Init => IInv
<1> SUFFICES ASSUME Init PROVE IInv
  OBVIOUS
<1> DEFINE a == Fingerprint(Blank)
<1>1. /\ row = Seed(0, a) /\ live = [e \in Epochs |-> Closed]
      /\ peer = [p \in Peers |-> Out] /\ op = Free /\ resets = 0
      /\ typed = [x \in Edits |-> 0] /\ faults = 0
      /\ doc \in {Blank, Save(Blank, {}), PublishDocument(Blank, {})}
  BY DEF Init
<1>2. doc \in Documents
  BY <1>1, BlankIsDocument, SaveIsDocument, TakeoverIsDocument
<1>3. /\ a \in Authorities /\ row \in Rows /\ row.epoch = 0
      /\ row.base = a /\ row.snap = a.content /\ row.rev = a.rev
  <2>1. a \in Authorities /\ 0 \in 0..MaxEpoch
    BY BlankIsDocument, DocFingerprint, CollabAssumption
  <2> HIDE DEF a
  <2> QED
    BY <1>1, <2>1, SeedIsRow
<1>4. live \in [Epochs -> Rooms] /\ \A e \in Epochs : live[e] = Closed
  BY <1>1, ClosedIsRoom
<1>5. peer \in [Peers -> Places] /\ \A p \in Peers : peer[p] = Out
  BY <1>1, OutIsPlace
<1>6. op \in Operations /\ op.at = "free" /\ op.epoch = 0
  BY <1>1, FreeIsOperation
<1>7. typed \in [Edits -> 0..MaxEpoch] /\ \A x \in Edits : typed[x] = 0
  BY <1>1, CollabAssumption
<1>8. Types
  BY <1>1, <1>2, <1>3, <1>4, <1>5, <1>6, <1>7, CollabAssumption DEF Types
<1>9. EpochOrder
  <2>1. ~TakesEpoch
    BY <1>6 DEF TakesEpoch
  <2>2. row.epoch + resets + (IF TakesEpoch THEN 1 ELSE 0) <= MaxEpoch
    BY <1>1, <1>3, <2>1, CollabAssumption
  <2> QED
    BY <1>3, <1>4, <1>5, <1>6, <1>7, <2>2, ClosedIsRoom, OutIsPlace DEF EpochOrder
<1>10. RoomState
  BY <1>4, <1>5, ClosedIsRoom, OutIsPlace DEF RoomState
<1>11. RowState
  BY <1>3, <1>4, ClosedIsRoom DEF RowState
<1>12. CheckpointState
  BY <1>6 DEF CheckpointState, Checkpoints
<1>13. TypedKept
  BY <1>3 DEF TypedKept
<1> QED
  BY <1>8, <1>9, <1>10, <1>11, <1>12, <1>13 DEF IInv

\* Stuttering keeps the invariant.
LEMMA CollabStutters ==
    ASSUME IInv, UNCHANGED vars
    PROVE  IInv'
<1>1. UNCHANGED <<doc, row, live, op, resets, typed, faults>> /\ peer' = peer
  BY DEF vars
<1> QED
  BY <1>1, SamePeers, PeersStep

\* Every step keeps the invariant.
LEMMA CollabStep == IInv /\ [Next]_vars => IInv'
<1> SUFFICES ASSUME IInv, [Next]_vars PROVE IInv'
  OBVIOUS
<1>1. ASSUME NEW p \in Peers, PeerStep(p) PROVE IInv'
  BY <1>1, JoinStep, LoadDocStep, IssueTicketStep, RevokeStep, TypeStep DEF PeerStep
<1>2. ASSUME NEW e \in Epochs, RoomStep(e) PROVE IInv'
  BY <1>2, OpenStep, FlushStep, CompactStep, EvictStep DEF RoomStep
<1>3. CASE Operation
  BY <1>3, BeginReplaceStep, ReseedStep, CloseRetiredStep, RetireAllStep, AbandonStep,
     BeginCheckpointStep, FreezeStep, CopyStep, SaveCheckpointStep, AdoptStep DEF Operation
<1>4. CASE StoreStep
  BY <1>4, StoreSteps, TakeoverStep, RestoreStep, RestartStep DEF StoreStep
<1> QED
  BY <1>1, <1>2, <1>3, <1>4, CollabStutters DEF Next

\* The inductive invariant of collaborative editing.
THEOREM CollabInvariant == Spec => []IInv
<1> QED
  BY CollabInit, CollabStep, PTL DEF Spec

\* No room, ticket or operation is ever ahead of the epoch of the row, and a
\* publication row and a withdrawal never coexist (ensureRoom, publishLyrics).
THEOREM CollabTypes == Spec => []TypeOK
<1>1. IInv => TypeOK
  <2> SUFFICES ASSUME IInv PROVE TypeOK
    OBVIOUS
  <2>1. IsDocument(doc)
    BY DEF IInv, Types, Documents
  <2>2. row.epoch \in 0..MaxEpoch /\ Durable(row) \subseteq Edits /\ row.rev \in Nat
    BY DEF IInv, Types, Rows, Durable
  <2>3. \A e \in Epochs : /\ live[e].queued \subseteq live[e].edits
                          /\ live[e].edits \subseteq Edits
                          /\ live[e].at # "closed" => e <= row.epoch
    BY DEF IInv, Types, Rooms, RoomState, EpochOrder
  <2>4. (\A p \in Peers : peer[p].epoch <= row.epoch) /\ op.epoch <= row.epoch
    BY DEF IInv, EpochOrder
  <2> QED
    BY <2>1, <2>2, <2>3, <2>4 DEF IInv, Types, TypeOK
<1> QED
  BY <1>1, CollabInvariant, PTL

\* What a peer typed in the current room is stored or still queued there
\* (commitCheckpointTx, StoreUpdate, the compaction and the closing of rooms).
THEOREM TypedKeptHolds == Spec => []TypedKept
<1>1. IInv => TypedKept
  BY DEF IInv
<1> QED
  BY <1>1, CollabInvariant, PTL

\* A retired room never writes into the row: while the epoch stays, the only
\* text that becomes durable was typed in that epoch (StoreUpdate's fence).
THEOREM RetiredInertHolds == Spec => RetiredInert
<1>1. ASSUME IInv, [Next]_vars, row'.epoch = row.epoch
      PROVE  \A x \in Durable(row') \ Durable(row) : typed[x] = row.epoch
  <2>0. row.epoch \in Nat /\ row \in Rows /\ op \in Operations
    BY <1>1, EpochFacts DEF IInv, Types
  <2>1. CASE row' = row
    BY <2>1 DEF Durable
  <2>2. ASSUME NEW es \in SUBSET Epochs, CloseLive(es), typed' = typed
        PROVE  \A x \in Durable(row') \ Durable(row) : typed[x] = row.epoch
    BY <1>1, <2>2, CloseKeeps
  <2>3. ASSUME NEW p \in Peers, Revalidate(p) \/ Revoke(p)
        PROVE  \A x \in Durable(row') \ Durable(row) : typed[x] = row.epoch
    <3>1. peer[p].at = "in" /\ CloseLive({peer[p].epoch}) /\ typed' = typed
      BY <2>3 DEF Revalidate, Revoke, CloseRooms
    <3>2. {peer[p].epoch} \in SUBSET Epochs
      BY <1>1, <3>1, PeerFacts
    <3> QED
      BY <2>2, <3>1, <3>2
  <2>4. ASSUME NEW p \in Peers, IssueTicket(p) PROVE row' = row
    <3>1. row' = row \/ (row.epoch = 0 /\ row' = Seed(1, Fingerprint(doc)))
      BY <2>4 DEF IssueTicket
    <3>2. Seed(1, Fingerprint(doc)).epoch = 1
      BY DEF Seed
    <3> QED
      BY <1>1, <3>1, <3>2
  <2>5. ASSUME NEW p \in Peers, PeerStep(p)
        PROVE  \A x \in Durable(row') \ Durable(row) : typed[x] = row.epoch
    <3>1. \/ row' = row \/ IssueTicket(p) \/ Revalidate(p) \/ Revoke(p)
      BY <2>5 DEF PeerStep, Join, LoadDoc, Leave, ConsumeTicket, Authorize, Type
    <3> QED
      BY <2>1, <2>3, <2>4, <2>5, <3>1
  <2>6. ASSUME NEW e \in Epochs, Flush(e)
        PROVE  \A x \in Durable(row') \ Durable(row) : typed[x] = row.epoch
    <3> DEFINE l == row.log \cup Accepted(e)
    <3>1. row' = [row EXCEPT !.log = l]
      BY <2>6 DEF Flush
    <3>2. \A x \in Accepted(e) : typed[x] = row.epoch
      BY <1>1 DEF Accepted, IInv, RoomState
    <3> HIDE DEF l
    <3>3. row'.snap = row.snap /\ row'.log = l
      BY <2>0, <3>1 DEF Rows
    <3> QED
      BY <3>2, <3>3 DEF Durable, l
  <2>7. ASSUME NEW e \in Epochs, Compact(e)
        PROVE  \A x \in Durable(row') \ Durable(row) : typed[x] = row.epoch
    <3> DEFINE s == row.snap \cup row.log
    <3>1. row' = [row EXCEPT !.snap = s, !.log = {}]
      BY <2>0, <2>7 DEF Compact, Rows
    <3> HIDE DEF s
    <3>2. row'.snap = s /\ row'.log = {}
      BY <2>0, <3>1 DEF Rows
    <3> QED
      BY <3>2 DEF Durable, s
  <2>8. ASSUME NEW e \in Epochs, RoomStep(e)
        PROVE  \A x \in Durable(row') \ Durable(row) : typed[x] = row.epoch
    <3>1. CASE Evict(e)
      <4>1. CloseLive({e}) /\ typed' = typed /\ {e} \in SUBSET Epochs
        BY <3>1 DEF Evict, CloseRooms
      <4> QED
        BY <2>2, <4>1
    <3>2. CASE Open(e)
      BY <2>1, <3>2 DEF Open
    <3> QED
      BY <2>6, <2>7, <2>8, <3>1, <3>2 DEF RoomStep
  <2>9. CASE Reseed \/ RetireAll
    <3>1. row' = row \/ \E a : row' = NextSeed(row, a)
      BY <2>9 DEF Reseed, RetireAll
    <3>2. \A a : NextSeed(row, a).epoch # row.epoch
      BY <2>0 DEF NextSeed, Seed
    <3> QED
      BY <1>1, <2>1, <3>1, <3>2
  <2>10. CASE CloseRetired
    <3>1. CloseLive(Epochs \ {op.epoch}) /\ typed' = typed
      BY <2>10 DEF CloseRetired
    <3> QED
      BY <2>2, <3>1
  <2>11. CASE Freeze \/ Adopt
    <3>1. row' = row \/ (CloseLive({op.epoch}) /\ typed' = typed)
      BY <2>11 DEF Freeze, Adopt, CloseRooms
    <3>2. {op.epoch} \in SUBSET Epochs
      BY <1>1, <2>11 DEF IInv, CheckpointState, Checkpoints, Freeze, Adopt
    <3> QED
      BY <2>1, <2>2, <3>1, <3>2
  <2>12. CASE SaveCheckpoint
    <3>1. CASE op.seen.rev = 0
      <4>1. \E a : row' = NextSeed(row, a)
        BY <2>12, <3>1 DEF SaveCheckpoint
      <4>2. \A a : NextSeed(row, a).epoch # row.epoch
        BY <2>0 DEF NextSeed, Seed
      <4> QED
        BY <1>1, <4>1, <4>2
    <3>2. CASE op.seen.rev # 0
      <4>1. /\ Durable(row') \subseteq Durable(row) \cup live[op.epoch].queued
            /\ row.epoch = op.epoch /\ op.epoch \in Epochs
        BY <1>1, <2>12, <3>2, SaveGrowsRow, SaveFacts
      <4>2. \A x \in live[op.epoch].queued : typed[x] = op.epoch
        BY <1>1, <4>1 DEF IInv, RoomState
      <4> QED
        BY <4>1, <4>2
    <3> QED
      BY <3>1, <3>2
  <2>13. CASE Operation
    <3>1. \/ row' = row \/ Reseed \/ RetireAll \/ CloseRetired \/ Freeze \/ Adopt
          \/ SaveCheckpoint
      BY <2>13 DEF Operation, BeginReplace, Abandon, BeginCheckpoint, Copy
    <3> QED
      BY <2>1, <2>9, <2>10, <2>11, <2>12, <3>1
  <2>14. CASE StoreStep
    <3>1. row' = row \/ Fence
      BY <2>14 DEF StoreStep, DirectSave, PublishLyrics, UnpublishLyrics,
         SetSourceV3LyricsWithdrawn, MutateLyricsTranslationEdition, PublishLyricsDocument,
         Restore, Restart
    <3>2. CASE Fence /\ row.epoch # 0
      <4> DEFINE n == row.epoch + 1
      <4>1. row' = [row EXCEPT !.epoch = n, !.log = {}] /\ n # row.epoch
        BY <2>0, <3>2 DEF Fence
      <4> HIDE DEF n
      <4>2. row'.epoch = n
        BY <2>0, <4>1 DEF Rows
      <4> QED
        BY <1>1, <4>1, <4>2
    <3> QED
      BY <2>1, <3>1, <3>2 DEF Fence
  <2>15. CASE UNCHANGED vars
    BY <2>1, <2>15 DEF vars
  <2> QED
    BY <1>1, <2>5, <2>8, <2>13, <2>14, <2>15 DEF Next
<1>2. IInv /\ [Next]_vars =>
         [row'.epoch = row.epoch =>
            \A x \in Durable(row') \ Durable(row) : typed[x] = row.epoch]_vars
  BY <1>1
<1> QED
  BY <1>2, CollabInvariant, PTL DEF Spec, RetiredInert

\* The steps that end or continue an operation which is about to save.
LEMMA SavingSteps ==
    ASSUME IInv, [Next]_vars, op.at = "save", op' # op
    PROVE  SaveCheckpoint \/ UNCHANGED <<doc, row>>
<1>1. ASSUME NEW p \in Peers, PeerStep(p) PROVE FALSE
  BY <1>1 DEF PeerStep, Join, LoadDoc, Leave, IssueTicket, ConsumeTicket, Authorize,
     Revalidate, Revoke, Type
<1>2. ASSUME NEW e \in Epochs, RoomStep(e) PROVE FALSE
  BY <1>2 DEF RoomStep, Open, Flush, Compact, Evict
<1>3. CASE Operation
  BY <1>3 DEF Operation, BeginReplace, Reseed, CloseRetired, RetireAll, Abandon,
     BeginCheckpoint, Freeze, Copy, Adopt
<1>4. CASE StoreStep
  BY <1>4 DEF StoreStep, DirectSave, PublishLyrics, UnpublishLyrics,
     SetSourceV3LyricsWithdrawn, MutateLyricsTranslationEdition, PublishLyricsDocument,
     Restore, Restart
<1>5. CASE UNCHANGED vars
  BY <1>5 DEF vars
<1> QED
  BY <1>1, <1>2, <1>3, <1>4, <1>5 DEF Next

\* The first save of a song has every edit its room accepted, although it
\* discards the room (Checkpoint: "no update can enter later").
THEOREM FirstSaveCompleteHolds == Spec => FirstSaveComplete
<1>1. ASSUME IInv, [Next]_vars, op.at = "save", op' # op, row'.epoch # row.epoch
      PROVE  Durable(row) \cup live[row.epoch].edits \subseteq doc'.content
  <2>1. SaveCheckpoint
    BY <1>1, SavingSteps
  <2>2. /\ row.epoch = op.epoch /\ doc'.content = op.edits
        /\ op.seen.rev = 0 => Durable(row) \cup live[op.epoch].edits \subseteq op.edits
    BY <1>1, <2>1, SaveFacts
  <2>3. op.seen.rev = 0
    BY <1>1, <2>1, SaveGrowsRow
  <2> QED
    BY <2>2, <2>3
<1>2. IInv /\ [Next]_vars =>
         [op.at = "save" /\ op' # op /\ row'.epoch # row.epoch =>
            Durable(row) \cup live[row.epoch].edits \subseteq doc'.content]_vars
  BY <1>1
<1> QED
  BY <1>2, CollabInvariant, PTL DEF Spec, FirstSaveComplete

\* A checkpoint never undoes a save, an import or a takeover committed since
\* it read the draft (SaveSourceV3Draft, the comparison of revisions).
THEOREM CheckpointOnlyAddsHolds == Spec => CheckpointOnlyAdds
<1>1. ASSUME IInv, [Next]_vars, op.at = "save", op' # op
      PROVE  doc.content \subseteq doc'.content
  <2>1. CASE SaveCheckpoint
    BY <1>1, <2>1, SaveFacts
  <2>2. CASE UNCHANGED <<doc, row>>
    BY <2>2
  <2> QED
    BY <1>1, <2>1, <2>2, SavingSteps
<1>2. IInv /\ [Next]_vars =>
         [op.at = "save" /\ op' # op => doc.content \subseteq doc'.content]_vars
  BY <1>1
<1> QED
  BY <1>2, CollabInvariant, PTL DEF Spec, CheckpointOnlyAdds
=============================================================================
