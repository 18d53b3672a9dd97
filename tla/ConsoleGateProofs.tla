-------------------------- MODULE ConsoleGateProofs --------------------------
(***************************************************************************)
(* Proofs about the console tab, for any number of producer runs, cuts,    *)
(* failed requests, saves and decisions of the user.                       *)
(***************************************************************************)
EXTENDS ConsoleGate, TLAPS

\* The gate was in state s before its present one, or still is.
Earlier(s) ==
  \/ s.instance < status.instance
  \/ s.instance = status.instance /\ s.revision < status.revision

Past(s) == s = status \/ Earlier(s)

\* The types, by the groups of variables that change together.  Every status
\* announced is of some instance, and content of a run that has begun.
ServerPart ==
  /\ status \in Status /\ status.instance > 0
  /\ content \in Nat /\ runs \in 0..MaxRuns /\ content <= runs
  /\ cuts \in 0..MaxCuts

StreamPart ==
  /\ link \in {"up", "cut"} /\ connected \in BOOLEAN
  /\ stream \in Seq(Status)
  /\ \A i \in 1..Len(stream) : stream[i].instance > 0

FencePart ==
  /\ fence \in BOOLEAN
  /\ proof \in Status /\ ~proof.running
  /\ vouched \in {"nobody", "reload", "frame"}
  /\ proof = NoProof <=> vouched = "nobody"
  /\ preserved \in BOOLEAN /\ dialog \in Dialogs

CallPart ==
  /\ stage \in {"idle", "before", "loading", "after"}
  /\ draft \in BOOLEAN /\ stray \in BOOLEAN
  /\ before \in Status
  /\ orphans \subseteq BOOLEAN /\ late \subseteq BOOLEAN

TimerPart == timer \in {{}, {TRUE}, {FALSE}} /\ leaked \subseteq BOOLEAN

SavePart ==
  /\ request \in [proof : Status, based : -1..MaxRuns]
  /\ request = NoRequest \/ request.based \in 0..MaxRuns
  /\ admitted \in [based : 0..MaxRuns, on : 0..MaxRuns]
  /\ choices \in 0..MaxChoices

ShownPart == loaded \in 0..content /\ failures \in 0..MaxFailures

\* What the latest call read before its reload was the gate's status then, and
\* if it still is, the reload has shown what the server holds.
CallReads ==
  /\ stage \in {"loading", "after"} => Past(before) /\ ~before.running
  /\ stage = "after" /\ before = status => loaded = content

\* A proof that a reload vouches for was once the gate's status.
ProofPast == vouched = "reload" => Past(proof)

Truth == CallReads /\ ProofPast /\ ReloadVouches

Inv == /\ ServerPart /\ StreamPart /\ FencePart /\ CallPart /\ TimerPart
       /\ SavePart /\ ShownPart /\ Truth

-----------------------------------------------------------------------------
\* The tab without a proof holds a status that no gate ever had.
LEMMA NoProofIsStatus == NoProof \in Status /\ ~NoProof.running /\ NoProof.instance = 0
  BY DEF NoProof, Status

\* A step that neither changes the server nor what is shown, and that begins no
\* reload and accepts no status of one.
LEMMA QuietTruth ==
  ASSUME Inv, UNCHANGED <<status, content, loaded>>,
         \/ vouched' # "reload"
         \/ UNCHANGED <<proof, vouched>>,
         \/ stage' \notin {"loading", "after"}
         \/ UNCHANGED <<stage, before>>
  PROVE  Truth'
<1>1. CallReads'
  BY DEF Inv, Truth, CallReads, Past, Earlier
<1>2. ProofPast'
  BY DEF Inv, Truth, ProofPast, Past, Earlier
<1>3. ReloadVouches'
  BY DEF Inv, Truth, ReloadVouches
<1> QED
  BY <1>1, <1>2, <1>3 DEF Truth

\* What the tab does leaves the server as it was.
LEMMA ServerFrame ==
  ASSUME Inv, UNCHANGED serverVars
  PROVE  ServerPart' /\ UNCHANGED <<status, content>>
  BY DEF Inv, ServerPart, serverVars

\* A step that does not touch the event stream keeps its types.
LEMMA StreamFrame ==
  ASSUME Inv, UNCHANGED streamVars
  PROVE  StreamPart'
  BY DEF Inv, StreamPart, streamVars

\* A step that does not touch the write fence keeps it, its proof and its dialog.
LEMMA FenceFrame ==
  ASSUME Inv, UNCHANGED fenceVars
  PROVE  FencePart' /\ UNCHANGED <<proof, vouched, preserved, dialog>>
  BY DEF Inv, FencePart, fenceVars

\* A step that does not touch the calls of reconcileContent keeps them.
LEMMA CallFrame ==
  ASSUME Inv, UNCHANGED callVars
  PROVE  CallPart' /\ UNCHANGED <<stage, before>>
  BY DEF Inv, CallPart, callVars

\* A step that does not touch the retry timers keeps them.
LEMMA TimerFrame ==
  ASSUME Inv, UNCHANGED timerVars
  PROVE  TimerPart'
  BY DEF Inv, TimerPart, timerVars

\* A step that does not touch the save under way keeps it.
LEMMA SaveFrame ==
  ASSUME Inv, UNCHANGED userVars
  PROVE  SavePart'
  BY DEF Inv, SavePart, userVars

\* A step that neither loads nor fails keeps what the tab shows.
LEMMA ShownFrame ==
  ASSUME Inv, UNCHANGED <<loaded, failures, content>>
  PROVE  ShownPart'
  BY DEF Inv, ShownPart

-----------------------------------------------------------------------------
(* The server.                                                             *)

\* The gate's status moves on: nothing that was its status is so any more.
LEMMA LaterTruth ==
  ASSUME Inv, UNCHANGED <<content, loaded, stage, before, proof, vouched>>,
         status' \in Status,
         \/ status'.instance = status.instance + 1
         \/ status'.instance = status.instance /\ status'.revision = status.revision + 1
  PROVE  Truth'
<1>1. status \in Status /\ before \in Status /\ proof \in Status
  BY DEF Inv, ServerPart, CallPart, FencePart
<1>2. \A s \in Status : Past(s) => Earlier(s)' /\ s # status'
  <2> SUFFICES ASSUME NEW s \in Status, Past(s)
               PROVE  Earlier(s)' /\ s # status'
    OBVIOUS
  <2>1. /\ s.instance \in Nat /\ s.revision \in Nat
        /\ status.instance \in Nat /\ status.revision \in Nat
        /\ status'.instance \in Nat /\ status'.revision \in Nat
    BY <1>1 DEF Status
  <2>2. Earlier(s)'
    BY <2>1 DEF Past, Earlier
  <2>3. s # status'
    BY <2>1, <2>2 DEF Earlier
  <2> QED
    BY <2>2, <2>3
<1>3. CallReads'
  BY <1>1, <1>2 DEF Inv, Truth, CallReads, Past
<1>4. ProofPast' /\ ReloadVouches'
  BY <1>1, <1>2 DEF Inv, Truth, ProofPast, ReloadVouches, Past
<1> QED
  BY <1>3, <1>4 DEF Truth

\* A move of the gate, and its frame to the tab, keep the invariant.
LEMMA AnnounceStep ==
  ASSUME Inv, NEW s \in Status, Announce(s), s.instance = status.instance,
         s.revision = status.revision + 1,
         UNCHANGED <<content, cuts>>, runs' \in 0..MaxRuns, runs' >= runs
  PROVE  Inv'
<1>1. /\ status' = s
      /\ stream' = IF link = "up" THEN Append(stream, s) ELSE stream
      /\ UNCHANGED <<link, connected, fenceVars, callVars, timerVars, loaded, failures, userVars>>
  BY DEF Announce
<1>2. ServerPart'
  BY <1>1, ConsoleGateAssumption DEF Inv, ServerPart
<1>3. StreamPart'
  <2>1. stream \in Seq(Status) /\ status.instance > 0
    BY DEF Inv, StreamPart, ServerPart
  <2>2. stream' \in Seq(Status) /\ \A i \in 1..Len(stream') : stream'[i].instance > 0
    BY <1>1, <2>1 DEF Inv, StreamPart
  <2> QED
    BY <1>1, <2>2 DEF Inv, StreamPart
<1>4. FencePart' /\ CallPart' /\ TimerPart' /\ SavePart' /\ ShownPart'
  BY <1>1, FenceFrame, CallFrame, TimerFrame, SaveFrame, ShownFrame
<1>5. Truth'
  <2>1. UNCHANGED <<content, loaded, stage, before, proof, vouched>>
    BY <1>1 DEF fenceVars, callVars
  <2>2. status' \in Status /\ status'.instance = status.instance
        /\ status'.revision = status.revision + 1
    BY <1>1
  <2> QED
    BY <2>1, <2>2, LaterTruth
<1> QED
  BY <1>2, <1>3, <1>4, <1>5 DEF Inv

\* The next status of a gate is its successor in the same process.
LEMMA StatusAfter ==
  ASSUME Inv, NEW b \in BOOLEAN
  PROVE  LET s == [status EXCEPT !.revision = @ + 1, !.running = b]
         IN  /\ s \in Status /\ s.instance = status.instance
             /\ s.revision = status.revision + 1
<1> DEFINE n == status.revision + 1
<1>1. status \in Status /\ n \in Nat
  BY DEF Inv, ServerPart, Status
<1> HIDE DEF n
<1>2. LET s == [status EXCEPT !.revision = n, !.running = b]
      IN  s \in Status /\ s.instance = status.instance /\ s.revision = n
  BY <1>1 DEF Status
<1> QED
  BY <1>1, <1>2 DEF n, Status

\* A producer claims the gate or releases it.
LEMMA ServerStep ==
  ASSUME Inv, BeginProducer \/ ReleaseProducer
  PROVE  Inv'
<1>1. PICK b \in BOOLEAN : Announce([status EXCEPT !.revision = @ + 1, !.running = b])
  BY DEF BeginProducer, ReleaseProducer
<1>2. UNCHANGED <<content, cuts>>
  BY DEF BeginProducer, ReleaseProducer
<1>3. runs' \in 0..MaxRuns /\ runs' >= runs
  <2>1. runs \in 0..MaxRuns /\ MaxRuns \in Nat
    BY ConsoleGateAssumption DEF Inv, ServerPart
  <2> QED
    BY <2>1 DEF BeginProducer, ReleaseProducer
<1> QED
  BY <1>1, <1>2, <1>3, StatusAfter, AnnounceStep

\* A producer changes the content while its status is running.
LEMMA ProduceStep ==
  ASSUME Inv, Produce
  PROVE  Inv'
<1>1. /\ status.running /\ content' = runs
      /\ UNCHANGED <<status, runs, cuts, streamVars, fenceVars, callVars, timerVars,
                     loaded, failures, userVars>>
  BY DEF Produce
<1>2. ServerPart' /\ ShownPart'
  BY <1>1, ConsoleGateAssumption DEF Inv, ServerPart, ShownPart
<1>3. StreamPart' /\ FencePart' /\ CallPart' /\ TimerPart' /\ SavePart'
  BY <1>1, StreamFrame, FenceFrame, CallFrame, TimerFrame, SaveFrame
<1>4. UNCHANGED <<loaded, stage, before, proof, vouched, status>>
  BY <1>1 DEF fenceVars, callVars
<1>5. Truth'
  <2>1. CallReads'
    BY <1>1, <1>4 DEF Inv, Truth, CallReads, Past, Earlier
  <2>2. ProofPast'
    BY <1>4 DEF Inv, Truth, ProofPast, Past, Earlier
  <2>3. ReloadVouches'
    BY <1>1, <1>4 DEF Inv, FencePart, ReloadVouches
  <2> QED
    BY <2>1, <2>2, <2>3 DEF Truth
<1> QED
  BY <1>2, <1>3, <1>5 DEF Inv

\* The stream breaks, or the process is replaced by one with a new instance.
LEMMA CutStep ==
  ASSUME Inv, Cut
  PROVE  Inv'
<1>1. /\ cuts < MaxCuts /\ cuts' = cuts + 1 /\ link' = "cut" /\ stream' = <<>>
      /\ \/ status' = status
         \/ status' = [instance |-> status.instance + 1, revision |-> 0, running |-> FALSE]
      /\ UNCHANGED <<content, runs, connected, fenceVars, callVars, timerVars,
                     loaded, failures, userVars>>
  BY DEF Cut
<1>2. status \in Status /\ status.instance \in Nat /\ status.instance > 0
  BY DEF Inv, ServerPart, Status
<1>3. /\ status' \in Status /\ status'.instance > 0
      /\ status' = status \/ status'.instance = status.instance + 1
  <2> DEFINE n == status.instance + 1
             s == [instance |-> n, revision |-> 0, running |-> FALSE]
  <2>1. n \in Nat /\ n > 0
    BY <1>2
  <2> HIDE DEF n
  <2>2. s \in Status /\ s.instance = n
    BY <2>1 DEF Status
  <2>3. status' = status \/ status' = s
    BY <1>1 DEF n
  <2> HIDE DEF s
  <2> QED
    BY <1>2, <2>1, <2>2, <2>3 DEF n
<1>4. ServerPart'
  BY <1>1, <1>3, ConsoleGateAssumption DEF Inv, ServerPart
<1>5. StreamPart'
  BY <1>1 DEF Inv, StreamPart
<1>6. FencePart' /\ CallPart' /\ TimerPart' /\ SavePart' /\ ShownPart'
  BY <1>1, FenceFrame, CallFrame, TimerFrame, SaveFrame, ShownFrame
<1>7. UNCHANGED <<content, loaded, stage, before, proof, vouched>>
  BY <1>1 DEF fenceVars, callVars
<1>8. Truth'
  BY <1>3, <1>7, QuietTruth, LaterTruth
<1> QED
  BY <1>4, <1>5, <1>6, <1>8 DEF Inv

-----------------------------------------------------------------------------
(* reconcileContent.                                                       *)

\* A new call drops the proof and has read nothing yet.
LEMMA StartKeeps ==
  ASSUME Inv, NEW d \in BOOLEAN, NEW open \in BOOLEAN, Start(d, open),
         preserved' \in BOOLEAN, dialog' \in Dialogs
  PROVE  /\ FencePart' /\ CallPart' /\ timer' \in {{}, {TRUE}, {FALSE}}
         /\ vouched' = "nobody" /\ stage' \in {"before", "idle"}
<1>1. FencePart' /\ vouched' = "nobody"
  BY NoProofIsStatus DEF Start, Unproved, FencePart
<1>2. stage' \in {"before", "idle"} /\ before' \in Status
  BY NoProofIsStatus DEF Start
<1>3. draft' \in BOOLEAN /\ stray' \in BOOLEAN
  BY DEF Start, Supersede
<1>4. orphans' \subseteq BOOLEAN /\ late' \subseteq BOOLEAN
  BY DEF Start, Supersede, Inv, CallPart
<1>5. timer' \in {{}, {TRUE}, {FALSE}}
  BY DEF Start
<1> QED
  BY <1>1, <1>2, <1>3, <1>4, <1>5 DEF CallPart

\* A step that makes a new call and changes nothing else but the draft held, the
\* stream, the timers lost and what the user does.
LEMMA StartStep ==
  ASSUME Inv, NEW d \in BOOLEAN, NEW open \in BOOLEAN, Start(d, open),
         preserved' \in BOOLEAN, dialog' \in Dialogs,
         UNCHANGED <<serverVars, loaded, failures>>,
         StreamPart', SavePart', leaked' \subseteq BOOLEAN
  PROVE  Inv'
<1>1. /\ FencePart' /\ CallPart' /\ timer' \in {{}, {TRUE}, {FALSE}}
      /\ vouched' = "nobody" /\ stage' \in {"before", "idle"}
  BY StartKeeps
<1>2. ServerPart' /\ ShownPart' /\ UNCHANGED <<status, content, loaded>>
  BY ServerFrame, ShownFrame
<1>3. Truth'
  BY <1>1, <1>2, QuietTruth
<1> QED
  BY <1>1, <1>2, <1>3 DEF Inv, TimerPart

\* The same for a call that keeps its draft.
LEMMA ReconcileStep ==
  ASSUME Inv, NEW d \in BOOLEAN, NEW open \in BOOLEAN, Reconcile(d, open),
         UNCHANGED <<serverVars, loaded, failures>>,
         StreamPart', SavePart', leaked' \subseteq BOOLEAN
  PROVE  Inv'
<1>1. preserved' \in BOOLEAN
  BY DEF Reconcile
<1>2. dialog' \in Dialogs
  BY DEF Reconcile, Dialogs, Inv, FencePart
<1>3. Start(d, open)
  BY DEF Reconcile
<1> QED
  BY <1>1, <1>2, <1>3, StartStep

\* The types that the steps of the calls and timers need.
LEMMA InvTypes ==
  ASSUME Inv
  PROVE  /\ connected \in BOOLEAN /\ draft \in BOOLEAN /\ leaked \subseteq BOOLEAN
         /\ timer \subseteq BOOLEAN /\ orphans \subseteq BOOLEAN /\ late \subseteq BOOLEAN
         /\ preserved \in BOOLEAN /\ dialog \in Dialogs /\ Drafts \subseteq BOOLEAN
  BY DEF Inv, StreamPart, CallPart, TimerPart, FencePart, Drafts

\* The latest call or a superseded one gives up for now.
LEMMA RetryLaterKeeps ==
  ASSUME Inv, NEW d \in BOOLEAN, RetryLater(d)
  PROVE  TimerPart'
  BY DEF RetryLater, Inv, TimerPart

\* A failing call shows its draft or leaves the dialog as it is.
LEMMA FailKeeps ==
  ASSUME Inv, NEW d, FailReconcile(d)
  PROVE  dialog' \in Dialogs
  BY DEF FailReconcile, Dialogs, Inv, FencePart

\* A request that fails is counted within the bound.
LEMMA FailureBound ==
  ASSUME Inv, RequestFails, UNCHANGED <<loaded, content>>
  PROVE  ShownPart'
  BY ConsoleGateAssumption DEF Inv, ShownPart, RequestFails

\* The latest call of reconcileContent has ended.
LEMMA EndedCall ==
  ASSUME Inv, Ended, orphans' \subseteq BOOLEAN, late' \subseteq BOOLEAN,
         stray' \in BOOLEAN
  PROVE  CallPart' /\ stage' = "idle"
  BY NoProofIsStatus DEF Ended, CallPart

\* The latest call gives up: a request failed, or the gate is running.
LEMMA GiveUpStep ==
  ASSUME Inv, GiveUp, UNCHANGED <<serverVars, streamVars, loaded, userVars>>,
         RequestFails \/ UNCHANGED failures
  PROVE  Inv'
<1>1. ServerPart' /\ StreamPart' /\ SavePart' /\ UNCHANGED <<status, content, loaded>>
  BY ServerFrame, StreamFrame, SaveFrame
<1>2. ShownPart'
  BY <1>1, FailureBound, ShownFrame
<1>3. /\ Ended /\ FailReconcile(draft) /\ RetryLater(draft)
      /\ UNCHANGED <<fence, proof, vouched, preserved, orphans, late, stray>>
  BY DEF GiveUp
<1>4. TimerPart' /\ FencePart' /\ UNCHANGED <<proof, vouched>>
  <2>1. dialog' \in Dialogs
    BY <1>3, FailKeeps
  <2> QED
    BY <1>3, <2>1, InvTypes, RetryLaterKeeps DEF Inv, FencePart
<1>5. CallPart' /\ stage' = "idle"
  <2>1. orphans' \subseteq BOOLEAN /\ late' \subseteq BOOLEAN /\ stray' \in BOOLEAN
    BY <1>3 DEF Inv, CallPart
  <2> QED
    BY <1>3, <2>1, EndedCall
<1>6. Truth'
  BY <1>1, <1>4, <1>5, QuietTruth
<1> QED
  BY <1>1, <1>2, <1>4, <1>5, <1>6 DEF Inv

\* The latest call reads the status before its reload.
LEMMA ReadBeforeStep ==
  ASSUME Inv, ReadBefore
  PROVE  Inv'
<1>1. UNCHANGED <<serverVars, streamVars, loaded, userVars>>
  BY DEF ReadBefore
<1>2. CASE GiveUp /\ (RequestFails \/ UNCHANGED failures)
  BY <1>1, <1>2, GiveUpStep
<1>3. CASE /\ ~status.running /\ before' = status /\ stage' = "loading"
           /\ UNCHANGED <<fenceVars, draft, orphans, late, stray, timerVars, failures>>
  <2>1. ServerPart' /\ StreamPart' /\ SavePart' /\ UNCHANGED <<status, content, loaded>>
    BY <1>1, ServerFrame, StreamFrame, SaveFrame
  <2>2. ShownPart' /\ FencePart' /\ TimerPart' /\ UNCHANGED <<proof, vouched>>
    BY <1>3, <2>1, ShownFrame, FenceFrame, TimerFrame
  <2>3. CallPart'
    BY <1>3 DEF Inv, CallPart, ServerPart
  <2>4. Truth'
    <3>1. CallReads'
      BY <1>3, <2>1 DEF CallReads, Past
    <3>2. ProofPast' /\ ReloadVouches'
      BY <2>1, <2>2 DEF Inv, Truth, ProofPast, ReloadVouches, Past, Earlier
    <3> QED
      BY <3>1, <3>2 DEF Truth
  <2> QED
    BY <2>1, <2>2, <2>3, <2>4 DEF Inv
<1> QED
  BY <1>2, <1>3 DEF ReadBefore

\* What a superseded call may change besides the calls: the timers and the dialog.
LEMMA AstrayStep ==
  ASSUME Inv, NEW d \in BOOLEAN,
         \/ RetryLater(d) /\ FailReconcile(d)
         \/ UNCHANGED <<timerVars, dialog>>,
         RequestFails \/ UNCHANGED failures,
         UNCHANGED <<serverVars, streamVars, fence, proof, vouched, preserved,
                     stage, draft, before, loaded, userVars>>,
         orphans' \subseteq BOOLEAN, late' \subseteq BOOLEAN, stray' \in BOOLEAN
  PROVE  Inv'
<1>1. ServerPart' /\ StreamPart' /\ SavePart' /\ UNCHANGED <<status, content, loaded>>
  BY ServerFrame, StreamFrame, SaveFrame
<1>2. TimerPart'
  BY RetryLaterKeeps, TimerFrame
<1>3. ShownPart'
  BY <1>1, FailureBound, ShownFrame
<1>4. FencePart' /\ UNCHANGED <<proof, vouched>>
  <2>1. dialog' \in Dialogs
    BY FailKeeps, InvTypes
  <2> QED
    BY <2>1 DEF Inv, FencePart
<1>5. CallPart' /\ UNCHANGED <<stage, before>>
  BY DEF Inv, CallPart
<1>6. Truth'
  BY <1>1, <1>4, <1>5, QuietTruth
<1> QED
  BY <1>1, <1>2, <1>3, <1>4, <1>5, <1>6 DEF Inv

\* A superseded call reads the status, and gives up or goes on to reload.
LEMMA OrphanReadsStep ==
  ASSUME Inv, OrphanReads
  PROVE  Inv'
<1>1. PICK d \in orphans :
        /\ orphans' = orphans \ {d}
        /\ \/ /\ \/ RequestFails
                 \/ status.running /\ UNCHANGED failures
              /\ RetryLater(d) /\ FailReconcile(d)
              /\ UNCHANGED stray
           \/ /\ ~status.running
              /\ stray' = TRUE
              /\ UNCHANGED <<timerVars, dialog, failures>>
        /\ UNCHANGED <<serverVars, streamVars, fence, proof, vouched, preserved,
                       stage, draft, before, late, loaded, userVars>>
  BY DEF OrphanReads
<1>2. d \in BOOLEAN
  BY <1>1, InvTypes
<1>3. orphans' \subseteq BOOLEAN /\ late' \subseteq BOOLEAN /\ stray' \in BOOLEAN
  BY <1>1 DEF Inv, CallPart
<1> QED
  BY <1>1, <1>2, <1>3, AstrayStep

\* A superseded call reads the status again, and arms a timer or just ends.
LEMMA LateReadsStep ==
  ASSUME Inv, LateReads
  PROVE  Inv'
<1>1. PICK d \in late :
        /\ late' = late \ {d}
        /\ \/ RequestFails /\ RetryLater(d) /\ FailReconcile(d)
           \/ UNCHANGED <<timerVars, dialog, failures>>
        /\ UNCHANGED <<serverVars, streamVars, fence, proof, vouched, preserved,
                       stage, draft, before, orphans, stray, loaded, userVars>>
  BY DEF LateReads
<1>2. d \in BOOLEAN
  BY <1>1, InvTypes
<1>3. orphans' \subseteq BOOLEAN /\ late' \subseteq BOOLEAN /\ stray' \in BOOLEAN
  BY <1>1 DEF Inv, CallPart
<1> QED
  BY <1>1, <1>2, <1>3, AstrayStep

\* A load that is shown, and the TXT draft it may freeze.
LEMMA LoadsKeep ==
  ASSUME Inv, NEW shown \in Dialogs, Loads(shown), UNCHANGED <<serverVars, failures>>
  PROVE  FencePart' /\ ShownPart' /\ loaded' = content /\ UNCHANGED <<proof, vouched>>
<1>1. dialog' \in Dialogs /\ preserved' \in BOOLEAN /\ fence' \in BOOLEAN
  BY DEF Loads, Dialogs, Inv, FencePart
<1>2. loaded' = content /\ UNCHANGED <<proof, vouched>>
  BY DEF Loads
<1>3. ShownPart'
  BY <1>2 DEF serverVars, Inv, ServerPart, ShownPart
<1> QED
  BY <1>1, <1>2, <1>3 DEF Inv, FencePart

\* A reload shows what the server holds.
LEMMA ShownTruth ==
  ASSUME Inv, UNCHANGED <<status, content, proof, vouched, before>>, loaded' = content,
         stage \in {"loading", "after"} \/ stage' \notin {"loading", "after"}
  PROVE  Truth'
<1>1. CallReads'
  BY DEF Inv, Truth, CallReads, Past, Earlier
<1>2. ProofPast' /\ ReloadVouches'
  BY DEF Inv, Truth, ProofPast, ReloadVouches, Past, Earlier
<1> QED
  BY <1>1, <1>2 DEF Truth

\* The latest call reloads the content.
LEMMA ReloadStep ==
  ASSUME Inv, Reload
  PROVE  Inv'
<1>1. stage = "loading" /\ UNCHANGED <<serverVars, streamVars, userVars>>
  BY DEF Reload
<1>2. CASE RequestFails /\ GiveUp /\ UNCHANGED loaded
  BY <1>1, <1>2, GiveUpStep
<1>3. CASE /\ Loads(dialog) /\ stage' = "after"
           /\ UNCHANGED <<draft, before, orphans, late, stray, timerVars, failures>>
  <2>1. ServerPart' /\ StreamPart' /\ SavePart' /\ UNCHANGED <<status, content>>
    BY <1>1, ServerFrame, StreamFrame, SaveFrame
  <2>2. FencePart' /\ ShownPart' /\ loaded' = content /\ UNCHANGED <<proof, vouched>>
    BY <1>1, <1>3, InvTypes, LoadsKeep
  <2>3. TimerPart'
    BY <1>3, TimerFrame
  <2>4. CallPart'
    BY <1>3 DEF Inv, CallPart
  <2>5. Truth'
    BY <1>1, <1>3, <2>1, <2>2, ShownTruth
  <2> QED
    BY <2>1, <2>2, <2>3, <2>4, <2>5 DEF Inv
<1> QED
  BY <1>2, <1>3 DEF Reload

\* A superseded call reloads the content behind the back of the latest.
LEMMA StrayReloadStep ==
  ASSUME Inv, StrayReload
  PROVE  Inv'
<1>1. /\ stray' = FALSE
      /\ UNCHANGED <<serverVars, streamVars, orphans, late, failures, userVars>>
  BY DEF StrayReload
<1>2. ServerPart' /\ StreamPart' /\ SavePart' /\ UNCHANGED <<status, content>>
  BY <1>1, ServerFrame, StreamFrame, SaveFrame
<1>3. orphans' \subseteq BOOLEAN /\ late' \subseteq BOOLEAN /\ stray' \in BOOLEAN
  BY <1>1 DEF Inv, CallPart
<1>4. CASE UNCHANGED <<loaded, fenceVars, stage, draft, before, timerVars>>
  <2>1. CallPart' /\ ShownPart' /\ TimerPart' /\ FencePart' /\ UNCHANGED <<proof, vouched>>
    BY <1>1, <1>2, <1>3, <1>4, ShownFrame, TimerFrame, FenceFrame DEF Inv, CallPart
  <2>2. Truth'
    BY <1>2, <1>4, <2>1, QuietTruth
  <2> QED
    BY <1>2, <2>1, <2>2 DEF Inv
<1>5. CASE stage # "loading" /\ Loads(dialog) /\ UNCHANGED <<stage, draft, before, timerVars>>
  <2>1. CallPart' /\ TimerPart'
    BY <1>3, <1>5, TimerFrame DEF Inv, CallPart
  <2>2. FencePart' /\ ShownPart' /\ loaded' = content /\ UNCHANGED <<proof, vouched>>
    BY <1>1, <1>5, InvTypes, LoadsKeep
  <2>3. Truth'
    BY <1>2, <1>5, <2>2, ShownTruth
  <2> QED
    BY <1>2, <2>1, <2>2, <2>3 DEF Inv
<1>6. CASE Loads(IF draft THEN "frozen" ELSE dialog) /\ Ended /\ RetryLater(draft)
  <2>1. CallPart' /\ TimerPart' /\ stage' = "idle"
    BY <1>3, <1>6, EndedCall, InvTypes, RetryLaterKeeps
  <2>2. (IF draft THEN "frozen" ELSE dialog) \in Dialogs
    BY InvTypes DEF Dialogs
  <2>3. FencePart' /\ ShownPart' /\ loaded' = content /\ UNCHANGED <<proof, vouched>>
    BY <1>1, <1>6, <2>2, LoadsKeep
  <2>4. Truth'
    <3>1. CallReads'
      BY <2>1 DEF CallReads
    <3>2. ProofPast' /\ ReloadVouches'
      BY <1>2, <2>3 DEF Inv, Truth, ProofPast, ReloadVouches, Past, Earlier
    <3> QED
      BY <3>1, <3>2 DEF Truth
  <2> QED
    BY <1>2, <2>1, <2>3, <2>4 DEF Inv
<1> QED
  BY <1>4, <1>5, <1>6 DEF StrayReload

\* The latest call reads the status again and accepts it as proof, or not.
LEMMA ReadAfterStep ==
  ASSUME Inv, ReadAfter
  PROVE  Inv'
<1>1. stage = "after" /\ UNCHANGED <<serverVars, streamVars, loaded, userVars>>
  BY DEF ReadAfter
<1>2. CASE GiveUp /\ (RequestFails \/ UNCHANGED failures)
  BY <1>1, <1>2, GiveUpStep
<1>3. CASE Reconcile(draft, connected) /\ UNCHANGED <<leaked, failures>>
  BY <1>1, <1>3, InvTypes, StreamFrame, SaveFrame, ReconcileStep
<1>4. CASE status = before /\ Reconciled /\ UNCHANGED failures
  <2>1. ServerPart' /\ StreamPart' /\ SavePart' /\ UNCHANGED <<status, content, loaded>>
    BY <1>1, ServerFrame, StreamFrame, SaveFrame
  <2>2. /\ proof' = status /\ vouched' = "reload" /\ Ended /\ fence' = (fence /\ draft)
        /\ preserved' = (preserved /\ draft)
        /\ dialog' = IF draft THEN "reloaded" ELSE "none"
        /\ UNCHANGED <<orphans, late, stray, timerVars>>
    BY <1>4 DEF Reconciled, Accept
  <2>3. ~status.running /\ status # NoProof /\ status \in Status /\ loaded = content
    BY <1>1, <1>4, NoProofIsStatus DEF Inv, Truth, CallReads, ServerPart
  <2>4. fence' \in BOOLEAN /\ preserved' \in BOOLEAN /\ dialog' \in Dialogs
    BY <2>2 DEF Dialogs
  <2>5. FencePart'
    BY <2>2, <2>3, <2>4 DEF FencePart
  <2>6. CallPart' /\ stage' = "idle"
    <3>1. orphans' \subseteq BOOLEAN /\ late' \subseteq BOOLEAN /\ stray' \in BOOLEAN
      BY <2>2 DEF Inv, CallPart
    <3> QED
      BY <2>2, <3>1, EndedCall
  <2>7. TimerPart' /\ ShownPart'
    BY <1>4, <2>1, <2>2, TimerFrame, ShownFrame
  <2>8. Truth'
    BY <2>1, <2>2, <2>3, <2>6 DEF Truth, CallReads, ProofPast, ReloadVouches, Past
  <2> QED
    BY <2>1, <2>5, <2>6, <2>7, <2>8 DEF Inv
<1> QED
  BY <1>2, <1>3, <1>4 DEF ReadAfter

\* The retry timer, the reference to which may have been lost.
LEMMA TimerStep ==
  ASSUME Inv, RetryTimer \/ LeakedTimer
  PROVE  Inv'
<1>1. UNCHANGED <<serverVars, streamVars, loaded, failures, userVars>>
  BY DEF RetryTimer, LeakedTimer
<1>2. leaked' \subseteq BOOLEAN
  BY InvTypes DEF RetryTimer, LeakedTimer
<1>3. StreamPart' /\ SavePart'
  BY <1>1, StreamFrame, SaveFrame
<1>4. CASE timer' = {} /\ UNCHANGED <<fenceVars, callVars>>
  <2>1. /\ ServerPart' /\ ShownPart' /\ FencePart' /\ CallPart'
        /\ UNCHANGED <<status, content, loaded, proof, vouched, stage, before>>
    BY <1>1, <1>4, ServerFrame, ShownFrame, FenceFrame, CallFrame
  <2>2. Truth'
    BY <2>1, QuietTruth
  <2> QED
    BY <1>2, <1>3, <1>4, <2>1, <2>2 DEF Inv, TimerPart
<1>5. PICK d \in BOOLEAN :
           \/ Reconcile(d, TRUE)
           \/ timer' = {} /\ UNCHANGED <<fenceVars, callVars>>
  BY InvTypes DEF RetryTimer, LeakedTimer
<1>6. CASE Reconcile(d, TRUE)
  <2>1. TRUE \in BOOLEAN
    OBVIOUS
  <2> QED
    BY <1>1, <1>2, <1>3, <1>6, <2>1, ReconcileStep
<1> QED
  BY <1>4, <1>5, <1>6

-----------------------------------------------------------------------------
(* The user.                                                               *)

\* What the user does is counted within the bound.
LEMMA ActsBound ==
  ASSUME Inv, Acts
  PROVE  choices' \in 0..MaxChoices
  BY ConsoleGateAssumption DEF Inv, SavePart, Acts

\* What every choice of the user leaves as it was.
LEMMA ChoosesKeeps ==
  ASSUME Inv, Chooses
  PROVE  /\ ServerPart' /\ StreamPart' /\ SavePart' /\ ShownPart'
         /\ UNCHANGED <<status, content, loaded, serverVars, failures>>
         /\ leaked' = leaked /\ leaked' \subseteq BOOLEAN
<1>1. /\ Acts
      /\ UNCHANGED <<serverVars, streamVars, leaked, loaded, failures, request,
                     admitted>>
  BY DEF Chooses
<1>2. ServerPart' /\ StreamPart' /\ UNCHANGED <<status, content>>
  BY <1>1, ServerFrame, StreamFrame
<1>3. choices' \in 0..MaxChoices
  BY <1>1, ActsBound
<1>4. SavePart'
  BY <1>1, <1>3 DEF Inv, SavePart
<1>5. ShownPart'
  BY <1>1, <1>2, ShownFrame
<1> QED
  BY <1>1, <1>2, <1>4, <1>5, InvTypes

\* The user lets go of a draft, or has the content loaded again.
LEMMA DecideStep ==
  ASSUME Inv, Resolve \/ Retry
  PROVE  Inv'
<1>1. /\ StreamPart' /\ SavePart' /\ leaked' \subseteq BOOLEAN
      /\ UNCHANGED <<serverVars, loaded, failures>>
  BY ChoosesKeeps DEF Resolve, Retry
<1>2. CASE Resolve
  <2>1. Start(FALSE, connected) /\ preserved' = FALSE /\ dialog' = "empty"
    BY <1>2 DEF Resolve
  <2>2. preserved' \in BOOLEAN /\ dialog' \in Dialogs /\ FALSE \in BOOLEAN
    BY <2>1 DEF Dialogs
  <2> QED
    BY <1>1, <2>1, <2>2, InvTypes, StartStep
<1>3. CASE Retry
  <2> DEFINE d == dialog = "frozen"
  <2>1. Reconcile(d, connected) /\ d \in BOOLEAN
    BY <1>3 DEF Retry
  <2> HIDE DEF d
  <2> QED
    BY <1>1, <2>1, InvTypes, ReconcileStep
<1> QED
  BY <1>2, <1>3

\* The user opens the document or discards the draft.
LEMMA DiscardStep ==
  ASSUME Inv, Open \/ Discard
  PROVE  Inv'
<1>1. /\ ServerPart' /\ StreamPart' /\ SavePart' /\ ShownPart'
      /\ UNCHANGED <<status, content, loaded>> /\ leaked' \subseteq BOOLEAN
  BY ChoosesKeeps DEF Open, Discard
<1>2. /\ UNCHANGED <<fence, proof, vouched, stage, draft, before, orphans, late, timer>>
      /\ stray' \in BOOLEAN
  BY DEF Open, Discard, fenceVars, Inv, CallPart
<1>3. preserved' \in BOOLEAN /\ dialog' \in Dialogs
  BY InvTypes DEF Open, Discard, fenceVars, Dialogs
<1>4. FencePart' /\ CallPart' /\ TimerPart'
  BY <1>1, <1>2, <1>3 DEF Inv, FencePart, CallPart, TimerPart
<1>5. Truth'
  BY <1>1, <1>2, QuietTruth
<1> QED
  BY <1>1, <1>4, <1>5 DEF Inv

-----------------------------------------------------------------------------
(* The event stream.                                                       *)

\* The tab sees that its stream is gone.
LEMMA DisconnectStep ==
  ASSUME Inv, Disconnect
  PROVE  Inv'
<1>1. connected' = FALSE /\ UNCHANGED <<serverVars, link, stream, leaked, loaded, failures, userVars>>
  BY DEF Disconnect
<1>2. StreamPart' /\ SavePart' /\ leaked' \subseteq BOOLEAN
  BY <1>1, SaveFrame, InvTypes DEF Inv, StreamPart
<1>3. CASE \E d \in Drafts : Reconcile(d, FALSE)
  <2>1. PICK d \in BOOLEAN : Reconcile(d, FALSE)
    BY <1>3, InvTypes
  <2>2. FALSE \in BOOLEAN
    OBVIOUS
  <2> QED
    BY <1>1, <1>2, <2>1, <2>2, ReconcileStep
<1>4. CASE /\ Supersede /\ fence' = TRUE /\ Unproved /\ Ended
           /\ UNCHANGED <<preserved, dialog, timer>>
  <2>1. ServerPart' /\ ShownPart' /\ UNCHANGED <<status, content, loaded>>
    BY <1>1, ServerFrame, ShownFrame
  <2>2. FencePart' /\ vouched' = "nobody"
    BY <1>4, NoProofIsStatus, InvTypes DEF Unproved, FencePart
  <2>3. orphans' \subseteq BOOLEAN /\ late' \subseteq BOOLEAN /\ stray' \in BOOLEAN
    BY <1>4, InvTypes DEF Supersede
  <2>4. CallPart' /\ stage' = "idle"
    BY <1>4, <2>3, EndedCall
  <2>5. Truth'
    BY <2>1, <2>2, <2>4, QuietTruth
  <2>6. TimerPart'
    BY <1>1, <1>4 DEF Inv, TimerPart
  <2> QED
    BY <1>2, <2>1, <2>2, <2>4, <2>5, <2>6 DEF Inv
<1> QED
  BY <1>3, <1>4 DEF Disconnect

\* The tab has a stream again and reconciles.
LEMMA ConnectStep ==
  ASSUME Inv, Connect
  PROVE  Inv'
<1>1. /\ connected' = TRUE /\ link' = "up" /\ stream' = <<status>>
      /\ UNCHANGED <<serverVars, leaked, loaded, failures, userVars>>
  BY DEF Connect
<1>2. StreamPart'
  <2>1. status \in Status /\ status.instance > 0
    BY DEF Inv, ServerPart
  <2> QED
    BY <1>1, <2>1 DEF StreamPart
<1>3. SavePart' /\ leaked' \subseteq BOOLEAN
  BY <1>1, SaveFrame, InvTypes
<1>4. PICK d \in BOOLEAN : Reconcile(d, TRUE)
  BY InvTypes DEF Connect
<1>5. TRUE \in BOOLEAN
  OBVIOUS
<1> QED
  BY <1>1, <1>2, <1>3, <1>4, <1>5, ReconcileStep

\* The handler of a gate.status frame.
LEMMA gateStatusStep ==
  ASSUME Inv, gateStatus
  PROVE  Inv'
<1> DEFINE s == Head(stream)
<1>1. /\ stream # <<>> /\ stream' = Tail(stream)
      /\ \/ fence' = TRUE /\ UNCHANGED <<proof, vouched>>
         \/ /\ ~s.running /\ fence' = (fence /\ (preserved \/ dialog # "none"))
            /\ UNCHANGED <<proof, vouched>> \/ (proof' = s /\ vouched' = "frame")
      /\ UNCHANGED <<serverVars, link, connected, preserved, dialog, callVars,
                     timerVars, loaded, failures, userVars>>
  BY DEF gateStatus, Accept
<1>2. stream \in Seq(Status) /\ \A i \in 1..Len(stream) : stream[i].instance > 0
  BY DEF Inv, StreamPart
<1>3. s \in Status /\ s.instance > 0
  BY <1>1, <1>2
<1>4. s # NoProof
  BY <1>3, NoProofIsStatus
<1>5. StreamPart'
  <2>1. Tail(stream) \in Seq(Status)
        /\ \A i \in 1..Len(Tail(stream)) : Tail(stream)[i].instance > 0
    BY <1>1, <1>2
  <2> QED
    BY <1>1, <2>1 DEF Inv, StreamPart
<1> HIDE DEF s
<1>6. FencePart'
  <2>1. fence' \in BOOLEAN
    BY <1>1
  <2>2. \/ proof' = proof /\ vouched' = vouched
        \/ ~s.running /\ proof' = s /\ vouched' = "frame"
    BY <1>1
  <2> QED
    BY <1>1, <1>3, <1>4, <2>1, <2>2 DEF Inv, FencePart
<1>7. /\ ServerPart' /\ CallPart' /\ TimerPart' /\ SavePart' /\ ShownPart'
      /\ UNCHANGED <<status, content, loaded, stage, before>>
  BY <1>1, ServerFrame, CallFrame, TimerFrame, SaveFrame, ShownFrame
<1>8. Truth'
  BY <1>1, <1>7, QuietTruth
<1> QED
  BY <1>5, <1>6, <1>7, <1>8 DEF Inv

-----------------------------------------------------------------------------
(* Saving.                                                                 *)

\* The user saves behind the fence, with the proof held then.
LEMMA SaveStep ==
  ASSUME Inv, Save
  PROVE  Inv'
<1>1. /\ Acts /\ request' = [proof |-> proof, based |-> loaded]
      /\ UNCHANGED <<serverVars, streamVars, fenceVars, callVars, timerVars, loaded,
                     failures, admitted>>
  BY DEF Save
<1>2. /\ ServerPart' /\ StreamPart' /\ FencePart' /\ CallPart' /\ TimerPart' /\ ShownPart'
      /\ UNCHANGED <<status, content, loaded, proof, vouched, stage, before>>
  BY <1>1, ServerFrame, StreamFrame, FenceFrame, CallFrame, TimerFrame, ShownFrame
<1>3. SavePart'
  <2>1. proof \in Status /\ loaded \in -1..MaxRuns /\ loaded \in 0..MaxRuns
    BY ConsoleGateAssumption DEF Inv, FencePart, ShownPart, ServerPart
  <2>2. choices' \in 0..MaxChoices
    BY <1>1, ActsBound
  <2> QED
    BY <1>1, <2>1, <2>2 DEF Inv, SavePart
<1>4. Truth'
  BY <1>2, QuietTruth
<1> QED
  BY <1>2, <1>3, <1>4 DEF Inv

\* The placeholder of the save that is not under way has its type.
LEMMA NoRequestIsRequest == NoRequest \in [proof : Status, based : -1..MaxRuns]
<1>1. -1 \in -1..MaxRuns
  BY ConsoleGateAssumption
<1> QED
  BY <1>1, NoProofIsStatus DEF NoRequest

\* The save arrives at the server, whatever the gate has done meanwhile.
LEMMA ArriveStep ==
  ASSUME Inv, Arrive
  PROVE  Inv'
<1>1. /\ request # NoRequest /\ request' = NoRequest
      /\ UNCHANGED <<serverVars, streamVars, leaked, loaded, failures, choices>>
  BY DEF Arrive
<1>2. request.based \in 0..MaxRuns /\ choices \in 0..MaxChoices
      /\ admitted \in [based : 0..MaxRuns, on : 0..MaxRuns]
  BY <1>1 DEF Inv, SavePart
<1>3. CASE /\ request.proof = status /\ admitted' = [based |-> request.based, on |-> content]
           /\ UNCHANGED <<fenceVars, callVars, timer>>
  <2>1. /\ ServerPart' /\ StreamPart' /\ FencePart' /\ CallPart' /\ ShownPart'
        /\ UNCHANGED <<status, content, loaded, proof, vouched, stage, before>>
    BY <1>1, <1>3, ServerFrame, StreamFrame, FenceFrame, CallFrame, ShownFrame
  <2>2. TimerPart'
    BY <1>1, <1>3 DEF Inv, TimerPart
  <2>3. content \in 0..MaxRuns
    BY ConsoleGateAssumption DEF Inv, ServerPart
  <2>4. SavePart'
    BY <1>1, <1>2, <1>3, <2>3, NoRequestIsRequest DEF SavePart
  <2>5. Truth'
    BY <2>1, QuietTruth
  <2> QED
    BY <2>1, <2>2, <2>4, <2>5 DEF Inv
<1>4. CASE UNCHANGED admitted /\ \E d \in Drafts : Reconcile(d, connected)
  <2>1. PICK d \in BOOLEAN : Reconcile(d, connected)
    BY <1>4, InvTypes
  <2>2. SavePart' /\ StreamPart' /\ leaked' \subseteq BOOLEAN
    BY <1>1, <1>2, <1>4, NoRequestIsRequest, StreamFrame, InvTypes DEF SavePart
  <2> QED
    BY <1>1, <2>1, <2>2, InvTypes, ReconcileStep
<1> QED
  BY <1>3, <1>4 DEF Arrive

-----------------------------------------------------------------------------
(* The theorems.                                                           *)

\* A freshly opened page satisfies the invariant.
LEMMA ConsoleInit == Init => Inv
<1> SUFFICES ASSUME Init PROVE Inv
  OBVIOUS
<1>1. ServerPart
  <2>1. status = [instance |-> 1, revision |-> 0, running |-> FALSE] /\ content = 0
        /\ runs = 0 /\ cuts = 0
    BY DEF Init
  <2>2. status \in Status /\ status.instance > 0
    BY <2>1 DEF Status
  <2> QED
    BY <2>1, <2>2, ConsoleGateAssumption DEF ServerPart
<1>2. StreamPart
  <2>1. link = "cut" /\ stream = <<>> /\ connected = FALSE
    BY DEF Init
  <2>2. stream \in Seq(Status) /\ Len(stream) = 0
    BY <2>1
  <2>3. \A i \in 1..Len(stream) : FALSE
    BY <2>2
  <2>4. connected \in BOOLEAN
    BY <2>1
  <2> QED
    BY <2>1, <2>2, <2>3, <2>4 DEF StreamPart
<1>3. FencePart
  <2>1. /\ fence = TRUE /\ proof = NoProof /\ vouched = "nobody"
        /\ preserved \in BOOLEAN /\ dialog \in Dialogs
    BY DEF Init, Dialogs
  <2> QED
    BY <2>1, NoProofIsStatus DEF FencePart
<1>4. CallPart /\ TimerPart
  BY NoProofIsStatus DEF Init, CallPart, TimerPart
<1>5. SavePart
  <2>1. NoSave \in [based : 0..MaxRuns, on : 0..MaxRuns]
        /\ 0 \in 0..MaxChoices
    BY ConsoleGateAssumption DEF NoSave
  <2> QED
    BY <2>1, NoRequestIsRequest DEF Init, SavePart
<1>6. ShownPart
  BY ConsoleGateAssumption DEF Init, ShownPart
<1>7. Truth
  BY DEF Init, Truth, CallReads, ProofPast, ReloadVouches
<1> QED
  BY <1>1, <1>2, <1>3, <1>4, <1>5, <1>6, <1>7 DEF Inv

\* Stuttering keeps the invariant.
LEMMA ConsoleStutters ==
  ASSUME Inv, UNCHANGED vars
  PROVE  Inv'
<1>1. /\ UNCHANGED <<serverVars, streamVars, fenceVars, callVars, timerVars, userVars>>
      /\ UNCHANGED <<loaded, failures>>
  BY DEF vars
<1>2. /\ ServerPart' /\ StreamPart' /\ FencePart' /\ CallPart' /\ TimerPart' /\ SavePart'
      /\ UNCHANGED <<status, content, loaded, failures, proof, vouched, stage, before>>
  BY <1>1, ServerFrame, StreamFrame, FenceFrame, CallFrame, TimerFrame, SaveFrame
<1>3. ShownPart' /\ Truth'
  BY <1>2, ShownFrame, QuietTruth
<1> QED
  BY <1>2, <1>3 DEF Inv

\* Every step of the tab and of the server keeps the invariant.
LEMMA ConsoleStep == Inv /\ [Next]_vars => Inv'
<1> SUFFICES ASSUME Inv, [Next]_vars PROVE Inv'
  OBVIOUS
<1>1. CASE TabStep
  BY <1>1, ReadBeforeStep, ReloadStep, ReadAfterStep, OrphanReadsStep, LateReadsStep,
     StrayReloadStep, TimerStep, DisconnectStep, ConnectStep, gateStatusStep, ArriveStep DEF TabStep
<1> QED
  BY <1>1, ServerStep, ProduceStep, CutStep, DecideStep, DiscardStep, SaveStep,
     ConsoleStutters DEF Next

\* The inductive invariant of the console tab.
THEOREM ConsoleInvariant == Spec => []Inv
<1> QED
  BY ConsoleInit, ConsoleStep, PTL DEF Spec

\* Type correctness: a proof is never a running status, there is one exactly
\* when somebody vouches for it, and the tab never shows what the server does
\* not hold yet (useConsoleRealtime).
THEOREM ConsoleTypes == Spec => []TypeOK
<1>1. Inv => TypeOK
  <2> SUFFICES ASSUME Inv PROVE TypeOK
    OBVIOUS
  <2>1. content \in 0..MaxRuns
    BY ConsoleGateAssumption DEF Inv, ServerPart
  <2> QED
    BY <2>1 DEF Inv, ServerPart, StreamPart, FencePart, CallPart, TimerPart, SavePart,
       ShownPart, TypeOK
<1> QED
  BY <1>1, ConsoleInvariant, PTL

\* As long as the status a reconciliation vouches for is the gate's, the tab
\* shows what the server holds, whatever producers, restarts, lost streams and
\* superseded reloads came between the reads of reconcileContent.
THEOREM ReloadVouchesHolds == Spec => []ReloadVouches
<1>1. Inv => ReloadVouches
  BY DEF Inv, Truth
<1> QED
  BY <1>1, ConsoleInvariant, PTL
-----------------------------------------------------------------------------
(* The fence is left up for good only by a discarded draft.                *)

\* A call, or the timer of one, or the stream's opening is to come.
Pending == stage # "idle" \/ timer # {} \/ leaked # {} \/ ~connected

\* The last frame under way tells the gate's present status.
LastFrame == link = "up" /\ stream # <<>> => stream[Len(stream)] = status

\* A draft that keeps the fence up and is not shown has a call to come.
HeldPending == (preserved \/ dialog = "empty") => DraftShown \/ Pending

Outlook == LastFrame /\ HeldPending

\* What each step has to show.
Keeps == HeldPending' /\ (Answered => Answered' \/ Discard)

\* The last frame stays the last as long as server and stream do.
LEMMA LastFrameFrame ==
  ASSUME Outlook, UNCHANGED <<status, link, stream>>
  PROVE  LastFrame'
  BY DEF Outlook, LastFrame

\* A step after which a call is to come, or a draft is shown, answers for both.
LEMMA PendingKeeps ==
  ASSUME Pending' \/ DraftShown'
  PROVE  Keeps
  BY DEF Keeps, Pending, HeldPending, Answered, Owed, DraftShown

\* A step that leaves calls, timers, stream, draft and fence alone.
LEMMA UntouchedKeeps ==
  ASSUME Outlook, UNCHANGED <<status, link, stream, connected, fence, preserved,
                              dialog, stage, timer, leaked>>
  PROVE  Keeps
<1>1. HeldPending'
  BY DEF Outlook, HeldPending, Pending, DraftShown
<1>2. Answered => Answered'
  BY DEF Answered, Owed, DraftShown
<1> QED
  BY <1>1, <1>2 DEF Keeps

\* A new call waits for its answer or for its timer.
LEMMA StartPends ==
  ASSUME NEW d, NEW open, Start(d, open)
  PROVE  Pending'
<1>1. CASE open
  BY <1>1 DEF Start, Pending
<1>2. CASE ~open
  BY <1>2 DEF Start, Pending
<1> QED
  BY <1>1, <1>2

\* A call that gives up for now has armed a timer.
LEMMA RetryPends ==
  ASSUME NEW d, RetryLater(d)
  PROVE  Pending'
  BY DEF RetryLater, Pending

\* The producer moves the gate, or the stream breaks.
LEMMA ServerKeeps ==
  ASSUME Inv, Outlook, BeginProducer \/ ReleaseProducer \/ Produce \/ Cut
  PROVE  LastFrame' /\ Keeps
<1>1. HeldPending'
  BY DEF Outlook, HeldPending, Pending, DraftShown, BeginProducer, ReleaseProducer,
     Announce, Produce, Cut, fenceVars, callVars, timerVars, streamVars
<1>2. ASSUME NEW s \in Status, Announce(s)
      PROVE  LastFrame' /\ Answered'
  <2>1. /\ status' = s /\ link' = link
        /\ stream' = IF link = "up" THEN Append(stream, s) ELSE stream
    BY <1>2 DEF Announce
  <2>2. stream \in Seq(Status) /\ link \in {"up", "cut"}
    BY DEF Inv, StreamPart
  <2>3. CASE link = "up"
    <3>1. stream' = Append(stream, s)
      BY <2>1, <2>3
    <3>2. stream' # <<>> /\ stream'[Len(stream')] = s
      BY <2>2, <3>1
    <3> QED
      BY <2>1, <3>2 DEF LastFrame, Answered, Owed
  <2>4. CASE link = "cut"
    BY <2>1, <2>4 DEF LastFrame, Answered, Owed
  <2> QED
    BY <2>2, <2>3, <2>4
<1>3. CASE BeginProducer \/ ReleaseProducer
  <2>1. PICK b \in BOOLEAN : Announce([status EXCEPT !.revision = @ + 1, !.running = b])
    BY <1>3 DEF BeginProducer, ReleaseProducer
  <2>2. [status EXCEPT !.revision = @ + 1, !.running = b] \in Status
    BY StatusAfter
  <2> QED
    BY <1>1, <1>2, <2>1, <2>2 DEF Keeps
<1>4. CASE Produce
  <2>1. UNCHANGED <<status, link, stream, connected, fence, preserved, dialog, stage,
                    timer, leaked>>
    BY <1>4 DEF Produce, streamVars, fenceVars, callVars, timerVars
  <2> QED
    BY <2>1, LastFrameFrame, UntouchedKeeps
<1>5. CASE Cut
  <2>1. link' = "cut"
    BY <1>5 DEF Cut
  <2> QED
    BY <1>1, <2>1 DEF Keeps, LastFrame, Answered, Owed
<1> QED
  BY <1>3, <1>4, <1>5

\* The latest call reads, reloads or ends.
LEMMA CallKeeps ==
  ASSUME Inv, Outlook, ReadBefore \/ Reload \/ ReadAfter
  PROVE  LastFrame' /\ Keeps
<1>1. LastFrame'
  BY LastFrameFrame DEF ReadBefore, Reload, ReadAfter, serverVars, streamVars
<1>2. ASSUME GiveUp PROVE Keeps
  BY <1>2, RetryPends, PendingKeeps DEF GiveUp
<1>3. ASSUME stage' = "loading" \/ stage' = "after" PROVE Keeps
  BY <1>3, PendingKeeps DEF Pending
<1>4. ASSUME Reconcile(draft, connected) PROVE Keeps
  BY <1>4, StartPends, PendingKeeps DEF Reconcile
<1>5. ASSUME Reconciled PROVE Keeps
  <2>1. draft \in BOOLEAN
    BY InvTypes
  <2>2. CASE draft
    <3>1. DraftShown'
      BY <1>5, <2>2 DEF Reconciled, DraftShown
    <3> QED
      BY <3>1, PendingKeeps
  <2>3. CASE ~draft
    <3>1. fence' = FALSE /\ preserved' = FALSE /\ dialog' = "none"
      BY <1>5, <2>3 DEF Reconciled
    <3> QED
      BY <3>1 DEF Keeps, HeldPending, Answered
  <2> QED
    BY <2>1, <2>2, <2>3
<1>6. CASE ReadBefore
  BY <1>1, <1>2, <1>3, <1>6 DEF ReadBefore
<1>7. CASE Reload
  BY <1>1, <1>2, <1>3, <1>7 DEF Reload
<1>8. CASE ReadAfter
  BY <1>1, <1>2, <1>4, <1>5, <1>8 DEF ReadAfter
<1> QED
  BY <1>6, <1>7, <1>8

\* A superseded call reads, or a load ends that no call waits for.
LEMMA SupersededKeeps ==
  ASSUME Inv, Outlook, OrphanReads \/ LateReads \/ StrayReload
  PROVE  LastFrame' /\ Keeps
<1>1. LastFrame'
  BY LastFrameFrame DEF OrphanReads, LateReads, StrayReload, serverVars, streamVars
<1>2. UNCHANGED <<status, link, stream, connected>>
  BY DEF OrphanReads, LateReads, StrayReload, serverVars, streamVars
<1>3. ASSUME NEW d, RetryLater(d) PROVE Keeps
  BY <1>3, RetryPends, PendingKeeps
<1>4. ASSUME UNCHANGED <<fence, preserved, dialog, stage, timer, leaked>> PROVE Keeps
  BY <1>2, <1>4, UntouchedKeeps
<1>5. CASE OrphanReads \/ LateReads
  <2>1. PICK d : \/ RetryLater(d)
                 \/ UNCHANGED <<fence, preserved, dialog, stage, timer, leaked>>
    BY <1>5 DEF OrphanReads, LateReads, timerVars
  <2> QED
    BY <1>1, <1>3, <1>4, <2>1
<1>6. CASE StrayReload
  <2>1. \/ RetryLater(draft)
        \/ UNCHANGED <<fence, preserved, dialog, stage, timer, leaked>>
        \/ dialog' = "reloaded"
    BY <1>6 DEF StrayReload, Loads, fenceVars, timerVars
  <2>2. ASSUME dialog' = "reloaded" PROVE Keeps
    BY <2>2, PendingKeeps DEF DraftShown
  <2> QED
    BY <1>1, <1>3, <1>4, <2>1, <2>2
<1> QED
  BY <1>5, <1>6

\* A timer fires, or the user decides about the draft or opens the document.
LEMMA ChoiceKeeps ==
  ASSUME Inv, Outlook, RetryTimer \/ LeakedTimer \/ Open \/ Resolve \/ Retry \/ Discard
  PROVE  LastFrame' /\ Keeps
<1>1. UNCHANGED <<status, link, stream, connected>>
  BY DEF RetryTimer, LeakedTimer, Open, Resolve, Retry, Discard, Chooses, serverVars,
     streamVars
<1>2. LastFrame'
  BY <1>1, LastFrameFrame
<1>3. ASSUME NEW d, NEW open, Start(d, open) PROVE Keeps
  BY <1>3, StartPends, PendingKeeps
<1>4. CASE RetryTimer \/ LeakedTimer
  <2>1. PICK d : Reconcile(d, TRUE) \/ ~connected
    BY <1>4 DEF RetryTimer, LeakedTimer
  <2>2. ASSUME ~connected PROVE Keeps
    BY <1>1, <2>2, PendingKeeps DEF Pending
  <2> QED
    BY <1>2, <1>3, <2>1, <2>2 DEF Reconcile
<1>5. CASE Resolve \/ Retry
  BY <1>2, <1>3, <1>5 DEF Resolve, Retry, Reconcile
<1>6. CASE Open
  <2>1. UNCHANGED <<fence, preserved, dialog, stage, timer, leaked>>
    BY <1>6 DEF Open, Chooses, fenceVars
  <2> QED
    BY <1>1, <1>2, <2>1, UntouchedKeeps
<1>7. CASE Discard
  <2>1. preserved' = FALSE /\ dialog' = "none"
    BY <1>7 DEF Discard
  <2> QED
    BY <1>2, <1>7, <2>1 DEF Keeps, HeldPending
<1> QED
  BY <1>4, <1>5, <1>6, <1>7

\* The stream opens or is seen to be gone, and a save leaves or arrives.
LEMMA LinkKeeps ==
  ASSUME Inv, Outlook, Connect \/ Disconnect \/ Save \/ Arrive
  PROVE  LastFrame' /\ Keeps
<1>1. ASSUME NEW d, NEW open, Reconcile(d, open) PROVE Keeps
  BY <1>1, StartPends, PendingKeeps DEF Reconcile
<1>2. CASE Connect
  <2>1. stream' = <<status>> /\ status' = status
    BY <1>2 DEF Connect, serverVars
  <2>2. LastFrame'
    BY <2>1 DEF LastFrame
  <2>3. PICK d : Reconcile(d, TRUE)
    BY <1>2 DEF Connect
  <2> QED
    BY <1>1, <2>2, <2>3
<1>3. CASE Disconnect
  <2>1. UNCHANGED <<status, link, stream>> /\ connected' = FALSE
    BY <1>3 DEF Disconnect, serverVars
  <2> QED
    BY <2>1, LastFrameFrame, PendingKeeps DEF Pending
<1>4. CASE Save \/ Arrive
  <2>1. UNCHANGED <<status, link, stream, connected>>
    BY <1>4 DEF Save, Arrive, serverVars, streamVars
  <2>2. \/ \E d : Reconcile(d, connected)
        \/ UNCHANGED <<fence, preserved, dialog, stage, timer, leaked>>
    BY <1>4 DEF Save, Arrive, fenceVars, callVars, timerVars
  <2> QED
    BY <1>1, <2>1, <2>2, LastFrameFrame, UntouchedKeeps
<1> QED
  BY <1>2, <1>3, <1>4

\* The last frame lifts the fence unless its gate runs, or a draft is shown or
\* has its call to come.
LEMMA FrameKeeps ==
  ASSUME Inv, Outlook, gateStatus
  PROVE  LastFrame' /\ Keeps
<1> DEFINE s == Head(stream)
<1>1. /\ stream # <<>> /\ stream' = Tail(stream)
      /\ \/ s.running
         \/ fence' = (fence /\ (preserved \/ dialog # "none"))
      /\ UNCHANGED <<status, link, connected, preserved, dialog, stage, timer, leaked>>
  BY DEF gateStatus, serverVars, callVars, timerVars
<1>2. stream \in Seq(Status) /\ link \in {"up", "cut"} /\ dialog \in Dialogs
  BY DEF Inv, StreamPart, FencePart
<1>3. LastFrame'
  <2>1. stream' # <<>> => stream'[Len(stream')] = stream[Len(stream)]
    BY <1>1, <1>2
  <2> QED
    BY <1>1, <2>1 DEF Outlook, LastFrame
<1>4. HeldPending'
  BY <1>1 DEF Outlook, HeldPending, Pending, DraftShown
<1>5. Answered'
  <2>1. CASE stream' # <<>> \/ link = "cut"
    BY <1>1, <2>1 DEF Answered, Owed
  <2>2. CASE stream' = <<>> /\ link = "up"
    <3>1. Len(stream) = 1
      <4>1. Len(stream) \in Nat /\ Len(stream') = Len(stream) - 1
        BY <1>1, <1>2
      <4>2. Len(stream') = 0
        BY <2>2
      <4> QED
        BY <4>1, <4>2
    <3>2. s = status
      BY <1>1, <1>2, <2>2, <3>1 DEF Outlook, LastFrame
    <3> HIDE DEF s
    <3>3. CASE s.running
      BY <1>1, <3>2, <3>3 DEF Answered, Owed
    <3>4. CASE ~s.running
      <4>1. fence' => preserved' \/ dialog' # "none"
        BY <1>1, <3>4
      <4>2. fence' => DraftShown' \/ Pending'
        BY <1>1, <1>2, <1>4, <4>1 DEF HeldPending, Dialogs, DraftShown
      <4> QED
        BY <4>2 DEF Answered, Owed, Pending
    <3> QED
      BY <3>3, <3>4
  <2> QED
    BY <1>2, <2>1, <2>2
<1> QED
  BY <1>3, <1>4, <1>5 DEF Keeps

\* Every step keeps what is to come.
LEMMA OutlookStep ==
  ASSUME Inv, Outlook, [Next]_vars
  PROVE  Outlook' /\ [Answered => Answered' \/ Discard]_vars
<1>1. CASE Next
  <2>1. LastFrame' /\ Keeps
    <3>1. CASE TabStep
      BY <3>1, CallKeeps, SupersededKeeps, ChoiceKeeps, LinkKeeps, FrameKeeps DEF TabStep
    <3> QED
      BY <1>1, <3>1, ServerKeeps, ChoiceKeeps, LinkKeeps DEF Next
  <2> QED
    BY <2>1 DEF Keeps, Outlook
<1>2. CASE UNCHANGED vars
  <2>1. UNCHANGED <<status, link, stream, connected, fence, preserved, dialog, stage,
                    timer, leaked>>
    BY <1>2 DEF vars, serverVars, streamVars, fenceVars, callVars, timerVars
  <2>2. LastFrame' /\ Keeps
    BY <2>1, LastFrameFrame, UntouchedKeeps
  <2> QED
    BY <1>2, <2>2 DEF Keeps, Outlook
<1> QED
  BY <1>1, <1>2

\* The fence is never left up with nothing to come and no draft to decide about,
\* whatever calls and timers are superseded, lost or give up, but for a draft
\* dropped by discardFrozenConflict.
THEOREM OnlyDiscardStrandsHolds == Spec => OnlyDiscardStrands
<1>1. Init => Outlook
  BY DEF Init, Outlook, LastFrame, HeldPending, DraftShown, Pending
<1>2. Inv /\ Outlook /\ [Next]_vars => Outlook'
  BY OutlookStep
<1>3. Inv /\ Outlook /\ [Next]_vars => [Answered => Answered' \/ Discard]_vars
  BY OutlookStep
<1> QED
  BY <1>1, <1>2, <1>3, ConsoleInvariant, PTL DEF Spec, OnlyDiscardStrands
-----------------------------------------------------------------------------
(* A draft that all calls and timers carry.                                *)

\* Superseding a call that carries the draft leaves none that does not.
LEMMA SupersedeGuards ==
  ASSUME Guarded, Supersede
  PROVE  FALSE \notin orphans' \cup late'
  BY DEF Guarded, Supersede

\* A new call with the draft keeps it.
LEMMA ReconcileGuards ==
  ASSUME Guarded, NEW open \in BOOLEAN, Reconcile(TRUE, open),
         leaked' \subseteq leaked \cup timer
  PROVE  Guarded'
<1>1. FALSE \notin orphans' \cup late'
  BY SupersedeGuards DEF Reconcile, Start
<1>2. DraftHeld'
  BY DEF Reconcile, DraftHeld
<1>3. stage' # "idle" => draft'
  BY DEF Reconcile, Start
<1>4. FALSE \notin timer' \cup leaked'
  BY DEF Reconcile, Start, Guarded
<1> QED
  BY <1>1, <1>2, <1>3, <1>4 DEF Guarded

\* A call that gives up for now has the draft in its timer.
LEMMA RetryGuards ==
  ASSUME Guarded, RetryLater(TRUE), orphans' \subseteq orphans, late' \subseteq late,
         UNCHANGED <<stage, draft>> \/ stage' = "idle",
         UNCHANGED preserved, DraftShown' \/ UNCHANGED dialog
  PROVE  Guarded'
<1>1. DraftHeld'
  BY DEF Guarded, DraftHeld, DraftShown
<1>2. FALSE \notin timer' \cup leaked'
  BY DEF Guarded, RetryLater
<1> QED
  BY <1>1, <1>2 DEF Guarded

\* A step that adds no call and no timer and keeps the draft.
LEMMA QuietGuards ==
  ASSUME Guarded, DraftHeld', UNCHANGED draft \/ stage' = "idle",
         stage' # "idle" => stage # "idle",
         timer' \subseteq timer, leaked' \subseteq leaked \cup timer,
         orphans' \subseteq orphans, late' \subseteq late
  PROVE  Guarded'
  BY DEF Guarded

\* A call held to a draft takes that one up.
LEMMA GuardedDrafts ==
  ASSUME Guarded
  PROVE  Drafts = {TRUE}
  BY DEF Guarded, Drafts

\* The latest call reads, reloads or ends.
LEMMA CallGuards ==
  ASSUME Inv, Guarded, ReadBefore \/ Reload \/ ReadAfter
  PROVE  Guarded'
<1>1. draft = TRUE /\ connected \in BOOLEAN
  <2>1. stage # "idle"
    BY DEF ReadBefore, Reload, ReadAfter
  <2> QED
    BY <2>1, InvTypes DEF Guarded
<1>2. ASSUME GiveUp PROVE Guarded'
  <2>1. RetryLater(TRUE) /\ DraftShown' /\ stage' = "idle"
        /\ UNCHANGED <<orphans, late, preserved>>
    BY <1>1, <1>2 DEF GiveUp, FailReconcile, Ended, DraftShown
  <2> QED
    BY <2>1, RetryGuards
<1>3. CASE ReadBefore
  <2>1. CASE GiveUp
    BY <1>2, <2>1
  <2>2. CASE /\ stage' = "loading"
             /\ UNCHANGED <<fenceVars, draft, orphans, late, timerVars>>
    <3>1. DraftHeld' /\ timer' = timer /\ leaked' = leaked /\ stage # "idle"
      BY <1>3, <2>2 DEF ReadBefore, Guarded, DraftHeld, DraftShown, fenceVars, timerVars
    <3> QED
      BY <2>2, <3>1, QuietGuards
  <2> QED
    BY <1>3, <2>1, <2>2 DEF ReadBefore
<1>4. CASE Reload
  <2>1. CASE GiveUp
    BY <1>2, <2>1
  <2>2. CASE /\ Loads(dialog) /\ stage' = "after"
             /\ UNCHANGED <<draft, orphans, late, timerVars>>
    <3>1. DraftHeld' /\ timer' = timer /\ leaked' = leaked /\ stage # "idle"
      BY <1>4, <2>2 DEF Reload, Loads, Guarded, DraftHeld, DraftShown, timerVars
    <3> QED
      BY <2>2, <3>1, QuietGuards
  <2> QED
    BY <1>4, <2>1, <2>2 DEF Reload
<1>5. CASE ReadAfter
  <2>1. CASE GiveUp
    BY <1>2, <2>1
  <2>2. CASE Reconcile(draft, connected) /\ UNCHANGED leaked
    BY <1>1, <2>2, ReconcileGuards
  <2>3. CASE Reconciled
    <3>1. /\ DraftHeld' /\ stage' = "idle" /\ timer' = timer /\ leaked' = leaked
          /\ UNCHANGED <<orphans, late>>
      BY <1>1, <2>3 DEF Reconciled, Ended, DraftHeld, DraftShown, timerVars
    <3> QED
      BY <3>1, QuietGuards
  <2> QED
    BY <1>5, <2>1, <2>2, <2>3 DEF ReadAfter
<1> QED
  BY <1>3, <1>4, <1>5

\* A superseded call reads.
LEMMA SupersededGuards ==
  ASSUME Inv, Guarded, OrphanReads \/ LateReads
  PROVE  Guarded'
<1>1. PICK d \in orphans \cup late :
        /\ orphans' \subseteq orphans /\ late' \subseteq late
        /\ UNCHANGED <<stage, draft, preserved>>
        /\ \/ RetryLater(d) /\ FailReconcile(d)
           \/ UNCHANGED <<timer, leaked, dialog>>
  BY DEF OrphanReads, LateReads, timerVars
<1>2. d = TRUE
  BY InvTypes DEF Guarded
<1>3. CASE RetryLater(d) /\ FailReconcile(d)
  <2>1. DraftShown'
    BY <1>2, <1>3 DEF FailReconcile, DraftShown
  <2> QED
    BY <1>1, <1>2, <1>3, <2>1, RetryGuards
<1>4. CASE UNCHANGED <<timer, leaked, dialog>>
  <2>1. DraftHeld'
    BY <1>1, <1>4 DEF Guarded, DraftHeld, DraftShown
  <2> QED
    BY <1>1, <1>4, <2>1, QuietGuards
<1> QED
  BY <1>1, <1>3, <1>4

\* A load ends that no call waits for.
LEMMA StrayGuards ==
  ASSUME Inv, Guarded, StrayReload
  PROVE  Guarded'
<1>1. UNCHANGED <<orphans, late>>
  BY DEF StrayReload
<1>2. CASE /\ stage = "loading" /\ Loads(IF draft THEN "frozen" ELSE dialog)
           /\ Ended /\ RetryLater(draft)
  <2>1. draft = TRUE
    BY <1>2, InvTypes DEF Guarded
  <2>2. DraftShown' /\ preserved' \in {preserved, TRUE}
    BY <1>2, <2>1 DEF Loads, DraftShown
  <2>3. stage' = "idle" /\ RetryLater(TRUE) /\ DraftHeld'
    BY <1>2, <2>1, <2>2 DEF Ended, DraftHeld
  <2>4. FALSE \notin timer' \cup leaked'
    BY <2>3 DEF Guarded, RetryLater
  <2> QED
    BY <1>1, <2>3, <2>4 DEF Guarded
<1>3. CASE /\ UNCHANGED <<stage, draft, timerVars>>
           /\ UNCHANGED fenceVars \/ Loads(dialog)
  <2>1. DraftHeld'
    BY <1>3 DEF Guarded, DraftHeld, DraftShown, Loads, fenceVars
  <2>2. timer' = timer /\ leaked' = leaked
    BY <1>3 DEF timerVars
  <2> QED
    BY <1>1, <1>3, <2>1, <2>2, QuietGuards
<1> QED
  BY <1>2, <1>3 DEF StrayReload

\* A timer fires.
LEMMA TimerGuards ==
  ASSUME Inv, Guarded, RetryTimer \/ LeakedTimer
  PROVE  Guarded'
<1>1. PICK d \in timer \cup leaked :
        /\ leaked' \subseteq leaked \cup timer
        /\ \/ Reconcile(d, TRUE)
           \/ timer' = {} /\ UNCHANGED <<fenceVars, callVars>>
  BY DEF RetryTimer, LeakedTimer
<1>2. d = TRUE
  BY InvTypes DEF Guarded
<1>3. CASE Reconcile(d, TRUE)
  <2>1. TRUE \in BOOLEAN
    OBVIOUS
  <2> QED
    BY <1>1, <1>2, <1>3, <2>1, ReconcileGuards
<1>4. CASE timer' = {} /\ UNCHANGED <<fenceVars, callVars>>
  <2>1. DraftHeld' /\ UNCHANGED <<stage, draft, orphans, late>>
    BY <1>4 DEF Guarded, DraftHeld, DraftShown, fenceVars, callVars
  <2> QED
    BY <1>1, <1>4, <2>1, QuietGuards
<1> QED
  BY <1>1, <1>3, <1>4

\* The stream opens or is seen to be gone, or a save arrives.
LEMMA LinkGuards ==
  ASSUME Inv, Guarded, Connect \/ Disconnect \/ Arrive
  PROVE  Guarded'
<1>1. leaked' = leaked
  BY DEF Connect, Disconnect, Arrive
<1>2. ASSUME NEW open \in BOOLEAN, \E d \in Drafts : Reconcile(d, open)
      PROVE  Guarded'
  <2>1. Reconcile(TRUE, open)
    BY <1>2, GuardedDrafts
  <2> QED
    BY <1>1, <2>1, ReconcileGuards
<1>3. connected \in BOOLEAN /\ TRUE \in BOOLEAN /\ FALSE \in BOOLEAN
  BY InvTypes
<1>4. CASE Connect
  BY <1>2, <1>3, <1>4 DEF Connect
<1>5. CASE Disconnect
  <2>1. CASE Supersede /\ Ended /\ UNCHANGED <<preserved, dialog, timer>>
    <3>1. FALSE \notin orphans' \cup late'
      BY <2>1, SupersedeGuards
    <3>2. DraftHeld' /\ stage' = "idle" /\ timer' = timer
      BY <2>1 DEF Guarded, DraftHeld, DraftShown, Ended
    <3> QED
      BY <1>1, <3>1, <3>2 DEF Guarded
  <2> QED
    BY <1>2, <1>3, <1>5, <2>1 DEF Disconnect
<1>6. CASE Arrive
  <2>1. CASE UNCHANGED <<fenceVars, callVars, timer>>
    <3>1. DraftHeld' /\ UNCHANGED <<stage, draft, orphans, late>>
      BY <2>1 DEF Guarded, DraftHeld, DraftShown, fenceVars, callVars
    <3> QED
      BY <1>1, <2>1, <3>1, QuietGuards
  <2> QED
    BY <1>2, <1>3, <1>6, <2>1 DEF Arrive
<1> QED
  BY <1>4, <1>5, <1>6

\* What touches neither draft nor calls nor timers.
LEMMA OtherGuards ==
  ASSUME Guarded,
         BeginProducer \/ Produce \/ ReleaseProducer \/ Cut \/ gateStatus \/ Open \/ Save
         \/ UNCHANGED vars
  PROVE  Guarded'
<1>1. UNCHANGED <<preserved, dialog, stage, draft, orphans, late, timer, leaked>>
  <2>1. CASE BeginProducer \/ Produce \/ ReleaseProducer \/ Cut
    BY <2>1 DEF BeginProducer, Produce, ReleaseProducer, Cut, Announce, fenceVars, callVars,
       timerVars
  <2>2. CASE gateStatus \/ Save
    BY <2>2 DEF gateStatus, Save, fenceVars, callVars, timerVars
  <2>3. CASE Open
    BY <2>3 DEF Open, Chooses, fenceVars
  <2>4. CASE UNCHANGED vars
    BY <2>4 DEF vars, fenceVars, callVars, timerVars
  <2> QED
    BY <2>1, <2>2, <2>3, <2>4
<1>2. DraftHeld'
  BY <1>1 DEF Guarded, DraftHeld, DraftShown
<1> QED
  BY <1>1, <1>2, QuietGuards

\* The dialog's retry of a draft carries it.
LEMMA RetryButtonGuards ==
  ASSUME Inv, Guarded, Retry, dialog # "empty"
  PROVE  Guarded'
<1>1. dialog = "frozen" /\ Reconcile(dialog = "frozen", connected) /\ leaked' = leaked
  BY DEF Retry, Chooses
<1>2. Reconcile(TRUE, connected) /\ connected \in BOOLEAN
  BY <1>1, InvTypes
<1> QED
  BY <1>1, <1>2, ReconcileGuards

\* A draft that every call and timer carries goes only by its user's word,
\* whatever fails, reconnects, is superseded or lost meanwhile (reconcileContent).
THEOREM DraftKeptHolds == Spec => DraftKept
<1>1. ASSUME Inv, [Next]_vars
      PROVE  [Guarded => Guarded' \/ Resolve \/ Discard \/ (Retry /\ dialog = "empty")]_vars
  <2> SUFFICES ASSUME Guarded
               PROVE  Guarded' \/ Resolve \/ Discard \/ (Retry /\ dialog = "empty")
    OBVIOUS
  <2>1. CASE TabStep
    BY <1>1, <2>1, CallGuards, SupersededGuards, StrayGuards, TimerGuards, LinkGuards,
       OtherGuards DEF TabStep
  <2>2. CASE Retry
    BY <1>1, <2>2, RetryButtonGuards
  <2>3. CASE BeginProducer \/ Produce \/ ReleaseProducer \/ Cut \/ Open \/ Save \/ UNCHANGED vars
    BY <2>3, OtherGuards
  <2> QED
    BY <1>1, <2>1, <2>2, <2>3 DEF Next
<1> QED
  BY <1>1, ConsoleInvariant, PTL DEF Spec, DraftKept
=============================================================================
