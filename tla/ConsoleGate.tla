----------------------------- MODULE ConsoleGate -----------------------------
(***************************************************************************)
(* web/src: what a console tab does to edit only what it has loaded.  The  *)
(* tab keeps a write fence and a proof, the gate status under which its    *)
(* content was loaded (X-Moe-Loaded-Producer-State).  It gets both from    *)
(* reconcileContent, which reads the status, reloads the content and reads *)
(* the status again, and from the gate.status frames of the event stream.  *)
(*                                                                         *)
(* The server side is the gate as EditorGate has it, seen from one tab:    *)
(* producers follow one another, each announces its beginning and its end, *)
(* and a restart makes a new instance.  One document is open; content is   *)
(* the number of the producer run that wrote it last.                      *)
(*                                                                         *)
(* reconcileContent is called again whenever there is reason to, and a     *)
(* call that has been superseded notices only after its reload: until then *)
(* it may still reload, or arm a retry timer.  Of a call all that matters  *)
(* besides where it is is whether it carries an unsaved draft, so calls    *)
(* and timers that wait in the same place with the same flag count as one. *)
(***************************************************************************)
EXTENDS Integers, Sequences

CONSTANTS MaxRuns,      \* bound: producer runs
          MaxCuts,      \* bound: restarts and lost streams
          MaxFailures,  \* bound: failed requests of the tab
          MaxChoices    \* bound: saves and decisions of the user

ASSUME ConsoleGateAssumption ==
  /\ MaxRuns \in Nat /\ MaxCuts \in Nat /\ MaxFailures \in Nat
  /\ MaxChoices \in Nat

VARIABLES
  status,     \* the gate's: instance, revision, running
  content,    \* what the server holds
  link,       \* the event stream as the server has it
  stream,     \* gate.status frames under way
  connected,  \* sseConnectedRef
  fence,      \* writeFenceRef
  proof,      \* loadedProducerState
  vouched,    \* ghost: who set the proof
  preserved,  \* preservedConflictDraftRef holds a draft
  dialog,     \* contentConflict
  loaded,     \* what the tab shows
  stage,      \* where the latest reconcileContent is
  draft,      \* whether it carries a draft
  before,     \* its producerBefore
  timer,      \* the timer in reconcileRetryTimerRef, as a set of draft flags
  leaked,     \* timers still armed that the reference has lost
  orphans,    \* superseded calls that await their producerBefore
  late,       \* superseded calls that await their producerAfter
  stray,      \* a load is under way that the latest call does not wait for
  request,    \* a save under way
  admitted,   \* ghost: the last save the gate admitted, and the content then
  runs, cuts, failures, choices

serverVars == <<status, content, runs, cuts>>
streamVars == <<link, stream, connected>>
fenceVars == <<fence, proof, vouched, preserved, dialog>>
callVars == <<stage, draft, before, orphans, late, stray>>
timerVars == <<timer, leaked>>
userVars == <<request, admitted, choices>>
vars == <<serverVars, streamVars, fenceVars, callVars, timerVars, loaded,
          failures, userVars>>

Status == [instance : Nat, revision : Nat, running : BOOLEAN]
NoProof == [instance |-> 0, revision |-> 0, running |-> FALSE]
NoRequest == [proof |-> NoProof, based |-> -1]
NoSave == [based |-> 0, on |-> 0]

\* The conflict dialog: with a draft whose reload is not done (reloadFailed) or
\* is, or with none, after the user has let go of it.
Dialogs == {"none", "frozen", "reloaded", "empty"}
DraftShown == dialog \in {"frozen", "reloaded"}
DraftHeld == preserved \/ DraftShown

TypeOK ==
  /\ status \in Status
  /\ content \in 0..MaxRuns
  /\ link \in {"up", "cut"}
  /\ stream \in Seq(Status)
  /\ connected \in BOOLEAN /\ fence \in BOOLEAN
  /\ proof \in Status /\ ~proof.running
  /\ vouched \in {"nobody", "reload", "frame"}
  /\ proof = NoProof <=> vouched = "nobody"
  /\ preserved \in BOOLEAN /\ dialog \in Dialogs
  /\ loaded \in 0..content
  /\ stage \in {"idle", "before", "loading", "after"}
  /\ draft \in BOOLEAN /\ stray \in BOOLEAN
  /\ before \in Status
  /\ timer \in {{}, {TRUE}, {FALSE}}
  /\ leaked \subseteq BOOLEAN
  /\ orphans \subseteq BOOLEAN /\ late \subseteq BOOLEAN
  /\ request \in [proof : Status, based : -1..MaxRuns]
  /\ admitted \in [based : 0..MaxRuns, on : 0..MaxRuns]
  /\ runs \in 0..MaxRuns /\ cuts \in 0..MaxCuts
  /\ failures \in 0..MaxFailures /\ choices \in 0..MaxChoices

\* A page just opened: content is loaded, nothing vouches for it, and a draft
\* frozen by an earlier page may have been recovered.
Init ==
  /\ status = [instance |-> 1, revision |-> 0, running |-> FALSE]
  /\ content = 0
  /\ link = "cut" /\ stream = <<>> /\ connected = FALSE
  /\ fence = TRUE /\ proof = NoProof /\ vouched = "nobody"
  /\ preserved \in BOOLEAN /\ dialog = IF preserved THEN "frozen" ELSE "none"
  /\ loaded = 0 /\ before = NoProof
  /\ stage = "idle" /\ draft = FALSE /\ orphans = {}
  /\ late = {} /\ stray = FALSE
  /\ timer = {} /\ leaked = {}
  /\ request = NoRequest /\ admitted = NoSave
  /\ runs = 0 /\ cuts = 0 /\ failures = 0 /\ choices = 0

-----------------------------------------------------------------------------
(* The server                                                              *)

\* The gate changes and its hook broadcasts the new status.
Announce(s) ==
  /\ status' = s
  /\ stream' = IF link = "up" THEN Append(stream, s) ELSE stream
  /\ UNCHANGED <<link, connected, fenceVars, callVars, timerVars, loaded,
                 failures, userVars>>

BeginProducer ==
  /\ ~status.running
  /\ runs < MaxRuns
  /\ runs' = runs + 1
  /\ Announce([status EXCEPT !.revision = @ + 1, !.running = TRUE])
  /\ UNCHANGED <<content, cuts>>

Produce ==
  /\ status.running
  /\ content' = runs
  /\ UNCHANGED <<status, runs, cuts, streamVars, fenceVars, callVars, timerVars,
                 loaded, failures, userVars>>

ReleaseProducer ==
  /\ status.running
  /\ Announce([status EXCEPT !.revision = @ + 1, !.running = FALSE])
  /\ UNCHANGED <<content, runs, cuts>>

\* The stream is lost: the hub drops a slow client, a proxy closes it, or the
\* server restarts as a new instance.
Cut ==
  /\ cuts < MaxCuts
  /\ cuts' = cuts + 1
  /\ link' = "cut" /\ stream' = <<>>
  /\ \/ UNCHANGED status
     \/ status' = [instance |-> status.instance + 1, revision |-> 0,
                   running |-> FALSE]
  /\ UNCHANGED <<content, runs, connected, fenceVars, callVars, timerVars,
                 loaded, failures, userVars>>

-----------------------------------------------------------------------------
(* reconcileContent                                                        *)

Unproved == proof' = NoProof /\ vouched' = "nobody"

\* Mutant of Drafts: only the dialog and the editor are asked.
Drafts_NotPreserved == IF DraftShown THEN {TRUE} ELSE BOOLEAN

\* The draft a call without an explicit one takes up: the one held, or what
\* captureUnsavedDraft finds.
Drafts == IF DraftHeld THEN {TRUE} ELSE BOOLEAN

\* The reconciliation generation moves on under the call under way.
Supersede ==
  /\ orphans' = IF stage = "before" THEN orphans \cup {draft} ELSE orphans
  /\ late' = IF stage = "after" THEN late \cup {draft} ELSE late
  /\ stray' = (stray \/ stage = "loading")

\* The synchronous start of a call that carries draft d: it clears the timer
\* it knows of, fences and drops the proof.  Without the stream it only arms
\* the timer.
Start(d, open) ==
  /\ Supersede
  /\ fence' = TRUE
  /\ Unproved
  /\ stage' = IF open THEN "before" ELSE "idle"
  /\ draft' = (open /\ d) /\ before' = NoProof
  /\ timer' = IF open THEN {} ELSE {d}

\* A call that keeps its draft, and shows it at once if there is no stream.
Reconcile(d, open) ==
  /\ Start(d, open)
  /\ preserved' = (preserved \/ d)
  /\ dialog' = IF d /\ ~open THEN "frozen" ELSE dialog

\* failReconcile: a draft is shown, again if need be.
FailReconcile(d) == dialog' = IF d THEN "frozen" ELSE dialog

\* retryReconcileLater: the reference forgets a timer that is still armed.
RetryLater(d) ==
  /\ timer' = {d}
  /\ leaked' = leaked \cup timer

\* A request of the tab fails; bounded.
RequestFails ==
  /\ failures < MaxFailures
  /\ failures' = failures + 1

\* The latest call is over.
Ended == stage' = "idle" /\ draft' = FALSE /\ before' = NoProof

\* Mutant of GiveUp: the next gate.status frame is expected to do the rest.
GiveUp_NoTimer ==
  /\ Ended /\ FailReconcile(draft)
  /\ UNCHANGED <<fence, proof, vouched, preserved, orphans, late, stray,
                 timerVars>>

\* The latest call gives up for now.
GiveUp ==
  /\ Ended /\ FailReconcile(draft) /\ RetryLater(draft)
  /\ UNCHANGED <<fence, proof, vouched, preserved, orphans, late, stray>>

\* producerBefore
ReadBefore ==
  /\ stage = "before"
  /\ \/ RequestFails /\ GiveUp
     \/ status.running /\ GiveUp /\ UNCHANGED failures
     \/ /\ ~status.running
        /\ before' = status /\ stage' = "loading"
        /\ UNCHANGED <<fenceVars, draft, orphans, late, stray, timerVars,
                       failures>>
  /\ UNCHANGED <<serverVars, streamVars, loaded, userVars>>

\* producerBefore of a superseded call, which does not know that it is.
OrphanReads ==
  \E d \in orphans :
    /\ orphans' = orphans \ {d}
    /\ \/ /\ \/ RequestFails
             \/ status.running /\ UNCHANGED failures
          /\ RetryLater(d) /\ FailReconcile(d)
          /\ UNCHANGED stray
       \/ /\ ~status.running
          /\ stray' = TRUE
          /\ UNCHANGED <<timerVars, dialog, failures>>
    /\ UNCHANGED <<serverVars, streamVars, fence, proof, vouched, preserved,
                   stage, draft, before, late, loaded, userVars>>

\* loadEntries shows what the server holds.  It may find in the browser a TXT
\* draft of an older revision, which it freezes (freezeRecoveredConflict).
Loads(shown) ==
  /\ loaded' = content
  /\ \/ dialog' = shown /\ UNCHANGED <<fence, preserved>>
     \/ fence' = TRUE /\ preserved' = TRUE /\ dialog' = "reloaded"
  /\ UNCHANGED <<proof, vouched>>

\* reloadSidebar, loadEntries and the editors' reloadAuthoritative.
Reload ==
  /\ stage = "loading"
  /\ \/ RequestFails /\ GiveUp /\ UNCHANGED loaded
     \/ /\ Loads(dialog) /\ stage' = "after"
        /\ UNCHANGED <<draft, before, orphans, late, stray, timerVars, failures>>
  /\ UNCHANGED <<serverVars, streamVars, userVars>>

\* A load that no call waits for any more.  Of two loads under way only the one
\* started last is shown (loadGenerationRef), and the other reports that it has
\* not loaded.
StrayReload ==
  /\ stray
  /\ stray' = FALSE
  /\ \/ UNCHANGED <<loaded, fenceVars, stage, draft, before, timerVars>>
     \/ /\ stage # "loading"
        /\ Loads(dialog) /\ UNCHANGED <<stage, draft, before, timerVars>>
     \/ /\ stage = "loading"
        /\ Loads(IF draft THEN "frozen" ELSE dialog)
        /\ Ended /\ RetryLater(draft)
  /\ UNCHANGED <<serverVars, streamVars, orphans, late, failures, userVars>>

\* acceptLoadedProducerState, for a session that has not changed.
Accept(s, who) == proof' = s /\ vouched' = who

\* The end of a call: a draft stays frozen behind the fence; without one the
\* tab may write, and the dialog is gone.
Reconciled ==
  /\ Accept(status, "reload")
  /\ Ended
  /\ fence' = (fence /\ draft)
  /\ preserved' = (preserved /\ draft)
  /\ dialog' = IF draft THEN "reloaded" ELSE "none"
  /\ UNCHANGED <<orphans, late, stray, timerVars>>

\* Mutant of ReadAfter: the status is read again but not compared.
ReadAfter_NoCompare ==
  /\ stage = "after"
  /\ \/ RequestFails /\ GiveUp
     \/ status.running /\ GiveUp /\ UNCHANGED failures
     \/ ~status.running /\ Reconciled /\ UNCHANGED failures
  /\ UNCHANGED <<serverVars, streamVars, loaded, userVars>>

\* producerAfter: a running producer, another revision or another instance
\* means that the content may have changed while it was read.
ReadAfter ==
  /\ stage = "after"
  /\ \/ RequestFails /\ GiveUp
     \/ status.running /\ GiveUp /\ UNCHANGED failures
     \/ /\ ~status.running /\ status # before
        /\ Reconcile(draft, connected) /\ UNCHANGED <<leaked, failures>>
     \/ status = before /\ Reconciled /\ UNCHANGED failures
  /\ UNCHANGED <<serverVars, streamVars, loaded, userVars>>

\* producerAfter of a superseded call: only its failure comes before the look at
\* the generation, after which the call ends.
LateReads ==
  \E d \in late :
    /\ late' = late \ {d}
    /\ \/ RequestFails /\ RetryLater(d) /\ FailReconcile(d)
       \/ UNCHANGED <<timerVars, dialog, failures>>
    /\ UNCHANGED <<serverVars, streamVars, fence, proof, vouched, preserved,
                   stage, draft, before, orphans, stray, loaded, userVars>>

\* Mutant of RetryTimer: no further attempt is made.
RetryTimer_GivesUp ==
  \E d \in timer :
    /\ timer' = {}
    /\ UNCHANGED <<serverVars, streamVars, fenceVars, callVars, leaked, loaded,
                   failures, userVars>>

\* The timer tries again if the stream is open; otherwise the stream's
\* opening will.
RetryTimer ==
  \E d \in timer :
    /\ \/ connected /\ Reconcile(d, TRUE)
       \/ ~connected /\ timer' = {} /\ UNCHANGED <<fenceVars, callVars>>
    /\ UNCHANGED <<serverVars, streamVars, leaked, loaded, failures, userVars>>

\* A lost timer does the same and makes the reference lose its own.
LeakedTimer ==
  \E d \in leaked :
    /\ leaked' = (leaked \ {d}) \cup timer
    /\ \/ connected /\ Reconcile(d, TRUE)
       \/ ~connected /\ timer' = {} /\ UNCHANGED <<fenceVars, callVars>>
    /\ UNCHANGED <<serverVars, streamVars, loaded, failures, userVars>>

\* The user does something; bounded.
Acts ==
  /\ choices < MaxChoices
  /\ choices' = choices + 1

\* The user does something besides saving.
Chooses ==
  /\ Acts
  /\ UNCHANGED <<serverVars, streamVars, leaked, loaded, failures, request,
                 admitted>>

\* resolveContentConflict: the user lets go of the draft once the content is
\* reloaded; the dialog stays until a call succeeds.
Resolve ==
  /\ dialog = "reloaded"
  /\ Start(FALSE, connected)
  /\ preserved' = FALSE /\ dialog' = "empty"
  /\ Chooses

\* The user opens the document, or opens it again.  runOrGuard asks first when a
\* draft is held, but its answer drops only a draft that is shown (Discard).
Open ==
  /\ ~DraftShown
  /\ Chooses
  /\ stray' = TRUE
  /\ UNCHANGED <<fenceVars, stage, draft, before, orphans, late, timer>>

\* The dialog's button to load again.
Retry ==
  /\ dialog \in {"frozen", "empty"}
  /\ Reconcile(dialog = "frozen", connected)
  /\ Chooses

\* discardFrozenConflict: in the guard of unsaved changes the user drops the
\* draft, and the guarded action may load the document again.  Calls and timers
\* keep what they carry, and the fence stays as it is.
Discard ==
  /\ DraftShown
  /\ preserved' = FALSE /\ dialog' = "none"
  /\ stray' \in {stray, TRUE}
  /\ Chooses
  /\ UNCHANGED <<fence, proof, vouched, stage, draft, before, orphans, late,
                 timer>>

-----------------------------------------------------------------------------
(* The event stream                                                        *)

\* sse.disconnected: no new call while the dialog is up.
Disconnect ==
  /\ connected /\ link = "cut"
  /\ connected' = FALSE
  /\ \/ /\ dialog = "none"
        /\ \E d \in Drafts : Reconcile(d, FALSE)
     \/ /\ dialog # "none"
        /\ Supersede
        /\ fence' = TRUE /\ Unproved /\ Ended
        /\ UNCHANGED <<preserved, dialog, timer>>
  /\ UNCHANGED <<serverVars, link, stream, leaked, loaded, failures, userVars>>

\* The stream opens: sse.missed-events, then the hub's first gate.status frame.
Connect ==
  /\ ~connected
  /\ connected' = TRUE /\ link' = "up" /\ stream' = <<status>>
  /\ \E d \in Drafts : Reconcile(d, TRUE)
  /\ UNCHANGED <<serverVars, leaked, loaded, failures, userVars>>

\* Mutant of gateStatus: a running status is accepted as well.
gateStatus_AcceptsRunning ==
  /\ connected /\ stream # <<>>
  /\ stream' = Tail(stream)
  /\ Accept(Head(stream), "frame") /\ fence' = (fence /\ (preserved \/ dialog # "none"))
  /\ UNCHANGED <<serverVars, link, connected, preserved, dialog, callVars,
                 timerVars, loaded, failures, userVars>>

\* gate.status
gateStatus ==
  /\ connected /\ stream # <<>>
  /\ stream' = Tail(stream)
  /\ \/ /\ Head(stream).running
        /\ fence' = TRUE /\ UNCHANGED <<proof, vouched>>
     \/ /\ ~Head(stream).running
        /\ fence' = (fence /\ (preserved \/ dialog # "none"))
        /\ IF Head(stream) = proof THEN UNCHANGED <<proof, vouched>>
                                   ELSE Accept(Head(stream), "frame")
  /\ UNCHANGED <<serverVars, link, connected, preserved, dialog, callVars,
                 timerVars, loaded, failures, userVars>>

-----------------------------------------------------------------------------
(* Saving                                                                  *)

\* apiFetch sends the proof it has when the save starts.
Save ==
  /\ ~fence /\ request = NoRequest
  /\ vouched # "nobody"
  /\ Acts
  /\ request' = [proof |-> proof, based |-> loaded]
  /\ UNCHANGED <<serverVars, streamVars, fenceVars, callVars, timerVars, loaded,
                 failures, admitted>>

\* The gate admits the save if the header is its present status; otherwise the
\* answer invalidates the proof and the tab reconciles.
Arrive ==
  /\ request # NoRequest
  /\ request' = NoRequest
  /\ \/ /\ request.proof = status
        /\ admitted' = [based |-> request.based, on |-> content]
        /\ UNCHANGED <<fenceVars, callVars, timer>>
     \/ /\ request.proof # status
        /\ UNCHANGED admitted
        /\ \E d \in Drafts : Reconcile(d, connected)
  /\ UNCHANGED <<serverVars, streamVars, leaked, loaded, failures,
                 choices>>

TabStep == ReadBefore \/ Reload \/ ReadAfter \/ OrphanReads \/ LateReads
           \/ StrayReload \/ RetryTimer \/ LeakedTimer \/ Disconnect \/ Connect \/ gateStatus
           \/ Arrive

Next == BeginProducer \/ Produce \/ ReleaseProducer \/ Cut
        \/ TabStep \/ Open \/ Resolve \/ Retry \/ Discard \/ Save

Spec == Init /\ [][Next]_vars

\* Requests are answered, timers fire, the stream is reopened and read, and a
\* producer ends.
FairSpec ==
  /\ Spec
  /\ WF_vars(ReadBefore \/ Reload \/ ReadAfter)
  /\ WF_vars(OrphanReads \/ LateReads) /\ WF_vars(StrayReload)
  /\ WF_vars(RetryTimer) /\ WF_vars(LeakedTimer)
  /\ WF_vars(Disconnect \/ Connect)
  /\ WF_vars(gateStatus) /\ WF_vars(Arrive) /\ WF_vars(ReleaseProducer)

-----------------------------------------------------------------------------
(* Properties                                                              *)

\* What a reconciliation vouches for is true: as long as its proof is the
\* gate's status, the tab shows what the server holds, whatever producers,
\* restarts, lost streams and superseded reloads came between its reads.
ReloadVouches ==
  vouched = "reload" /\ proof = status => loaded = content

\* Something is to come that may lift the fence: a call, the timer of one, a
\* stream to be reopened, or a frame of the gate.
Owed ==
  \/ stage # "idle" \/ timer # {} \/ leaked # {}
  \/ ~connected \/ link = "cut"
  \/ stream # <<>> \/ status.running

\* What is owed comes: with the stream reopened and producers done, the tab can
\* write again or shows its user a draft to decide about (retryReconcileLater,
\* sse.missed-events, gate.status).
FenceLifts == Owed ~> (~fence \/ DraftShown)

\* The fence is never left up with nothing to come and no draft to decide about,
\* whatever calls and timers are superseded, lost or give up, but for a draft
\* dropped in the guard of unsaved changes (discardFrozenConflict), which starts
\* no call: the console then waits for the next frame or reconnection.
Answered == ~fence \/ DraftShown \/ Owed
OnlyDiscardStrands == [][Answered => Answered' \/ Discard]_vars

\* Every call and timer that is left carries the draft that is held.
Guarded ==
  /\ DraftHeld
  /\ stage # "idle" => draft
  /\ FALSE \notin timer \cup leaked \cup orphans \cup late

\* Stale drafts can only be exported or discarded (console-contract.test.mjs:226):
\* once no call without it is left, no failure, reconnection, superseded call or
\* lost timer takes the draft away or starts a call that would, only its user
\* does (in a dialog that shows no draft the retry is for none).
DraftKept ==
  [][Guarded => Guarded' \/ Resolve \/ Discard \/ (Retry /\ dialog = "empty")]_vars

\* SSE gaps lock writes until authoritative reconciliation completes
\* (console-contract.test.mjs:241), and the header names the gate status under
\* which the edited document was loaded (README.md:108): a save that the gate
\* admits was made on the content the server holds.
SaveOnLoadedContent == admitted.based = admitted.on
=============================================================================
