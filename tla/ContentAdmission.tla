-------------------------- MODULE ContentAdmission --------------------------
(***************************************************************************)
(* Who may touch the content, and when: the two locks every operation of   *)
(* the server takes, in the order in which the code takes them.            *)
(*                                                                         *)
(*   editor handlers   contentMutation and strictContentMutation in        *)
(*                     internal/api, beginSideStoryWrite in                *)
(*                     internal/translator: the gate as an editor, then a  *)
(*                     share of the content lock; some publish their file  *)
(*                     under a second share while they hold the first      *)
(*   sessions          a collaboration socket holds the gate as an editor  *)
(*                     for as long as it is open (internal/collab)         *)
(*   translate         markStart/markEnd in internal/translator: the gate  *)
(*                     as a producer, then a share                         *)
(*   restore           RestoreFromAsContext in internal/backup: the gate   *)
(*                     as a producer, then the whole content lock          *)
(*   builders          the public rebuild and the search index: one share  *)
(*                                                                         *)
(* The gate is the abstract RWGate, which EditorGate implements; restores  *)
(* counts the contents the database has held and began is the one an       *)
(* operation started on.                                                   *)
(***************************************************************************)
EXTENDS RWGate, ContentGate

CONSTANTS Handlers, Sessions, Builders, Translate, Restore,
          MaxRestores  \* bound: how many restores are applied

ASSUME ContentAdmissionAssumption ==
  /\ Editors = Handlers \cup Sessions
  /\ Producers = {Translate, Restore}
  /\ Actors = Editors \cup Producers \cup Builders
  /\ Handlers \cap Sessions = {}
  /\ (Editors \cup Producers) \cap Builders = {}
  /\ Translate # Restore
  /\ MaxRestores \in Nat

VARIABLES pc, began, restores

vars == <<gateVars, contentVars, pc, began, restores>>

Places == {"idle", "admitted", "locking", "locked", "nesting", "written",
           "leaving", "connected", "claiming", "entered", "applied"}

TypeOK ==
  /\ GateTypeOK
  /\ ContentTypeOK
  /\ pc \in [Actors -> Places]
  /\ began \in [Actors -> 0..MaxRestores]
  /\ restores \in 0..MaxRestores

Init ==
  /\ GateInit
  /\ ContentInit
  /\ pc = [a \in Actors |-> "idle"]
  /\ began = [a \in Actors |-> 0]
  /\ restores = 0

Goto(a, place) == pc' = [pc EXCEPT ![a] = place]

\* The operation of a starts on the content the database holds now.
Starts(a) == began' = [began EXCEPT ![a] = restores]

-----------------------------------------------------------------------------
(* Editor handlers                                                         *)

\* contentMutation: admitted by the gate, or answered 409 and gone.
contentMutation(h) ==
  /\ pc[h] = "idle"
  /\ Admit(h)
  /\ Goto(h, "admitted")
  /\ Starts(h)
  /\ UNCHANGED <<contentVars, restores>>

\* The handler asks for its share; a done request context ends the wait.
LockContentShared(a, place) ==
  /\ pc[a] = place
  /\ LockContent(a, "shared")
  /\ Goto(a, "locking")
  /\ UNCHANGED <<gateVars, began, restores>>

CancelLock(a, place) ==
  /\ pc[a] = "locking"
  /\ AbandonWait(a)
  /\ Goto(a, place)
  /\ UNCHANGED <<gateVars, began, restores>>

\* The share is there: the handler runs its transaction.
Locked(a) ==
  /\ pc[a] = "locking"
  /\ ~Queued(a)
  /\ Goto(a, "locked")
  /\ UNCHANGED <<gateVars, contentVars, began, restores>>

\* rebuildEventAsset and its siblings publish the written file at once and
\* take a share of their own for it, without the request's context.
rebuildAsset(h) ==
  /\ pc[h] = "locked"
  /\ LockContent(h, "shared")
  /\ Goto(h, "nesting")
  /\ UNCHANGED <<gateVars, began, restores>>

AssetRebuilt(h) ==
  /\ pc[h] = "nesting"
  /\ ~Queued(h)
  /\ UnlockShared(h)
  /\ Goto(h, "written")
  /\ UNCHANGED <<gateVars, began, restores>>

\* Mutant: the share is never given back.
ReleaseContent_Leaks(a, place) ==
  /\ pc[a] \in {"locked", "written"}
  /\ Goto(a, place)
  /\ UNCHANGED <<gateVars, contentVars, began, restores>>

\* The deferred releases, content first.
ReleaseContent(a, place) ==
  /\ pc[a] \in {"locked", "written"}
  /\ UnlockShared(a)
  /\ Goto(a, place)
  /\ UNCHANGED <<gateVars, began, restores>>

ReleaseEditor(h) ==
  /\ pc[h] = "leaving"
  /\ Leave(h)
  /\ Goto(h, "idle")
  /\ UNCHANGED <<contentVars, began, restores>>

HandlerStep(h) ==
  \/ LockContentShared(h, "admitted")
  \/ Locked(h)
  \/ AssetRebuilt(h)
  \/ ReleaseContent(h, "leaving")
  \/ ReleaseEditor(h)

HandlerNext(h) ==
  \/ contentMutation(h)
  \/ CancelLock(h, "leaving")
  \/ rebuildAsset(h)
  \/ HandlerStep(h)

-----------------------------------------------------------------------------
(* Collaboration sockets                                                   *)

authorize(s) ==
  /\ pc[s] = "idle"
  /\ Admit(s)
  /\ Goto(s, "connected")
  /\ Starts(s)
  /\ UNCHANGED <<contentVars, restores>>

\* ServeHTTP returns: the peer hangs up, or its room is closed.
CloseSession(s) ==
  /\ pc[s] = "connected"
  /\ Leave(s)
  /\ Goto(s, "idle")
  /\ UNCHANGED <<contentVars, began, restores>>

\* Mutant: the periodic check compares the instance only, and no producer
\* changes it.
revalidateConnection_NoGate(s) ==
  /\ FALSE
  /\ CloseSession(s)

\* The check every 20 seconds closes a room whose gate status has changed.
revalidateConnection(s) ==
  /\ claimant # NoProducer
  /\ CloseSession(s)

-----------------------------------------------------------------------------
(* Producers                                                               *)

\* BeginProducerContext: the claim, then the wait for the editors.
BeginProducer(p) ==
  /\ pc[p] = "idle"
  /\ p = Restore => restores < MaxRestores
  /\ Claim(p)
  /\ Goto(p, "claiming")
  /\ UNCHANGED <<contentVars, began, restores>>

\* Mutant: the producer does not wait for the editors inside.
EditorsLeft_NoWait(p) ==
  /\ pc[p] = "claiming"
  /\ Goto(p, "entered")
  /\ Starts(p)
  /\ UNCHANGED <<gateVars, contentVars, restores>>

EditorsLeft(p) ==
  /\ pc[p] = "claiming"
  /\ Enter(p)
  /\ Goto(p, "entered")
  /\ Starts(p)
  /\ UNCHANGED <<contentVars, restores>>

\* The job gives up: cancelled while it waits for the editors, or failed
\* before it holds content (markStart's error returns, a failed prepare).
ProducerFails(p) ==
  /\ pc[p] \in {"claiming", "entered"}
  /\ Complete(p)
  /\ Goto(p, "idle")
  /\ UNCHANGED <<contentVars, began, restores>>

\* The release of the gate at the end of markEnd or of the restore.
EndProducer(p) ==
  /\ pc[p] = "leaving"
  /\ Complete(p)
  /\ Goto(p, "idle")
  /\ UNCHANGED <<contentVars, began, restores>>

\* markStart takes its share under the run's context and runs the job;
\* markEnd releases the share and then the gate.
TranslateStep ==
  \/ EditorsLeft(Translate)
  \/ LockContentShared(Translate, "entered")
  \/ Locked(Translate)
  \/ ReleaseContent(Translate, "leaving")
  \/ EndProducer(Translate)

TranslateNext ==
  \/ BeginProducer(Translate)
  \/ ProducerFails(Translate)
  \/ CancelLock(Translate, "leaving")
  \/ TranslateStep

\* applyRestoreCandidate: the whole lock, the replacement (which may fail and
\* roll back), and the release.
LockContentExclusive ==
  /\ pc[Restore] = "entered"
  /\ LockContent(Restore, "exclusive")
  /\ Goto(Restore, "locking")
  /\ UNCHANGED <<gateVars, began, restores>>

\* Mutant: the content is replaced without waiting for the lock.
applyRestoreCandidate_Unlocked ==
  /\ pc[Restore] = "locking"
  /\ Goto(Restore, "applied")
  /\ restores' = restores + 1
  /\ UNCHANGED <<gateVars, contentVars, began>>

applyRestoreCandidate ==
  /\ pc[Restore] = "locking"
  /\ owner = Restore
  /\ Goto(Restore, "applied")
  /\ restores' \in {restores, restores + 1}
  /\ UNCHANGED <<gateVars, contentVars, began>>

\* Mutant: the whole lock is never given back.
RestoreUnlock_Leaks ==
  /\ pc[Restore] = "applied"
  /\ Goto(Restore, "leaving")
  /\ UNCHANGED <<gateVars, contentVars, began, restores>>

RestoreUnlock ==
  /\ pc[Restore] = "applied"
  /\ UnlockExclusive(Restore)
  /\ Goto(Restore, "leaving")
  /\ UNCHANGED <<gateVars, began, restores>>

RestoreStep ==
  \/ EditorsLeft(Restore)
  \/ LockContentExclusive
  \/ applyRestoreCandidate
  \/ RestoreUnlock
  \/ EndProducer(Restore)

RestoreNext ==
  \/ BeginProducer(Restore)
  \/ ProducerFails(Restore)
  \/ CancelLock(Restore, "leaving")
  \/ RestoreStep

-----------------------------------------------------------------------------
(* Builders                                                                *)

\* A builder reads everything under one share, from the moment it has it.
BuilderReads(b) ==
  /\ pc[b] = "locking"
  /\ ~Queued(b)
  /\ Goto(b, "locked")
  /\ Starts(b)
  /\ UNCHANGED <<gateVars, contentVars, restores>>

BuilderStep(b) ==
  \/ BuilderReads(b)
  \/ ReleaseContent(b, "idle")

BuilderNext(b) ==
  \/ LockContentShared(b, "idle")
  \/ CancelLock(b, "idle")
  \/ BuilderStep(b)

-----------------------------------------------------------------------------
Next ==
  \/ \E h \in Handlers : HandlerNext(h)
  \/ \E s \in Sessions : authorize(s) \/ CloseSession(s) \/ revalidateConnection(s)
  \/ TranslateNext
  \/ RestoreNext
  \/ \E b \in Builders : BuilderNext(b)

\* Goroutines that can run do run, and the revalidation ticker ticks;
\* nothing obliges a client to send a request, or to hang up.
Fairness ==
  /\ \A h \in Handlers : WF_vars(HandlerStep(h))
  /\ \A s \in Sessions : WF_vars(revalidateConnection(s))
  /\ WF_vars(TranslateStep)
  /\ WF_vars(RestoreStep)
  /\ \A b \in Builders : WF_vars(BuilderStep(b))

Spec == Init /\ [][Next]_vars
FairSpec == Spec /\ Fairness

-----------------------------------------------------------------------------
(* Properties                                                              *)

\* The operations under way: what was read of the content may still be
\* written back or published.
Underway(a) ==
  \/ a \in Editors /\ a \in readers
  \/ a = Translate /\ pc[a] \in {"entered", "locking", "locked"}
  \/ a \in Builders /\ pc[a] = "locked"

\* No operation spans a restore: what an editor, a session, a translation run
\* or a rebuild reads and what it later writes belong to one content.
OneContent == \A a \in Actors : Underway(a) => began[a] = restores

\* A handler that waits for its second share never waits behind the restore,
\* which itself waits for the handler's first share: the gate has emptied the
\* server of handlers before the whole lock is asked for.
NestedShareSafe ==
  \A h \in Handlers :
    pc[h] = "nesting" =>
      /\ owner = NoActor
      /\ \A i \in DOMAIN waiters : waiters[i].mode = "shared"

\* Every claim ends although a collaboration socket may stay open for ever
\* if it is left alone: sockets are closed, handlers finish, builders read.
ClaimsEnd == \A p \in Producers : claimant = p ~> claimant # p

\* Every admitted handler gets its locks and leaves.
HandlersEnd == \A h \in Handlers : h \in readers ~> h \notin readers
=============================================================================
