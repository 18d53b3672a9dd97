----------------------------- MODULE EditorGate -----------------------------
(***************************************************************************)
(* internal/editorgate/gate.go: the process-wide gate between interactive  *)
(* editor writes and producer jobs (translation runs, backup restores).    *)
(* Every operation runs under one mutex and is one action here; a          *)
(* producer's BeginProducerContext releases the mutex around notify and    *)
(* inside cond.Wait and is therefore split at exactly those places.        *)
(*                                                                         *)
(* A strict client names the gate state it loaded its document under       *)
(* (instance, revision, completed generation).  The ghost variables        *)
(* produced and seen say what that header is for: produced counts the      *)
(* content a producer wrote, seen is what the client had when it read.     *)
(***************************************************************************)
EXTENDS Integers, FiniteSets

CONSTANTS Editors, Producers, NoProducer,
          MaxSafeCounter,  \* the largest counter the gate may publish (2^53-1)
          MaxInstances     \* bound: how often the process is started

ASSUME EditorGateAssumption ==
  /\ IsFiniteSet(Editors)
  /\ NoProducer \notin Producers
  /\ Editors \cap Producers = {}
  /\ MaxSafeCounter \in Nat
  /\ MaxInstances \in Nat \ {0}

VARIABLES
  status,      \* Gate.status
  editors,     \* Gate.editors, a count
  draining,    \* Gate.draining
  editorPc,    \* what each editor (client and request) is doing
  loaded,      \* the gate status a strict client read before its content
  seen,        \* ghost: the produced content it then read
  producerPc,  \* where each producer is in BeginProducerContext or its job
  cancelled,   \* producers whose context is done
  armed,       \* producers whose AfterFunc callback is registered
  waking,      \* producers whose callback goroutine has yet to broadcast
  owed,        \* the status each producer is about to hand to notify
  observed,    \* the status the change hooks delivered last
  produced     \* ghost: how many producer writes the database holds

editorVars == <<editorPc, loaded, seen>>
producerVars == <<producerPc, cancelled, armed, waking, owed>>
vars == <<status, editors, draining, editorVars, producerVars, observed,
          produced>>

Status == [instance : Nat, revision : Nat, generation : Nat,
           completedGeneration : Nat, running : BOOLEAN]

\* "admitted" came through BeginEditorContext, "strict" through
\* BeginStrictEditor; the other states are the client's, outside the gate.
Inside == {"admitted", "strict"}

\* Where a producer owns the running generation, and where it owns the gate.
Owning == {"active", "written"}
Claimed == {"announcing", "entering", "asleep", "woken"} \cup Owning

TypeOK ==
  /\ status \in Status
  /\ editors \in Nat
  /\ draining \in BOOLEAN
  /\ editorPc \in [Editors -> {"idle", "reading", "ready"} \cup Inside]
  /\ loaded \in [Editors -> Status]
  /\ seen \in [Editors -> Nat]
  /\ producerPc \in [Producers -> {"idle", "notifying"} \cup Claimed]
  /\ cancelled \subseteq Producers
  /\ armed \subseteq Producers
  /\ waking \subseteq Producers
  /\ owed \in [Producers -> Status]
  /\ observed \in Status
  /\ produced \in Nat

\* New: a random instance id, here the number of the process.
FreshStatus(i) ==
  [instance |-> i, revision |-> 0, generation |-> 0,
   completedGeneration |-> 0, running |-> FALSE]

\* What is remembered when there is nothing to remember.
NoStatus == FreshStatus(0)

Init ==
  /\ status = FreshStatus(1)
  /\ editors = 0
  /\ draining = FALSE
  /\ editorPc = [e \in Editors |-> "idle"]
  /\ loaded = [e \in Editors |-> NoStatus]
  /\ seen = [e \in Editors |-> 0]
  /\ producerPc = [p \in Producers |-> "idle"]
  /\ cancelled = {}
  /\ armed = {}
  /\ waking = {}
  /\ owed = [p \in Producers |-> NoStatus]
  /\ observed = FreshStatus(1)
  /\ produced = 0

-----------------------------------------------------------------------------
(* Editors                                                                 *)

\* A strict client first asks for the gate status ...
LoadStatus(e) ==
  /\ editorPc[e] = "idle"
  /\ editorPc' = [editorPc EXCEPT ![e] = "reading"]
  /\ loaded' = [loaded EXCEPT ![e] = status]
  /\ UNCHANGED <<status, editors, draining, seen, producerVars, observed,
                 produced>>

\* ... and then, at any later moment, for the document.
LoadContent(e) ==
  /\ editorPc[e] = "reading"
  /\ editorPc' = [editorPc EXCEPT ![e] = "ready"]
  /\ seen' = [seen EXCEPT ![e] = produced]
  /\ UNCHANGED <<status, editors, draining, loaded, producerVars, observed,
                 produced>>

\* Mutant: an admission that is not counted.
BeginEditorContext_Uncounted(e) ==
  /\ editorPc[e] = "idle"
  /\ ~status.running
  /\ editorPc' = [editorPc EXCEPT ![e] = "admitted"]
  /\ UNCHANGED <<status, editors, draining, loaded, seen, producerVars,
                 observed, produced>>

\* Mutant: an editor that gets in although a producer is running.
BeginEditorContext_Barging(e) ==
  /\ editorPc[e] = "idle"
  /\ editors' = editors + 1
  /\ editorPc' = [editorPc EXCEPT ![e] = "admitted"]
  /\ UNCHANGED <<status, draining, loaded, seen, producerVars, observed,
                 produced>>

BeginEditorContext(e) ==
  /\ editorPc[e] = "idle"
  /\ ~status.running
  /\ editors' = editors + 1
  /\ editorPc' = [editorPc EXCEPT ![e] = "admitted"]
  /\ UNCHANGED <<status, draining, loaded, seen, producerVars, observed,
                 produced>>

\* Mutant: the counters are compared, the process that counted is not.
LoadedMatches_AnyInstance(e) ==
  /\ loaded[e].revision = status.revision
  /\ loaded[e].completedGeneration = status.completedGeneration

LoadedMatches(e) ==
  /\ loaded[e].instance = status.instance
  /\ loaded[e].revision = status.revision
  /\ loaded[e].completedGeneration = status.completedGeneration

\* The client drops the document it loaded.
Forget(e) ==
  /\ loaded' = [loaded EXCEPT ![e] = NoStatus]
  /\ seen' = [seen EXCEPT ![e] = 0]

\* A refused strict client starts over; an admitted one is inside.
BeginStrictEditor(e) ==
  /\ editorPc[e] = "ready"
  /\ \/ /\ ~status.running /\ LoadedMatches(e)
        /\ editors' = editors + 1
        /\ editorPc' = [editorPc EXCEPT ![e] = "strict"]
        /\ UNCHANGED <<loaded, seen>>
     \/ /\ ~(~status.running /\ LoadedMatches(e))
        /\ editors' = editors
        /\ editorPc' = [editorPc EXCEPT ![e] = "idle"]
        /\ Forget(e)
  /\ UNCHANGED <<status, draining, producerVars, observed, produced>>

\* cond.Broadcast: every producer asleep in cond.Wait becomes runnable.
Broadcast(pc) ==
  [p \in Producers |-> IF pc[p] = "asleep" THEN "woken" ELSE pc[p]]

\* Mutant: the last editor leaves without waking the producer.
editorRelease_Silent(e) ==
  /\ editorPc[e] \in Inside
  /\ editors' = editors - 1
  /\ editorPc' = [editorPc EXCEPT ![e] = "idle"]
  /\ Forget(e)
  /\ UNCHANGED <<status, draining, producerVars, observed, produced>>

\* Mutant: a release without its once, run twice.
editorRelease_Twice(e) ==
  /\ editorPc[e] \in Inside
  /\ editors' = IF editors > 1 THEN editors - 2 ELSE 0
  /\ editorPc' = [editorPc EXCEPT ![e] = "idle"]
  /\ producerPc' = IF editors' = 0 THEN Broadcast(producerPc) ELSE producerPc
  /\ Forget(e)
  /\ UNCHANGED <<status, draining, cancelled, armed, waking, owed, observed,
                 produced>>

editorRelease(e) ==
  /\ editorPc[e] \in Inside
  /\ editors' = editors - 1
  /\ editorPc' = [editorPc EXCEPT ![e] = "idle"]
  /\ producerPc' = IF editors' = 0 THEN Broadcast(producerPc) ELSE producerPc
  /\ Forget(e)
  /\ UNCHANGED <<status, draining, cancelled, armed, waking, owed, observed,
                 produced>>

-----------------------------------------------------------------------------
(* Producers                                                               *)

\* Mutant: room for the start of the generation but not for its end.
CountersLeft_NoEnd ==
  /\ status.generation < MaxSafeCounter
  /\ status.revision <= MaxSafeCounter - 1

\* Neither counter can pass the limit before this generation is finished.
CountersLeft ==
  /\ status.generation < MaxSafeCounter
  /\ status.revision <= MaxSafeCounter - 2

\* The next generation is published as running.
Begun(s) ==
  [instance |-> s.instance, revision |-> s.revision + 1,
   generation |-> s.generation + 1,
   completedGeneration |-> s.completedGeneration, running |-> TRUE]

\* BeginProducerContext up to the first unlock; the refusals change nothing.
BeginProducer(p) ==
  /\ producerPc[p] = "idle"
  /\ ~draining
  /\ ~status.running
  /\ CountersLeft
  /\ status' = Begun(status)
  /\ owed' = [owed EXCEPT ![p] = status']
  /\ producerPc' = [Broadcast(producerPc) EXCEPT ![p] = "announcing"]
  /\ UNCHANGED <<editors, draining, editorVars, cancelled, armed, waking,
                 observed, produced>>

\* notify(started): the hooks run without the mutex.
NotifyStarted(p) ==
  /\ producerPc[p] = "announcing"
  /\ observed' = owed[p]
  /\ owed' = [owed EXCEPT ![p] = NoStatus]
  /\ producerPc' = [producerPc EXCEPT ![p] = "entering"]
  /\ UNCHANGED <<status, editors, draining, editorVars, cancelled, armed,
                 waking, produced>>

\* Mutant: the wait is entered without arming the context callback.
EnterWait_Unarmed(p) ==
  /\ producerPc[p] = "entering"
  /\ producerPc' = [producerPc EXCEPT
                       ![p] = IF editors > 0 THEN "asleep" ELSE "active"]
  /\ UNCHANGED <<status, editors, draining, editorVars, cancelled, armed,
                 waking, owed, observed, produced>>

\* The second critical section up to cond.Wait or to the return: AfterFunc
\* starts its goroutine at once if the context is already done, and stopWake
\* cannot recall a goroutine that has started.
EnterWait(p) ==
  /\ producerPc[p] = "entering"
  /\ waking' = IF p \in cancelled THEN waking \cup {p} ELSE waking
  /\ \/ /\ editors > 0
        /\ producerPc' = [producerPc EXCEPT ![p] = "asleep"]
        /\ armed' = IF p \in cancelled THEN armed ELSE armed \cup {p}
     \/ /\ editors = 0
        /\ producerPc' = [producerPc EXCEPT ![p] = "active"]
        /\ armed' = armed
  /\ UNCHANGED <<status, editors, draining, editorVars, cancelled, owed,
                 observed, produced>>

finishProducerLocked(s) ==
  [instance |-> s.instance, revision |-> s.revision + 1,
   generation |-> s.generation, completedGeneration |-> s.generation,
   running |-> FALSE]

\* Mutant: the cancelled generation is completed but not announced.
ReturnFromWait_Silent(p) ==
  /\ producerPc[p] = "woken"
  /\ \/ /\ p \in cancelled
        /\ status' = finishProducerLocked(status)
        /\ producerPc' = [Broadcast(producerPc) EXCEPT ![p] = "idle"]
        /\ armed' = armed \ {p}
        /\ cancelled' = cancelled \ {p}
     \/ /\ p \notin cancelled
        /\ producerPc' = [producerPc EXCEPT
                             ![p] = IF editors > 0 THEN "asleep" ELSE "active"]
        /\ UNCHANGED <<status, armed, cancelled>>
  /\ UNCHANGED <<editors, draining, editorVars, waking, owed, observed,
                 produced>>

\* cond.Wait returns: a done context ends the generation, whatever the
\* editors do; otherwise the loop tests the editors again.
ReturnFromWait(p) ==
  /\ producerPc[p] = "woken"
  /\ \/ /\ p \in cancelled
        /\ status' = finishProducerLocked(status)
        /\ owed' = [owed EXCEPT ![p] = status']
        /\ producerPc' = [Broadcast(producerPc) EXCEPT ![p] = "notifying"]
        /\ armed' = armed \ {p}
     \/ /\ p \notin cancelled /\ editors > 0
        /\ producerPc' = [producerPc EXCEPT ![p] = "asleep"]
        /\ UNCHANGED <<status, owed, armed>>
     \/ /\ p \notin cancelled /\ editors = 0
        /\ producerPc' = [producerPc EXCEPT ![p] = "active"]
        /\ armed' = armed \ {p}
        /\ UNCHANGED <<status, owed>>
  /\ UNCHANGED <<editors, draining, editorVars, cancelled, waking, observed,
                 produced>>

\* The job writes content; how often is of no interest to the gate.
Produce(p) ==
  /\ producerPc[p] = "active"
  /\ producerPc' = [producerPc EXCEPT ![p] = "written"]
  /\ produced' = produced + 1
  /\ UNCHANGED <<status, editors, draining, editorVars, cancelled, armed,
                 waking, owed, observed>>

\* The release function the producer received.
producerRelease(p) ==
  /\ producerPc[p] \in Owning
  /\ status' = finishProducerLocked(status)
  /\ owed' = [owed EXCEPT ![p] = status']
  /\ producerPc' = [Broadcast(producerPc) EXCEPT ![p] = "notifying"]
  /\ UNCHANGED <<editors, draining, editorVars, cancelled, armed, waking,
                 observed, produced>>

\* notify(finished) or notify(canceled); the next run has a new context.
NotifyFinished(p) ==
  /\ producerPc[p] = "notifying"
  /\ observed' = owed[p]
  /\ owed' = [owed EXCEPT ![p] = NoStatus]
  /\ producerPc' = [producerPc EXCEPT ![p] = "idle"]
  /\ cancelled' = cancelled \ {p}
  /\ UNCHANGED <<status, editors, draining, editorVars, armed, waking,
                 produced>>

\* The context of a running BeginProducerContext is cancelled.
CancelContext(p) ==
  /\ producerPc[p] \notin {"idle", "notifying"}
  /\ p \notin cancelled
  /\ cancelled' = cancelled \cup {p}
  /\ waking' = IF p \in armed THEN waking \cup {p} ELSE waking
  /\ armed' = armed \ {p}
  /\ UNCHANGED <<status, editors, draining, editorVars, producerPc, owed,
                 observed, produced>>

\* The AfterFunc goroutine gets the mutex and broadcasts.
WakeUp(p) ==
  /\ p \in waking
  /\ waking' = waking \ {p}
  /\ producerPc' = Broadcast(producerPc)
  /\ UNCHANGED <<status, editors, draining, editorVars, cancelled, armed,
                 owed, observed, produced>>

-----------------------------------------------------------------------------
(* The process                                                             *)

Drain ==
  /\ ~draining
  /\ draining' = TRUE
  /\ producerPc' = Broadcast(producerPc)
  /\ UNCHANGED <<status, editors, editorVars, cancelled, armed, waking, owed,
                 observed, produced>>

\* The process dies and is started again: the gate is New, the requests and
\* jobs inside are gone, the database and the browsers' loaded state are not.
Restart ==
  /\ status.instance < MaxInstances
  /\ status' = FreshStatus(status.instance + 1)
  /\ editors' = 0
  /\ draining' = FALSE
  /\ editorPc' = [e \in Editors |->
                    IF editorPc[e] \in Inside THEN "idle" ELSE editorPc[e]]
  /\ producerPc' = [p \in Producers |-> "idle"]
  /\ cancelled' = {}
  /\ armed' = {}
  /\ waking' = {}
  /\ owed' = [p \in Producers |-> NoStatus]
  /\ observed' = status'
  /\ loaded' = [e \in Editors |->
                  IF editorPc[e] \in Inside THEN NoStatus ELSE loaded[e]]
  /\ seen' = [e \in Editors |-> IF editorPc[e] \in Inside THEN 0 ELSE seen[e]]
  /\ UNCHANGED produced

EditorNext(e) ==
  \/ LoadStatus(e)
  \/ LoadContent(e)
  \/ BeginEditorContext(e)
  \/ BeginStrictEditor(e)
  \/ editorRelease(e)

\* What the goroutine that called BeginProducerContext does by itself.
ProducerStep(p) ==
  \/ NotifyStarted(p)
  \/ EnterWait(p)
  \/ ReturnFromWait(p)
  \/ NotifyFinished(p)

ProducerNext(p) ==
  \/ BeginProducer(p)
  \/ ProducerStep(p)
  \/ Produce(p)
  \/ producerRelease(p)
  \/ CancelContext(p)
  \/ WakeUp(p)

Next ==
  \/ \E e \in Editors : EditorNext(e)
  \/ \E p \in Producers : ProducerNext(p)
  \/ Drain
  \/ Restart

Spec == Init /\ [][Next]_vars

\* The scheduler runs every runnable goroutine of a producer and of its
\* AfterFunc; nothing obliges an editor to leave or a job to end.
GateFairness ==
  \A p \in Producers : WF_vars(ProducerStep(p)) /\ WF_vars(WakeUp(p))

FairSpec == Spec /\ GateFairness

-----------------------------------------------------------------------------
(* Safety                                                                  *)

\* The editors inside the gate, which the code only counts.
InsideSet == {e \in Editors : editorPc[e] \in Inside}

\* Gate.editors is exactly the number of unreleased admissions, so the
\* release cannot meet a zero count (the panic in editorRelease) and the
\* producer's wait loop tests what it means to test.
EditorCount == editors = Cardinality(InsideSet)

\* While a producer owns the gate no editor, strict or not, is inside.
Exclusion ==
  \A p \in Producers : producerPc[p] \in Owning => InsideSet = {}

\* Running is published exactly while one producer holds the generation it
\* began, from its announcement through cancellation or release.
RunningIsClaim ==
  /\ status.running <=> \E p \in Producers : producerPc[p] \in Claimed
  /\ \A p, q \in Producers :
       (producerPc[p] \in Claimed /\ producerPc[q] \in Claimed) => p = q

\* The published counters stay exact: every begun generation but a running
\* one is completed, each transition moved the revision, and the revision
\* stays in the range JavaScript clients represent exactly.
CountersExact ==
  /\ status.generation =
       status.completedGeneration + (IF status.running THEN 1 ELSE 0)
  /\ status.revision = status.generation + status.completedGeneration
  /\ status.revision + (IF status.running THEN 1 ELSE 0) <= MaxSafeCounter

\* A strict editor is only ever inside with the newest producer content,
\* even though it read the status and the content at different moments and
\* the process may have restarted in between: the header is proof enough.
StrictEditorCurrent ==
  \A e \in Editors : editorPc[e] = "strict" => seen[e] = produced

\* Clients are not left observing a running gate (gate.go:170): whenever the
\* last delivered status says running, some producer has announced and still
\* owes the announcement of its end.
ObserverNotStuck ==
  observed.running =>
    \E p \in Producers :
      producerPc[p] \in (Claimed \ {"announcing"}) \cup {"notifying"}

-----------------------------------------------------------------------------
(* Liveness                                                                *)

\* A producer whose context is done gives its generation up even if the
\* editors it waits for never leave.
CancelReturns ==
  \A p \in Producers :
    (producerPc[p] \in {"entering", "asleep", "woken"} /\ p \in cancelled)
      ~> (producerPc[p] \in {"idle"} \cup Owning)

\* Handlers and jobs do end: they release in a deferred call.
ReleaseFairness ==
  /\ \A e \in Editors : WF_vars(editorRelease(e))
  /\ \A p \in Producers : WF_vars(producerRelease(p))

\* No wake-up is lost: if handlers and jobs end, every published generation
\* completes and the clients always get to see a gate that is not running.
GenerationEnds ==
  ReleaseFairness => /\ status.running ~> ~status.running
                     /\ observed.running ~> ~observed.running

-----------------------------------------------------------------------------
(* Refinement                                                              *)

\* The producer that holds the running generation.
Claimant ==
  IF \E p \in Producers : producerPc[p] \in Claimed
    THEN CHOOSE p \in Producers : producerPc[p] \in Claimed
    ELSE NoProducer

GateOwned == \E p \in Producers : producerPc[p] \in Owning

RW == INSTANCE RWGate WITH readers <- InsideSet, claimant <- Claimant,
                           exclusive <- GateOwned

\* The mutex, condition variable and counters of gate.go implement the
\* promise of RWGate.
GateRefinement == RW!GateSpec
=============================================================================
