-------------------------- MODULE EditorGateProofs --------------------------
(***************************************************************************)
(* Proofs about EditorGate for any finite set of editors, any set of       *)
(* producers, any counter limit and any number of restarts: the type       *)
(* invariant, the inductive invariant IInv and its consequences, and the   *)
(* refinement of RWGate.                                                   *)
(***************************************************************************)
EXTENDS EditorGate, FiniteSetTheorems, TLAPS

\* A client's loaded status never lies ahead of the gate.
LoadedPast ==
  \A e \in Editors :
    editorPc[e] \in {"reading", "ready"} =>
      /\ loaded[e].instance <= status.instance
      /\ loaded[e].instance = status.instance =>
           loaded[e].revision <= status.revision

\* Why the header is proof enough: with a matching instance and revision, no
\* producer can have begun since the status was read.
LoadedCurrent ==
  \A e \in Editors :
    /\ editorPc[e] = "ready"
    /\ loaded[e].instance = status.instance
    /\ loaded[e].revision = status.revision
    /\ ~status.running
    => seen[e] = produced

\* What a producer announces last is that it is not running.
OwedEnd ==
  \A p \in Producers : producerPc[p] = "notifying" => ~owed[p].running

IInv ==
  /\ TypeOK
  /\ EditorCount
  /\ Exclusion
  /\ RunningIsClaim
  /\ CountersExact
  /\ LoadedPast
  /\ LoadedCurrent
  /\ StrictEditorCurrent
  /\ OwedEnd
  /\ ObserverNotStuck

-----------------------------------------------------------------------------
(* Facts about the helpers                                                 *)

\* A broadcast keeps the program counters in their type and changes nothing
\* but sleepers, so it changes nobody's claim or ownership.
LEMMA BroadcastType ==
  ASSUME NEW pc \in [Producers -> {"idle", "notifying"} \cup Claimed]
  PROVE  /\ Broadcast(pc) \in [Producers -> {"idle", "notifying"} \cup Claimed]
         /\ \A p \in Producers :
              /\ Broadcast(pc)[p] \in Claimed <=> pc[p] \in Claimed
              /\ Broadcast(pc)[p] \in Owning <=> pc[p] \in Owning
              /\ Broadcast(pc)[p] = "notifying" <=> pc[p] = "notifying"
              /\ Broadcast(pc)[p] = "announcing" <=> pc[p] = "announcing"
              /\ Broadcast(pc)[p] = "idle" <=> pc[p] = "idle"
BY DEF Broadcast, Claimed, Owning

\* The status New gives a process is a status.
LEMMA FreshStatusType ==
  ASSUME NEW i \in Nat
  PROVE  FreshStatus(i) \in Status
BY DEF FreshStatus, Status

\* So is the placeholder of a client that has read none.
LEMMA NoStatusType == NoStatus \in Status
BY FreshStatusType DEF NoStatus

\* What the two transitions of the published status change.
LEMMA BegunFacts ==
  ASSUME NEW s \in Status
  PROVE  /\ Begun(s) \in Status
         /\ Begun(s).instance = s.instance
         /\ Begun(s).revision = s.revision + 1
         /\ Begun(s).generation = s.generation + 1
         /\ Begun(s).completedGeneration = s.completedGeneration
         /\ Begun(s).running = TRUE
<1>1. /\ s.instance \in Nat /\ s.completedGeneration \in Nat
      /\ s.revision + 1 \in Nat /\ s.generation + 1 \in Nat
  BY DEF Status
<1> QED
  BY <1>1 DEF Begun, Status

\* What finishProducerLocked changes, and what it leaves alone.
LEMMA FinishedFacts ==
  ASSUME NEW s \in Status
  PROVE  /\ finishProducerLocked(s) \in Status
         /\ finishProducerLocked(s).instance = s.instance
         /\ finishProducerLocked(s).revision = s.revision + 1
         /\ finishProducerLocked(s).generation = s.generation
         /\ finishProducerLocked(s).completedGeneration = s.generation
         /\ finishProducerLocked(s).running = FALSE
<1>1. /\ s.instance \in Nat /\ s.generation \in Nat
      /\ s.revision + 1 \in Nat
  BY DEF Status
<1> QED
  BY <1>1 DEF finishProducerLocked, Status

\* The fields of a status, for the arithmetic of the steps below.
LEMMA StatusFields ==
  ASSUME NEW s \in Status
  PROVE  /\ s.instance \in Nat /\ s.revision \in Nat
         /\ s.generation \in Nat /\ s.completedGeneration \in Nat
         /\ s.running \in BOOLEAN
BY DEF Status

\* A count of the editors inside that is zero means nobody is inside.
LEMMA InsideFinite ==
  ASSUME TypeOK
  PROVE  /\ IsFiniteSet(InsideSet)
         /\ Cardinality(InsideSet) \in Nat
         /\ Cardinality(InsideSet) = 0 <=> InsideSet = {}
<1>1. IsFiniteSet(InsideSet)
  <2>1. InsideSet \subseteq Editors
    BY DEF InsideSet
  <2>2. IsFiniteSet(Editors)
    BY EditorGateAssumption
  <2> QED
    BY <2>1, <2>2, FS_Subset
<1>2. Cardinality(InsideSet) \in Nat
  BY <1>1, FS_CardinalityType
<1>3. Cardinality(InsideSet) = 0 <=> InsideSet = {}
  BY <1>1, FS_EmptySet
<1> QED
  BY <1>1, <1>2, <1>3

-----------------------------------------------------------------------------
(* Type correctness                                                        *)

\* A fresh process is well typed.
LEMMA TypeInit == Init => TypeOK
<1> SUFFICES ASSUME Init PROVE TypeOK
  OBVIOUS
<1>1. FreshStatus(1) \in Status /\ NoStatus \in Status
  BY FreshStatusType, NoStatusType
<1> QED
  BY <1>1 DEF Init, TypeOK, Claimed, Owning, Inside

\* Every step keeps the types; only the release of an editor needs more than
\* the types, namely that the count it decrements is not zero.
LEMMA TypeNext ==
  ASSUME TypeOK, EditorCount, [Next]_vars
  PROVE  TypeOK'
<1> USE NoStatusType, FreshStatusType, StatusFields
<1>1. ASSUME NEW e \in Editors, EditorNext(e)
      PROVE  TypeOK'
  <2>1. CASE LoadStatus(e)
    BY <2>1 DEF TypeOK, LoadStatus, producerVars
  <2>2. CASE LoadContent(e)
    BY <2>2 DEF TypeOK, LoadContent, producerVars
  <2>3. CASE BeginEditorContext(e)
    BY <2>3 DEF TypeOK, BeginEditorContext, producerVars, Inside
  <2>4. CASE BeginStrictEditor(e)
    BY <2>4 DEF TypeOK, BeginStrictEditor, producerVars, Inside, Forget
  <2>5. CASE editorRelease(e)
    <3>1. e \in InsideSet
      BY <2>5 DEF editorRelease, InsideSet
    <3>2. editors - 1 \in Nat
      BY <3>1, InsideFinite DEF EditorCount, TypeOK
    <3>3. producerPc' \in [Producers -> {"idle", "notifying"} \cup Claimed]
      BY <2>5, BroadcastType DEF editorRelease, TypeOK
    <3> QED
      BY <2>5, <3>2, <3>3 DEF TypeOK, editorRelease, Forget
  <2> QED
    BY <1>1, <2>1, <2>2, <2>3, <2>4, <2>5 DEF EditorNext
<1>2. ASSUME NEW p \in Producers, ProducerNext(p)
      PROVE  TypeOK'
  <2> USE BroadcastType, BegunFacts, FinishedFacts
  <2>1. CASE BeginProducer(p)
    BY <2>1 DEF TypeOK, BeginProducer, editorVars, Claimed
  <2>2. CASE NotifyStarted(p)
    BY <2>2 DEF TypeOK, NotifyStarted, editorVars, Claimed
  <2>3. CASE EnterWait(p)
    BY <2>3 DEF TypeOK, EnterWait, editorVars, Claimed, Owning
  <2>4. CASE ReturnFromWait(p)
    <3>1. CASE p \in cancelled
      <4>1. /\ status' = finishProducerLocked(status)
            /\ owed' = [owed EXCEPT ![p] = status']
            /\ producerPc' = [Broadcast(producerPc) EXCEPT ![p] = "notifying"]
            /\ armed' = armed \ {p}
        BY <2>4, <3>1 DEF ReturnFromWait
      <4>2. status' \in Status
        BY <4>1 DEF TypeOK
      <4> QED
        BY <2>4, <4>1, <4>2 DEF TypeOK, ReturnFromWait, editorVars
    <3>2. CASE p \notin cancelled
      BY <2>4, <3>2 DEF TypeOK, ReturnFromWait, editorVars, Claimed, Owning
    <3> QED
      BY <3>1, <3>2
  <2>5. CASE NotifyFinished(p)
    BY <2>5 DEF TypeOK, NotifyFinished, editorVars
  <2>6. CASE Produce(p)
    BY <2>6 DEF TypeOK, Produce, editorVars, Claimed, Owning
  <2>7. CASE producerRelease(p)
    BY <2>7 DEF TypeOK, producerRelease, editorVars
  <2>8. CASE CancelContext(p)
    BY <2>8 DEF TypeOK, CancelContext, editorVars
  <2>9. CASE WakeUp(p)
    BY <2>9 DEF TypeOK, WakeUp, editorVars
  <2> QED
    BY <1>2, <2>1, <2>2, <2>3, <2>4, <2>5, <2>6, <2>7, <2>8, <2>9
    DEF ProducerNext, ProducerStep
<1>3. CASE Drain
  BY <1>3, BroadcastType DEF TypeOK, Drain, editorVars
<1>4. CASE Restart
  <2>1. status' \in Status
    BY <1>4 DEF Restart, TypeOK
  <2> QED
    BY <1>4, <2>1 DEF TypeOK, Restart
<1>5. CASE UNCHANGED vars
  BY <1>5 DEF TypeOK, vars, editorVars, producerVars
<1> QED
  BY <1>1, <1>2, <1>3, <1>4, <1>5 DEF Next

-----------------------------------------------------------------------------
(* The parts of the inductive invariant, one lemma each                    *)

\* Every admission adds one editor and one to the count, every release takes
\* both away, and no producer touches either.
LEMMA CountNext ==
  ASSUME TypeOK, EditorCount, [Next]_vars
  PROVE  EditorCount'
<1>1. ASSUME NEW e \in Editors, e \notin InsideSet, editors' = editors + 1,
             InsideSet' = InsideSet \cup {e}
      PROVE  EditorCount'
  BY <1>1, InsideFinite, FS_AddElement DEF EditorCount
<1>2. ASSUME NEW e \in Editors, e \in InsideSet, editors' = editors - 1,
             InsideSet' = InsideSet \ {e}
      PROVE  EditorCount'
  BY <1>2, InsideFinite, FS_RemoveElement DEF EditorCount
<1>3. ASSUME editors' = editors, InsideSet' = InsideSet
      PROVE  EditorCount'
  BY <1>3 DEF EditorCount
<1>4. ASSUME NEW e \in Editors, EditorNext(e)
      PROVE  EditorCount'
  <2>1. CASE LoadStatus(e)
    BY <2>1, <1>3 DEF LoadStatus, InsideSet, Inside, TypeOK
  <2>2. CASE LoadContent(e)
    BY <2>2, <1>3 DEF LoadContent, InsideSet, Inside, TypeOK
  <2>3. CASE BeginEditorContext(e)
    BY <2>3, <1>1 DEF BeginEditorContext, InsideSet, Inside, TypeOK
  <2>4. CASE BeginStrictEditor(e)
    <3>1. CASE ~status.running /\ LoadedMatches(e)
      BY <2>4, <3>1, <1>1 DEF BeginStrictEditor, InsideSet, Inside, TypeOK
    <3>2. CASE ~(~status.running /\ LoadedMatches(e))
      BY <2>4, <3>2, <1>3 DEF BeginStrictEditor, InsideSet, Inside, TypeOK
    <3> QED
      BY <3>1, <3>2
  <2>5. CASE editorRelease(e)
    BY <2>5, <1>2 DEF editorRelease, InsideSet, Inside, TypeOK
  <2> QED
    BY <1>4, <2>1, <2>2, <2>3, <2>4, <2>5 DEF EditorNext
<1>5. ASSUME NEW p \in Producers, ProducerNext(p)
      PROVE  EditorCount'
  <2>1. editors' = editors /\ editorPc' = editorPc
    BY <1>5 DEF ProducerNext, ProducerStep, BeginProducer, NotifyStarted,
      EnterWait, ReturnFromWait, NotifyFinished, Produce, producerRelease,
      CancelContext, WakeUp, editorVars
  <2> QED
    BY <2>1, <1>3 DEF InsideSet
<1>6. CASE Drain
  BY <1>6, <1>3 DEF Drain, editorVars, InsideSet
<1>7. CASE Restart
  <2>1. InsideSet' = {}
    BY <1>7 DEF Restart, InsideSet, Inside
  <2> QED
    BY <1>7, <2>1, FS_EmptySet DEF Restart, EditorCount
<1>8. CASE UNCHANGED vars
  BY <1>8, <1>3 DEF vars, editorVars, InsideSet
<1> QED
  BY <1>4, <1>5, <1>6, <1>7, <1>8 DEF Next

\* Which producers claim and own the gate after a step of an editor or of
\* the process: those that did before.
LEMMA EditorKeepsClaims ==
  ASSUME TypeOK, NEW e \in Editors, EditorNext(e)
  PROVE  /\ status' = status
         /\ observed' = observed
         /\ owed' = owed
         /\ \A p \in Producers :
              /\ producerPc'[p] \in Claimed <=> producerPc[p] \in Claimed
              /\ producerPc'[p] \in Owning <=> producerPc[p] \in Owning
              /\ producerPc'[p] = "notifying" <=> producerPc[p] = "notifying"
              /\ producerPc'[p] = "announcing" <=> producerPc[p] = "announcing"
<1>1. CASE editorRelease(e)
  BY <1>1, BroadcastType DEF editorRelease, TypeOK
<1>2. CASE ~editorRelease(e)
  BY <1>2 DEF EditorNext, LoadStatus, LoadContent, BeginEditorContext,
    BeginStrictEditor, producerVars
<1> QED
  BY <1>1, <1>2

\* Running is set by the producer that becomes the claimant and cleared by
\* the claimant, of which there is only one.
LEMMA ClaimNext ==
  ASSUME TypeOK, RunningIsClaim, [Next]_vars
  PROVE  RunningIsClaim'
<1> USE BroadcastType, BegunFacts, FinishedFacts
<1>1. ASSUME NEW e \in Editors, EditorNext(e)
      PROVE  RunningIsClaim'
  BY <1>1, EditorKeepsClaims DEF RunningIsClaim
<1>2. ASSUME NEW p \in Producers, ProducerNext(p)
      PROVE  RunningIsClaim'
  <2>1. CASE BeginProducer(p)
    <3>1. /\ ~status.running
          /\ status' = Begun(status)
          /\ producerPc' = [Broadcast(producerPc) EXCEPT ![p] = "announcing"]
      BY <2>1 DEF BeginProducer
    <3>2. status'.running
      BY <3>1 DEF TypeOK
    <3>3. \A q \in Producers : producerPc[q] \notin Claimed
      BY <3>1 DEF RunningIsClaim
    <3>4. /\ producerPc'[p] \in Claimed
          /\ \A q \in Producers \ {p} : producerPc'[q] \notin Claimed
      BY <3>1, <3>3 DEF TypeOK, Claimed
    <3> QED
      BY <3>2, <3>4 DEF RunningIsClaim
  <2>2. CASE NotifyStarted(p)
    BY <2>2 DEF NotifyStarted, TypeOK, RunningIsClaim, Claimed
  <2>3. CASE EnterWait(p)
    BY <2>3 DEF EnterWait, TypeOK, RunningIsClaim, Claimed, Owning
  <2>4. CASE ReturnFromWait(p)
    <3>1. CASE p \in cancelled
      <4>1. /\ status' = finishProducerLocked(status)
            /\ producerPc' = [Broadcast(producerPc) EXCEPT ![p] = "notifying"]
            /\ producerPc[p] \in Claimed
        BY <2>4, <3>1 DEF ReturnFromWait, Claimed
      <4>2. ~status'.running
        BY <4>1 DEF TypeOK
      <4>3. \A q \in Producers : producerPc'[q] \notin Claimed
        BY <4>1 DEF TypeOK, RunningIsClaim, Claimed, Owning
      <4> QED
        BY <4>2, <4>3 DEF RunningIsClaim
    <3>2. CASE p \notin cancelled
      <4>1. /\ status' = status
            /\ producerPc[p] \in Claimed
            /\ \E x \in Claimed : producerPc' = [producerPc EXCEPT ![p] = x]
        BY <2>4, <3>2 DEF ReturnFromWait, Claimed, Owning
      <4> QED
        BY <4>1 DEF TypeOK, RunningIsClaim
    <3> QED
      BY <3>1, <3>2
  <2>5. CASE NotifyFinished(p)
    BY <2>5 DEF NotifyFinished, TypeOK, RunningIsClaim, Claimed, Owning
  <2>6. CASE Produce(p)
    BY <2>6 DEF Produce, TypeOK, RunningIsClaim, Claimed, Owning
  <2>7. CASE producerRelease(p)
    <3>1. /\ status' = finishProducerLocked(status)
          /\ producerPc' = [Broadcast(producerPc) EXCEPT ![p] = "notifying"]
          /\ producerPc[p] \in Claimed
      BY <2>7 DEF producerRelease, Claimed
    <3>2. ~status'.running
      BY <3>1 DEF TypeOK
    <3>3. \A q \in Producers : producerPc'[q] \notin Claimed
      BY <3>1 DEF TypeOK, RunningIsClaim, Claimed, Owning
    <3> QED
      BY <3>2, <3>3 DEF RunningIsClaim
  <2>8. CASE CancelContext(p)
    BY <2>8 DEF CancelContext, RunningIsClaim
  <2>9. CASE WakeUp(p)
    BY <2>9 DEF WakeUp, TypeOK, RunningIsClaim
  <2> QED
    BY <1>2, <2>1, <2>2, <2>3, <2>4, <2>5, <2>6, <2>7, <2>8, <2>9
    DEF ProducerNext, ProducerStep
<1>3. CASE Drain
  BY <1>3 DEF Drain, TypeOK, RunningIsClaim
<1>4. CASE Restart
  BY <1>4 DEF Restart, FreshStatus, RunningIsClaim, Claimed, Owning
<1>5. CASE UNCHANGED vars
  BY <1>5 DEF vars, producerVars, RunningIsClaim
<1> QED
  BY <1>1, <1>2, <1>3, <1>4, <1>5 DEF Next

\* Both transitions of the status keep the counters in step, and the one
\* that begins a generation leaves room for the one that ends it.
LEMMA CountersNext ==
  ASSUME TypeOK, RunningIsClaim, CountersExact, [Next]_vars
  PROVE  CountersExact'
<1> USE EditorGateAssumption, StatusFields
<1>1. ASSUME status' = status
      PROVE  CountersExact'
  BY <1>1 DEF CountersExact
<1>2. ASSUME status.running, status' = finishProducerLocked(status)
      PROVE  CountersExact'
  <2>1. /\ status'.revision = status.revision + 1
        /\ status'.generation = status.generation
        /\ status'.completedGeneration = status.generation
        /\ ~status'.running
    BY <1>2, FinishedFacts DEF TypeOK
  <2>2. /\ status.revision \in Nat /\ status.generation \in Nat
        /\ status.completedGeneration \in Nat
    BY DEF TypeOK
  <2> QED
    BY <1>2, <2>1, <2>2 DEF CountersExact
<1>3. ASSUME NEW e \in Editors, EditorNext(e)
      PROVE  CountersExact'
  BY <1>1, <1>3, EditorKeepsClaims
<1>4. ASSUME NEW p \in Producers, ProducerNext(p)
      PROVE  CountersExact'
  <2>1. CASE BeginProducer(p)
    <3>1. /\ ~status.running
          /\ CountersLeft
          /\ status' = Begun(status)
      BY <2>1 DEF BeginProducer
    <3>2. /\ status'.revision = status.revision + 1
          /\ status'.generation = status.generation + 1
          /\ status'.completedGeneration = status.completedGeneration
          /\ status'.running
      BY <3>1, BegunFacts DEF TypeOK
    <3>3. /\ status.revision \in Nat /\ status.generation \in Nat
          /\ status.completedGeneration \in Nat
      BY DEF TypeOK
    <3> QED
      BY <3>1, <3>2, <3>3 DEF CountersLeft, CountersExact
  <2>2. CASE ReturnFromWait(p) \/ producerRelease(p)
    <3>1. producerPc[p] \in Claimed
      BY <2>2 DEF ReturnFromWait, producerRelease, Claimed, Owning
    <3>2. status' = status \/ status' = finishProducerLocked(status)
      BY <2>2 DEF ReturnFromWait, producerRelease
    <3> QED
      BY <1>1, <1>2, <3>1, <3>2 DEF RunningIsClaim
  <2>3. CASE ~(BeginProducer(p) \/ ReturnFromWait(p) \/ producerRelease(p))
    <3>1. status' = status
      BY <1>4, <2>3 DEF ProducerNext, ProducerStep, NotifyStarted, EnterWait,
        NotifyFinished, Produce, CancelContext, WakeUp
    <3> QED
      BY <1>1, <3>1
  <2> QED
    BY <2>1, <2>2, <2>3
<1>5. CASE Drain
  BY <1>5, <1>1 DEF Drain
<1>6. CASE Restart
  BY <1>6 DEF Restart, FreshStatus, CountersExact
<1>7. CASE UNCHANGED vars
  BY <1>7, <1>1 DEF vars
<1> QED
  BY <1>3, <1>4, <1>5, <1>6, <1>7 DEF Next

\* Ownership begins when the count is zero, and while it lasts the gate is
\* running, which refuses both kinds of editors.
LEMMA ExclusionNext ==
  ASSUME TypeOK, EditorCount, RunningIsClaim, Exclusion, [Next]_vars
  PROVE  Exclusion'
<1> USE BroadcastType
<1>1. ASSUME NEW e \in Editors, EditorNext(e)
      PROVE  Exclusion'
  <2>1. CASE \E p \in Producers : producerPc[p] \in Owning
    <3>1. status.running
      BY <2>1 DEF RunningIsClaim, Claimed
    <3>2. InsideSet = {}
      BY <2>1 DEF Exclusion
    <3>3. InsideSet' = {}
      BY <1>1, <3>1, <3>2 DEF EditorNext, LoadStatus, LoadContent,
        BeginEditorContext, BeginStrictEditor, editorRelease, InsideSet,
        Inside, TypeOK
    <3> QED
      BY <3>3 DEF Exclusion
  <2>2. CASE \A p \in Producers : producerPc[p] \notin Owning
    BY <1>1, <2>2, EditorKeepsClaims DEF Exclusion
  <2> QED
    BY <2>1, <2>2
<1>2. ASSUME NEW p \in Producers, ProducerNext(p)
      PROVE  Exclusion'
  <2>1. InsideSet' = InsideSet
    BY <1>2 DEF ProducerNext, ProducerStep, BeginProducer, NotifyStarted,
      EnterWait, ReturnFromWait, NotifyFinished, Produce, producerRelease,
      CancelContext, WakeUp, editorVars, InsideSet
  <2>2. CASE InsideSet = {}
    BY <2>1, <2>2 DEF Exclusion
  <2>3. CASE InsideSet # {}
    <3>1. editors # 0
      BY <2>3, InsideFinite DEF EditorCount
    <3>2. \A q \in Producers : producerPc[q] \notin Owning
      BY <2>3 DEF Exclusion
    <3>3. \A q \in Producers : producerPc'[q] \notin Owning
      BY <1>2, <3>1, <3>2 DEF ProducerNext, ProducerStep, BeginProducer,
        NotifyStarted, EnterWait, ReturnFromWait, NotifyFinished, Produce,
        producerRelease, CancelContext, WakeUp, TypeOK, Owning
    <3> QED
      BY <3>3 DEF Exclusion
  <2> QED
    BY <2>2, <2>3
<1>3. CASE Drain
  BY <1>3 DEF Drain, editorVars, InsideSet, TypeOK, Exclusion
<1>4. CASE Restart
  BY <1>4 DEF Restart, Exclusion, Owning
<1>5. CASE UNCHANGED vars
  BY <1>5 DEF vars, editorVars, producerVars, InsideSet, Exclusion
<1> QED
  BY <1>1, <1>2, <1>3, <1>4, <1>5 DEF Next

\* The status only moves forward within an instance, and a restart takes an
\* instance no client has loaded.
LEMMA StatusForward ==
  ASSUME TypeOK, [Next]_vars
  PROVE  \/ /\ status'.instance = status.instance
            /\ status'.revision >= status.revision
         \/ status'.instance = status.instance + 1 /\ Restart
<1> USE StatusFields, BegunFacts, FinishedFacts
<1>1. CASE status' = status
  BY <1>1 DEF TypeOK
<1>2. CASE status' = Begun(status) \/ status' = finishProducerLocked(status)
  <2>1. status'.instance = status.instance
        /\ status'.revision = status.revision + 1
    BY <1>2 DEF TypeOK
  <2>2. status.revision \in Nat
    BY DEF TypeOK
  <2> QED
    BY <2>1, <2>2
<1>3. CASE Restart
  BY <1>3 DEF Restart, FreshStatus
<1>4. ASSUME NEW e \in Editors, EditorNext(e)
      PROVE  status' = status
  BY <1>4, EditorKeepsClaims
<1>5. ASSUME NEW p \in Producers, ProducerNext(p)
      PROVE  \/ status' = status
             \/ status' = Begun(status)
             \/ status' = finishProducerLocked(status)
  BY <1>5 DEF ProducerNext, ProducerStep, BeginProducer, NotifyStarted,
    EnterWait, ReturnFromWait, NotifyFinished, Produce, producerRelease,
    CancelContext, WakeUp
<1>6. ASSUME Drain \/ UNCHANGED vars
      PROVE  status' = status
  BY <1>6 DEF Drain, vars
<1> QED
  BY <1>1, <1>2, <1>3, <1>4, <1>5, <1>6 DEF Next

\* Revisions only grow within an instance, so no client gets ahead of the gate.
LEMMA LoadedPastNext ==
  ASSUME TypeOK, TypeOK', LoadedPast, [Next]_vars
  PROVE  LoadedPast'
<1> SUFFICES ASSUME NEW e \in Editors, editorPc'[e] \in {"reading", "ready"}
             PROVE  /\ loaded'[e].instance <= status'.instance
                    /\ loaded'[e].instance = status'.instance =>
                         loaded'[e].revision <= status'.revision
  BY DEF LoadedPast
<1>1. \/ LoadStatus(e)
      \/ loaded'[e] = loaded[e] /\ editorPc[e] \in {"reading", "ready"}
  BY DEF Next, vars, editorVars, TypeOK, EditorNext, LoadStatus, LoadContent,
    BeginEditorContext, BeginStrictEditor, editorRelease, Forget,
    ProducerNext, ProducerStep, BeginProducer, NotifyStarted,
    EnterWait, ReturnFromWait, NotifyFinished, Produce, producerRelease,
    CancelContext, WakeUp, Drain, Restart, Inside
<1>2. CASE LoadStatus(e)
  <2>1. loaded'[e] = status /\ status' = status
    BY <1>2 DEF LoadStatus, TypeOK
  <2> QED
    BY <2>1, StatusFields DEF TypeOK
<1>3. CASE loaded'[e] = loaded[e] /\ editorPc[e] \in {"reading", "ready"}
  <2>1. /\ loaded[e].instance <= status.instance
        /\ loaded[e].instance = status.instance =>
             loaded[e].revision <= status.revision
    BY <1>3 DEF LoadedPast
  <2>2. /\ loaded[e].instance \in Nat /\ loaded[e].revision \in Nat
        /\ status.instance \in Nat /\ status.revision \in Nat
        /\ status'.instance \in Nat /\ status'.revision \in Nat
    BY StatusFields DEF TypeOK
  <2> QED
    BY <1>3, <2>1, <2>2, StatusForward
<1> QED
  BY <1>1, <1>2, <1>3

\* Content is produced while the gate runs; the end of that generation moves
\* the revision past everything loaded before it.
LEMMA LoadedCurrentNext ==
  ASSUME TypeOK, TypeOK', RunningIsClaim, LoadedPast, LoadedCurrent,
         [Next]_vars
  PROVE  LoadedCurrent'
<1> SUFFICES ASSUME NEW e \in Editors, editorPc'[e] = "ready",
                    loaded'[e].instance = status'.instance,
                    loaded'[e].revision = status'.revision,
                    ~status'.running
             PROVE  seen'[e] = produced'
  BY DEF LoadedCurrent
<1>1. CASE LoadContent(e)
  BY <1>1 DEF LoadContent, TypeOK
<1>2. CASE ~LoadContent(e)
  <2>1. /\ editorPc[e] = "ready"
        /\ loaded'[e] = loaded[e]
        /\ seen'[e] = seen[e]
    BY <1>2 DEF Next, vars, editorVars, TypeOK, EditorNext, LoadStatus,
      LoadContent, BeginEditorContext, BeginStrictEditor, editorRelease,
      Forget, ProducerNext, ProducerStep, BeginProducer, NotifyStarted,
      EnterWait, ReturnFromWait, NotifyFinished, Produce, producerRelease,
      CancelContext, WakeUp, Drain, Restart, Inside
  <2>2. /\ loaded[e].instance <= status.instance
        /\ loaded[e].instance = status.instance =>
             loaded[e].revision <= status.revision
    BY <2>1 DEF LoadedPast
  <2>3. /\ loaded[e].instance \in Nat /\ loaded[e].revision \in Nat
        /\ status.instance \in Nat /\ status.revision \in Nat
    BY StatusFields DEF TypeOK
  <2>4. ~Restart
    BY <2>1, <2>2, <2>3 DEF Restart, FreshStatus
  <2>5. \A p \in Producers : ~producerRelease(p)
    <3> SUFFICES ASSUME NEW p \in Producers, producerRelease(p) PROVE FALSE
      OBVIOUS
    <3>1. /\ status'.instance = status.instance
          /\ status'.revision = status.revision + 1
      BY FinishedFacts DEF producerRelease, TypeOK
    <3> QED
      BY <2>1, <2>2, <2>3, <3>1
  <2>6. \A p \in Producers : ~BeginProducer(p)
    BY BegunFacts DEF BeginProducer, TypeOK
  <2>7. \A p \in Producers : ReturnFromWait(p) => status' = status
    <3> SUFFICES ASSUME NEW p \in Producers, ReturnFromWait(p),
                        status' = finishProducerLocked(status)
                 PROVE  FALSE
      BY DEF ReturnFromWait
    <3>1. /\ status'.instance = status.instance
          /\ status'.revision = status.revision + 1
      BY FinishedFacts DEF TypeOK
    <3> QED
      BY <2>1, <2>2, <2>3, <3>1
  <2>8. status' = status
    BY <2>4, <2>5, <2>6, <2>7, EditorKeepsClaims
    DEF Next, vars, ProducerNext, ProducerStep, NotifyStarted, EnterWait,
      NotifyFinished, Produce, CancelContext, WakeUp, Drain
  <2>9. \A p \in Producers : ~Produce(p)
    BY <2>8 DEF Produce, RunningIsClaim, Claimed, Owning
  <2>10. produced' = produced
    BY <2>4, <2>9 DEF Next, vars, EditorNext, LoadStatus,
      LoadContent, BeginEditorContext, BeginStrictEditor, editorRelease,
      ProducerNext, ProducerStep, BeginProducer, NotifyStarted,
      EnterWait, ReturnFromWait, NotifyFinished, producerRelease,
      CancelContext, WakeUp, Drain
  <2> QED
    BY <2>1, <2>8, <2>10 DEF LoadedCurrent
<1> QED
  BY <1>1, <1>2

\* A strict editor gets in with current content, and none is inside while a
\* producer writes.
LEMMA StrictNext ==
  ASSUME TypeOK, Exclusion, LoadedCurrent, StrictEditorCurrent, [Next]_vars
  PROVE  StrictEditorCurrent'
<1> SUFFICES ASSUME NEW e \in Editors, editorPc'[e] = "strict"
             PROVE  seen'[e] = produced'
  BY DEF StrictEditorCurrent
<1>1. CASE BeginStrictEditor(e)
  <2>1. ~status.running /\ LoadedMatches(e)
    BY <1>1 DEF BeginStrictEditor, TypeOK
  <2>2. seen[e] = produced
    BY <1>1, <2>1 DEF BeginStrictEditor, LoadedMatches, LoadedCurrent
  <2> QED
    BY <1>1, <2>1, <2>2 DEF BeginStrictEditor
<1>2. CASE ~BeginStrictEditor(e)
  <2>1. editorPc[e] = "strict" /\ seen'[e] = seen[e]
    BY <1>2 DEF Next, vars, editorVars, TypeOK, EditorNext, LoadStatus,
      LoadContent, BeginEditorContext, BeginStrictEditor, editorRelease,
      Forget, ProducerNext, ProducerStep, BeginProducer, NotifyStarted,
      EnterWait, ReturnFromWait, NotifyFinished, Produce, producerRelease,
      CancelContext, WakeUp, Drain, Restart, Inside
  <2>2. \A p \in Producers : ~Produce(p)
    BY <2>1 DEF Produce, Exclusion, InsideSet, Inside, Owning
  <2>3. produced' = produced
    BY <2>2 DEF Next, vars, EditorNext, LoadStatus,
      LoadContent, BeginEditorContext, BeginStrictEditor, editorRelease,
      ProducerNext, ProducerStep, BeginProducer, NotifyStarted,
      EnterWait, ReturnFromWait, NotifyFinished, producerRelease,
      CancelContext, WakeUp, Drain, Restart
  <2> QED
    BY <2>1, <2>3 DEF StrictEditorCurrent
<1> QED
  BY <1>1, <1>2

\* What a producer owes when it notifies last is the finished status.
LEMMA OwedNext ==
  ASSUME TypeOK, OwedEnd, [Next]_vars
  PROVE  OwedEnd'
<1> USE BroadcastType
<1>1. ASSUME NEW e \in Editors, EditorNext(e)
      PROVE  OwedEnd'
  BY <1>1, EditorKeepsClaims DEF OwedEnd
<1>2. ASSUME NEW p \in Producers, ProducerNext(p)
      PROVE  OwedEnd'
  <2>1. CASE status' = finishProducerLocked(status)
             /\ owed' = [owed EXCEPT ![p] = status']
             /\ producerPc' = [Broadcast(producerPc) EXCEPT ![p] = "notifying"]
    <3>1. ~status'.running
      BY <2>1, FinishedFacts DEF TypeOK
    <3> QED
      BY <2>1, <3>1 DEF OwedEnd, TypeOK
  <2>2. CASE ReturnFromWait(p)
    BY <2>1, <2>2 DEF ReturnFromWait, OwedEnd, TypeOK
  <2>3. CASE producerRelease(p)
    BY <2>1, <2>3 DEF producerRelease
  <2>4. CASE BeginProducer(p)
    BY <2>4 DEF BeginProducer, OwedEnd, TypeOK
  <2>5. CASE NotifyStarted(p)
    BY <2>5 DEF NotifyStarted, OwedEnd, TypeOK
  <2>6. CASE EnterWait(p)
    BY <2>6 DEF EnterWait, OwedEnd, TypeOK
  <2>7. CASE NotifyFinished(p)
    BY <2>7 DEF NotifyFinished, OwedEnd, TypeOK
  <2>8. CASE Produce(p)
    BY <2>8 DEF Produce, OwedEnd, TypeOK
  <2>9. CASE CancelContext(p)
    BY <2>9 DEF CancelContext, OwedEnd
  <2>10. CASE WakeUp(p)
    BY <2>10 DEF WakeUp, OwedEnd, TypeOK
  <2> QED
    BY <1>2, <2>2, <2>3, <2>4, <2>5, <2>6, <2>7, <2>8, <2>9, <2>10
    DEF ProducerNext, ProducerStep
<1>3. CASE Drain
  BY <1>3 DEF Drain, OwedEnd, TypeOK
<1>4. CASE Restart
  BY <1>4 DEF Restart, OwedEnd
<1>5. CASE UNCHANGED vars
  BY <1>5 DEF vars, producerVars, OwedEnd
<1> QED
  BY <1>1, <1>2, <1>3, <1>4, <1>5 DEF Next

\* Hooks may deliver late and out of order, but whoever delivered "running"
\* delivers once more.
LEMMA ObserverNext ==
  ASSUME TypeOK, OwedEnd, ObserverNotStuck, [Next]_vars
  PROVE  ObserverNotStuck'
<1> USE BroadcastType
<1> DEFINE Owes(pc) == pc \in (Claimed \ {"announcing"}) \cup {"notifying"}
<1> SUFFICES ASSUME observed'.running
             PROVE  \E p \in Producers : Owes(producerPc'[p])
  BY DEF ObserverNotStuck
<1>1. ASSUME NEW e \in Editors, EditorNext(e)
      PROVE  \E p \in Producers : Owes(producerPc'[p])
  BY <1>1, EditorKeepsClaims DEF ObserverNotStuck
<1>2. ASSUME NEW p \in Producers, ProducerNext(p)
      PROVE  \E q \in Producers : Owes(producerPc'[q])
  <2>1. CASE NotifyStarted(p)
    BY <2>1 DEF NotifyStarted, TypeOK, Claimed
  <2>2. CASE NotifyFinished(p)
    BY <2>2 DEF NotifyFinished, OwedEnd, TypeOK
  <2>3. CASE ~NotifyStarted(p) /\ ~NotifyFinished(p)
    <3>1. observed' = observed
      BY <1>2, <2>3 DEF ProducerNext, ProducerStep, BeginProducer, EnterWait,
        ReturnFromWait, Produce, producerRelease, CancelContext, WakeUp
    <3>2. PICK q \in Producers : Owes(producerPc[q])
      BY <3>1 DEF ObserverNotStuck
    <3>3. CASE BeginProducer(p)
      BY <3>2, <3>3 DEF BeginProducer, TypeOK, Claimed, Owning
    <3>4. CASE EnterWait(p)
      BY <3>2, <3>4 DEF EnterWait, TypeOK, Claimed, Owning
    <3>5. CASE ReturnFromWait(p)
      BY <3>2, <3>5 DEF ReturnFromWait, TypeOK, Claimed, Owning
    <3>6. CASE Produce(p)
      BY <3>2, <3>6 DEF Produce, TypeOK, Claimed, Owning
    <3>7. CASE producerRelease(p)
      BY <3>2, <3>7 DEF producerRelease, TypeOK
    <3>8. CASE CancelContext(p)
      BY <3>2, <3>8 DEF CancelContext
    <3>9. CASE WakeUp(p)
      BY <3>2, <3>9 DEF WakeUp, TypeOK
    <3> QED
      BY <1>2, <2>3, <3>3, <3>4, <3>5, <3>6, <3>7, <3>8, <3>9
      DEF ProducerNext, ProducerStep
  <2> QED
    BY <2>1, <2>2, <2>3
<1>3. CASE Drain
  BY <1>3 DEF Drain, ObserverNotStuck, TypeOK
<1>4. CASE Restart
  BY <1>4 DEF Restart, FreshStatus
<1>5. CASE UNCHANGED vars
  BY <1>5 DEF vars, producerVars, ObserverNotStuck
<1> QED
  BY <1>1, <1>2, <1>3, <1>4, <1>5 DEF Next

-----------------------------------------------------------------------------
(* The theorems                                                            *)

\* A fresh process satisfies the invariant.
LEMMA IInvInit == Init => IInv
<1> SUFFICES ASSUME Init PROVE IInv
  OBVIOUS
<1>1. TypeOK
  BY TypeInit
<1>2. EditorCount
  <2>1. InsideSet = {}
    BY DEF Init, InsideSet, Inside
  <2> QED
    BY <2>1, FS_EmptySet DEF Init, EditorCount
<1>3. /\ Exclusion /\ LoadedPast /\ LoadedCurrent /\ StrictEditorCurrent
      /\ OwedEnd
  BY DEF Init, Exclusion, LoadedPast, LoadedCurrent, StrictEditorCurrent,
    OwedEnd, Owning
<1>4. RunningIsClaim /\ ObserverNotStuck
  BY DEF Init, FreshStatus, RunningIsClaim, ObserverNotStuck, Claimed, Owning
<1>5. CountersExact
  BY EditorGateAssumption DEF Init, FreshStatus, CountersExact
<1> QED
  BY <1>1, <1>2, <1>3, <1>4, <1>5 DEF IInv

\* Every step keeps the invariant, by the lemmas about its parts.
LEMMA IInvNext == IInv /\ [Next]_vars => IInv'
<1> SUFFICES ASSUME IInv, [Next]_vars PROVE IInv'
  OBVIOUS
<1>1. TypeOK'
  BY TypeNext DEF IInv
<1>2. EditorCount' /\ RunningIsClaim' /\ CountersExact' /\ Exclusion'
  BY CountNext, ClaimNext, CountersNext, ExclusionNext DEF IInv
<1>3. LoadedPast' /\ LoadedCurrent' /\ StrictEditorCurrent'
  BY <1>1, LoadedPastNext, LoadedCurrentNext, StrictNext DEF IInv
<1>4. OwedEnd' /\ ObserverNotStuck'
  BY OwedNext, ObserverNext DEF IInv
<1> QED
  BY <1>1, <1>2, <1>3, <1>4 DEF IInv

\* IInv is an invariant of the gate.
THEOREM GateInvariant == Spec => []IInv
BY IInvInit, IInvNext, PTL DEF Spec

\* The gate's state keeps its types; in particular the editor count never
\* becomes negative, which is the panic of editorRelease.
THEOREM TypeCorrect == Spec => []TypeOK
<1>1. IInv => TypeOK
  BY DEF IInv
<1> QED
  BY <1>1, GateInvariant, PTL

\* No editor is inside while a producer owns the gate, for any number of
\* editors, producers, cancellations and restarts.
THEOREM GateExclusion == Spec => []Exclusion
<1>1. IInv => Exclusion
  BY DEF IInv
<1> QED
  BY <1>1, GateInvariant, PTL

\* The published counters stay exact and below the limit for every limit,
\* 2^53-1 included.
THEOREM GateCounters == Spec => []CountersExact
<1>1. IInv => CountersExact
  BY DEF IInv
<1> QED
  BY <1>1, GateInvariant, PTL

\* The header of BeginStrictEditor proves that the client's content is
\* current, across any number of generations and restarts.
THEOREM GateStrictCurrent == Spec => []StrictEditorCurrent
<1>1. IInv => StrictEditorCurrent
  BY DEF IInv
<1> QED
  BY <1>1, GateInvariant, PTL

\* Observers that saw "running" are always owed another announcement.
THEOREM GateObservers == Spec => []ObserverNotStuck
<1>1. IInv => ObserverNotStuck
  BY DEF IInv
<1> QED
  BY <1>1, GateInvariant, PTL

-----------------------------------------------------------------------------
(* EditorGate implements RWGate                                            *)

\* With one producer claiming, Claimant is that producer, in the state before
\* a step and in the state after it.
LEMMA ClaimantIs ==
  ASSUME RunningIsClaim, NEW p \in Producers, producerPc[p] \in Claimed
  PROVE  Claimant = p
BY DEF RunningIsClaim, Claimant

\* The refinement mapping's claimant is the one producer that has claimed.
LEMMA ClaimantWillBe ==
  ASSUME RunningIsClaim', NEW p \in Producers, producerPc'[p] \in Claimed
  PROVE  Claimant' = p
BY DEF RunningIsClaim, Claimant

\* A step that changes nobody's claim changes no claimant.
LEMMA ClaimantSame ==
  ASSUME RunningIsClaim, RunningIsClaim',
         \A p \in Producers :
           producerPc'[p] \in Claimed <=> producerPc[p] \in Claimed
  PROVE  Claimant' = Claimant
<1>1. CASE \E p \in Producers : producerPc[p] \in Claimed
  BY <1>1, ClaimantIs, ClaimantWillBe
<1>2. CASE ~\E p \in Producers : producerPc[p] \in Claimed
  BY <1>2 DEF Claimant
<1> QED
  BY <1>1, <1>2

\* A fresh gate maps to the initial state of RWGate.
LEMMA RefinementInit == Init => RW!GateInit
BY DEF Init, RW!GateInit, InsideSet, Inside, Claimant, GateOwned, Claimed,
  Owning

\* Every step of the gate maps to a step of RWGate or changes nothing there.
LEMMA RefinementNext ==
  IInv /\ IInv' /\ [Next]_vars => [RW!GateNext]_(RW!gateVars)
<1> SUFFICES ASSUME IInv, IInv', [Next]_vars
             PROVE  RW!GateNext \/ UNCHANGED RW!gateVars
  OBVIOUS
<1> USE BroadcastType DEF IInv
<1>1. ASSUME NEW e \in Editors, EditorNext(e)
      PROVE  RW!GateNext \/ UNCHANGED RW!gateVars
  <2>1. Claimant' = Claimant
    BY <1>1, EditorKeepsClaims, ClaimantSame
  <2>2. GateOwned' = GateOwned
    BY <1>1, EditorKeepsClaims DEF GateOwned
  <2>3. ASSUME ~status.running, e \notin InsideSet,
               InsideSet' = InsideSet \cup {e}
        PROVE  RW!Admit(e)
    <3>1. Claimant = NoProducer
      BY <2>3 DEF RunningIsClaim, Claimant
    <3> QED
      BY <2>1, <2>2, <2>3, <3>1 DEF RW!Admit
  <2>4. CASE LoadStatus(e) \/ LoadContent(e)
    <3>1. InsideSet' = InsideSet
      BY <2>4 DEF LoadStatus, LoadContent, InsideSet, Inside, TypeOK
    <3> QED
      BY <2>1, <2>2, <3>1 DEF RW!gateVars
  <2>5. CASE BeginEditorContext(e)
    BY <2>3, <2>5
    DEF BeginEditorContext, InsideSet, Inside, TypeOK, RW!GateNext
  <2>6. CASE BeginStrictEditor(e)
    <3>1. CASE ~status.running /\ LoadedMatches(e)
      BY <2>3, <2>6, <3>1
      DEF BeginStrictEditor, InsideSet, Inside, TypeOK, RW!GateNext
    <3>2. CASE ~(~status.running /\ LoadedMatches(e))
      <4>1. InsideSet' = InsideSet
        BY <2>6, <3>2 DEF BeginStrictEditor, InsideSet, Inside, TypeOK
      <4> QED
        BY <2>1, <2>2, <4>1 DEF RW!gateVars
    <3> QED
      BY <3>1, <3>2
  <2>7. CASE editorRelease(e)
    <3>1. e \in InsideSet /\ InsideSet' = InsideSet \ {e}
      BY <2>7 DEF editorRelease, InsideSet, Inside, TypeOK
    <3> QED
      BY <2>1, <2>2, <3>1 DEF RW!Leave, RW!GateNext
  <2> QED
    BY <1>1, <2>4, <2>5, <2>6, <2>7 DEF EditorNext
<1>2. ASSUME NEW p \in Producers, ProducerNext(p)
      PROVE  RW!GateNext \/ UNCHANGED RW!gateVars
  <2>1. InsideSet' = InsideSet
    BY <1>2 DEF ProducerNext, ProducerStep, BeginProducer, NotifyStarted,
      EnterWait, ReturnFromWait, NotifyFinished, Produce, producerRelease,
      CancelContext, WakeUp, editorVars, InsideSet
  <2>2. ASSUME \A q \in Producers :
                 /\ producerPc'[q] \in Claimed <=> producerPc[q] \in Claimed
                 /\ producerPc'[q] \in Owning <=> producerPc[q] \in Owning
        PROVE  UNCHANGED RW!gateVars
    BY <2>1, <2>2, ClaimantSame DEF GateOwned, RW!gateVars
  <2>3. ASSUME producerPc[p] \in Claimed \ Owning, editors = 0,
               producerPc' = [producerPc EXCEPT ![p] = "active"]
        PROVE  RW!Enter(p)
    <3>1. InsideSet = {}
      BY <2>3, InsideFinite DEF EditorCount
    <3>2. Claimant = p /\ Claimant' = p
      BY <2>3, ClaimantIs, ClaimantWillBe DEF TypeOK, Claimed, Owning
    <3>3. ~GateOwned /\ GateOwned'
      BY <2>3 DEF GateOwned, RunningIsClaim, TypeOK, Claimed, Owning
    <3> QED
      BY <2>1, <3>1, <3>2, <3>3 DEF RW!Enter
  <2>4. ASSUME producerPc[p] \in Claimed,
               producerPc' = [Broadcast(producerPc) EXCEPT ![p] = "notifying"]
        PROVE  RW!Complete(p)
    <3>1. Claimant = p
      BY <2>4, ClaimantIs
    <3>2. \A q \in Producers : producerPc'[q] \notin Claimed
      BY <2>4 DEF RunningIsClaim, TypeOK, Claimed, Owning
    <3>3. Claimant' = NoProducer /\ ~GateOwned'
      BY <3>2 DEF Claimant, GateOwned, Claimed
    <3> QED
      BY <2>1, <3>1, <3>3 DEF RW!Complete, GateOwned
  <2>5. CASE BeginProducer(p)
    <3>1. /\ ~status.running
          /\ producerPc' = [Broadcast(producerPc) EXCEPT ![p] = "announcing"]
      BY <2>5 DEF BeginProducer
    <3>2. \A q \in Producers : producerPc[q] \notin Claimed
      BY <3>1 DEF RunningIsClaim
    <3>3. Claimant = NoProducer /\ ~GateOwned
      BY <3>2 DEF Claimant, GateOwned, Claimed
    <3>4. producerPc'[p] = "announcing"
      BY <3>1 DEF TypeOK
    <3>5. Claimant' = p
      BY <3>4, ClaimantWillBe DEF Claimed
    <3>6. ~GateOwned'
      BY <3>1, <3>2 DEF GateOwned, TypeOK, Claimed, Owning
    <3> QED
      BY <2>1, <3>3, <3>5, <3>6 DEF RW!Claim, RW!GateNext, GateOwned
  <2>6. CASE NotifyStarted(p)
    BY <2>2, <2>6 DEF NotifyStarted, TypeOK, Claimed, Owning
  <2>7. CASE EnterWait(p)
    <3>1. CASE editors > 0
      BY <2>2, <2>7, <3>1 DEF EnterWait, TypeOK, Claimed, Owning
    <3>2. CASE editors = 0
      BY <2>3, <2>7, <3>2 DEF EnterWait, Claimed, Owning, RW!GateNext
    <3> QED
      BY <3>1, <3>2 DEF TypeOK
  <2>8. CASE ReturnFromWait(p)
    <3>1. CASE p \in cancelled
      BY <2>4, <2>8, <3>1 DEF ReturnFromWait, Claimed, RW!GateNext
    <3>2. CASE p \notin cancelled /\ editors > 0
      <4>1. /\ producerPc[p] = "woken"
            /\ producerPc' = [producerPc EXCEPT ![p] = "asleep"]
        BY <2>8, <3>2 DEF ReturnFromWait
      <4> QED
        BY <2>2, <4>1 DEF TypeOK, Claimed, Owning
    <3>3. CASE p \notin cancelled /\ editors = 0
      BY <2>3, <2>8, <3>3 DEF ReturnFromWait, Claimed, Owning, RW!GateNext
    <3> QED
      BY <3>1, <3>2, <3>3 DEF TypeOK
  <2>9. CASE NotifyFinished(p)
    BY <2>2, <2>9 DEF NotifyFinished, TypeOK, Claimed, Owning
  <2>10. CASE Produce(p)
    BY <2>2, <2>10 DEF Produce, TypeOK, Claimed, Owning
  <2>11. CASE producerRelease(p)
    BY <2>4, <2>11 DEF producerRelease, Claimed, RW!GateNext
  <2>12. CASE CancelContext(p)
    BY <2>2, <2>12 DEF CancelContext
  <2>13. CASE WakeUp(p)
    BY <2>2, <2>13 DEF WakeUp, TypeOK
  <2> QED
    BY <1>2, <2>5, <2>6, <2>7, <2>8, <2>9, <2>10, <2>11, <2>12, <2>13
    DEF ProducerNext, ProducerStep
<1>3. CASE Drain
  <2>1. Claimant' = Claimant
    BY <1>3, ClaimantSame DEF Drain, TypeOK
  <2> QED
    BY <1>3, <2>1
    DEF Drain, TypeOK, editorVars, InsideSet, GateOwned, RW!gateVars
<1>4. CASE Restart
  <2>1. \A q \in Producers : producerPc'[q] \notin Claimed
    BY <1>4 DEF Restart, Claimed, Owning
  <2>2. Claimant' = NoProducer /\ ~GateOwned'
    BY <2>1 DEF Claimant, GateOwned, Claimed
  <2>3. InsideSet' = {}
    BY <1>4 DEF Restart, InsideSet, Inside
  <2> QED
    BY <2>2, <2>3 DEF RW!Crash, RW!GateNext, GateOwned
<1>5. CASE UNCHANGED vars
  BY <1>5 DEF vars, editorVars, producerVars, InsideSet, Claimant, GateOwned,
    RW!gateVars
<1> QED
  BY <1>1, <1>2, <1>3, <1>4, <1>5 DEF Next

\* gate.go keeps the promise of RWGate: every step of the mutex, condition
\* variable and counters is a step of the abstract gate or none.
THEOREM GateImplements == Spec => GateRefinement
BY RefinementInit, RefinementNext, GateInvariant, PTL
DEF Spec, GateRefinement, RW!GateSpec
=============================================================================
