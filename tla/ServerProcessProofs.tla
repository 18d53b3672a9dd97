------------------------- MODULE ServerProcessProofs -------------------------
(***************************************************************************)
(* Proofs about the end of the server process and about its event stream   *)
(* hub, for any number of streams and users and any queue size.            *)
(***************************************************************************)
EXTENDS ServerProcess, FiniteSetTheorems, TLAPS

Stages == {"serving", "drainGates", "drainWorker", "drainHttp", "cancel", "waitWorker",
           "waitBackup", "waitRequests", "closeDb", "release", "gone", "killed"}

\* What has been waited for by a stage stays so in the stages after it.
ProcInv ==
    /\ stage \in Stages
    /\ consumer = "claiming" => stage \in {"serving", "drainGates", "drainWorker"}
    /\ stage \in {"waitBackup", "waitRequests", "closeDb", "release", "gone"}
           => consumer = "exited"
    /\ stage \in {"waitRequests", "closeDb", "release", "gone"} => scheduler = "exited"
    /\ stage \in {"closeDb", "release", "gone"} => Idle

\* The flags that are read off the stage.
LEMMA FlagsOfStage ==
    ASSUME stage \in Stages
    PROVE  /\ draining <=> stage # "serving"
           /\ backupDraining <=> stage \notin {"serving", "drainGates"}
           /\ workerDraining <=> stage \notin {"serving", "drainGates"}
           /\ Past("drainWorker") <=> stage \notin {"serving", "drainGates", "drainWorker"}
           /\ canceled <=> stage \notin {"serving", "drainGates", "drainWorker",
                                         "drainHttp", "cancel"}
  BY DEF Stages, Rank, Past, draining, backupDraining, workerDraining, canceled

\* Hub actions leave the process alone and start no stream that is off.
LEMMA HubKeepsIdle ==
    ASSUME Idle, HubStep, UNCHANGED <<stage, procVars>>
    PROVE  Idle'
<1>1. ASSUME NEW s \in Streams,
             Add(s) \/ Greet(s) \/ Announce(s) \/ Deliver(s)
                \/ EndStream(s) \/ RemoveClient(s) \/ BroadcastLeft(s)
      PROVE  FALSE
  BY <1>1 DEF Idle, Add, Greet, Announce, Deliver, EndStream, RemoveClient, BroadcastLeft
<1>2. ASSUME NEW u, RevokeUser(u)
      PROVE  FALSE
  BY <1>2 DEF Idle, RevokeUser, Online, Active
<1>3. CASE Change
  BY <1>3 DEF Idle, Change, procVars
<1>4. CASE Broadcast
  BY <1>4 DEF Idle, Broadcast, Sent, Active, procVars
<1> QED
  BY <1>1, <1>2, <1>3, <1>4 DEF HubStep

\* Every step keeps what the shutdown has waited for as it was.
LEMMA ProcInvStep ==
    ASSUME ProcInv, [Next]_vars
    PROVE  ProcInv'
<1>0. stage \in Stages
  BY DEF ProcInv
<1>1. CASE HubStep /\ UNCHANGED <<stage, procVars>>
  BY <1>1, HubKeepsIdle DEF ProcInv, procVars
<1>2. CASE Task
  <2>1. ASSUME NEW s \in Streams, BeginStream(s)
        PROVE  ProcInv'
    BY <1>0, <2>1, FlagsOfStage DEF ProcInv, BeginStream, RequestAdmitted, procVars
  <2>2. CASE BeginRequest
    BY <1>0, <2>2, FlagsOfStage DEF ProcInv, BeginRequest, RequestAdmitted, ProbeAdmitted, Stages
  <2>3. CASE EndRequest
    BY <2>3 DEF ProcInv, EndRequest, Idle, hubVars
  <2>4. CASE BeginOperation
    BY <1>0, <2>4, FlagsOfStage DEF ProcInv, BeginOperation
  <2>5. CASE FinishOperation
    BY <2>5 DEF ProcInv, FinishOperation, Idle, hubVars
  <2>6. CASE StopScheduler
    BY <2>6 DEF ProcInv, StopScheduler, Idle, hubVars
  <2>7. CASE LockAdmission \/ EndClaim \/ EndJob \/ StopConsumer
    BY <2>7 DEF ProcInv, LockAdmission, EndClaim, EndJob, StopConsumer, Idle, hubVars
  <2>8. CASE BeginClaim
    BY <1>0, <2>8, FlagsOfStage DEF ProcInv, BeginClaim, ClaimOrExit, Idle, hubVars
  <2> QED
    BY <1>2, <2>1, <2>2, <2>3, <2>4, <2>5, <2>6, <2>7, <2>8 DEF Task
<1>3. CASE Signal \/ DrainGates \/ DrainWorker \/ DrainHttp \/ WaitWorker \/ WaitBackup
           \/ WaitRequests \/ CloseDb \/ Release
  BY <1>3 DEF ProcInv, Stages, Signal, DrainGates, DrainWorker, DrainHttp, WaitWorker,
              WaitBackup, WaitRequests, CloseDb, Release, Go, HoldsAdmission, Idle,
              hubVars, procVars
<1>4. CASE Cancel
  BY <1>4 DEF ProcInv, Stages, Cancel, Go, procVars
<1>5. CASE Watchdog
  BY <1>5 DEF ProcInv, Stages, Watchdog
<1>6. CASE UNCHANGED vars
  BY <1>6 DEF ProcInv, vars, hubVars, procVars, Idle
<1> QED
  BY <1>1, <1>2, <1>3, <1>4, <1>5, <1>6 DEF Next, Main

\* What the shutdown has waited for stays so.
LEMMA ProcInvAlways == Spec => []ProcInv
<1>1. Init => ProcInv
  BY DEF Init, HubInit, ProcInv, Stages
<1>2. ProcInv /\ [Next]_vars => ProcInv'
  BY ProcInvStep
<1> QED
  BY <1>1, <1>2, PTL DEF Spec

\* Once Worker.Drain has returned no Scan or Claim runs any more.
THEOREM NoClaimAfterDrainHolds == Spec => []NoClaimAfterDrain
<1>1. ProcInv => NoClaimAfterDrain
  BY FlagsOfStage DEF ProcInv, NoClaimAfterDrain
<1> QED
  BY <1>1, ProcInvAlways, PTL

\* When SQLite is closed every handler, stream, probe, backup and worker that the
\* shutdown keeps track of has returned, and none starts afterwards (RunShutdown
\* and the deferred closes).
THEOREM NothingAfterCloseHolds == Spec => []NothingAfterClose
<1>1. ProcInv => NothingAfterClose
  BY DEF ProcInv, NothingAfterClose, dbClosed
<1> QED
  BY <1>1, ProcInvAlways, PTL

-----------------------------------------------------------------------------
(* The hub.  A queue that is full loses its client, never a message, and a *)
(* client reads its snapshot after it can be sent to.                      *)

Client == [at : {"off", "begun", "added", "greeted", "open", "leaving", "left"},
           first : BOOLEAN, done : BOOLEAN, queue : Seq(Nat), seen : Nat]

HubType ==
    /\ stream \in [Streams -> Client]
    /\ hubClosed \in BOOLEAN
    /\ version \in Nat /\ told \in Nat /\ told <= version

\* Client c knows of version v, or will be told of it.
Knows(c, v) ==
    c.at \in {"greeted", "open"} /\ ~c.done =>
        v <= c.seen \/ \E i \in DOMAIN c.queue : c.queue[i] = v

HubInv == HubType /\ \A s \in Streams : Knows(stream[s], told)

\* The stream that is not there has its type.
LEMMA NoStreamIsClient == NoStream \in Client
  BY DEF NoStream, Client

\* A disconnected stream stays where it is, and is done.
LEMMA DisconnectedIsClient ==
    ASSUME NEW c \in Client
    PROVE  /\ Disconnected(c) \in Client
           /\ Disconnected(c).at = c.at /\ Disconnected(c).done
<1>1. <<>> \in Seq(Nat)
  OBVIOUS
<1> QED
  BY <1>1 DEF Disconnected, Client

\* A message sent to a client adds to what it knows.
LEMMA EnqueuedKnows ==
    ASSUME NEW c \in Client, NEW m \in Nat
    PROVE  /\ Enqueued(c, m) \in Client
           /\ Enqueued(c, m).at = c.at
           /\ Knows(Enqueued(c, m), m)
           /\ \A v \in Nat : Knows(c, v) => Knows(Enqueued(c, m), v)
<1>1. CASE Len(c.queue) < QueueSize
  <2> DEFINE q == Append(c.queue, m)
  <2>1. Enqueued(c, m) = [c EXCEPT !.queue = q]
    BY <1>1 DEF Enqueued
  <2>2. /\ q \in Seq(Nat)
        /\ q[Len(c.queue) + 1] = m /\ Len(c.queue) + 1 \in DOMAIN q
        /\ \A i \in DOMAIN c.queue : i \in DOMAIN q /\ q[i] = c.queue[i]
    BY DEF Client
  <2> HIDE DEF q
  <2>3. Knows(Enqueued(c, m), m)
    BY <2>1, <2>2 DEF Knows, Client
  <2>4. \A v \in Nat : Knows(c, v) => Knows(Enqueued(c, m), v)
    BY <2>1, <2>2 DEF Knows, Client
  <2> QED
    BY <2>1, <2>2, <2>3, <2>4 DEF Client
<1>2. CASE ~(Len(c.queue) < QueueSize)
  <2>1. Enqueued(c, m) = Disconnected(c)
    BY <1>2 DEF Enqueued
  <2> QED
    BY <2>1, DisconnectedIsClient DEF Knows
<1> QED
  BY <1>1, <1>2

\* So does a message sent to several of them.
LEMMA SentKnows ==
    ASSUME HubInv, NEW m \in Nat, NEW to
    PROVE  /\ Sent(m, to) \in [Streams -> Client]
           /\ \A s \in Streams : Sent(m, to)[s].at = stream[s].at
           /\ \A s \in Streams : Knows(Sent(m, to)[s], told)
           /\ \A s \in Streams : Active(s) /\ s \in to => Knows(Sent(m, to)[s], m)
<1> SUFFICES ASSUME NEW s \in Streams
             PROVE  LET c == Sent(m, to)[s]
                    IN  /\ c \in Client /\ c.at = stream[s].at /\ Knows(c, told)
                        /\ Active(s) /\ s \in to => Knows(c, m)
  BY DEF Sent
<1>1. stream[s] \in Client /\ told \in Nat /\ Knows(stream[s], told)
  BY DEF HubInv, HubType
<1>2. Sent(m, to)[s] = IF Active(s) /\ s \in to THEN Enqueued(stream[s], m) ELSE stream[s]
  BY DEF Sent
<1> QED
  BY <1>1, <1>2, EnqueuedKnows

\* Changing a client in a way that it still knows what was broadcast.
LEMMA OneClient ==
    ASSUME HubInv, NEW s \in Streams, NEW c \in Client, Knows(c, told),
           stream' = [stream EXCEPT ![s] = c], UNCHANGED <<hubClosed, version, told>>
    PROVE  HubInv'
  BY DEF HubInv, HubType

\* Every step of the hub keeps its clients informed.
LEMMA HubInvStep ==
    ASSUME HubInv, HubStep
    PROVE  HubInv'
<1> USE DEF HubInv, HubType
<1>1. ASSUME NEW s \in Streams, Add(s) PROVE HubInv'
  <2> DEFINE c == stream'[s]
  <2>1. stream' = [stream EXCEPT ![s] = c] /\ UNCHANGED <<hubClosed, version, told>>
    BY <1>1 DEF Add
  <2>2. c \in Client /\ c.at \in {"off", "added"}
    BY <1>1, NoStreamIsClient DEF Add, Client, NoStream
  <2>3. Knows(c, told)
    BY <2>2 DEF Knows
  <2> QED
    BY <2>1, <2>2, <2>3, OneClient
<1>2. ASSUME NEW s \in Streams, Greet(s) PROVE HubInv'
  <2> DEFINE c == [stream[s] EXCEPT !.at = "greeted",
                                    !.seen = IF stream[s].done THEN 0 ELSE version]
  <2>1. stream' = [stream EXCEPT ![s] = c] /\ UNCHANGED <<hubClosed, version, told>>
    BY <1>2 DEF Greet, Client
  <2>2. c \in Client /\ Knows(c, told)
    BY DEF Knows, Client
  <2> HIDE DEF c
  <2> QED
    BY <2>1, <2>2, OneClient
<1>3. ASSUME NEW s \in Streams, Announce(s) PROVE HubInv'
  <2> DEFINE t == IF stream[s].first /\ ~hubClosed THEN Sent(0, Streams \ {s}) ELSE stream
             c == [t[s] EXCEPT !.at = "open", !.first = FALSE]
  <2>1. /\ t \in [Streams -> Client] /\ \A r \in Streams : Knows(t[r], told)
        /\ t[s].at = "greeted"
    BY <1>3, SentKnows DEF Announce
  <2> HIDE DEF t
  <2>2. stream' = [t EXCEPT ![s] = c] /\ UNCHANGED <<hubClosed, version, told>>
    BY <1>3, <2>1 DEF Announce, t, Client
  <2>3. c \in Client /\ Knows(c, told)
    BY <2>1 DEF Knows, Client
  <2> HIDE DEF c
  <2> QED
    BY <2>1, <2>2, <2>3
<1>4. ASSUME NEW s \in Streams, Deliver(s) PROVE HubInv'
  <2> DEFINE q == stream[s].queue
             c == [stream[s] EXCEPT !.queue = Tail(q),
                                    !.seen = IF Head(q) > @ THEN Head(q) ELSE @]
  <2>1. stream' = [stream EXCEPT ![s] = c] /\ UNCHANGED <<hubClosed, version, told>>
    BY <1>4 DEF Deliver, Client
  <2>2. /\ q \in Seq(Nat) /\ q # <<>>
        /\ Head(q) = q[1] /\ Head(q) \in Nat /\ Tail(q) \in Seq(Nat)
        /\ \A i \in DOMAIN q : i # 1 => i - 1 \in DOMAIN Tail(q) /\ Tail(q)[i - 1] = q[i]
    BY <1>4 DEF Deliver, Client
  <2>3. q = stream[s].queue /\ stream[s] \in Client
    OBVIOUS
  <2> HIDE DEF q
  <2>4. /\ c \in Client /\ c.queue = Tail(q) /\ c.at = stream[s].at /\ c.done = stream[s].done
        /\ stream[s].seen <= c.seen /\ Head(q) <= c.seen
    <3> DEFINE h == Head(q)
               t == Tail(q)
               n == IF h > stream[s].seen THEN h ELSE stream[s].seen
    <3>1. h \in Nat /\ t \in Seq(Nat) /\ stream[s].seen \in Nat
      BY <2>2, <2>3 DEF Client
    <3>2. n \in Nat /\ stream[s].seen <= n /\ h <= n
      BY <3>1
    <3>3. c = [stream[s] EXCEPT !.queue = t, !.seen = n]
      BY <2>3 DEF Client
    <3> HIDE DEF h, t, n, c
    <3> QED
      BY <2>3, <3>1, <3>2, <3>3 DEF Client, h, t
  <2> HIDE DEF c
  <2>5. Knows(stream[s], told) /\ told \in Nat
    OBVIOUS
  <2>6. Knows(c, told)
    <3> SUFFICES ASSUME c.at \in {"greeted", "open"}, ~c.done
                 PROVE  told <= c.seen \/ \E i \in DOMAIN c.queue : c.queue[i] = told
      BY DEF Knows
    <3>1. CASE told <= stream[s].seen
      BY <2>3, <2>4, <2>5, <3>1 DEF Client
    <3>2. ASSUME NEW i \in DOMAIN q, q[i] = told
          PROVE  told <= c.seen \/ \E j \in DOMAIN c.queue : c.queue[j] = told
      <4>1. CASE i = 1
        BY <2>2, <2>4, <3>2, <4>1
      <4>2. CASE i # 1
        <5>1. i - 1 \in DOMAIN Tail(q) /\ Tail(q)[i - 1] = told
          BY <2>2, <3>2, <4>2
        <5> QED
          BY <2>4, <5>1
      <4> QED
        BY <4>1, <4>2
    <3> QED
      BY <2>3, <2>4, <2>5, <3>1, <3>2 DEF Knows
  <2> QED
    BY <2>1, <2>4, <2>6, OneClient
<1>5. ASSUME NEW s \in Streams, EndStream(s) \/ RemoveClient(s) PROVE HubInv'
  <2> DEFINE c == stream'[s]
  <2>1. stream' = [stream EXCEPT ![s] = c] /\ UNCHANGED <<hubClosed, version, told>>
    BY <1>5 DEF EndStream, RemoveClient
  <2>2. c \in Client /\ c.at \in {"off", "leaving", "left"}
    <3>1. CASE EndStream(s)
      <4>1. c = [NoStream EXCEPT !.at = "leaving", !.done = stream[s].done]
        BY <3>1 DEF EndStream
      <4> QED
        BY <4>1, NoStreamIsClient DEF Client
    <3>2. CASE RemoveClient(s)
      <4>1. \E p \in {"off", "left"} : c = [NoStream EXCEPT !.at = p]
        BY <3>2 DEF RemoveClient
      <4> QED
        BY <4>1, NoStreamIsClient DEF Client
    <3> QED
      BY <1>5, <3>1, <3>2
  <2>3. Knows(c, told)
    BY <2>2 DEF Knows
  <2> QED
    BY <2>1, <2>2, <2>3, OneClient
<1>6. ASSUME NEW s \in Streams, BroadcastLeft(s) PROVE HubInv'
  <2> DEFINE t == Sent(0, Streams)
             c == [t[s] EXCEPT !.at = "off"]
  <2>1. t \in [Streams -> Client] /\ \A r \in Streams : Knows(t[r], told)
    BY SentKnows
  <2>2. stream' = [t EXCEPT ![s] = c] /\ UNCHANGED <<hubClosed, version, told>>
    BY <1>6 DEF BroadcastLeft
  <2> HIDE DEF t
  <2>3. c \in Client /\ Knows(c, told)
    BY <2>1 DEF Knows, Client
  <2> HIDE DEF c
  <2> QED
    BY <2>1, <2>2, <2>3
<1>7. ASSUME NEW u, RevokeUser(u) PROVE HubInv'
  <2>1. ASSUME NEW s \in Streams
        PROVE  stream'[s] \in Client /\ Knows(stream'[s], told)
    <3>1. Disconnected(stream[s]) \in Client /\ Disconnected(stream[s]).done
      BY DisconnectedIsClient
    <3> QED
      BY <1>7, <3>1 DEF RevokeUser, Knows
  <2> QED
    BY <1>7, <2>1 DEF RevokeUser
<1>8. CASE Change
  BY <1>8 DEF Change
<1>9. CASE Broadcast
  <2>1. told + 1 \in Nat /\ stream' = Sent(told + 1, Streams) /\ told' = told + 1
        /\ told' <= version /\ UNCHANGED <<hubClosed, version>>
    BY <1>9 DEF Broadcast
  <2>2. ASSUME NEW s \in Streams
        PROVE  stream'[s] \in Client /\ Knows(stream'[s], told')
    <3>1. CASE Active(s)
      BY <2>1, <3>1, SentKnows
    <3>2. CASE ~Active(s)
      BY <2>1, <3>2 DEF Sent, Active, Knows
    <3> QED
      BY <3>1, <3>2
  <2> QED
    BY <2>1, <2>2, SentKnows
<1> QED
  BY <1>1, <1>2, <1>3, <1>4, <1>5, <1>6, <1>7, <1>8, <1>9 DEF HubStep

\* The clients of the hub are always informed.
LEMMA HubInvAlways == Spec => []HubInv
<1>1. Init => HubInv
  <2>1. Knows(NoStream, 0)
    BY DEF Knows, NoStream
  <2> SUFFICES ASSUME Init PROVE HubInv
    OBVIOUS
  <2>2. HubType
    <3>1. stream \in [Streams -> Client]
      BY NoStreamIsClient DEF Init, HubInit
    <3>2. hubClosed \in BOOLEAN
      BY DEF Init, HubInit
    <3> QED
      BY <3>1, <3>2 DEF Init, HubInit, HubType
  <2> QED
    BY <2>1, <2>2 DEF Init, HubInit, HubInv
<1>2. HubInv /\ [Next]_vars => HubInv'
  <2> SUFFICES ASSUME HubInv, [Next]_vars PROVE HubInv'
    OBVIOUS
  <2>1. CASE HubStep
    BY <2>1, HubInvStep
  <2>2. ASSUME NEW s \in Streams, BeginStream(s) PROVE HubInv'
    <3> DEFINE c == [stream[s] EXCEPT !.at = "begun"]
    <3>1. stream' = [stream EXCEPT ![s] = c] /\ UNCHANGED <<hubClosed, version, told>>
      BY <2>2 DEF BeginStream
    <3>2. c \in Client /\ Knows(c, told)
      BY DEF HubInv, HubType, Client, Knows
    <3> QED
      BY <3>1, <3>2, OneClient
  <2>3. CASE Cancel
    <3>1. ASSUME NEW s \in Streams
          PROVE  stream'[s] \in Client /\ Knows(stream'[s], told)
      <4>1. Disconnected(stream[s]) \in Client /\ Disconnected(stream[s]).done
        BY DisconnectedIsClient DEF HubInv, HubType
      <4> QED
        BY <2>3, <4>1 DEF HubInv, HubType, Cancel, CloseHub, Knows
    <3> QED
      BY <2>3, <3>1 DEF HubInv, HubType, Cancel, CloseHub
  <2>4. CASE Watchdog
    BY <2>4, NoStreamIsClient DEF Watchdog, HubInv, HubType, Knows, NoStream
  <2>5. CASE UNCHANGED hubVars
    BY <2>5 DEF HubInv, HubType, hubVars
  <2> QED
    BY <2>1, <2>2, <2>3, <2>4, <2>5
       DEF Next, Task, Main, vars, BeginRequest, EndRequest, BeginOperation, FinishOperation,
           StopScheduler, LockAdmission, BeginClaim, EndClaim, EndJob, StopConsumer, Signal,
           DrainGates, DrainWorker, DrainHttp, WaitWorker, WaitBackup, WaitRequests,
           CloseDb, Release
<1> QED
  BY <1>1, <1>2, PTL DEF Spec

\* A stream that is up has seen the last change broadcast or has it in its
\* queue, whatever the size of the queues and the number of streams: Broadcast
\* disconnects a slow client and never skips it.
THEOREM CaughtUpHolds == Spec => []CaughtUp
<1>1. HubInv => CaughtUp
  BY DEF HubInv, CaughtUp, Knows, Active
<1> QED
  BY <1>1, HubInvAlways, PTL

-----------------------------------------------------------------------------
(* Types.  No queue outgrows its size, no message and no snapshot is ahead *)
(* of the state, and no user has more streams in the map than allowed:     *)
(* addWithAbort counts and adds in one step.                               *)

Live(c) == c.at \in {"added", "greeted", "open", "leaving"} /\ ~c.done

Bounded(c, v) ==
    /\ Len(c.queue) <= QueueSize
    /\ c.seen <= v
    /\ \A i \in DOMAIN c.queue : c.queue[i] <= v

Peers(s) == {t \in Streams : Active(t) /\ UserOf[t] = UserOf[s]}

PeersCapped ==
    \A s \in Streams : IsFiniteSet(Peers(s)) /\ Cardinality(Peers(s)) <= PerUser

ProcType ==
    /\ stage \in Stages
    /\ request \in {"off", "active", "probe", "backup"}
    /\ scheduler \in {"idle", "backup", "exited"}
    /\ ~(request = "backup" /\ scheduler = "backup")
    /\ consumer \in {"idle", "locked", "claiming", "running", "exited"}

TypeInv ==
    /\ version \in 0..MaxVersion
    /\ \A s \in Streams : Bounded(stream[s], version)
    /\ PeersCapped
    /\ ProcType

\* An empty queue is within its bound.
LEMMA NoStreamBounded ==
    ASSUME NEW v \in Nat, NEW c, c.queue = <<>>, c.seen = 0
    PROVE  Bounded(c, v)
<1>1. Len(<<>>) = 0 /\ DOMAIN <<>> = {}
  OBVIOUS
<1> QED
  BY <1>1, HubAssumption DEF Bounded

\* A disconnected stream has an empty queue.
LEMMA DisconnectedBounded ==
    ASSUME NEW c \in Client, NEW v \in Nat
    PROVE  Bounded(Disconnected(c), v) /\ ~Live(Disconnected(c))
<1>1. Disconnected(c).queue = <<>> /\ Disconnected(c).seen = 0 /\ Disconnected(c).done
  BY DEF Disconnected, Client
<1> QED
  BY <1>1, NoStreamBounded DEF Live

\* A full queue disconnects its stream and is never exceeded.
LEMMA EnqueuedBounded ==
    ASSUME NEW c \in Client, NEW v \in Nat, NEW m \in 0..v, Bounded(c, v)
    PROVE  /\ Bounded(Enqueued(c, m), v)
           /\ Live(Enqueued(c, m)) => Live(c)
<1>1. CASE Len(c.queue) < QueueSize
  <2> DEFINE q == Append(c.queue, m)
  <2>1. Enqueued(c, m) = [c EXCEPT !.queue = q]
    BY <1>1 DEF Enqueued
  <2>2. c.queue \in Seq(Nat) /\ m \in Nat /\ Len(c.queue) \in Nat
    BY DEF Client
  <2>3. /\ Len(q) = Len(c.queue) + 1
        /\ DOMAIN q = 1..Len(q) /\ DOMAIN c.queue = 1..Len(c.queue)
        /\ q[Len(c.queue) + 1] = m
        /\ \A i \in 1..Len(c.queue) : q[i] = c.queue[i]
    BY <2>2
  <2> HIDE DEF q
  <2>4. \A i \in DOMAIN q : i \in DOMAIN c.queue \/ i = Len(c.queue) + 1
    BY <2>2, <2>3
  <2>5. \A i \in DOMAIN q : q[i] <= v
    BY <2>3, <2>4 DEF Bounded
  <2>6. Len(q) <= QueueSize
    BY <1>1, <2>2, <2>3, HubAssumption
  <2>7. LET d == [c EXCEPT !.queue = q]
        IN  d.queue = q /\ d.seen = c.seen /\ d.at = c.at /\ d.done = c.done
    BY DEF Client
  <2> QED
    BY <2>1, <2>5, <2>6, <2>7 DEF Bounded, Live
<1>2. CASE ~(Len(c.queue) < QueueSize)
  BY <1>2, DisconnectedBounded DEF Enqueued
<1> QED
  BY <1>1, <1>2

\* A broadcast keeps every queue within its bound.
LEMMA SentBounded ==
    ASSUME HubInv, NEW v \in Nat, NEW m \in 0..v, NEW to,
           \A s \in Streams : Bounded(stream[s], v)
    PROVE  \A s \in Streams : /\ Bounded(Sent(m, to)[s], v)
                              /\ Live(Sent(m, to)[s]) => Live(stream[s])
<1> TAKE s \in Streams
<1>1. stream[s] \in Client /\ Bounded(stream[s], v)
  BY DEF HubInv, HubType
<1>2. Sent(m, to)[s] = IF Active(s) /\ s \in to THEN Enqueued(stream[s], m) ELSE stream[s]
  BY DEF Sent
<1> QED
  BY <1>1, <1>2, EnqueuedBounded

\* Where nobody comes into the map the limit per user is kept.
LEMMA NobodyAdded ==
    ASSUME PeersCapped, \A s \in Streams : Live(stream'[s]) => Live(stream[s])
    PROVE  PeersCapped'
<1> SUFFICES ASSUME NEW s \in Streams
             PROVE  IsFiniteSet(Peers(s)') /\ Cardinality(Peers(s)') <= PerUser
  BY DEF PeersCapped
<1>1. Peers(s)' \subseteq Peers(s)
  BY DEF Peers, Active, Live
<1>2. IsFiniteSet(Peers(s)) /\ Cardinality(Peers(s)) <= PerUser
  BY DEF PeersCapped
<1>3. /\ IsFiniteSet(Peers(s)') /\ Cardinality(Peers(s)') <= Cardinality(Peers(s))
      /\ Cardinality(Peers(s)') \in Nat /\ Cardinality(Peers(s)) \in Nat
  BY <1>1, <1>2, FS_Subset, FS_CardinalityType
<1> QED
  BY <1>2, <1>3, HubAssumption

\* addWithAbort adds a stream only below the limit.
LEMMA OneAdded ==
    ASSUME HubInv, PeersCapped, NEW s \in Streams, Add(s)
    PROVE  PeersCapped'
<1>1. stream[s].at = "begun" /\ \A t \in Streams : t # s => stream'[t] = stream[t]
  BY DEF Add, HubInv, HubType
<1>2. CASE ~Live(stream'[s])
  <2>1. \A t \in Streams : Live(stream'[t]) => Live(stream[t])
    BY <1>1, <1>2
  <2> QED
    BY <2>1, NobodyAdded
<1>3. CASE Live(stream'[s])
  <2>1. ~(hubClosed \/ Cardinality(Peers(s)) >= PerUser)
    <3> SUFFICES ASSUME hubClosed \/ Cardinality(Peers(s)) >= PerUser PROVE FALSE
      OBVIOUS
    <3>1. stream'[s] = NoStream
      BY DEF Add, Peers, HubInv, HubType
    <3> QED
      BY <1>3, <3>1 DEF Live, NoStream
  <2>2. ~Active(s) /\ s \notin Peers(s)
    BY <1>1 DEF Active, Peers
  <2> SUFFICES ASSUME NEW r \in Streams
               PROVE  IsFiniteSet(Peers(r)') /\ Cardinality(Peers(r)') <= PerUser
    BY DEF PeersCapped
  <2>3. \A t \in Streams : t # s => (Active(t)' <=> Active(t))
    BY <1>1 DEF Active
  <2>4. IsFiniteSet(Peers(r)) /\ Cardinality(Peers(r)) <= PerUser
        /\ Cardinality(Peers(r)) \in Nat
    BY FS_CardinalityType DEF PeersCapped
  <2>5. CASE UserOf[r] = UserOf[s]
    <3>1. Peers(r) = Peers(s)
      BY <2>5 DEF Peers
    <3>2. Peers(r)' \subseteq Peers(r) \cup {s}
      BY <2>3 DEF Peers
    <3>3. /\ IsFiniteSet(Peers(r) \cup {s})
          /\ Cardinality(Peers(r) \cup {s}) = Cardinality(Peers(r)) + 1
      BY <2>2, <2>4, <3>1, FS_AddElement
    <3>4. /\ IsFiniteSet(Peers(r)') /\ Cardinality(Peers(r)') \in Nat
          /\ Cardinality(Peers(r)') <= Cardinality(Peers(r) \cup {s})
      BY <3>2, <3>3, FS_Subset, FS_CardinalityType
    <3> QED
      BY <2>1, <2>4, <3>1, <3>3, <3>4, HubAssumption
  <2>6. CASE UserOf[r] # UserOf[s]
    <3>1. Peers(r)' \subseteq Peers(r)
      BY <2>3, <2>6 DEF Peers
    <3>2. /\ IsFiniteSet(Peers(r)') /\ Cardinality(Peers(r)') \in Nat
          /\ Cardinality(Peers(r)') <= Cardinality(Peers(r))
      BY <2>4, <3>1, FS_Subset, FS_CardinalityType
    <3> QED
      BY <2>4, <3>2, HubAssumption
  <2> QED
    BY <2>5, <2>6
<1> QED
  BY <1>2, <1>3

\* Every step of the hub but addWithAbort brings nobody into the map, and all
\* of them keep the clients bounded.
LEMMA HubStepBounds ==
    ASSUME HubInv, HubStep, version \in 0..MaxVersion,
           \A s \in Streams : Bounded(stream[s], version)
    PROVE  /\ version' \in 0..MaxVersion
           /\ \A s \in Streams : Bounded(stream'[s], version')
           /\ (\A s \in Streams : Live(stream'[s]) => Live(stream[s]))
                \/ \E s \in Streams : Add(s)
<1>0. /\ stream \in [Streams -> Client] /\ version \in Nat /\ told \in Nat /\ told <= version
      /\ MaxVersion \in Nat
  BY HubAssumption DEF HubInv, HubType
<1> DEFINE Fine(s) == Bounded(stream'[s], version)
           Quiet(s) == Live(stream'[s]) => Live(stream[s])
<1>1. ASSUME NEW s \in Streams, NEW c, stream' = [stream EXCEPT ![s] = c],
             UNCHANGED version, Bounded(c, version), Live(c) => Live(stream[s])
      PROVE  \A t \in Streams : Fine(t) /\ Quiet(t)
  <2>1. stream'[s] = c /\ \A t \in Streams : t # s => stream'[t] = stream[t]
    BY <1>0, <1>1
  <2> QED
    BY <1>1, <2>1
<1>2. ASSUME NEW s \in Streams, Add(s)
      PROVE  UNCHANGED version /\ \A t \in Streams : Fine(t)
  <2>1. /\ \A t \in Streams : t # s => stream'[t] = stream[t]
        /\ stream'[s].queue = <<>> /\ stream'[s].seen = 0
    BY <1>0, <1>2 DEF Add, NoStream
  <2>2. Fine(s)
    BY <1>0, <2>1, NoStreamBounded
  <2> QED
    BY <1>2, <2>1, <2>2 DEF Add
<1>3. ASSUME NEW s \in Streams, Greet(s)
      PROVE  UNCHANGED version /\ \A t \in Streams : Fine(t) /\ Quiet(t)
  <2> DEFINE v == IF stream[s].done THEN 0 ELSE version
             c == [stream[s] EXCEPT !.at = "greeted", !.seen = v]
  <2>1. stream' = [stream EXCEPT ![s] = c] /\ UNCHANGED version
    BY <1>0, <1>3 DEF Greet, Client
  <2>2. v \in Nat /\ v <= version
    BY <1>0
  <2> HIDE DEF v
  <2>3. c.queue = stream[s].queue /\ c.seen = v /\ c.at = "greeted" /\ c.done = stream[s].done
    BY <1>0 DEF Client
  <2> HIDE DEF c
  <2>4. Bounded(c, version) /\ (Live(c) => Live(stream[s]))
    BY <1>3, <2>2, <2>3 DEF Bounded, Live, Greet
  <2> QED
    BY <1>1, <2>1, <2>4
<1>4. ASSUME NEW s \in Streams, Announce(s)
      PROVE  UNCHANGED version /\ \A t \in Streams : Fine(t) /\ Quiet(t)
  <2> DEFINE m == IF stream[s].first /\ ~hubClosed THEN Sent(0, Streams \ {s}) ELSE stream
             c == [m[s] EXCEPT !.at = "open", !.first = FALSE]
  <2>1. /\ m \in [Streams -> Client]
        /\ \A t \in Streams : Bounded(m[t], version) /\ (Live(m[t]) => Live(stream[t]))
        /\ m[s].at = "greeted"
    <3>1. 0 \in 0..version
      BY <1>0
    <3> QED
      BY <1>0, <1>4, <3>1, SentKnows, SentBounded DEF Announce
  <2> HIDE DEF m
  <2>2. stream' = [m EXCEPT ![s] = c] /\ UNCHANGED version
    BY <1>4, <2>1 DEF Announce, m, Client
  <2>3. c.queue = m[s].queue /\ c.seen = m[s].seen /\ c.at = "open" /\ c.done = m[s].done
    BY <2>1 DEF Client
  <2> HIDE DEF c
  <2>4. Bounded(c, version) /\ (Live(c) => Live(m[s]))
    BY <2>1, <2>3 DEF Bounded, Live
  <2>5. stream'[s] = c /\ \A t \in Streams : t # s => stream'[t] = m[t]
    BY <2>1, <2>2
  <2> QED
    BY <2>1, <2>2, <2>4, <2>5
<1>5. ASSUME NEW s \in Streams, Deliver(s)
      PROVE  UNCHANGED version /\ \A t \in Streams : Fine(t) /\ Quiet(t)
  <2> DEFINE q == stream[s].queue
             n == IF Head(q) > stream[s].seen THEN Head(q) ELSE stream[s].seen
             r == Tail(q)
             c == [stream[s] EXCEPT !.queue = r, !.seen = n]
  <2>1. stream' = [stream EXCEPT ![s] = c] /\ UNCHANGED version
    BY <1>0, <1>5 DEF Deliver, Client
  <2>2. q \in Seq(Nat) /\ q # <<>> /\ stream[s] \in Client
    BY <1>0, <1>5 DEF Deliver, Client
  <2>3. /\ Head(q) = q[1] /\ q[1] \in Nat /\ Len(r) = Len(q) - 1 /\ r \in Seq(Nat)
        /\ Len(q) \in Nat /\ Len(q) >= 1 /\ DOMAIN r = 1..(Len(q) - 1)
        /\ \A i \in 1..(Len(q) - 1) : r[i] = q[i + 1]
    BY <2>2
  <2>4. /\ Len(q) <= QueueSize
        /\ \A i \in 1..Len(q) : q[i] <= version
        /\ stream[s].seen <= version /\ stream[s].seen \in Nat
    BY <1>0, <2>2 DEF Bounded, Client
  <2> HIDE DEF q
  <2>5. n \in Nat /\ n <= version
    BY <1>0, <2>3, <2>4
  <2>6. Len(r) <= QueueSize /\ \A i \in DOMAIN r : r[i] <= version
    BY <2>3, <2>4, HubAssumption
  <2> HIDE DEF n, r
  <2>7. c.queue = r /\ c.seen = n /\ c.at = stream[s].at /\ c.done = stream[s].done
    BY <2>2 DEF Client
  <2> HIDE DEF c
  <2>8. Bounded(c, version) /\ (Live(c) => Live(stream[s]))
    BY <2>5, <2>6, <2>7 DEF Bounded, Live
  <2> QED
    BY <1>1, <2>1, <2>8
<1>6. ASSUME NEW s \in Streams, EndStream(s) \/ RemoveClient(s)
      PROVE  UNCHANGED version /\ \A t \in Streams : Fine(t) /\ Quiet(t)
  <2> DEFINE c == stream'[s]
  <2>1. stream' = [stream EXCEPT ![s] = c] /\ UNCHANGED version
    BY <1>6 DEF EndStream, RemoveClient
  <2>2. c.queue = <<>> /\ c.seen = 0 /\ (Live(c) => Live(stream[s]))
    <3>1. CASE EndStream(s)
      <4>1. c = [NoStream EXCEPT !.at = "leaving", !.done = stream[s].done]
        BY <1>0, <3>1 DEF EndStream
      <4>2. stream[s].at \in {"added", "greeted", "open"}
        BY <3>1 DEF EndStream
      <4> QED
        BY <4>1, <4>2 DEF NoStream, Live
    <3>2. CASE RemoveClient(s)
      <4>1. \E p \in {"off", "left"} : c = [NoStream EXCEPT !.at = p]
        BY <1>0, <3>2 DEF RemoveClient
      <4> QED
        BY <4>1 DEF NoStream, Live
    <3> QED
      BY <1>6, <3>1, <3>2
  <2>3. Bounded(c, version)
    BY <1>0, <2>2, NoStreamBounded
  <2> QED
    BY <1>1, <2>1, <2>2, <2>3
<1>7. ASSUME NEW s \in Streams, BroadcastLeft(s)
      PROVE  UNCHANGED version /\ \A t \in Streams : Fine(t) /\ Quiet(t)
  <2> DEFINE m == Sent(0, Streams)
             c == [m[s] EXCEPT !.at = "off"]
  <2>1. /\ m \in [Streams -> Client]
        /\ \A t \in Streams : Bounded(m[t], version) /\ (Live(m[t]) => Live(stream[t]))
    <3>1. 0 \in 0..version
      BY <1>0
    <3> QED
      BY <1>0, <3>1, SentKnows, SentBounded
  <2>2. stream' = [m EXCEPT ![s] = c] /\ UNCHANGED version
    BY <1>7 DEF BroadcastLeft
  <2> HIDE DEF m
  <2>3. c.queue = m[s].queue /\ c.seen = m[s].seen /\ c.at = "off"
    BY <2>1 DEF Client
  <2> HIDE DEF c
  <2>4. Bounded(c, version) /\ ~Live(c)
    BY <2>1, <2>3 DEF Bounded, Live
  <2>5. stream'[s] = c /\ \A t \in Streams : t # s => stream'[t] = m[t]
    BY <2>1, <2>2
  <2> QED
    BY <2>1, <2>2, <2>4, <2>5
<1>8. ASSUME NEW u, RevokeUser(u)
      PROVE  UNCHANGED version /\ \A t \in Streams : Fine(t) /\ Quiet(t)
  <2> SUFFICES ASSUME NEW t \in Streams PROVE Fine(t) /\ Quiet(t)
    BY <1>8 DEF RevokeUser
  <2>1. stream'[t] = Disconnected(stream[t]) \/ stream'[t] = stream[t]
    BY <1>8 DEF RevokeUser
  <2> QED
    BY <1>0, <2>1, DisconnectedBounded
<1>9. CASE Change
  <2>1. version' = version + 1 /\ version' \in 0..MaxVersion /\ stream' = stream
    BY <1>0, <1>9 DEF Change
  <2>2. ASSUME NEW t \in Streams PROVE Bounded(stream[t], version + 1)
    <3>1. stream[t] \in Client /\ Bounded(stream[t], version)
      BY <1>0
    <3>2. stream[t].seen \in Nat /\ \A i \in DOMAIN stream[t].queue : stream[t].queue[i] \in Nat
      BY <3>1 DEF Client
    <3> QED
      BY <1>0, <3>1, <3>2 DEF Bounded
  <2> QED
    BY <2>1, <2>2
<1>10. CASE Broadcast
  <2>1. told + 1 \in 0..version /\ stream' = Sent(told + 1, Streams) /\ UNCHANGED version
    BY <1>0, <1>10 DEF Broadcast
  <2> QED
    BY <1>0, <2>1, SentBounded
<1> QED
  BY <1>2, <1>3, <1>4, <1>5, <1>6, <1>7, <1>8, <1>9, <1>10 DEF HubStep

\* Every step of the shutdown keeps the types.
LEMMA ProcTypeStep ==
    ASSUME ProcInv, ProcType, [Next]_vars
    PROVE  ProcType'
<1>0. stage \in Stages /\ stage' \in Stages
  BY ProcInvStep DEF ProcInv
<1>1. CASE Task
  BY <1>0, <1>1 DEF ProcType, Task, BeginStream, BeginRequest, EndRequest, BeginOperation,
     FinishOperation, StopScheduler, LockAdmission, BeginClaim, EndClaim, EndJob,
     StopConsumer, ClaimOrExit, Running, procVars
<1>2. CASE UNCHANGED procVars
  BY <1>0, <1>2 DEF ProcType, procVars
<1>3. CASE Watchdog
  BY <1>0, <1>3 DEF ProcType, Watchdog
<1> QED
  BY <1>1, <1>2, <1>3 DEF Next, Main, vars, Signal, DrainGates, DrainWorker, DrainHttp,
     Cancel, WaitWorker, WaitBackup, WaitRequests, CloseDb, Release

\* Every step keeps the types and the bounds of the queues.
LEMMA TypeInvStep ==
    ASSUME HubInv, ProcInv, TypeInv, [Next]_vars
    PROVE  TypeInv'
<1>1. ProcType'
  BY ProcTypeStep DEF TypeInv
<1>2. CASE HubStep
  <2>1. /\ version' \in 0..MaxVersion
        /\ \A s \in Streams : Bounded(stream'[s], version')
        /\ (\A s \in Streams : Live(stream'[s]) => Live(stream[s]))
             \/ \E s \in Streams : Add(s)
    BY <1>2, HubStepBounds DEF TypeInv
  <2>2. PeersCapped'
    BY <2>1, NobodyAdded, OneAdded DEF TypeInv
  <2> QED
    BY <1>1, <2>1, <2>2 DEF TypeInv
<1>3. ASSUME NEW s \in Streams, BeginStream(s) PROVE TypeInv'
  <2> DEFINE c == [stream[s] EXCEPT !.at = "begun"]
  <2>1. stream' = [stream EXCEPT ![s] = c] /\ UNCHANGED version
    BY <1>3 DEF BeginStream
  <2>2. stream \in [Streams -> Client]
    BY DEF HubInv, HubType
  <2>3. c.queue = stream[s].queue /\ c.seen = stream[s].seen /\ c.at = "begun"
    BY <2>2 DEF Client
  <2> HIDE DEF c
  <2>4. stream'[s] = c /\ \A t \in Streams : t # s => stream'[t] = stream[t]
    BY <2>1, <2>2
  <2>5. Bounded(c, version) /\ ~Live(c)
    BY <2>3 DEF TypeInv, Bounded, Live
  <2>6. PeersCapped'
    BY <2>4, <2>5, NobodyAdded DEF TypeInv
  <2> QED
    BY <1>1, <2>1, <2>4, <2>5, <2>6 DEF TypeInv
<1>4. CASE Cancel
  <2>1. ASSUME NEW s \in Streams
        PROVE  Bounded(stream'[s], version) /\ (Live(stream'[s]) => Live(stream[s]))
    <3>1. stream[s] \in Client /\ version \in Nat
      BY DEF HubInv, HubType
    <3>2. stream'[s] = Disconnected(stream[s]) \/ stream'[s] = stream[s]
      BY <1>4 DEF Cancel, CloseHub
    <3> QED
      BY <3>1, <3>2, DisconnectedBounded DEF TypeInv
  <2>2. PeersCapped'
    BY <2>1, NobodyAdded DEF TypeInv
  <2> QED
    BY <1>1, <1>4, <2>1, <2>2 DEF TypeInv, Cancel, CloseHub
<1>5. CASE Watchdog
  <2>1. version' = 0 /\ \A s \in Streams : stream'[s] = NoStream
    BY <1>5 DEF Watchdog
  <2>2. Bounded(NoStream, 0) /\ ~Live(NoStream)
    BY NoStreamBounded DEF NoStream, Live
  <2>3. PeersCapped'
    BY <2>1, <2>2, NobodyAdded DEF TypeInv
  <2> QED
    BY <1>1, <2>1, <2>2, <2>3, HubAssumption DEF TypeInv
<1>6. CASE UNCHANGED hubVars
  <2>1. stream' = stream /\ version' = version
    BY <1>6 DEF hubVars
  <2>2. PeersCapped'
    BY <2>1, NobodyAdded DEF TypeInv
  <2> QED
    BY <1>1, <2>1, <2>2 DEF TypeInv
<1> QED
  BY <1>2, <1>3, <1>4, <1>5, <1>6
     DEF Next, Task, Main, vars, BeginRequest, EndRequest, BeginOperation, FinishOperation,
         StopScheduler, LockAdmission, BeginClaim, EndClaim, EndJob, StopConsumer, Signal,
         DrainGates, DrainWorker, DrainHttp, WaitWorker, WaitBackup, WaitRequests,
         CloseDb, Release

\* The types and the bounds of the queues hold throughout.
LEMMA TypeInvAlways == Spec => []TypeInv
<1>1. Init => TypeInv
  <2> SUFFICES ASSUME Init PROVE TypeInv
    OBVIOUS
  <2>1. version = 0 /\ \A s \in Streams : stream[s] = NoStream
    BY DEF Init, HubInit
  <2>2. Bounded(NoStream, 0)
    BY NoStreamBounded DEF NoStream
  <2>3. \A s \in Streams : Peers(s) = {}
    BY <2>1 DEF Peers, Active, NoStream
  <2>4. PeersCapped
    BY <2>3, FS_EmptySet, HubAssumption DEF PeersCapped
  <2>5. ProcType
    BY DEF Init, ProcType, Stages
  <2> QED
    BY <2>1, <2>2, <2>4, <2>5, HubAssumption DEF TypeInv
<1>2. HubInv /\ ProcInv /\ TypeInv /\ [Next]_vars => TypeInv'
  BY TypeInvStep
<1> QED
  BY <1>1, <1>2, HubInvAlways, ProcInvAlways, PTL DEF Spec

\* The server process and its hub keep their types, for any number of streams
\* and users: no client queue outgrows clientQueueSize, no stream has seen a
\* version that does not exist, no user holds more than maxHubClientsPerUser
\* streams, and at most one backup operation runs.
THEOREM ServerTypes == Spec => []TypeOK
<1>1. HubInv /\ TypeInv => TypeOK
  <2> SUFFICES ASSUME HubInv, TypeInv PROVE TypeOK
    OBVIOUS
  <2>1. ASSUME NEW s \in Streams
        PROVE  /\ stream[s].at \in {"off", "begun", "added", "greeted", "open",
                                    "leaving", "left"}
               /\ Len(stream[s].queue) <= QueueSize
               /\ stream[s].seen \in 0..version
               /\ Cardinality({t \in Streams : Active(t) /\ UserOf[t] = UserOf[s]}) <= PerUser
    <3>1. stream[s] \in Client /\ Bounded(stream[s], version) /\ version \in Nat
      BY DEF HubInv, HubType, TypeInv
    <3>2. Cardinality(Peers(s)) <= PerUser
      BY DEF TypeInv, PeersCapped
    <3> QED
      BY <3>1, <3>2 DEF Client, Bounded, Peers
  <2>2. hubClosed \in BOOLEAN /\ version \in 0..MaxVersion /\ told \in 0..version
    BY DEF HubInv, HubType, TypeInv
  <2>3. HubTypeOK
    BY <2>1, <2>2 DEF HubTypeOK
  <2>4. stage \in DOMAIN Rank
    BY DEF TypeInv, ProcType, Stages, Rank
  <2> QED
    BY <2>3, <2>4 DEF TypeOK, TypeInv, ProcType
<1> QED
  BY <1>1, HubInvAlways, TypeInvAlways, PTL
=============================================================================
