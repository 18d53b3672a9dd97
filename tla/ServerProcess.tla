---------------------------- MODULE ServerProcess ----------------------------
(***************************************************************************)
(* The end of the server process.  One thread drains the admission gates,  *)
(* cancels what is left, waits for it and closes SQLite; requests, event   *)
(* streams, backups and the lyrics workers run meanwhile, and a watchdog   *)
(* ends the process without closing SQLite when the budget is spent.       *)
(* Requests stand for everything the lifecycle counts: handlers, streams,  *)
(* probes; the worker for the discovery and fetch workers.                 *)
(***************************************************************************)
EXTENDS SseHub

VARIABLES
    stage,      \* of the main thread
    request,    \* a request, which may run a backup, or a health probe
    scheduler,  \* the loop of the backup scheduler
    consumer    \* the loop of a lyrics worker

procVars == <<request, scheduler, consumer>>
vars == <<hubVars, stage, procVars>>

\* The stages, in order; what has been called by now is read off the stage.
Rank == [serving |-> 0, drainGates |-> 1, drainWorker |-> 2, drainHttp |-> 3, cancel |-> 4,
         waitWorker |-> 5, waitBackup |-> 6, waitRequests |-> 7, closeDb |-> 8,
         release |-> 9, gone |-> 10, killed |-> 11]
Past(st) == Rank[stage] > Rank[st]

draining == stage # "serving"           \* lifecycle.Drain
backupDraining == Past("drainGates")    \* Manager.Drain
workerDraining == Past("drainGates")    \* Worker.Drain, its marker
canceled == Past("cancel")              \* Cancel, Close and StopProbes
dbClosed == stage \in {"release", "gone"}
Alive == stage \notin {"gone", "killed"}

Init ==
    /\ HubInit
    /\ stage = "serving"
    /\ request = "off"
    /\ scheduler = "idle" /\ consumer = "idle"

-----------------------------------------------------------------------------
(* Requests.                                                               *)

\* BeginRequest and BeginProbe test and count under one lock.
RequestAdmitted == ~draining

\* A mistaken form of the next operator: StopProbes is forgotten.
ProbeAlwaysAdmitted == stage \notin {"gone", "killed"}

ProbeAdmitted == ~canceled

BeginStream(s) ==
    /\ stream[s].at = "off" /\ RequestAdmitted
    /\ stream' = [stream EXCEPT ![s].at = "begun"]
    /\ UNCHANGED <<hubClosed, version, told, stage, procVars>>

BeginRequest ==
    /\ request = "off"
    /\ \/ RequestAdmitted /\ request' = "active"
       \/ ProbeAdmitted /\ request' = "probe"
    /\ UNCHANGED <<hubVars, stage, scheduler, consumer>>

EndRequest ==
    /\ request \in {"active", "probe"}
    /\ request' = "off"
    /\ UNCHANGED <<hubVars, stage, scheduler, consumer>>

-----------------------------------------------------------------------------
(* The backup manager: one operation at a time, none while draining.       *)

\* A mistaken form of the next operator: the scheduler's backup is not counted.
RunningByRequest == request = "backup"

Running == request = "backup" \/ scheduler = "backup"

BeginOperation ==
    /\ ~backupDraining /\ ~Running
    /\ \/ request = "active" /\ request' = "backup" /\ UNCHANGED scheduler
       \/ scheduler = "idle" /\ scheduler' = "backup" /\ UNCHANGED request
    /\ UNCHANGED <<hubVars, stage, consumer>>

\* The operation ends: done, failed, or cancelled with its context.
FinishOperation ==
    /\ \/ request = "backup" /\ request' = "active" /\ UNCHANGED scheduler
       \/ scheduler = "backup" /\ scheduler' = "idle" /\ UNCHANGED request
    /\ UNCHANGED <<hubVars, stage, consumer>>

\* The loop returns when its context is done.
StopScheduler ==
    /\ scheduler = "idle" /\ backupDraining
    /\ scheduler' = "exited"
    /\ UNCHANGED <<hubVars, stage, request, consumer>>

-----------------------------------------------------------------------------
(* A lyrics worker.  admissionMu is held from "locked" to the claim's end. *)

\* A mistaken form of the next operator: it is held while the job runs, too.
HoldsThroughJob == consumer \in {"locked", "claiming", "running"}

HoldsAdmission == consumer \in {"locked", "claiming"}

LockAdmission ==
    /\ consumer = "idle"
    /\ consumer' = "locked"
    /\ UNCHANGED <<hubVars, stage, request, scheduler>>

\* A mistaken form of the next operator: the marker is not looked at again.
ClaimUnchecked == "claiming"

\* closed() is looked at under admissionMu.
ClaimOrExit == IF workerDraining THEN "exited" ELSE "claiming"

BeginClaim ==
    /\ consumer = "locked"
    /\ consumer' = ClaimOrExit
    /\ UNCHANGED <<hubVars, stage, request, scheduler>>

EndClaim ==
    /\ consumer = "claiming"
    /\ consumer' \in {"idle", "running"}
    /\ UNCHANGED <<hubVars, stage, request, scheduler>>

\* The job completes, fails, or is cancelled.
EndJob ==
    /\ consumer = "running"
    /\ consumer' = IF canceled THEN "exited" ELSE "idle"
    /\ UNCHANGED <<hubVars, stage, request, scheduler>>

StopConsumer ==
    /\ consumer = "idle" /\ workerDraining
    /\ consumer' = "exited"
    /\ UNCHANGED <<hubVars, stage, request, scheduler>>

-----------------------------------------------------------------------------
(* RunShutdown.                                                            *)

Go(from, to) == stage = from /\ stage' = to

\* A signal, or the server stopped by itself: lifecycle.Drain.
Signal == Go("serving", "drainGates") /\ UNCHANGED <<hubVars, procVars>>

\* editorGate.Drain, Manager.Drain and the worker's marker.
DrainGates == Go("drainGates", "drainWorker") /\ UNCHANGED <<hubVars, procVars>>

\* Worker.Drain returns when no Scan or Claim holds admissionMu.
DrainWorker == ~HoldsAdmission /\ Go("drainWorker", "drainHttp") /\ UNCHANGED <<hubVars, procVars>>

\* httpServer.Shutdown returns with no request left, or by its timeout.  The
\* collab.Shutdown before it, which closes the rooms and their sockets and gives
\* up at the same timeout, is left out with the sockets.
DrainHttp == Go("drainHttp", "cancel") /\ UNCHANGED <<hubVars, procVars>>

Cancel == Go("cancel", "waitWorker") /\ CloseHub /\ UNCHANGED procVars

WaitWorker ==
    consumer = "exited" /\ Go("waitWorker", "waitBackup") /\ UNCHANGED <<hubVars, procVars>>

WaitBackup ==
    /\ ~Running /\ scheduler = "exited"
    /\ Go("waitBackup", "waitRequests") /\ UNCHANGED <<hubVars, procVars>>

\* State.Wait: every request, probe and stream that lifecycle counts has returned.
\* What collab starts beside a request (revalidateConnection) is not counted there.
Idle == request = "off" /\ \A s \in Streams : stream[s].at = "off"

WaitRequests == Idle /\ Go("waitRequests", "closeDb") /\ UNCHANGED <<hubVars, procVars>>

CloseDb == Go("closeDb", "release") /\ UNCHANGED <<hubVars, procVars>>

\* The instance lock goes last; the next process may open the database now.
Release == Go("release", "gone") /\ UNCHANGED <<hubVars, procVars>>

\* The budget is spent.  The lock is released by the system with the process.
Watchdog ==
    /\ stage \notin {"serving", "closeDb", "release", "gone", "killed"}
    /\ stage' = "killed"
    /\ stream' = [s \in Streams |-> NoStream] /\ hubClosed' = TRUE /\ version' = 0 /\ told' = 0
    /\ request' = "off" /\ scheduler' = "exited" /\ consumer' = "exited"

Main ==
    \/ DrainGates \/ DrainWorker \/ DrainHttp \/ Cancel
    \/ WaitWorker \/ WaitBackup \/ WaitRequests \/ CloseDb \/ Release

Task ==
    \/ \E s \in Streams : BeginStream(s)
    \/ BeginRequest \/ EndRequest
    \/ BeginOperation \/ FinishOperation \/ StopScheduler
    \/ LockAdmission \/ BeginClaim \/ EndClaim \/ EndJob \/ StopConsumer

Next ==
    \/ Alive /\ HubStep /\ UNCHANGED <<stage, procVars>>
    \/ Alive /\ Task
    \/ Signal \/ Main \/ Watchdog

\* What goes on by itself: claims, snapshots and broadcasts take finite time, a
\* loop that is told to stop stops, and what has been cancelled returns.
Progress ==
    \/ /\ \E s \in Streams :
             \/ Add(s) \/ Greet(s) \/ Announce(s) \/ RemoveClient(s) \/ BroadcastLeft(s)
             \/ canceled /\ EndStream(s)
       /\ UNCHANGED <<stage, procVars>>
    \/ BeginClaim \/ EndClaim \/ StopConsumer \/ StopScheduler
    \/ canceled /\ (EndRequest \/ FinishOperation \/ EndJob)

\* The main thread and the others run.  The watchdog's timer is not relied on.
Fairness == WF_vars(Main) /\ WF_vars(Alive /\ Progress)

Spec == Init /\ [][Next]_vars /\ Fairness

-----------------------------------------------------------------------------
\* Type correctness of the process and of its hub.
TypeOK ==
    /\ HubTypeOK
    /\ stage \in DOMAIN Rank
    /\ request \in {"off", "active", "probe", "backup"}
    /\ scheduler \in {"idle", "backup", "exited"}
    /\ ~(request = "backup" /\ scheduler = "backup")
    /\ consumer \in {"idle", "locked", "claiming", "running", "exited"}

\* "It prevents every future Scan and Claim" (Worker.Drain): once the drain has
\* returned, no claim runs, whoever was between the check and the store then.
NoClaimAfterDrain == Past("drainWorker") => consumer # "claiming"

\* Of the work that the shutdown keeps track of, nothing is left when SQLite is
\* closed and nothing new starts: handlers, streams, probes, backups and workers
\* have all returned (RunShutdown: "avoids racing SQLite against live goroutines").
NothingAfterClose ==
    dbClosed => Idle /\ scheduler = "exited" /\ consumer = "exited"

\* A shutdown comes to its end without the watchdog: the drains and the waits
\* do not wait for each other.
ShutdownEnds == stage = "drainGates" ~> ~Alive
=============================================================================
