-------------------------------- MODULE SseHub --------------------------------
(***************************************************************************)
(* The event stream hub: consoles hold one stream each, and the server     *)
(* broadcasts hints that something changed.  A console asks for the        *)
(* changed data itself, so a hint is the version of the state it is about  *)
(* (0 for the hints about presence), and what matters is that a stream     *)
(* that stays up has not missed one.                                       *)
(***************************************************************************)
EXTENDS Integers, Sequences, FiniteSets

CONSTANTS
    Streams,    \* stream requests
    UserOf,     \* stream -> user
    QueueSize,  \* clientQueueSize
    PerUser,    \* maxHubClientsPerUser
    MaxVersion  \* bound: changes of the state the hints are about

ASSUME HubAssumption ==
    /\ DOMAIN UserOf = Streams
    /\ QueueSize \in Nat \ {0} /\ PerUser \in Nat \ {0} /\ MaxVersion \in Nat

VARIABLES
    stream,     \* stream -> its handler and its client
    hubClosed,
    version,    \* of the state the hints are about
    told        \* the last version broadcast

hubVars == <<stream, hubClosed, version, told>>

NoStream == [at |-> "off", first |-> FALSE, done |-> FALSE, queue |-> <<>>, seen |-> 0]

HubInit ==
    /\ stream = [s \in Streams |-> NoStream]
    /\ hubClosed = FALSE
    /\ version = 0
    /\ told = 0

\* In the client map, and not disconnected.
Active(s) == stream[s].at \in {"added", "greeted", "open", "leaving"} /\ ~stream[s].done

Online == {UserOf[s] : s \in {t \in Streams : Active(t)}}

\* disconnect: nothing that is still queued will be written.
Disconnected(c) == [c EXCEPT !.done = TRUE, !.queue = <<>>, !.seen = 0]

\* A mistaken form of the next operator: a full queue drops the message.
EnqueuedOrDropped(c, m) ==
    IF Len(c.queue) < QueueSize THEN [c EXCEPT !.queue = Append(@, m)] ELSE c

\* A client whose queue is full is disconnected.
Enqueued(c, m) ==
    IF Len(c.queue) < QueueSize THEN [c EXCEPT !.queue = Append(@, m)]
                                ELSE Disconnected(c)

Sent(m, to) == [s \in Streams |-> IF Active(s) /\ s \in to THEN Enqueued(stream[s], m)
                                                           ELSE stream[s]]

-----------------------------------------------------------------------------
\* addWithAbort: a place in the map, or a refusal, which ends the request.
Add(s) ==
    LET mine == {t \in Streams : Active(t) /\ UserOf[t] = UserOf[s]}
    IN  /\ stream[s].at = "begun"
        /\ stream' = [stream EXCEPT ![s] =
               IF hubClosed \/ Cardinality(mine) >= PerUser
               THEN NoStream
               ELSE [NoStream EXCEPT !.at = "added", !.first = (mine = {})]]
        /\ UNCHANGED <<hubClosed, version, told>>

\* The private snapshot, read once the client is in the map.
Greet(s) ==
    /\ stream[s].at = "added"
    /\ stream' = [stream EXCEPT ![s].at = "greeted", ![s].seen = IF stream[s].done THEN 0 ELSE version]
    /\ UNCHANGED <<hubClosed, version, told>>

\* presence.joined, to the others, for the first stream of a user.
Announce(s) ==
    /\ stream[s].at = "greeted"
    /\ stream' = [(IF stream[s].first /\ ~hubClosed THEN Sent(0, Streams \ {s}) ELSE stream)
                  EXCEPT ![s].at = "open", ![s].first = FALSE]
    /\ UNCHANGED <<hubClosed, version, told>>

Deliver(s) ==
    LET m == Head(stream[s].queue)
    IN  /\ stream[s].at = "open" /\ ~stream[s].done /\ stream[s].queue # <<>>
        /\ stream' = [stream EXCEPT ![s].queue = Tail(@), ![s].seen = IF m > @ THEN m ELSE @]
        /\ UNCHANGED <<hubClosed, version, told>>

\* The console went away, the token expired or is no longer valid, a write
\* failed, or the client was disconnected.
EndStream(s) ==
    /\ stream[s].at \in {"added", "greeted", "open"}
    /\ stream' = [stream EXCEPT ![s] = [NoStream EXCEPT !.at = "leaving", !.done = stream[s].done]]
    /\ UNCHANGED <<hubClosed, version, told>>

\* remove: the client leaves the map; presence.left follows after the unlock.
RemoveClient(s) ==
    LET online == {UserOf[t] : t \in {u \in Streams : Active(u) /\ u # s}}
    IN  /\ stream[s].at = "leaving"
        /\ stream' = [stream EXCEPT ![s] = [NoStream EXCEPT !.at =
               IF ~hubClosed /\ UserOf[s] \notin online THEN "left" ELSE "off"]]
        /\ UNCHANGED <<hubClosed, version, told>>

BroadcastLeft(s) ==
    /\ stream[s].at = "left"
    /\ stream' = [Sent(0, Streams) EXCEPT ![s].at = "off"]
    /\ UNCHANGED <<hubClosed, version, told>>

RevokeUser(u) ==
    /\ u \in Online
    /\ stream' = [s \in Streams |-> IF Active(s) /\ UserOf[s] = u
                                    THEN Disconnected(stream[s]) ELSE stream[s]]
    /\ UNCHANGED <<hubClosed, version, told>>

\* The state changes, and its observer broadcasts the changes in their order.
Change ==
    /\ version < MaxVersion
    /\ version' = version + 1
    /\ UNCHANGED <<stream, hubClosed, told>>

Broadcast ==
    /\ told < version
    /\ told' = told + 1
    /\ stream' = Sent(told + 1, Streams)
    /\ UNCHANGED <<hubClosed, version>>

CloseHub ==
    /\ hubClosed' = TRUE
    /\ stream' = [s \in Streams |-> IF Active(s) THEN Disconnected(stream[s]) ELSE stream[s]]
    /\ UNCHANGED <<version, told>>

HubStep ==
    \/ \E s \in Streams : \/ Add(s) \/ Greet(s) \/ Announce(s) \/ Deliver(s)
                          \/ EndStream(s) \/ RemoveClient(s) \/ BroadcastLeft(s)
    \/ \E u \in {UserOf[s] : s \in Streams} : RevokeUser(u)
    \/ Change \/ Broadcast

-----------------------------------------------------------------------------
HubTypeOK ==
    /\ \A s \in Streams :
          /\ stream[s].at \in {"off", "begun", "added", "greeted", "open",
                               "leaving", "left"}
          /\ Len(stream[s].queue) <= QueueSize
          /\ stream[s].seen \in 0..version
          /\ Cardinality({t \in Streams : Active(t) /\ UserOf[t] = UserOf[s]}) <= PerUser
    /\ hubClosed \in BOOLEAN /\ version \in 0..MaxVersion /\ told \in 0..version

\* A stream that is up has seen every change broadcast, in its snapshot or as a
\* hint, or has the hint in its queue ("silently dropping a mutation hint would
\* let that client continue editing from state it cannot know is stale").
CaughtUp ==
    \A s \in Streams : stream[s].at \in {"greeted", "open"} /\ Active(s) =>
        told <= stream[s].seen \/ \E i \in DOMAIN stream[s].queue : stream[s].queue[i] = told
=============================================================================
