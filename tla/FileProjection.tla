--------------------------- MODULE FileProjection ---------------------------
(***************************************************************************)
(* internal/filesvc: the in-memory public files.  A single worker rebuilds *)
(* all of them from the database, debounced, retried, and counted by the   *)
(* pair requested/published; between rebuilds an editor's handler may      *)
(* publish the one file it changed.  assetEpoch orders those incremental   *)
(* publications against a rebuild that was already reading.                *)
(*                                                                         *)
(* A key stands for one public file.  Which handler writes it decides how  *)
(* it is published:                                                        *)
(*   side stories   published under a mutex that spans the reads and the   *)
(*                  publication; an editor's publishSideStory then asks    *)
(*                  for a rebuild, a backfill round's publishRound only if *)
(*                  its publication failed                                 *)
(*   events         rebuildEventAsset, no mutex, then a rebuild            *)
(*   categories     the store requests the rebuild as it commits, then     *)
(*                  rebuildCategoryAsset, no mutex                         *)
(*   lyrics         only rebuilds, requested by the store as it commits    *)
(*                  and again, at once, by the handler (PublishNow)        *)
(* Serialised, NotifiesFirst and Incremental say so for each key; Backfill *)
(* is the writer that is not a handler.  Withdrawable files may cease to   *)
(* exist: a side story left without a translated line, withdrawn lyrics.   *)
(*                                                                         *)
(* A version is a number; present says whether the generator makes a file  *)
(* of it at all.  An absent file is known to the code only by its absence; *)
(* the version it was withdrawn at is kept here to say how old it is.      *)
(***************************************************************************)
EXTENDS Integers, FiniteSets

CONSTANTS Keys, Serialised, NotifiesFirst, Incremental, Withdrawable,
          Writers, Backfill, Awaiters, NoWriter,
          MaxWrites,    \* bound: committed writes
          MaxFailures,  \* bound: failures of generators and queries
          MaxAwaits     \* bound: calls of AwaitPublished

ASSUME FileProjectionAssumption ==
  /\ Keys # {}
  /\ Serialised \subseteq Incremental
  /\ Incremental \subseteq Keys
  /\ NotifiesFirst \subseteq Keys
  /\ Withdrawable \subseteq Keys
  /\ Keys \ Incremental \subseteq NotifiesFirst
  /\ Backfill \subseteq Writers
  /\ \A b, c \in Backfill : b = c   \* startOnce starts one round loop
  /\ NoWriter \notin Writers
  /\ MaxWrites \in Nat /\ MaxFailures \in Nat /\ MaxAwaits \in Nat

VARIABLES
  db,           \* the committed content of each file
  assets,       \* Service.assets
  assetEpoch, incremental,
  requested, published, running, lastError,
  rebuildCh, immediateCh,  \* the two channels of capacity one
  stopped,      \* Service.ctx is done
  worker,       \* where loop is
  target, startEpoch, next, immediate,  \* its locals
  writer,       \* where each handler is
  wkey, got,    \* the file it writes and the content it generated
  publishMu,    \* holder of sideStoryPublishMu
  awaiter, want, \* AwaitPublished calls: target and requested content
  asked,        \* ghost: the version of each file last requested
  acked,        \* ghost: the newest version of each file a writer published
  commits, failures, awaits

contentVars == <<db, asked, acked, commits>>
assetVars == <<assets, assetEpoch, incremental>>
statusVars == <<requested, published, running, lastError>>
channelVars == <<rebuildCh, immediateCh>>
workerVars == <<worker, target, startEpoch, next, immediate, failures>>
writerVars == <<writer, wkey, got, publishMu>>
awaitVars == <<awaiter, want, awaits>>
vars == <<contentVars, assetVars, statusVars, channelVars, stopped,
          workerVars, writerVars, awaitVars>>

Content == [version : Nat, present : BOOLEAN]
Unread == [version |-> -1, present |-> FALSE]

TypeOK ==
  /\ db \in [Keys -> Content]
  /\ assets \in [Keys -> Content]
  /\ assetEpoch \in Nat
  /\ incremental \in [Keys -> 0..assetEpoch]
  /\ requested \in Nat
  /\ published \in 0..requested
  /\ running \in BOOLEAN /\ lastError \in BOOLEAN
  /\ rebuildCh \in BOOLEAN /\ immediateCh \in BOOLEAN /\ stopped \in BOOLEAN
  /\ worker \in {"rebuild", "snapshot", "reading", "swapped", "drain",
                 "decide", "retry", "debounce", "block", "ended"}
  /\ target \in 0..requested
  /\ startEpoch \in 0..assetEpoch
  /\ next \in [Keys -> Content \cup {Unread}]
  /\ immediate \in BOOLEAN
  /\ writer \in [Writers -> {"idle", "requesting", "signalling", "committed",
                             "generated", "urging", "alerting"}]
  /\ wkey \in [Writers -> Keys]
  /\ got \in [Writers -> Content \cup {Unread}]
  /\ publishMu \in Writers \cup {NoWriter}
  /\ awaiter \in [Awaiters -> {"idle", "waiting", "served", "gaveUp"}]
  /\ want \in [Awaiters -> [target : Nat, content : [Keys -> Nat]]]
  /\ asked \in [Keys -> Nat] /\ acked \in [Keys -> Nat]
  /\ commits \in 0..MaxWrites
  /\ failures \in 0..MaxFailures
  /\ awaits \in 0..MaxAwaits

AnyKey == CHOOSE k \in Keys : TRUE
NoContent == [version |-> 0, present |-> FALSE]
NoWant == [target |-> 0, content |-> [k \in Keys |-> 0]]

\* Start requests the first publication and starts loop.
Init ==
  /\ db = [k \in Keys |-> NoContent]
  /\ assets = [k \in Keys |-> NoContent]
  /\ assetEpoch = 0
  /\ incremental = [k \in Keys |-> 0]
  /\ requested = 1
  /\ published = 0
  /\ running = FALSE
  /\ lastError = FALSE
  /\ rebuildCh = FALSE
  /\ immediateCh = FALSE
  /\ stopped = FALSE
  /\ worker = "rebuild"
  /\ target = 0
  /\ startEpoch = 0
  /\ next = [k \in Keys |-> Unread]
  /\ immediate = FALSE
  /\ writer = [w \in Writers |-> "idle"]
  /\ wkey = [w \in Writers |-> AnyKey]
  /\ got = [w \in Writers |-> Unread]
  /\ publishMu = NoWriter
  /\ awaiter = [a \in Awaiters |-> "idle"]
  /\ want = [a \in Awaiters |-> NoWant]
  /\ asked = [k \in Keys |-> 0]
  /\ acked = [k \in Keys |-> 0]
  /\ commits = 0
  /\ failures = 0
  /\ awaits = 0

\* A query or a generator fails, or sees that the service is stopped.
Failure ==
  /\ stopped \/ failures < MaxFailures
  /\ failures' = IF stopped THEN failures ELSE failures + 1

-----------------------------------------------------------------------------
(* Handlers                                                                *)

Step(w, place) == writer' = [writer EXCEPT ![w] = place]

\* The transaction commits.  Lyrics and categories notify the change hooks
\* inside the store call.
Commit(w, k) ==
  /\ writer[w] = "idle"
  /\ commits < MaxWrites
  /\ w \in Backfill => k \in Serialised
  /\ commits' = commits + 1
  /\ \E here \in BOOLEAN :
       /\ k \notin Withdrawable => here
       /\ db' = [db EXCEPT ![k] = [version |-> @.version + 1, present |-> here]]
  /\ wkey' = [wkey EXCEPT ![w] = k]
  /\ Step(w, IF k \in NotifiesFirst THEN "requesting" ELSE "committed")
  /\ UNCHANGED <<asked, acked, assetVars, statusVars, channelVars, stopped,
                 workerVars, got, publishMu, awaitVars>>

\* The handler returns.
Return(w) ==
  /\ Step(w, "idle")
  /\ wkey' = [wkey EXCEPT ![w] = AnyKey]

\* What follows the call of Trigger: categories are published now, and lyrics
\* handlers ask for an immediate rebuild.
AfterTrigger(w) ==
  IF wkey[w] \notin NotifiesFirst
    THEN Return(w)
    ELSE /\ Step(w, IF wkey[w] \in Incremental THEN "committed" ELSE "urging")
         /\ UNCHANGED wkey

\* Trigger and PublishNow, first half: count the request.  A stopped service
\* ignores it.
Request(w, place) ==
  /\ writer[w] = place
  /\ \/ /\ stopped
        /\ IF place = "requesting" THEN AfterTrigger(w) ELSE Return(w)
        /\ UNCHANGED <<requested, asked>>
     \/ /\ ~stopped
        /\ requested' = requested + 1
        /\ asked' = [asked EXCEPT ![wkey[w]] = db[wkey[w]].version]
        /\ Step(w, IF place = "requesting" THEN "signalling" ELSE "alerting")
        /\ UNCHANGED wkey
  /\ UNCHANGED <<db, acked, commits, assetVars, published, running, lastError,
                 channelVars, stopped, workerVars, got, publishMu, awaitVars>>

\* Trigger, second half: the non-blocking send.
Trigger(w) ==
  /\ writer[w] = "signalling"
  /\ rebuildCh' = TRUE
  /\ AfterTrigger(w)
  /\ UNCHANGED <<contentVars, assetVars, statusVars, immediateCh, stopped,
                 workerVars, got, publishMu, awaitVars>>

\* PublishNow, second half: both sends.
PublishNow(w) ==
  /\ writer[w] = "alerting"
  /\ rebuildCh' = TRUE
  /\ immediateCh' = TRUE
  /\ Return(w)
  /\ UNCHANGED <<contentVars, assetVars, statusVars, stopped, workerVars, got,
                 publishMu, awaitVars>>

\* Mutant of Generate: sideStoryPublishMu is not taken.
Generate_NoMutex(w) ==
  /\ writer[w] = "committed"
  /\ got' = [got EXCEPT ![w] = db[wkey[w]]]
  /\ Step(w, "generated")
  /\ UNCHANGED <<contentVars, assetVars, statusVars, channelVars, stopped,
                 workerVars, wkey, publishMu, awaitVars>>

\* RebuildEvent, RebuildCategory, RebuildSideStory: read the database and
\* generate the bytes; only side stories hold the mutex from here on.
Generate(w) ==
  /\ writer[w] = "committed"
  /\ wkey[w] \in Serialised => publishMu = NoWriter
  /\ got' = [got EXCEPT ![w] = db[wkey[w]]]
  /\ publishMu' = IF wkey[w] \in Serialised THEN w ELSE publishMu
  /\ Step(w, "generated")
  /\ UNCHANGED <<contentVars, assetVars, statusVars, channelVars, stopped,
                 workerVars, wkey, awaitVars>>

\* What follows an incremental publication, or its logged failure.
Continue(w, done) ==
  /\ got' = [got EXCEPT ![w] = Unread]
  /\ publishMu' = IF publishMu = w THEN NoWriter ELSE publishMu
  /\ IF wkey[w] \in NotifiesFirst \/ (done /\ w \in Backfill)
       THEN Return(w)
       ELSE Step(w, "requesting") /\ UNCHANGED wkey

applyIncremental(w) ==
  /\ writer[w] = "generated"
  /\ assetEpoch' = assetEpoch + 1
  /\ assets' = [assets EXCEPT ![wkey[w]] = got[w]]
  /\ incremental' = [incremental EXCEPT ![wkey[w]] = assetEpoch']
  /\ acked' = [acked EXCEPT ![wkey[w]] =
                 IF got[w].version > @ THEN got[w].version ELSE @]
  /\ Continue(w, TRUE)
  /\ UNCHANGED <<db, asked, commits, statusVars, channelVars, stopped,
                 workerVars, awaitVars>>

\* A generator fails, or the context (the service's, or the backfill's own) is
\* done before or while it runs.
GenerateFails(w) ==
  /\ \/ writer[w] = "generated"
     \/ writer[w] = "committed" /\ (stopped \/ w \in Backfill)
  /\ Failure
  /\ Continue(w, FALSE)
  /\ UNCHANGED <<contentVars, assetVars, statusVars, channelVars, stopped,
                 worker, target, startEpoch, next, immediate, awaitVars>>

WriterStep(w) ==
  \/ Request(w, "requesting") \/ Request(w, "urging")
  \/ Trigger(w) \/ PublishNow(w)
  \/ Generate(w) \/ applyIncremental(w) \/ GenerateFails(w)

-----------------------------------------------------------------------------
(* AwaitPublished                                                          *)

\* The call returns at once, or asks for an immediate rebuild and polls.
AwaitPublished(a) ==
  /\ awaiter[a] = "idle"
  /\ awaits < MaxAwaits
  /\ awaits' = awaits + 1
  /\ want' = [want EXCEPT ![a] = [target |-> requested, content |-> asked]]
  /\ \/ /\ published >= requested
        /\ awaiter' = [awaiter EXCEPT ![a] = "served"]
        /\ UNCHANGED channelVars
     \/ /\ published < requested /\ stopped
        /\ awaiter' = [awaiter EXCEPT ![a] = "gaveUp"]
        /\ UNCHANGED channelVars
     \/ /\ published < requested /\ ~stopped
        /\ awaiter' = [awaiter EXCEPT ![a] = "waiting"]
        /\ immediateCh' = TRUE /\ rebuildCh' = TRUE
  /\ UNCHANGED <<contentVars, assetVars, statusVars, stopped, workerVars,
                 writerVars>>

AwaitPoll(a) ==
  /\ awaiter[a] = "waiting"
  /\ published >= want[a].target
  /\ awaiter' = [awaiter EXCEPT ![a] = "served"]
  /\ UNCHANGED <<contentVars, assetVars, statusVars, channelVars, stopped,
                 workerVars, writerVars, want, awaits>>

\* The timeout, the request's context or the service's ends the wait.
AwaitGivesUp(a) ==
  /\ awaiter[a] = "waiting"
  /\ awaiter' = [awaiter EXCEPT ![a] = "gaveUp"]
  /\ UNCHANGED <<contentVars, assetVars, statusVars, channelVars, stopped,
                 workerVars, writerVars, want, awaits>>

\* The route answers with what is served now.
AwaitReturns(a) ==
  /\ awaiter[a] \in {"served", "gaveUp"}
  /\ awaiter' = [awaiter EXCEPT ![a] = "idle"]
  /\ want' = [want EXCEPT ![a] = NoWant]
  /\ UNCHANGED <<contentVars, assetVars, statusVars, channelVars, stopped,
                 workerVars, writerVars, awaits>>

AwaiterNext(a) ==
  AwaitPublished(a) \/ AwaitPoll(a) \/ AwaitGivesUp(a) \/ AwaitReturns(a)

-----------------------------------------------------------------------------
(* The worker                                                              *)

\* rebuild up to rebuildAssetsFn: the generation it will have published.
BeginRebuild ==
  /\ worker = "rebuild" /\ ~stopped
  /\ requested' = IF requested <= published THEN published + 1 ELSE requested
  /\ target' = requested'
  /\ running' = TRUE
  /\ worker' = "snapshot"
  /\ UNCHANGED <<contentVars, assetVars, published, lastError, channelVars,
                 stopped, startEpoch, next, immediate, failures, writerVars,
                 awaitVars>>

\* rebuildAssetsContext: the share of the content lock, then the epoch.
BeginReading ==
  /\ worker = "snapshot"
  /\ startEpoch' = assetEpoch
  /\ worker' = "reading"
  /\ UNCHANGED <<contentVars, assetVars, statusVars, channelVars, stopped,
                 target, next, immediate, failures, writerVars, awaitVars>>

\* The files are generated one after the other, each from its own read.
ReadKey(k) ==
  /\ worker = "reading"
  /\ next[k] = Unread
  /\ next' = [next EXCEPT ![k] = db[k]]
  /\ UNCHANGED <<contentVars, assetVars, statusVars, channelVars, stopped,
                 worker, target, startEpoch, immediate, failures, writerVars,
                 awaitVars>>

\* Mutants of Swap: a withdrawal during the rebuild is forgotten; a record as
\* old as the rebuild is kept as if it were newer.
Swap_Restores ==
  /\ worker = "reading"
  /\ \A k \in Keys : next[k] # Unread
  /\ assets' = [k \in Keys |->
                  IF incremental[k] > startEpoch /\ assets[k].present
                    THEN assets[k] ELSE next[k]]
  /\ incremental' = [k \in Keys |->
                       IF incremental[k] > startEpoch THEN incremental[k] ELSE 0]
  /\ next' = [k \in Keys |-> Unread]
  /\ worker' = "swapped"
  /\ UNCHANGED <<contentVars, assetEpoch, statusVars, channelVars, stopped,
                 target, startEpoch, immediate, failures, writerVars,
                 awaitVars>>

Swap_OffByOne ==
  /\ worker = "reading"
  /\ \A k \in Keys : next[k] # Unread
  /\ assets' = [k \in Keys |->
                  IF incremental[k] # 0 /\ incremental[k] >= startEpoch
                    THEN assets[k] ELSE next[k]]
  /\ incremental' = [k \in Keys |->
                       IF incremental[k] >= startEpoch THEN incremental[k] ELSE 0]
  /\ next' = [k \in Keys |-> Unread]
  /\ worker' = "swapped"
  /\ UNCHANGED <<contentVars, assetEpoch, statusVars, channelVars, stopped,
                 target, startEpoch, immediate, failures, writerVars,
                 awaitVars>>

\* The swap keeps a file whose incremental publication is newer than the
\* start of the rebuild, published or withdrawn, and forgets the others.
Swap ==
  /\ worker = "reading"
  /\ \A k \in Keys : next[k] # Unread
  /\ assets' = [k \in Keys |->
                  IF incremental[k] > startEpoch THEN assets[k] ELSE next[k]]
  /\ incremental' = [k \in Keys |->
                       IF incremental[k] > startEpoch THEN incremental[k] ELSE 0]
  /\ next' = [k \in Keys |-> Unread]
  /\ worker' = "swapped"
  /\ UNCHANGED <<contentVars, assetEpoch, statusVars, channelVars, stopped,
                 target, startEpoch, immediate, failures, writerVars,
                 awaitVars>>

\* Mutant of FinishRebuild: it reports every request made so far, not those
\* made before it started.
FinishRebuild_Latest ==
  /\ worker = "swapped"
  /\ published' = requested
  /\ lastError' = FALSE
  /\ running' = FALSE
  /\ worker' = "drain"
  /\ UNCHANGED <<contentVars, assetVars, requested, channelVars, stopped,
                 target, startEpoch, next, immediate, failures, writerVars,
                 awaitVars>>

\* rebuild after a successful rebuildAssetsFn.
FinishRebuild ==
  /\ worker = "swapped"
  /\ published' = target
  /\ lastError' = FALSE
  /\ running' = FALSE
  /\ worker' = "drain"
  /\ UNCHANGED <<contentVars, assetVars, requested, channelVars, stopped,
                 target, startEpoch, next, immediate, failures, writerVars,
                 awaitVars>>

\* A query or a generator fails, or the context is done.
FailRebuild ==
  /\ worker = "reading"
  /\ Failure
  /\ lastError' = TRUE
  /\ running' = FALSE
  /\ next' = [k \in Keys |-> Unread]
  /\ worker' = "drain"
  /\ UNCHANGED <<contentVars, assetVars, requested, published, channelVars,
                 stopped, target, startEpoch, immediate, writerVars,
                 awaitVars>>

\* drainRebuildNotifications
Drain ==
  /\ worker = "drain" /\ ~stopped
  /\ immediate' = immediateCh
  /\ rebuildCh' = FALSE /\ immediateCh' = FALSE
  /\ worker' = "decide"
  /\ UNCHANGED <<contentVars, assetVars, statusVars, stopped, target,
                 startEpoch, next, failures, writerVars, awaitVars>>

\* Mutant of Decide: after a rebuild that succeeded it waits for a signal,
\* though the signals of pending requests have been drained.
Decide_Blocks ==
  /\ worker = "decide"
  /\ worker' = IF requested > published /\ lastError THEN "retry" ELSE "block"
  /\ UNCHANGED <<contentVars, assetVars, statusVars, channelVars, stopped,
                 target, startEpoch, next, immediate, failures, writerVars,
                 awaitVars>>

\* hasPendingPublication and the switch of loop; lastError is still the
\* result of the rebuild just made.
Decide ==
  /\ worker = "decide"
  /\ worker' = IF requested <= published THEN "block"
               ELSE IF lastError THEN "retry"
               ELSE IF immediate THEN "rebuild" ELSE "debounce"
  /\ UNCHANGED <<contentVars, assetVars, statusVars, channelVars, stopped,
                 target, startEpoch, next, immediate, failures, writerVars,
                 awaitVars>>

\* waitForRetry listens to its timer only.
RetryTimer ==
  /\ worker = "retry" /\ ~stopped
  /\ worker' = "rebuild"
  /\ UNCHANGED <<contentVars, assetVars, statusVars, channelVars, stopped,
                 target, startEpoch, next, immediate, failures, writerVars,
                 awaitVars>>

\* The idle select of loop.
Wake ==
  /\ worker = "block" /\ ~stopped
  /\ \/ /\ immediateCh
        /\ immediateCh' = FALSE /\ UNCHANGED rebuildCh
        /\ worker' = "rebuild"
     \/ /\ rebuildCh
        /\ rebuildCh' = FALSE /\ UNCHANGED immediateCh
        /\ worker' = IF immediate THEN "rebuild" ELSE "debounce"
  /\ UNCHANGED <<contentVars, assetVars, statusVars, stopped, target,
                 startEpoch, next, immediate, failures, writerVars, awaitVars>>

\* waitForDebounce: an immediate request ends it, a further change restarts
\* the window, and the window or the deadline of two windows runs out.
DebounceUrged ==
  /\ worker = "debounce" /\ immediateCh /\ ~stopped
  /\ immediateCh' = FALSE
  /\ worker' = "rebuild"
  /\ UNCHANGED <<contentVars, assetVars, statusVars, rebuildCh, stopped,
                 target, startEpoch, next, immediate, failures, writerVars,
                 awaitVars>>

DebounceExtended ==
  /\ worker = "debounce" /\ rebuildCh /\ ~stopped
  /\ rebuildCh' = FALSE
  /\ UNCHANGED <<contentVars, assetVars, statusVars, immediateCh, stopped,
                 workerVars, writerVars, awaitVars>>

DebounceTimer ==
  /\ worker = "debounce" /\ ~stopped
  /\ worker' = "rebuild"
  /\ UNCHANGED <<contentVars, assetVars, statusVars, channelVars, stopped,
                 target, startEpoch, next, immediate, failures, writerVars,
                 awaitVars>>

\* The worker sees the done context where it looks at it.
WorkerEnds ==
  /\ stopped
  /\ worker \in {"rebuild", "drain", "retry", "debounce", "block"}
  /\ worker' = "ended"
  /\ UNCHANGED <<contentVars, assetVars, statusVars, channelVars, stopped,
                 target, startEpoch, next, immediate, failures, writerVars,
                 awaitVars>>

WorkerStep ==
  \/ BeginRebuild \/ BeginReading \/ (\E k \in Keys : ReadKey(k)) \/ Swap
  \/ FinishRebuild \/ FailRebuild \/ Drain \/ Decide \/ RetryTimer \/ Wake
  \/ DebounceUrged \/ DebounceTimer \/ WorkerEnds

Stop ==
  /\ ~stopped
  /\ stopped' = TRUE
  /\ UNCHANGED <<contentVars, assetVars, statusVars, channelVars, workerVars,
                 writerVars, awaitVars>>

Next ==
  \/ \E w \in Writers : WriterStep(w) \/ \E k \in Keys : Commit(w, k)
  \/ \E a \in Awaiters : AwaiterNext(a)
  \/ WorkerStep \/ DebounceExtended
  \/ Stop

Spec == Init /\ [][Next]_vars

\* The worker's goroutine runs whenever it can, its timers fire (the deadline
\* of a debounce cannot be put off), and handlers run to their end.
Fairness ==
  /\ WF_vars(WorkerStep)
  /\ \A w \in Writers : WF_vars(WriterStep(w))

FairSpec == Spec /\ Fairness

-----------------------------------------------------------------------------
(* Properties                                                              *)

Pending == running \/ requested > published

\* The promise of the projection status: while the service runs, once the
\* status is not pending and shows no error, and no writer is still at work on
\* a file, that public file is what the database holds, withdrawn files
\* included.  The backfill asks for no rebuild, so for side stories this rests
\* on the mutex and the epochs alone.
SettledIsCurrent ==
  \A k \in Keys :
    /\ ~stopped /\ ~Pending /\ ~lastError
    /\ \A w \in Writers : writer[w] = "idle" \/ wkey[w] # k
    => assets[k] = db[k]

\* A full rebuild never takes a public file back to an older version, and
\* never restores a withdrawn one: whatever was published while it was
\* reading, one file at a time, its swap keeps what is newer.
SwapNeverBackwards ==
  [][worker = "reading" /\ worker' = "swapped"
       => \A k \in Keys :
            \/ assets'[k] = assets[k]
            \/ assets'[k].version > assets[k].version]_vars

\* A side story that an editor or the backfill has published is never served
\* older than that again, whichever writers and rebuilds follow.
PublishedStaysServed ==
  \A k \in Serialised : assets[k].version >= acked[k]

\* The inductive invariant behind the two properties above, in named parts.
\* Content x is content y, or an earlier version of it.
Older(x, y) == x.version < y.version \/ x = y

\* What is served, generated or read is the database's, now or earlier.
FromDatabase ==
  /\ \A k \in Keys : Older(assets[k], db[k])
  /\ \A w \in Writers :
       writer[w] = "generated"
         => got[w] # Unread /\ Older(got[w], db[wkey[w]])
  /\ \A k \in Keys : next[k] # Unread => Older(next[k], db[k])

\* A file the rebuild has read is at least as new as what is served, unless
\* the epochs say that it was published since.
ReadIsNewer ==
  /\ worker # "reading" => next = [k \in Keys |-> Unread]
  /\ \A k \in Keys :
       next[k] # Unread /\ incremental[k] <= startEpoch
         => Older(assets[k], next[k])

\* Whoever has generated a side story holds the mutex, and its content is at
\* least as new as all that was published before.
MutexHeld ==
  \A w \in Writers :
    writer[w] = "generated" /\ wkey[w] \in Serialised
      => publishMu = w /\ got[w].version >= acked[wkey[w]]

ProjectionInv ==
  TypeOK /\ FromDatabase /\ ReadIsNewer /\ MutexHeld /\ PublishedStaysServed

\* AwaitPublished tells the truth to the lyrics document routes that call it:
\* when it reports that the publications requested before the call are
\* published, the lyrics served have them.
AwaitTruth ==
  \A a \in Awaiters : \A k \in Keys \ Incremental :
    awaiter[a] = "served" => assets[k].version >= want[a].content[k]

\* No request is lost: whether it finds the worker reading, draining its
\* channels, deciding, debouncing or backing off, it is published.
RequestsPublished ==
  (requested > published) ~> (requested <= published \/ stopped)
=============================================================================
