# TLA+ verification of NEXTmoetranslation

NEXTmoetranslation is a Go server (`src/server`) with a Next.js console
(`src/web`). Editors translate game text, stories and lyrics in the console;
background jobs translate, synchronise and restore whole databases; and the
server publishes the result as public JSON files. The difficult part of the
program is not any one of these jobs but that they go on at the same time over
one SQLite database, an in-memory set of public files and any number of browser
tabs that hold older copies of both. That is what is modelled here.

1. [Inventory](#1-inventory)
2. [Modules and the code they model](#2-modules-and-the-code-they-model)
3. [Runs, bounds and fairness](#3-runs-bounds-and-fairness)
4. [Where code and documents disagree](#4-where-code-and-documents-disagree)
5. [What is proved](#5-what-is-proved)
6. [Abstractions, and what is not modelled](#6-abstractions-and-what-is-not-modelled)
7. [Plan](#7-plan)

## 1. Inventory

Paths are relative to `src/server/internal` unless they begin with `web/`.

| component | state | operations | what makes it correct |
|---|---|---|---|
| editor gate (`editorgate`) | a count of editors, a `Status` (instance, revision, generation, completed generation, running), draining, change hooks | begin/release editor, strict editor, producer; drain | editors and a producer exclude one another; a strict editor works on current content; every generation ends and is announced |
| content lock (`store/store.go`) | a weighted semaphore | shared, exclusive | a restore is alone; shares may be nested without deadlock |
| editor API (`api`) | per request | admission by header, locks, store call, publication of the changed file, notification | every route takes the locks in one order and releases them |
| translation runs (`translator`) | current job, task log | `markStart`, translate, `markEnd` | one run at a time; every return releases gate and lock |
| backup and restore (`backup`) | operation slot, schedule, targets | push, pull, restore | a restore is applied to an empty server; one operation at a time |
| collaboration (`collab`) | rooms, sockets, tickets, checkpoints | ticket, connect, update, checkpoint, revalidate, close | sockets leave when a producer or a restore wants the gate; checkpoints are not lost |
| public files (`filesvc`, `files`) | map of files, epochs, `requested`/`published`, two channels | rebuild worker, incremental publication, `PublishNow`, `AwaitPublished` | no request is lost, no file goes backwards, a settled status is true |
| search index (`searchindex`) | index, generation, cache file | build, supersede, query | queries see one index; an older build does not replace a newer one |
| event hub (`sse`) | clients, queues, presence | subscribe, broadcast, leave, revoke | frames in order or the client is dropped; the roster is current |
| side-story backfill (`translator`) | round, catalogue, pacing | fetch, pair, write, publish | never writes across a restore; human lines are not touched |
| upstream watcher (`upstream`) | last versions | poll, compare, start a run | a change is acted on once |
| lyrics discovery and fetch (`lyricsdiscovery`, `store`) | job rows with leases, worker IDs | scan, claim, check, complete, retry, dead-letter | a lost lease cannot finish a job; a result belongs to the catalog it was made for |
| lyrics sources, review (`lyricssource`, `store`) | pages; review items, gates, decision ledger | fetch, parse; create, decide, decide a batch, replay, import | a decision counts once; only what was approved becomes a draft; parsers are total and strict |
| lyrics store (`store`) | documents, revisions, editions, publications, withdrawals | save, publish, withdraw, take over | optimistic revisions; withdrawal and publication are exclusive |
| users (`auth`) | accounts, token versions | log in, revoke | a revoked token ends its streams and sockets |
| lifecycle (`lifecycle`, `singleinstance`, `shutdown.go`) | drain order, process lock | start, drain, stop | one process on the database; nothing writes after the close |
| database, migrations (`db`, `sqlitedriver`) | schema version | open, migrate | migrations are ordered and atomic |
| importers and verifiers (`importer`, `workspaceverify`, `cmd`) | none | offline file processing | sequential |
| console realtime (`web/.../useConsoleRealtime.ts`) | write fence, proof, stream, timers, conflict dialog | reconcile, react to frames, retry, resolve or discard a draft | never edits what it has not loaded; the fence does not stay up; a draft is not lost on the way |
| console editors and pages (`web`) | forms, drafts | load, save | a save carries the proof under which its document was loaded |

**How they interact.** An editor's request enters the *editor gate*, takes a
share of the *content lock*, commits in the store, publishes the file it
changed (some routes under a second share of the lock) and asks the *rebuild
worker* for a full rebuild. A producer (translation run or restore) publishes
in the gate's status that it is running, waits for the editors to leave, and
owns the gate; a restore then also takes the whole content lock. Each change of
the gate's status goes through hooks to the *event hub*, as a `gate.status`
frame to the *console*, which fences its writes and reloads. A collaboration
socket counts as an editor for as long as it is open; a ticker that finds the
gate claimed closes it. The *lyrics workers* turn the catalog into jobs and the
jobs' results into reviews; an approved review becomes the first draft of a
song, which editors then change through *collaboration rooms* (checkpoints) or
directly, and whoever changes it directly retires the room. At the end of the
process one thread drains, cancels and waits for all of them before it closes
the database.

**What is hard.** Interleavings of handlers, workers and hooks, which the tests
only sample; a wait with three ways out (condition, cancellation, drain);
notifications delivered outside the mutex that ordered them; a lock that is not
reentrant and is taken twice; content read before and published after other
commits; channels of capacity one that drop requests on purpose; timers that
retry what a newer call has superseded; a restart that makes every number a
client holds meaningless; a lease that lapses while its holder works on; a draft
copied out of a room that goes on accepting edits. `PROJECT.json` lists these hazards at the line where
each one bites, with the properties that watch it.

## 2. Modules and the code they model

`PROJECT.json` maps every definition to its lines; this is the outline.

| module | models | built on |
|---|---|---|
| `RWGate` | the abstract promise of the gate: admit, leave, claim, enter, complete, crash | |
| `EditorGate` | `editorgate/gate.go` | implements `RWGate` |
| `EditorGateProofs` | theorems about `EditorGate` | |
| `ContentGate` | `LockContentShared`/`LockContentExclusive` and the `semaphore.Weighted` they use (external) | |
| `ContentAdmission` | the API handlers' locks, collaboration sockets, translation runs, restores, builders | extends `RWGate`, `ContentGate` |
| `ContentAdmissionProofs` | theorems about `ContentAdmission` and `ContentGate` | |
| `FileProjection` | `filesvc/service.go`, `filesvc/side_stories.go` and the handlers that publish | |
| `FileProjectionProofs` | theorems about `FileProjection` | |
| `ConsoleGate` | `useConsoleRealtime.ts` against the gate and its frames | the server's side restates `EditorGate` as one tab sees it |
| `ConsoleGateProofs` | theorems about `ConsoleGate` | |
| `LeasedQueue` | the abstract promise of a table of leased jobs: take, take back, end, leave | |
| `LyricsJobs` | the job table's row transitions (`store/lyrics_discovery_jobs.go`, `lyrics_source_pipeline.go`) | |
| `LyricsReviews` | review items, gates, versions and the decision ledger (`store/lyrics_source_reviews*.go`) | extends `LyricsJobs` |
| `LyricsPipeline` | scan, both workers, administrators, import, catalog changes | extends `LyricsReviews`, implements `LeasedQueue` |
| `LyricsPipelineProofs` | theorems about `LyricsPipeline`, `LyricsJobs` and `LyricsReviews` | |
| `LyricsAuthority` | the lyrics store's transactions on one song | |
| `LyricsCollab` | `collab/service.go`, its persistence, and the handlers that change lyrics | extends `LyricsAuthority` |
| `LyricsCollabProofs` | theorems about `LyricsCollab` and `LyricsAuthority` | |
| `SseHub` | `sse/hub.go` and the stream handler | |
| `ServerProcess` | `shutdown.go`, `lifecycle`, drain and wait of the backup manager and a lyrics worker | extends `SseHub` |
| `ServerProcessProofs` | theorems about `ServerProcess` and `SseHub` | |
| `MC...` (six modules) | model values and symmetry for TLC | |

**EditorGate.** Everything `gate.go` does under its mutex is one action.
`BeginProducerContext` releases the mutex around `notify` and inside
`cond.Wait` and is split there: `BeginProducer` (claim and counters),
`NotifyStarted` (hook), `EnterWait`, `WakeUp` (the callback of
`context.AfterFunc`), `ReturnFromWait` with its two outcomes, then `Produce`
(the job's own write), `producerRelease` and `NotifyFinished`. The observers
are reduced to `observed`, the status delivered last. Two ghosts say what the
header `X-Moe-Loaded-Producer-State` is for: `produced` counts what producers
wrote, `seen[e]` is what a client then read, *after* it had read the status
(`LoadStatus`, then `LoadContent`: two requests, between which anything may
happen). `Restart` loses the process and keeps the clients. `editors` remains a
number, as in the code: that it is the number of editors inside is a theorem.

**ContentAdmission.** Every user of the two locks, in the order in which the
code takes them, with each error return: `contentMutation` (gate, then share),
`rebuildAsset` (the second share of those routes that publish under the
first), `authorize` and `revalidateConnection` (sockets), `markStart`/`markEnd`
(translation), `applyRestoreCandidate`, `BuilderReads`. It stands on `RWGate`,
which `EditorGate` has been shown to implement, so the gate's counters and
wake-ups do not have to be explored again.

**FileProjection.** The worker's loop (`BeginRebuild` to `FinishRebuild` or
`FailRebuild`, `Drain`, `Decide`, `RetryTimer`, `Wake`, the debounce), the two
channels, `Trigger`, `PublishNow`, `applyIncremental` with the epochs, and
`AwaitPublished`. A rebuild reads one file at a time (`ReadKey`), so that
commits and incremental publications fall between its reads. A file is a key
whose class says which route publishes it and how: serialised by a mutex (side
stories), unserialised (events, categories), or not incrementally at all
(lyrics). Its content is a version and whether the generator makes a file of it
at all; a withdrawn file keeps the version at which it was withdrawn.

**ConsoleGate.** One tab: `reconcileContent` in its stages (read the status,
reload, read the status again), the calls a newer one has superseded, which go
on until they notice, retry timers including those whose handle was overwritten
(`leaked`), the stream with its queue of frames, the write fence, the proof, and
a save that travels while the gate moves on. A superseded call may still await
its first read of the status (`orphans`), its reload (`stray`) or its second
read (`late`); at either read it can fail, show its draft and arm a timer before
it looks at the generation. A draft is held in two places, which the code moves
separately: the reference `preserved`, and the conflict dialog, which shows one
whose reload is not done (`frozen`), one whose reload is (`reloaded`), or none
any more (`empty`). A draft comes from the editor, from an earlier page or, in
any load, from a TXT draft of an older revision (`Loads`). The user may open the
document again (`Open`), retry (`Retry`), let go of the draft in the dialog
(`Resolve`) or drop it in the guard of unsaved changes (`Discard`).

**LyricsPipeline.** A job's idempotency key is its target (kind, song, catalog
fingerprint, candidate), so the table is a function from targets to rows; a
row has state, attempts, version, owner, and whether its lease is live and its
retry time reached. `LyricsJobs` and `LyricsReviews` have the row transitions,
`LyricsPipeline` the actors, one SQLite transaction a step. What is read
outside the transaction that uses it is state of its own: the catalog a scan
enumerates (`ScanReads`, `ScanCommits`), the claim and its version (`Claim`,
`CheckClaim`, both under `admissionMu`, then the job without it), the review an
import has loaded before it takes the song's lock (`ImportLoads`,
`ImportSaves`). `Lapse` and `Mature` are time; `NextProcess` is a stop or a
crash, after which worker IDs are new and the table is as it was.
`UpsertCatalog` changes a song's row, its classification or both. `Decide` and
`DecideBatch` are the administrators' requests; the ledger keeps each request
with the versions it saw and the answer it got, from which a repetition is
answered.

**LyricsCollab.** A text is the set of edits it holds, so that merging is union.
The room in memory (`live`, by epoch), the durable row (`row`: snapshot, log,
epoch, and the authority it was made from), the connections (`peer`: ticket,
upgrade, authorization, room) and the operation that holds `opMu` (`op`) are
apart, as in the code. A replacement is `BeginReplace`, `Reseed`,
`CloseRetired`; a checkpoint `BeginCheckpoint`, `Freeze` (first save only),
`Copy`, `SaveCheckpoint`, `Adopt`; `Abandon` is every early return. Saves,
publications, withdrawals, edition changes and document takeovers commit
without `opMu` and owe a replacement (`resets`) which they get later, or never
when the process ends first. `Restore` and `RetireAll` are the two halves of a
restore. The ygo server is external: it loads a room once, queues updates,
stores them from a worker, and drains the queue on close.

**SseHub.** A stream is a handler (`begun`, `added`, `greeted`, `open`,
`leaving`, `left`) with a bounded queue. The client enters the map before its
private snapshot is read, and the joined and left messages are broadcast after
the unlock: each is a step of its own. A hint is the version it is about.

**ServerProcess.** The main thread's position (`stage`) is the only record of
what has been called; the flags of the lifecycle, the manager and the worker
are read off it. Around it run streams, a request (which may run a backup) or
probe, the backup scheduler and a lyrics worker with its `admissionMu`. The
watchdog may end everything at any stage before the close of SQLite.

## 3. Runs, bounds and fairness

| run | configuration | distinct states | checks |
|---|---|---|---|
| `EditorGate` | 2 editors, 2 producers, counter limit 5, 2 process lives | 660 000 | `TypeOK`, `Exclusion`, `CountersExact`, `StrictEditorCurrent`, `ObserverNotStuck`, `GateRefinement` |
| `EditorGateLive` | the same, 1 process life, fair | 224 000 | `CancelReturns`, `GenerationEnds` |
| `ContentAdmission` | 2 handlers, a socket, the translator, the restore, a builder, 2 restores, fair | 27 600 | `TypeOK`, `OneContent`, `NestedShareSafe`, `ClaimsEnd`, `HandlersEnd` |
| `StoryProjection` | a side story and an event story, 2 handlers, the backfill, 2 commits, 2 failures | 531 000 | `SettledIsCurrent`, `PublishedStaysServed`, `SwapNeverBackwards` |
| `LyricsProjection` | lyrics, 2 commits, 1 failure, 1 `AwaitPublished`, fair | 492 000 | `SettledIsCurrent`, `AwaitTruth`, `RequestsPublished` |
| `CategoryProjection` | a category, 2 handlers, 2 commits | violated | `SettledIsCurrent` |
| `ConsoleGate` | 1 producer run, 1 cut, 1 failure, 1 save or decision of the user, fair | 690 000 | `TypeOK`, `ReloadVouches`, `OnlyDiscardStrands`, `DraftKept`, `FenceLifts` |
| `ConsoleProof` | 1 producer run, 1 save | violated | `SaveOnLoadedContent` |
| `LyricsPipeline` | 1 song, 2 fingerprints, 2 candidates of 2 providers, 2 discovery consumers, 1 fetch consumer, 2 request keys, 2 gates, 2 attempts, 1 catalog change, 2 faults | 288 000 | `OneEffect`, `PendingIsCurrent`, `ReplayAnswersSame`, `VersionsAccounted`, `QueueRefined`, `DraftIsVouched` |
| `ReviewFailsClosed` | the same | violated | `ReviewFailsClosed` |
| `LyricsCollab` | 2 connections, 1 edit, 3 epochs, 3 revisions, 1 fault | 1 940 000 | `TypeOK`, `TypedKept`, `RetiredInert`, `FirstSaveComplete`, `CheckpointOnlyAdds` |
| `ServerProcess` | 2 users with a tab each, queues of 1, 2 changes, fair | 510 000 | `TypeOK`, `CaughtUp`, `NoClaimAfterDrain`, `NothingAfterClose`, `ShutdownEnds` |

**Why the bounds are enough to be interesting.** Two producers are what it
takes for one to be refused, or to begin between another's release and its
notification; a limit of 5 is two whole generations and a third one refused at
the limit; like the code's 2^53-1 it is odd, so that the refused start would
itself still fit and only its end would not. One restart suffices for a client to hold a
status of a dead instance. Two handlers, a restore and a builder fill the
content lock's queue in every order. Two commits are what it takes for one
publication to overtake another or to fall between two reads of a rebuild; one
failure exercises the back-off and two the back-off of a back-off. In the
console one cut is either a lost stream or a restart, one failure may meet the
latest call or a superseded one, and one save or decision of the user falls
anywhere between the steps of both. The kinds of file share
only the worker and its counters, so they are checked in separate runs.
In the pipeline two discovery consumers are what it takes for one to lose its
lease to the other and to come back; two faults are a lapsed lease and a restart
or a failure after it; two attempts include the last one; one change of the
catalog can fall between any two steps of a scan, a job or an import; two keys
are two decisions on one item, or a decision and one that comes too late. In a
room two connections are one that edits and one that is admitted, loads or is
dropped meanwhile; three epochs are a room, the one that replaced it and one
more. A queue of one entry is full after one message, and two changes overflow
it; each of the two users is told of the other's coming and going.

**Deadlock** is checked in `EditorGate`, `EditorGateLive`, `ContentAdmission`
and `ConsoleProof`. The projection's, the console's and the lyrics' runs switch
it off: when their bounded writes, runs, failures and catalog changes are used
up and the worker, the tab or the room has settled, nothing is left to do, in
the model and in the program alike. `ServerProcess` switches it off because the
process ends.

**Fairness.** All of it is weak fairness.
- `EditorGate`: a producer's own steps and its `AfterFunc` goroutine, since the
  Go scheduler runs what is runnable. Nothing obliges an editor to leave.
  `GenerationEnds` assumes besides, in its own statement (`ReleaseFairness`),
  that handlers and jobs end: they release in a deferred call.
- `ContentAdmission`: handlers, translator, restore and builders take the steps
  they can take; a socket is closed only by its revalidation ticker (20 s).
  Nobody is obliged to send a request or to hang up.
- `FileProjection`: the worker runs, its timers fire (a debounce cannot be put
  off beyond its deadline) and handlers run to their end. The rebuild may fail
  as often as its bound permits, so `RequestsPublished` says that failures
  which stop are recovered from.
- `ConsoleGate`: requests are answered (one way or the other), timers fire, the
  stream is reopened and read, a running producer ends. The three stages of a
  call share one condition, as do the two reads of superseded calls. A user is not obliged
  to do anything: a frozen draft may wait for ever. After a draft is dropped in
  the guard of unsaved changes nothing obliges the server to send another frame
  either, so `FenceLifts` starts from what is owed: a call, a timer, a
  reconnection or a frame.
- `ServerProcess`: the main thread runs; claims, snapshots and broadcasts take
  finite time; a loop that is told to stop stops; and what has been cancelled
  returns, since `httpServer.Close` and the cancelled contexts end requests,
  streams, backups and jobs. Before the cancellation nobody is obliged to end
  anything, and the watchdog is not relied on.
- `LyricsPipeline` and `LyricsCollab` assume no fairness and state safety only.

**What the runs show.** A producer and an editor are never inside together; the
count the code keeps cannot be wrong by an early or doubled release; a client
that proves a status has the content of that status, restarts included; no
client is left with "running" on its screen; no wake-up is lost when
cancellation, release and drain race. No operation spans a restore, the nested
share cannot deadlock with the exclusive request, and a socket left open does
not hold a claim up. Side stories and events are published exactly once the
status says so, never backwards; no publication request is lost to a drained
channel, a debounce or a back-off; `AwaitPublished` does not return true too
early. What a reconciliation vouches for is true however many of its
predecessors are still on their way, and the fence comes down again, or a draft
awaits its user; only a draft dropped in the guard leaves it to the next frame.
A lyrics job has its effect once, whoever lost its lease at whatever moment,
and the table implements a leased queue; an artifact that waits for review is of
today's catalog; a repeated decision request is answered as the first time, and
every version of an item is accounted for; a first draft is made only of what
was fetched and approved in every gate for the song as it is. What was typed in
a room stays while the room does, a retired room writes nothing into its
successor, a first save has all that its room accepted, and no checkpoint undoes
another's save. A stream that stays up has missed no change. The worker claims
nothing once its drain has returned, SQLite is closed after all the work that the
shutdown tracks, and the shutdown ends by itself.

Each property has a mutant in `PROJECT.json`: a variation of one definition, as
a slip in that code might have made it (`..._Silent`, `..._NoMutex`,
`..._OffByOne`), which violates it under the same configuration.

## 4. Where code and documents disagree

**A category's public file can stay old (`CategoryProjection`).** The swap at
the end of a rebuild keeps files published incrementally since the rebuild
began, because such a publication "is newer than the bytes generated above"
(`filesvc/service.go:1023-1024`). For categories nothing serialises reading and
publishing: a handler that generated version 1 and was delayed can publish it
after another handler's version 2, while a rebuild that has read version 2 is
under way; the swap then keeps version 1. The store asked for that rebuild when
it committed, before the handlers published, so nothing else is requested and
the status settles over the old file, although `README.md:112` says that the
bytes of a save are in effect then. The same model with the side stories'
mutex, or with the events' order (publish, then request), satisfies the
property (`StoryProjection`). The next write or publication repairs the file.

**The first frame lifts the fence (`ConsoleProof`).** The console's contract
test says "SSE gaps lock writes until authoritative reconciliation completes"
(`web/tests/console-contract.test.mjs:241`) and `README.md:108` that the header
is the gate status under which the edited document was loaded. The
`gate.status` handler (`useConsoleRealtime.ts:458`) accepts every status that
is not running as the loaded one and lifts the fence. The server sends such a
frame first on every stream, right after the reopened stream has started a
reconciliation. Until that reconciliation has reloaded, the tab can save what
it loaded before a producer ran, with a proof the gate accepts. What the
server still checks on that save (revisions of single rows) is outside this
model. The reconciliation itself is right: `ReloadVouches` holds of the proofs
it gives.

**A late discovery ends the review of the current catalog row
(`ReviewFailsClosed`).** `PRODUCTION_CONTRACT.md:159` says that doubtful catalog
rows "fail closed into private review", and the comment at
`store/lyrics_source_reviews_list.go:59` that "a current catalog generation
never silently reuses an older pending item".
`CompleteLyricsDiscoveryResult` does not read the catalog again, and
`createLyricsSourceReviewTx` ends every pending candidate item of the song whose
fingerprint is not the one it is called with. A discovery claimed before the row
changed, which finds several candidates, therefore supersedes the item the scan
has made for the new row, and the next scan's `ON CONFLICT(domain_key) DO
NOTHING` leaves it superseded: nobody can decide the song's current row until
its fingerprint changes again. Fetched artifacts are not affected:
`CompleteLyricsFetch` does read the catalog again (`PendingIsCurrent`).

## 5. What is proved

Every safety property of every passing run, types, invariants, action properties
and both refinements, is a theorem: for every number of editors, producers,
handlers, files, writers, songs, consumers, connections and streams, and for
every bound. TLC checked each inductive invariant on the run's instance first.
The type invariants of `FileProjection` and `LyricsPipeline` are proved only; no
run checks them.

**`EditorGateProofs`**, from `EditorGateAssumption` (finitely many editors,
editors and producers are different, the limits are natural numbers). The
inductive invariant `IInv` is the conjunction of
- `TypeOK`, `EditorCount` (the counter is the cardinality of the set of editors
  inside), `Exclusion`, `RunningIsClaim` (running if and only if exactly one
  producer holds the claim) and `CountersExact`;
- `LoadedPast` and `LoadedCurrent`, without which `StrictEditorCurrent` is not
  inductive. A loaded status is never ahead of the gate's; and a client whose
  loaded instance and revision are those of a gate that is not running has seen
  everything produced, because a producer writes only after it has moved the
  revision and before it moves it again;
- `OwedEnd`, without which `ObserverNotStuck` is not: whoever is about to
  announce an end hands over a status that is not running.

From it follow `TypeCorrect`, `GateExclusion`, `GateCounters`,
`GateStrictCurrent`, `GateObservers`, and `GateImplements`: `EditorGate`
implements `RWGate`, one step or a stutter for every action.

**`ContentAdmissionProofs`**, from `RWGateAssumption`, `ContentGateAssumption`
and `ContentAdmissionAssumption` (the roles are disjoint, and there is one
translation run and one restore at a time, as their managers see to). The invariant `Inv` ties each actor's place to what it holds:
`RolePlaces` (which places a role can be in), `GateHolders` (who is in the gate,
and that a producer past its wait is alone there), `Queue` (nobody waits twice
for the content lock, only the restore asks for the whole, and only at the
places where the code waits), `Locks` (the shares of each actor are exactly
those of its place, less the one it waits for; the restore owns the lock or
nobody does) and `Counts`. `OneContentHolds` needs `GateHolders` and `Locks`
together: handlers, sessions and translation are kept out of a restore by the
gate, builders by the lock alone. `NestedShareSafeHolds` follows from
`GateHolders`: a restore asks for the lock once no handler is inside, so none is
at its second share. The lemmas on the queue (`NotifyServes`, `AppendQueue`,
`RemoveQueue`) say whom the semaphore's wake-up serves and what it leaves.

**`FileProjectionProofs`**, from `FileProjectionAssumption`, which includes that
there is one backfill loop (`startOnce` in `SideStoryBackfill.Start`). The
invariant `ProjectionInv` adds to the types
- `FromDatabase`: all that is served, generated or read is a version the
  database has, or had;
- `ReadIsNewer`: a file the rebuild has read is at least as new as the one
  served, unless its epoch says that it was published since the rebuild began.
  That is exactly what the comparison in the swap relies on;
- `MutexHeld`: whoever has generated a side story holds
  `sideStoryPublishMu`, and what it has generated is at least as new as what was
  acknowledged before;
- `PublishedStaysServed` itself.

From it follow `ProjectionTypes`, `SideStoriesStayServed` and
`RebuildsGoForward` (`SwapNeverBackwards`: a swap never moves a file
backwards, for every class of file, categories included: it is the incremental
publication that does).

`CurrentInv` says where the promise of a settled status comes from: at every
moment a file is the database's, or *owed* by a writer that has not yet asked
for its rebuild, or *due*: requested and not yet published, or not yet read by
the running rebuild, or read as the database still has it. The one writer that
does not ask for a rebuild after it has published is the backfill; what it has
generated is the newest, or a handler that wrote since waits for the mutex
(`Overtaken`). `SettledIsCurrentHolds` assumes that no file is both notified
first and published by its handler. That is true of side stories, events and
lyrics, the files of the two passing runs, and false of categories, for which
the run `CategoryProjection` shows the property violated; `CurrentInvariant` is
proved without the assumption, for the files to which it applies.

`AwaitInv` (`Covered`): for the generation a caller counts on, what it asked for
is in the database, is served once that generation is published, and is in what
a rebuild of that generation has read or swapped in. A new request satisfies it
because it counts on a generation beyond the rebuild that runs.
`AwaitTruthHolds` follows.

**`ConsoleGateProofs`**, from `ConsoleGateAssumption` (the bounds are natural
numbers). `Inv` has the types by groups of variables, and three facts that
depend on each other: `CallReads` (what the latest call read before its reload
was the gate's status, and if it still is, the reload has shown what the server
holds), `ProofPast` (a proof is never ahead of the gate) and `ReloadVouches`.
The superseded calls and leaked timers of the tab need no part of their own:
they reload, but what they show is what the server holds when they show it.
`OnlyDiscardStrandsHolds` needs `Outlook` besides: the last frame under way is
the gate's present status (`LastFrame`), so that the fence it leaves up is that of
a running producer or of a draft; and a draft that holds the fence without being
shown has a call, a timer or a reconnection to come (`HeldPending`). Each step is
then one that leaves something pending, shows a draft, lowers the fence or touches
none of it. `DraftKeptHolds` needs only the types: `Guarded` is kept by every
step, since a call, a timer and a superseded call hand on the draft they carry,
and a new call takes up the one that is held.

**`LyricsPipelineProofs`**, from `MaxAttemptsAssumption`, `PipelineAssumption`
(a consumer belongs to one worker) and `ReviewsAssumption` (the names of the
gates are not those of the other decisions; the empty ledger entry is not a
request).
- `OneEffectHolds` rests on `JobInv`: the rows have their types, and a target
  has one effect if its row says succeeded and none otherwise. Each transition
  of the table keeps that (`Sound`), since only the holder of a live lease
  succeeds a row and no transition leaves "succeeded".
- `PendingIsCurrentHolds` rests on `ItemInv`: a pending artifact has the
  fingerprint of its song's catalog row. The upsert keeps it by superseding the
  stale ones in its own transaction, and the fetch's completion by its second
  look at the catalog.
- `PipelineImplementsQueue`, the refinement of `LeasedQueue`, rests on `Working`:
  a consumer's version is never ahead of its row's, and no two consumers have
  the same claim, so that the holder of a task, which the table knows only by
  owner and version, is one consumer. `StepKinds` sorts the steps into those
  that take, end or take back a claim and the rest.
- `VersionsAccountedHolds`, `ReplayAnswersSameHolds` and `DraftIsVouchedHolds`
  rest on `ReviewInv`. `Accounted`: each version of an item was made by one
  recorded decision. `Chained`: each recorded answer is its decision applied to
  the item as the answer before left it. `Vouched`: an approved gate has its
  decision in the ledger. The answer to a repetition is rebuilt by a recursive
  function over the versions (`History`); that it arrives at the recorded answer
  is an induction over finitely many versions, done with the cardinality of
  the set of versions for which it holds (`UpTo`).
- `PipelineTypes`, from these and `RestTypes`.

**`LyricsCollabProofs`**, from `CollabAssumption` and `BundleAssumption` (the
bounds and the revision of the embedded bundle are natural numbers). `IInv` has
the types; `EpochOrder` (nothing is of a later epoch than the row, and the epochs that
replacements are still owed fit the bound);
`RoomState` (only an open room has peers or a queue); `RowState` (the row holds
the text of the authority it was made from, and the room of its epoch holds
exactly what the row has and what is still queued); `CheckpointState` (while a
checkpoint runs, the authority it began with can only be saved over by a later
revision; its draft contains that authority's text; and a first save's room is
no longer open); and `TypedKept`. The three action properties are read off it:
`RetiredInertHolds` from `RoomState` and the epoch check of `Accepted`,
`FirstSaveCompleteHolds` and `CheckpointOnlyAddsHolds` from `CheckpointState`.

**`ServerProcessProofs`**, from `HubAssumption`. `ProcInv` says of every stage
that what has been waited for up to it stays as it was waited for: no claim once
the worker's drain has returned, the worker gone after its wait, the scheduler
after its own, no request or stream after the last. `NoClaimAfterDrainHolds` and
`NothingAfterCloseHolds` follow. `CaughtUpHolds` rests on `HubInv`: the types of
streams and queues, and that every client in the map that has its snapshot knows
the last version told, by having seen it or having it queued; a client that
cannot be given it is disconnected. `ServerTypes` adds the bounds: no queue
outgrows its size, and no user has more streams in the map than allowed.

**Only model-checked.** Liveness under fairness (`CancelReturns`,
`GenerationEnds`, `ClaimsEnd`, `HandlersEnd`, `RequestsPublished`, `FenceLifts`,
`ShutdownEnds`), which is beyond the proof system's backends. The three runs
that expect a violation show counterexamples, of which there is nothing to prove.

## 6. Abstractions, and what is not modelled

- The database is a version per file, a number of producer writes or a number
  of restores, whichever a module's properties tell apart; a transaction is one
  step.
- The content lock's weight, 2^20, is taken never to be exhausted by shares.
- The header's syntax, HTTP status codes, JSON and file bytes are left out. So
  is `Service.Rebuild`, the synchronous rebuild that production code does not
  call, and the overlay of the lyrics embedded in the image.
- `ConsoleGate` has one document and one tab. Superseded calls (and timers)
  that wait in the same place with the same draft flag count as one. Whether a
  call finds an unsaved draft is a free choice, except that a frozen draft is
  never forgotten by it. Frames arrive in the gate's order; what the hooks of two
  producers can do to that order is `EditorGate`'s subject. Left out are remote
  edits, which start reconciliations of their own (`contentEventGeneration`), the
  producer operations that the console itself starts (`guardProducerMutation`
  raises the fence for their duration and then reconciles), presence and messages
  to the user. Clearing the browser's storage is taken to succeed; where it fails
  the code changes nothing.
- `LyricsPipeline` has one song, so a batch never holds two pending artifacts.
  What a provider's pages say is a free choice of candidates. Status counters,
  pacing and the job operations that production code never calls
  (`EnqueueLyricsDiscoveryJob`, `CancelLyricsDiscoveryJob`,
  `FailLyricsDiscoveryJob`, `CompleteLyricsDiscoveryJob`,
  `CompleteLyricsDiscoveryShadowResult`) are left out.
- `LyricsCollab` has one song. Deletions and the order of text are not
  distinguished: an edit is there or not. Size and rate limits are left out.
  What a checkpoint encodes is either the draft it copied or all the room holds
  by then, since the code encodes after it copies. After a restore whose
  `RetireAll` fails (`Abandon`), a row with the same authority keeps its draft
  at the new epoch, as in the code. `bumpAllEpochs` is not called in production.
- `SseHub` leaves out the roster inside the presence messages, heartbeats and
  the limit over all users; with a tab for each user the limit per user is not
  exceeded.
- `ServerProcess` has one lyrics worker for the two, and neither the translator
  nor the side-story, upstream, search and file workers, which are cancelled and
  waited for in the same way. `collab.Shutdown`, which `services.drain` calls
  before `httpServer.Shutdown`, is left out with the sockets it closes. These are
  hijacked connections: one that outlives it is ended by the watchdog only.
  `NothingAfterClose` is about the work that the shutdown keeps track of. The
  goroutine that revalidates a socket's ticket every 20 seconds
  (`collab/service.go:282`) reads SQLite, ends with its request's context and is
  waited for by nobody, so a read of it can still meet a closed database.
- Facts seen in the code about which nothing is stated: a reconciliation that
  began without a draft ends by clearing `preservedConflictDraftRef`, closing the
  dialog and lifting the fence (`useConsoleRealtime.ts:292`), also when a TXT
  draft was frozen since, by its own reload or by the user opening the document;
  the copy in the browser's storage remains, and the next load finds it again.
  Calls and timers that carry a draft when `discardFrozenConflict` drops it have
  it in their closure: one that fails or ends shows it again, and a retry stores
  it again. The same function leaves the fence as it is and starts no
  reconciliation, so that the console may wait for the next frame or reconnection
  (`OnlyDiscardStrands`: the only such case). The gate's hooks may deliver the
  end of one generation after the beginning or the end of the next; the
  consoles then show the older status until another frame, or until the gate
  refuses a save and they reconcile. A retryable failure on
  the last attempt leaves its row in `retry_wait`, where it is neither claimed
  nor dead-lettered (`RetryLyricsDiscoveryJob`; the claim requires
  `attempts < max_attempts`); a job dead-lettered for drift is not queued again
  when the fingerprint returns; a room whose load began before a checkpoint's
  commit and ended after its adoption has the old revision, and its checkpoints
  conflict until it is loaded again; `Worker.Drain` waits for `admissionMu`
  without regard to the drain's timeout, so that only the watchdog bounds a
  claim that hangs.

**Not modelled**, and why.
- Clients and parsers of external pages (`lyricssource`): text in, structure
  out, sequential, with a test corpus of their own.
- Formats and validation of backups (`store/content_backup.go`) and of lyrics
  documents and renditions; the file generators: conversions of data without
  interleaving. The steps around them (restore, save, publish, rebuild) are
  actions of the modules above.
- Migrations: SQL text, run once before anything else starts.
- Authentication: password hashing, tokens and roles; a revocation is an action
  of `SseHub` and of `LyricsCollab`.
- The upstream watcher: one polling loop, whose runs are those of
  `ContentAdmission`. The generations of the search index, compared under their
  own mutex.
- Importers, verifiers and migration tools: offline and sequential.
- Rendering and form state of the console.

Most of the repository's code is of these kinds (parsing, formatting, SQL and
user interface), so the modelled lines are a small share of all lines, although
most parts that run concurrently with others appear in some module.

## 7. Plan

Gate, locks, projection and the console's fence came first because every other
part stands on them; then the lyrics pipeline, the collaboration rooms, the
event hub and the end of the process. What is left, in this order:

1. `SearchIndex`: superseded builds, persisted index and queries.
2. `SideStoryBackfill`: rounds, catalogue refresh after a restore, and the
   source priority of the official synchronisation.
3. `LyricsOverlay`: database publications, withdrawals and embedded lyrics
   merged into the public set, a pure algorithm against a reference definition.
4. `UpstreamWatcher`.

Theorems to add come with these modules: every safety property that a run checks
today is proved.
