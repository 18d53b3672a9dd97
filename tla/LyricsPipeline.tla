---------------------------- MODULE LyricsPipeline ----------------------------
(***************************************************************************)
(* The lyrics source pipeline: the discovery and the fetch worker consume  *)
(* the leased job table, their results become fetch jobs and private       *)
(* reviews, administrators decide the reviews, and an approved artifact is *)
(* imported as the song's first draft.  Meanwhile the catalog changes      *)
(* under all of them, leases lapse, and the process ends and is started    *)
(* again.                                                                  *)
(*                                                                         *)
(* One SQLite transaction is one step.  What the code reads outside a      *)
(* transaction and uses in a later one is kept in the actor's own state:   *)
(* the catalog a scan enumerates, the job and version a consumer claimed,  *)
(* the review an import loaded.                                            *)
(***************************************************************************)
EXTENDS LyricsReviews, Sequences

CONSTANTS
    DiscoverConsumers,  \* goroutines of the discovery worker
    FetchConsumers,     \* goroutines of the fetch worker
    ProviderOrder,      \* the order in which ClaimFetch tries the providers
    None,               \* no song, no review, no document
    MaxChanges,         \* bound: upstream changes of the catalog
    MaxFaults           \* bound: lapsed leases, failures and process ends

ASSUME PipelineAssumption ==
    /\ DiscoverConsumers \cap FetchConsumers = {}
    /\ MaxChanges \in Nat /\ MaxFaults \in Nat

VARIABLES
    catalog,    \* song -> [fp, disp]: catalog_music and its classification
    changes,    \* upstream changes so far
    jobs,       \* target -> row of the job table
    effects,    \* target -> how often its result has been stored
    reviews,    \* review key -> review item
    ledger,     \* key -> the decision request it recorded, with its answer
    doc,        \* song -> the review its first draft was imported from
    import,     \* the review an import request has loaded
    scan,       \* the catalog the running scan has read
    consumer,   \* per consumer its loop position and the job it holds
    process,    \* the process, hence the worker IDs
    faults      \* lapsed leases, failures and process ends so far

storeVars == <<jobs, effects, reviews, ledger, doc>>
workVars == <<scan, consumer, process>>
vars == <<catalog, changes, storeVars, import, workVars, faults>>

Consumers == DiscoverConsumers \cup FetchConsumers
WorkerOf(c) == IF c \in DiscoverConsumers THEN "discover" ELSE "fetch"
Entries == [fp : Fingerprints, disp : {"full_target", "review"}]
NoTarget == [kind |-> "none", music |-> None, fp |-> None, cand |-> None]
AtRest == [pc |-> "idle", job |-> NoTarget, version |-> 0]

\* admissionMu of the worker is free: no scan, and no claim being checked.
AdmissionFree(w) ==
    /\ w = "discover" => scan = None
    /\ \A c \in Consumers : WorkerOf(c) = w => consumer[c].pc # "checking"

Init ==
    /\ catalog \in [Music -> Entries]
    /\ changes = 0
    /\ jobs = [t \in Targets |-> Absent]
    /\ effects = [t \in Targets |-> 0]
    /\ reviews = [k \in ReviewKeys |-> NoReview]
    /\ ledger = [i \in Keys |-> NoRequest]
    /\ doc = [m \in Music |-> None]
    /\ import = None
    /\ scan = None
    /\ consumer = [c \in Consumers |-> AtRest]
    /\ process = 1 /\ faults = 0

Fault == faults < MaxFaults /\ faults' = faults + 1

\* Upstream sync upserts the song; a changed row ends stale pending reviews.
\* The classification may also change because another song of the group
\* did, and then this song's row and its reviews stay as they are.
UpsertCatalog(m) ==
    /\ changes < MaxChanges
    /\ \E e \in Entries, rowChanged \in BOOLEAN :
        /\ e.fp # catalog[m].fp => rowChanged
        /\ catalog' = [catalog EXCEPT ![m] = e]
        /\ reviews' = IF rowChanged THEN SupersedeStale(reviews, m, e.fp)
                      ELSE reviews
        /\ <<catalog', reviews'>> # <<catalog, reviews>>
    /\ changes' = changes + 1
    /\ UNCHANGED <<jobs, effects, ledger, doc, import, workVars, faults>>

\* Time passes the lease of a job, or its retry time.
Lapse(t) ==
    /\ jobs[t].state = "leased" /\ jobs[t].live
    /\ jobs' = [jobs EXCEPT ![t].live = FALSE]
    /\ Fault
    /\ UNCHANGED <<catalog, changes, effects, reviews, ledger, doc, import, workVars>>

Mature(t) ==
    /\ jobs[t].state = "retry_wait" /\ ~jobs[t].due
    /\ jobs' = [jobs EXCEPT ![t].due = TRUE]
    /\ UNCHANGED <<catalog, changes, effects, reviews, ledger, doc, import, workVars, faults>>

\* The process stops at any moment, in order or killed, and the next one
\* opens the same database with new worker IDs.
NextProcess ==
    /\ process' = process + 1
    /\ scan' = None
    /\ consumer' = [c \in Consumers |-> AtRest]
    /\ import' = None
    /\ Fault
    /\ UNCHANGED <<catalog, changes, storeVars>>

-----------------------------------------------------------------------------
(* The scan of the discovery worker, under admissionMu.                    *)

\* The catalog is read before the transaction begins.
ScanReads ==
    /\ AdmissionFree("discover")
    /\ scan' = catalog
    /\ UNCHANGED <<catalog, changes, storeVars, import, consumer, process, faults>>

\* Full targets become discover jobs and doubtful ones private reviews, in
\* one transaction.
ScanCommits ==
    /\ scan # None /\ scan' = None
    /\ jobs' = Enqueue(jobs, {t \in Targets :
                   /\ t.kind = "discover" /\ scan[t.music].fp = t.fp
                   /\ scan[t.music].disp = "full_target"})
    /\ reviews' = CreateReviews(reviews, {k \in ReviewKeys :
                   /\ k.kind = "candidate" /\ k.cands = {}
                   /\ scan[k.music] = [fp |-> k.fp, disp |-> "review"]})
    /\ UNCHANGED <<catalog, changes, effects, ledger, doc, import, consumer, process, faults>>

ScanFails ==
    /\ scan # None /\ scan' = None
    /\ UNCHANGED <<catalog, changes, storeVars, import, consumer, process, faults>>

-----------------------------------------------------------------------------
(* A consumer of worker w.                                                 *)

ProvidersTried(w) == IF w = "discover" THEN <<Fandom>> ELSE ProviderOrder

\* The claim transaction, under admissionMu.  The fetch worker tries its
\* providers in order and ends the lapsed leases of each one it tries.
Claim(c) ==
    LET w == WorkerOf(c)
        order == ProvidersTried(w)
        table(n) == ExpireLapsed(jobs, w, {order[i] : i \in 1..n})
        takes(n) == Claimable(table(n), w, {order[n]})
    IN  /\ consumer[c].pc = "idle"
        /\ AdmissionFree(w)
        /\ \/ \E n \in 1..Len(order) :
                /\ \A i \in 1..(n - 1) : takes(i) = {}
                /\ \E t \in takes(n) :
                    /\ jobs' = [table(n) EXCEPT ![t] = Lease(@, <<w, process>>)]
                    /\ consumer' = [consumer EXCEPT ![c] =
                           [pc |-> "checking", job |-> t, version |-> jobs'[t].version]]
           \/ /\ \A i \in 1..Len(order) : takes(i) = {}
              /\ jobs' = table(Len(order)) /\ jobs' # jobs
              /\ UNCHANGED consumer
        /\ UNCHANGED <<catalog, changes, effects, reviews, ledger, doc, import,
                       scan, process, faults>>

\* Job t is leased to the claim that c works on.
Owns(c, t) ==
    /\ consumer[c].job = t /\ jobs[t].state = "leased"
    /\ consumer[c].version = jobs[t].version

Holds(c) == HoldsLease(jobs[consumer[c].job], <<WorkerOf(c), process>>, consumer[c].version)

\* The claimed job is compared with the catalog, still under admissionMu:
\* a drifted one is dead-lettered, if the lease has not lapsed meanwhile.
CheckClaim(c) ==
    LET t == consumer[c].job
        drifted == catalog[t.music].fp # t.fp
    IN  /\ consumer[c].pc = "checking"
        /\ consumer' = [consumer EXCEPT ![c] = IF drifted THEN AtRest
                                               ELSE [@ EXCEPT !.pc = "running"]]
        /\ jobs' = IF drifted /\ Holds(c)
                   THEN [jobs EXCEPT ![t] = TerminalFail(@)] ELSE jobs
        /\ UNCHANGED <<catalog, changes, effects, reviews, ledger, doc, import,
                       scan, process, faults>>

\* A mistaken form of the next action: the effects are committed before the
\* lease is checked.
StoreResultUnfenced(c) ==
    /\ consumer[c].pc = "running"
    /\ effects' = [effects EXCEPT ![consumer[c].job] = @ + 1]
    /\ consumer' = [consumer EXCEPT ![c] = AtRest]
    /\ UNCHANGED <<catalog, changes, ledger, doc, import, scan, process, faults>>

\* What every successful completion does beside its own inserts.
StoreResult(c) ==
    /\ consumer[c].pc = "running" /\ Holds(c)
    /\ effects' = [effects EXCEPT ![consumer[c].job] = @ + 1]
    /\ consumer' = [consumer EXCEPT ![c] = AtRest]
    /\ UNCHANGED <<catalog, changes, ledger, doc, import, scan, process, faults>>

\* CompleteLyricsDiscoveryResult: one candidate is fetched, several are put
\* to review, none leaves only the result.  The catalog is not read again.
CompleteDiscovery(c) ==
    LET t == consumer[c].job
    IN  /\ c \in DiscoverConsumers /\ StoreResult(c)
        /\ \E found \in SUBSET Candidates :
            /\ jobs' = Enqueue([jobs EXCEPT ![t] = Succeed(@)],
                   {n \in Targets : /\ n.kind = "fetch" /\ {n.cand} = found
                                    /\ n.music = t.music /\ n.fp = t.fp})
            /\ reviews' = IF Cardinality(found) < 2 THEN reviews
                          ELSE CreateReviews(reviews,
                                   {[kind |-> "candidate", music |-> t.music,
                                     fp |-> t.fp, cands |-> found]})

\* A mistaken form of the next guard: the catalog is not read again.
FetchNotRechecked(t) == TRUE

\* CompleteLyricsFetch accepts the artifact only for the catalog as it is.
StillTarget(t) == catalog[t.music] = [fp |-> t.fp, disp |-> "full_target"]

\* CompleteLyricsFetch: artifact, analysis and associations are inserted or
\* verified and the artifact is put to review.
CompleteFetch(c) ==
    LET t == consumer[c].job
    IN  /\ c \in FetchConsumers /\ StoreResult(c)
        /\ StillTarget(t)
        /\ jobs' = [jobs EXCEPT ![t] = Succeed(@)]
        /\ reviews' = CreateReviews(reviews,
                          {[kind |-> "artifact", music |-> t.music, fp |-> t.fp,
                            cands |-> {t.cand}]})

\* The attempt failed: retried later, or for ever when not retryable.
FailAttempt(c) ==
    /\ consumer[c].pc = "running" /\ Holds(c)
    /\ \E row \in {RetryLater(jobs[consumer[c].job]), TerminalFail(jobs[consumer[c].job])} :
        jobs' = [jobs EXCEPT ![consumer[c].job] = row]
    /\ consumer' = [consumer EXCEPT ![c] = AtRest]
    /\ Fault
    /\ UNCHANGED <<catalog, changes, effects, reviews, ledger, doc, import,
                   scan, process>>

\* The store refused the transition (lease lost, source drift, database
\* error) or the context was cancelled: the row is left to its lease.
Abandon(c) ==
    /\ consumer[c].pc = "running"
    /\ consumer' = [consumer EXCEPT ![c] = AtRest]
    /\ IF Holds(c) THEN Fault ELSE UNCHANGED faults
    /\ UNCHANGED <<catalog, changes, storeVars, import, scan, process>>

-----------------------------------------------------------------------------
(* Administrators.  A request is applied once per (actor, key); the same   *)
(* request again is answered from the ledger and changes nothing.          *)

\* One item: a candidate is selected or all are excluded, or a gate of an
\* artifact is decided.  A selection queues the fetch in the same step.
Decide(i, k) ==
    \E gate \in Gates \cup {"candidate", "overall"} :
    \E d \in IF gate = "candidate" THEN {"selected", "excluded"} ELSE {"approved", "rejected"} :
    \E cand \in IF d = "selected" THEN k.cands ELSE {NoCandidate} :
        /\ ledger[i] = NoRequest
        /\ Decidable(k, reviews[k], gate, reviews[k].version)
        /\ reviews' = [reviews EXCEPT ![k] = Decided(@, gate, d)]
        /\ jobs' = Enqueue(jobs, {t \in Targets :
                       /\ t.kind = "fetch" /\ t.cand = cand
                       /\ t.music = k.music /\ t.fp = k.fp})
        /\ ledger' = [ledger EXCEPT ![i] =
               [gate |-> gate, decision |-> d, seen |-> [x \in {k} |-> reviews[k].version],
                answer |-> [x \in {k} |-> reviews'[k]]]]
        /\ UNCHANGED <<catalog, changes, effects, doc, import, workVars, faults>>

\* A mistaken form of the next action: the items that can be decided are,
\* and the conflicting ones are passed over.
DecideSomeOfBatch(i, ks) ==
    \E d \in {"approved", "rejected"} :
        LET ok == {k \in ks : k.kind = "artifact" /\ reviews[k].state = "pending"}
        IN  /\ ledger[i] = NoRequest /\ ok # {}
            /\ reviews' = [k \in ReviewKeys |-> IF k \in ok
                              THEN Decided(reviews[k], "overall", d) ELSE reviews[k]]
            /\ ledger' = [ledger EXCEPT ![i] =
                   [gate |-> "overall", decision |-> d,
                    seen |-> [k \in ks |-> reviews[k].version],
                    answer |-> [k \in ks |-> reviews'[k]]]]
            /\ UNCHANGED <<catalog, changes, jobs, effects, doc, import, workVars, faults>>

\* A batch decides all of its artifact items or, on any conflict, none.
DecideBatch(i, ks) ==
    \E d \in {"approved", "rejected"} :
        /\ ledger[i] = NoRequest /\ ks # {}
        /\ \A k \in ks : Decidable(k, reviews[k], "overall", reviews[k].version)
        /\ reviews' = [k \in ReviewKeys |-> IF k \in ks
                          THEN Decided(reviews[k], "overall", d) ELSE reviews[k]]
        /\ ledger' = [ledger EXCEPT ![i] =
               [gate |-> "overall", decision |-> d,
                seen |-> [k \in ks |-> reviews[k].version],
                answer |-> [k \in ks |-> reviews'[k]]]]
        /\ UNCHANGED <<catalog, changes, jobs, effects, doc, import, workVars, faults>>

\* The review is approved and the catalog still is what was reviewed.
Importable(k) ==
    /\ k.kind = "artifact" /\ reviews[k].state = "approved"
    /\ StillTarget(k)

\* ImportApprovedLyricsSource loads and validates before it takes the lock.
ImportLoads(k) ==
    /\ import = None /\ Importable(k)
    /\ import' = k
    /\ UNCHANGED <<catalog, changes, storeVars, workVars, faults>>

\* A mistaken form of the next action: what was loaded is saved.
ImportSavesLoaded ==
    /\ import # None
    /\ doc' = IF doc[import.music] = None
              THEN [doc EXCEPT ![import.music] = import] ELSE doc
    /\ import' = None
    /\ UNCHANGED <<catalog, changes, jobs, effects, reviews, ledger, workVars, faults>>

\* Under the song's lock: an existing document ends the request, otherwise
\* the save transaction validates again before it creates revision 1.
ImportSaves ==
    /\ import # None
    /\ doc' = IF doc[import.music] = None /\ Importable(import)
              THEN [doc EXCEPT ![import.music] = import] ELSE doc
    /\ import' = None
    /\ UNCHANGED <<catalog, changes, jobs, effects, reviews, ledger, workVars, faults>>

-----------------------------------------------------------------------------
ConsumerNext(c) ==
    \/ Claim(c) \/ CheckClaim(c)
    \/ CompleteDiscovery(c) \/ CompleteFetch(c)
    \/ FailAttempt(c) \/ Abandon(c)

Next ==
    \/ \E m \in Music : UpsertCatalog(m)
    \/ \E t \in Targets : Lapse(t) \/ Mature(t)
    \/ NextProcess
    \/ ScanReads \/ ScanCommits \/ ScanFails
    \/ \E c \in Consumers : ConsumerNext(c)
    \/ \E i \in Keys, k \in ReviewKeys : Decide(i, k)
    \/ \E i \in Keys, ks \in SUBSET {k \in ReviewKeys : k.kind = "artifact"} :
           DecideBatch(i, ks)
    \/ \E k \in ReviewKeys : ImportLoads(k)
    \/ ImportSaves

Spec == Init /\ [][Next]_vars

-----------------------------------------------------------------------------
(* Properties.                                                             *)

TypeOK ==
    /\ catalog \in [Music -> Entries]
    /\ changes \in 0..MaxChanges /\ faults \in 0..MaxFaults
    /\ jobs \in [Targets -> [state : JobStates, attempts : 0..MaxAttempts,
                             due : BOOLEAN, live : BOOLEAN, version : Nat,
                             owner : ({"discover", "fetch"} \X Nat) \cup {NoOwner}]]
    /\ effects \in [Targets -> Nat]
    /\ reviews \in [ReviewKeys -> Items]
    /\ DOMAIN ledger = Keys
    /\ \A i \in Keys : ledger[i] # NoRequest =>
        /\ DOMAIN ledger[i].seen \subseteq ReviewKeys
        /\ ledger[i] \in RequestsOn(DOMAIN ledger[i].seen)
    /\ doc \in [Music -> ReviewKeys \cup {None}]
    /\ import \in ReviewKeys \cup {None}
    /\ scan \in [Music -> Entries] \cup {None}
    /\ consumer \in [Consumers -> [pc : {"idle", "checking", "running"},
                                   job : Targets \cup {NoTarget}, version : Nat]]
    /\ process \in Nat

\* The job table seen as a leased queue: what a row says of its task, the
\* consumer whose claim the row's version is, and what a consumer works on.
StatusOf(row) ==
    CASE row.state = "absent" -> "new"
      [] row.state \in {"queued", "retry_wait"} -> "open"
      [] row.state = "leased" -> "taken"
      [] row.state = "succeeded" -> "done"
      [] OTHER -> "dead"

TaskStatus == [t \in Targets |-> StatusOf(jobs[t])]

TaskHolder == [t \in Targets |->
    IF \E c \in Consumers : Owns(c, t)
    THEN CHOOSE c \in Consumers : Owns(c, t) ELSE None]

TaskOf == [c \in Consumers |-> consumer[c].job]

Queue == INSTANCE LeasedQueue WITH
    Tasks <- Targets, Nobody <- None, NoTask <- NoTarget,
    status <- TaskStatus, holder <- TaskHolder, working <- TaskOf

\* The job table keeps the promise of a leased queue, whatever lapses, fails
\* or restarts: a consumer whose lease was taken over stores nothing.
QueueRefined == Queue!Spec

\* Every task has had its effect exactly when its row says succeeded, so no
\* result, fetch job or review is stored twice for one job.
OneEffect == Queue!OneEffect

\* An artifact that waits for review is of the catalog as it is now: the
\* catalog moved on neither between the fetch and its completion nor after.
PendingIsCurrent ==
    \A k \in ReviewKeys :
        k.kind = "artifact" /\ reviews[k].state = "pending"
            => k.fp = catalog[k.music].fp

\* A repeated decision request is answered as it was the first time, however
\* much has happened to its items since.
ReplayAnswersSame ==
    \A i \in Keys : ledger[i] # NoRequest =>
        \A k \in DOMAIN ledger[i].seen :
            ItemAtVersion(ledger, k, reviews[k], ledger[i].seen[k] + 1)
                = ledger[i].answer[k]

\* Every version of an item after the first is accounted for: by one
\* decision in the ledger each, and the last one by its supersession.
VersionsAccounted ==
    \A k \in ReviewKeys : reviews[k].state # "absent" =>
        LET ended == IF reviews[k].state = "superseded" THEN 1 ELSE 0
        IN  {d.seen[k] : d \in DecisionsOn(ledger, k)}
                = 1..(reviews[k].version - 1 - ended)

\* A first draft is created only from an artifact that was fetched by a job
\* of its own, that administrators approved in every gate, and whose song is
\* at that moment still what they saw.
DraftIsVouched ==
    [][\A m \in Music : doc'[m] # doc[m] =>
        /\ doc[m] = None
        /\ catalog[m] = [fp |-> doc'[m].fp, disp |-> "full_target"]
        /\ \A g \in Gates : \E d \in DecisionsOn(ledger, doc'[m]) :
               d.gate \in {g, "overall"} /\ d.decision = "approved"
        /\ \E t \in Targets : /\ t.kind = "fetch" /\ {t.cand} = doc'[m].cands
                              /\ t.music = m /\ t.fp = doc'[m].fp
                              /\ effects[t] = 1
      ]_vars

\* A song in doubt is in private review: after a scan of the catalog as it is
\* there is an item of that catalog which somebody has decided or still can decide.
ReviewFailsClosed ==
    [][ScanCommits =>
        \A m \in Music : scan[m].disp = "review" /\ scan[m] = catalog[m] =>
            \E k \in ReviewKeys :
                /\ k.kind = "candidate" /\ k.music = m /\ k.fp = scan[m].fp
                /\ reviews'[k].state \in {"pending", "approved", "rejected"}
      ]_vars
=============================================================================
