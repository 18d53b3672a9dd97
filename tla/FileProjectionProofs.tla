------------------------ MODULE FileProjectionProofs ------------------------
(***************************************************************************)
(* Proofs about FileProjection, for any files, writers and bounds: a full  *)
(* rebuild never takes a public file backwards, a published side story is  *)
(* never served older than it was published, a settled status means that   *)
(* the files are the database's, and AwaitPublished tells the truth.       *)
(***************************************************************************)
EXTENDS FileProjection, TLAPS

\* The service starts in a state of the invariant (New and Start).
LEMMA ProjectionInit == Init => ProjectionInv
<1> SUFFICES ASSUME Init PROVE ProjectionInv
  OBVIOUS
<1>0. AnyKey \in Keys
  <2>1. \E k \in Keys : TRUE
    BY FileProjectionAssumption
  <2> QED
    BY <2>1 DEF AnyKey
<1>1. TypeOK
  <2>1. NoContent \in Content /\ NoWant \in [target : Nat, content : [Keys -> Nat]]
    BY DEF NoContent, Content, NoWant
  <2>2. /\ 0 \in 0..MaxWrites /\ 0 \in 0..MaxFailures /\ 0 \in 0..MaxAwaits
        /\ 0 \in 0..0 /\ 0 \in 0..1
    BY FileProjectionAssumption
  <2> QED
    BY <1>0, <2>1, <2>2 DEF Init, TypeOK
<1>2. FromDatabase /\ ReadIsNewer /\ MutexHeld /\ PublishedStaysServed
  BY FileProjectionAssumption
     DEF Init, FromDatabase, ReadIsNewer, MutexHeld, PublishedStaysServed,
         Older, NoContent, Unread
<1> QED
  BY <1>1, <1>2 DEF ProjectionInv

-----------------------------------------------------------------------------
(* Type correctness                                                        *)

\* The places of the handlers, as TypeOK names them.
TypeOfWriter ==
  [Writers -> {"idle", "requesting", "signalling", "committed", "generated",
               "urging", "alerting"}]

\* What a comparison or an update of a file's content needs to know of it.
LEMMA ContentFields ==
  ASSUME NEW c \in Content
  PROVE  c.version \in Nat /\ c # Unread
BY DEF Content, Unread

\* The placeholder file of an idle handler is a file.
LEMMA AnyKeyType == AnyKey \in Keys
<1>1. \E k \in Keys : TRUE
  BY FileProjectionAssumption
<1> QED
  BY <1>1 DEF AnyKey

\* The counted failure stays within its bound.
LEMMA FailureType ==
  ASSUME TypeOK, Failure
  PROVE  failures' \in 0..MaxFailures
<1>1. CASE stopped
  BY <1>1 DEF TypeOK, Failure
<1>2. CASE ~stopped
  BY <1>2, FileProjectionAssumption DEF TypeOK, Failure
<1> QED
  BY <1>1, <1>2

\* Where a handler goes next, and the file it then holds.
LEMMA ReturnType ==
  ASSUME TypeOK, NEW w \in Writers
  PROVE  /\ Return(w) => writer' \in TypeOfWriter /\ wkey' \in [Writers -> Keys]
         /\ AfterTrigger(w) => writer' \in TypeOfWriter /\ wkey' \in [Writers -> Keys]
<1>1. ASSUME Return(w)
      PROVE  writer' \in TypeOfWriter /\ wkey' \in [Writers -> Keys]
  BY <1>1, AnyKeyType DEF TypeOK, TypeOfWriter, Return, Step
<1>2. ASSUME AfterTrigger(w)
      PROVE  writer' \in TypeOfWriter /\ wkey' \in [Writers -> Keys]
  <2>1. CASE wkey[w] \notin NotifiesFirst
    BY <1>1, <1>2, <2>1 DEF AfterTrigger
  <2>2. CASE wkey[w] \in NotifiesFirst
    BY <1>2, <2>2 DEF TypeOK, TypeOfWriter, AfterTrigger, Step
  <2> QED
    BY <2>1, <2>2
<1> QED
  BY <1>1, <1>2

\* After its publication or its failure a writer's locals keep their types.
LEMMA ContinueType ==
  ASSUME TypeOK, NEW w \in Writers, NEW done \in BOOLEAN, Continue(w, done)
  PROVE  /\ writer' \in TypeOfWriter /\ wkey' \in [Writers -> Keys]
         /\ got' \in [Writers -> Content \cup {Unread}]
         /\ publishMu' \in Writers \cup {NoWriter}
<1>1. CASE wkey[w] \in NotifiesFirst \/ (done /\ w \in Backfill)
  BY <1>1, ReturnType DEF TypeOK, Continue
<1>2. CASE ~(wkey[w] \in NotifiesFirst \/ (done /\ w \in Backfill))
  BY <1>2 DEF TypeOK, TypeOfWriter, Continue, Step
<1> QED
  BY <1>1, <1>2

\* Every step keeps the types.  That a handler publishes content, and not the
\* placeholder, is part of FromDatabase.
LEMMA TypeNext ==
  ASSUME TypeOK, FromDatabase, [Next]_vars
  PROVE  TypeOK'
<1> USE FileProjectionAssumption, AnyKeyType
<1>1. ASSUME NEW w \in Writers, NEW k \in Keys, Commit(w, k)
      PROVE  TypeOK'
  <2>1. PICK here \in BOOLEAN :
          db' = [db EXCEPT ![k] = [version |-> @.version + 1, present |-> here]]
    BY <1>1 DEF Commit
  <2>2. db' \in [Keys -> Content]
    BY <2>1 DEF TypeOK, Content
  <2> QED
    BY <1>1, <2>2 DEF TypeOK, Commit, Step, assetVars, statusVars, channelVars,
                      workerVars, awaitVars
<1>2. ASSUME NEW w \in Writers, WriterStep(w)
      PROVE  TypeOK'
  <2>1. ASSUME NEW place \in {"requesting", "urging"}, Request(w, place)
        PROVE  TypeOK'
    <3>1. db[wkey[w]].version \in Nat
      BY ContentFields DEF TypeOK
    <3>2. CASE stopped
      <4>1. writer' \in TypeOfWriter /\ wkey' \in [Writers -> Keys]
        <5>1. AfterTrigger(w) \/ Return(w)
          BY <2>1, <3>2 DEF Request
        <5> QED
          BY <5>1, ReturnType
      <4> QED
        BY <2>1, <3>2, <4>1 DEF TypeOK, TypeOfWriter, Request, assetVars,
                                channelVars, workerVars, awaitVars
    <3>3. CASE ~stopped
      <4>1. /\ requested' = requested + 1
            /\ asked' = [asked EXCEPT ![wkey[w]] = db[wkey[w]].version]
            /\ writer' \in TypeOfWriter
            /\ UNCHANGED wkey
        BY <2>1, <3>3 DEF TypeOK, TypeOfWriter, Request, Step
      <4> QED
        BY <2>1, <3>1, <4>1 DEF TypeOK, TypeOfWriter, Request, assetVars,
                                channelVars, workerVars, awaitVars
    <3> QED
      BY <3>2, <3>3
  <2>2. CASE Trigger(w)
    <3>1. writer' \in TypeOfWriter /\ wkey' \in [Writers -> Keys]
      BY <2>2, ReturnType DEF Trigger
    <3> QED
      BY <2>2, <3>1 DEF TypeOK, TypeOfWriter, Trigger, contentVars, assetVars,
                        statusVars, workerVars, awaitVars
  <2>3. CASE PublishNow(w)
    BY <2>3 DEF TypeOK, PublishNow, Return, Step, contentVars, assetVars,
                statusVars, workerVars, awaitVars
  <2>4. CASE Generate(w)
    BY <2>4 DEF TypeOK, Generate, Step, contentVars, assetVars, statusVars,
                channelVars, workerVars, awaitVars
  <2>5. CASE applyIncremental(w)
    <3>1. got[w] \in Content /\ got[w].version \in Nat
      BY <2>5, ContentFields DEF applyIncremental, TypeOK, FromDatabase
    <3>2. /\ assetEpoch' \in Nat
          /\ incremental' \in [Keys -> 0..assetEpoch']
          /\ startEpoch' \in 0..assetEpoch'
      BY <2>5 DEF TypeOK, applyIncremental, workerVars
    <3>3. assets' \in [Keys -> Content] /\ acked' \in [Keys -> Nat]
      BY <2>5, <3>1 DEF TypeOK, applyIncremental
    <3>4. /\ writer' \in TypeOfWriter /\ wkey' \in [Writers -> Keys]
          /\ got' \in [Writers -> Content \cup {Unread}]
          /\ publishMu' \in Writers \cup {NoWriter}
      BY <2>5, ContinueType DEF applyIncremental
    <3> QED
      BY <2>5, <3>2, <3>3, <3>4
      DEF TypeOK, TypeOfWriter, applyIncremental, statusVars, channelVars,
          workerVars, awaitVars
  <2>6. CASE GenerateFails(w)
    <3>1. /\ writer' \in TypeOfWriter /\ wkey' \in [Writers -> Keys]
          /\ got' \in [Writers -> Content \cup {Unread}]
          /\ publishMu' \in Writers \cup {NoWriter}
      BY <2>6, ContinueType DEF GenerateFails
    <3>2. failures' \in 0..MaxFailures
      BY <2>6, FailureType DEF GenerateFails
    <3> QED
      BY <2>6, <3>1, <3>2
      DEF TypeOK, TypeOfWriter, GenerateFails, contentVars, assetVars,
          statusVars, channelVars, awaitVars
  <2> QED
    BY <1>2, <2>1, <2>2, <2>3, <2>4, <2>5, <2>6 DEF WriterStep
<1>3. ASSUME NEW a \in Awaiters, AwaiterNext(a)
      PROVE  TypeOK'
  <2>0. NoWant \in [target : Nat, content : [Keys -> Nat]]
    BY DEF NoWant
  <2>1. CASE AwaitPublished(a)
    <3>1. /\ awaiter' \in [Awaiters -> {"idle", "waiting", "served", "gaveUp"}]
          /\ rebuildCh' \in BOOLEAN /\ immediateCh' \in BOOLEAN
      BY <2>1 DEF TypeOK, AwaitPublished, channelVars
    <3>2. want' \in [Awaiters -> [target : Nat, content : [Keys -> Nat]]]
      BY <2>1 DEF TypeOK, AwaitPublished
    <3> QED
      BY <2>1, <3>1, <3>2 DEF TypeOK, AwaitPublished, contentVars, assetVars,
                              statusVars, workerVars, writerVars
  <2>2. CASE AwaitPoll(a) \/ AwaitGivesUp(a)
    BY <2>2 DEF TypeOK, AwaitPoll, AwaitGivesUp, contentVars, assetVars,
                statusVars, channelVars, workerVars, writerVars
  <2>3. CASE AwaitReturns(a)
    BY <2>0, <2>3 DEF TypeOK, AwaitReturns, contentVars, assetVars,
                      statusVars, channelVars, workerVars, writerVars
  <2> QED
    BY <1>3, <2>1, <2>2, <2>3 DEF AwaiterNext
<1>4. CASE BeginRebuild
  BY <1>4 DEF TypeOK, BeginRebuild, contentVars, assetVars, channelVars,
              writerVars, awaitVars
<1>5. CASE BeginReading
  BY <1>5 DEF TypeOK, BeginReading, contentVars, assetVars, statusVars,
              channelVars, writerVars, awaitVars
<1>6. ASSUME NEW k \in Keys, ReadKey(k)
      PROVE  TypeOK'
  BY <1>6 DEF TypeOK, ReadKey, contentVars, assetVars, statusVars,
              channelVars, writerVars, awaitVars
<1>7. CASE Swap
  BY <1>7 DEF TypeOK, Swap, contentVars, statusVars, channelVars, writerVars,
              awaitVars
<1>8. CASE FinishRebuild
  BY <1>8 DEF TypeOK, FinishRebuild, contentVars, assetVars, channelVars,
              writerVars, awaitVars
<1>9. CASE FailRebuild
  <2>1. failures' \in 0..MaxFailures
    BY <1>9, FailureType DEF FailRebuild
  <2> QED
    BY <1>9, <2>1 DEF TypeOK, FailRebuild, contentVars, assetVars,
                      channelVars, writerVars, awaitVars
<1>10. CASE Drain \/ Decide \/ RetryTimer \/ Wake
  BY <1>10 DEF TypeOK, Drain, Decide, RetryTimer, Wake, contentVars,
               assetVars, statusVars, channelVars, writerVars, awaitVars
<1>11. CASE DebounceUrged \/ DebounceExtended \/ DebounceTimer \/ WorkerEnds
  BY <1>11 DEF TypeOK, DebounceUrged, DebounceExtended, DebounceTimer,
               WorkerEnds, contentVars, assetVars, statusVars, channelVars,
               workerVars, writerVars, awaitVars
<1>12. CASE Stop
  BY <1>12 DEF TypeOK, Stop, contentVars, assetVars, statusVars, channelVars,
               workerVars, writerVars, awaitVars
<1>13. CASE UNCHANGED vars
  BY <1>13 DEF TypeOK, vars, contentVars, assetVars, statusVars, channelVars,
               workerVars, writerVars, awaitVars
<1> QED
  BY <1>1, <1>2, <1>3, <1>4, <1>5, <1>6, <1>7, <1>8, <1>9, <1>10, <1>11,
     <1>12, <1>13 DEF Next, WorkerStep

-----------------------------------------------------------------------------
(* The inductive invariant                                                 *)

\* Being older is a partial order, and a new version is newer than all.
LEMMA OlderTrans ==
  ASSUME NEW x \in Content, NEW y \in Content, NEW z \in Content,
         Older(x, y), Older(y, z)
  PROVE  Older(x, z) /\ x.version <= z.version
BY ContentFields DEF Older

\* Most steps touch no file, no content and no generated or published version.
Quiet ==
  /\ UNCHANGED <<db, assets, incremental, startEpoch, next, acked>>
  /\ worker' = "reading" <=> worker = "reading"
  /\ \A w \in Writers :
       writer'[w] = "generated"
         => /\ writer[w] = "generated" /\ wkey'[w] = wkey[w]
            /\ got'[w] = got[w]
            /\ publishMu = w => publishMu' = w

\* Such a step keeps the invariant.
LEMMA QuietKeeps ==
  ASSUME ProjectionInv, Quiet
  PROVE  FromDatabase' /\ ReadIsNewer' /\ MutexHeld' /\ PublishedStaysServed'
<1>1. FromDatabase'
  BY DEF ProjectionInv, FromDatabase, Quiet, Older
<1>2. ReadIsNewer'
  BY DEF ProjectionInv, ReadIsNewer, Quiet, Older
<1>3. MutexHeld'
  BY DEF ProjectionInv, MutexHeld, Quiet
<1>4. PublishedStaysServed'
  BY DEF ProjectionInv, PublishedStaysServed, Quiet
<1> QED
  BY <1>1, <1>2, <1>3, <1>4

\* The steps of handlers between their commit and their publication, of
\* AwaitPublished, and of the worker outside a rebuild are quiet.
LEMMA QuietWriters ==
  ASSUME TypeOK, NEW w \in Writers,
         \/ Request(w, "requesting") \/ Request(w, "urging")
         \/ Trigger(w) \/ PublishNow(w) \/ GenerateFails(w)
  PROVE  Quiet
<1>1. /\ UNCHANGED <<db, assets, incremental, startEpoch, next, acked>>
      /\ UNCHANGED worker
  BY DEF Request, Trigger, PublishNow, GenerateFails, contentVars, assetVars,
         workerVars
<1> DEFINE Moves == \E place \in {"idle", "requesting", "signalling",
                                 "committed", "urging", "alerting"} :
                      Step(w, place)
           Kept(v) == /\ wkey'[v] = wkey[v] /\ got'[v] = got[v]
                      /\ publishMu = v => publishMu' = v
<1>2. Moves
  <2>1. ASSUME NEW place \in {"requesting", "urging"}, Request(w, place)
        PROVE  Moves
    <3>1. CASE stopped
      BY <2>1, <3>1 DEF Request, AfterTrigger, Return
    <3>2. CASE ~stopped
      BY <2>1, <3>2 DEF Request
    <3> QED
      BY <3>1, <3>2
  <2>2. CASE Trigger(w)
    BY <2>2 DEF Trigger, AfterTrigger, Return
  <2>3. CASE PublishNow(w)
    BY <2>3 DEF PublishNow, Return
  <2>4. CASE GenerateFails(w)
    BY <2>4 DEF GenerateFails, Continue, Return
  <2> QED
    BY <2>1, <2>2, <2>3, <2>4
<1>3. ASSUME NEW v \in Writers, v # w
      PROVE  Kept(v)
  <2>1. ASSUME NEW place \in {"requesting", "urging"}, Request(w, place)
        PROVE  Kept(v)
    BY <1>3, <2>1 DEF TypeOK, Request, AfterTrigger, Return
  <2>2. CASE Trigger(w) \/ PublishNow(w)
    BY <1>3, <2>2 DEF TypeOK, Trigger, PublishNow, AfterTrigger, Return
  <2>3. CASE GenerateFails(w)
    BY <1>3, <2>3 DEF TypeOK, GenerateFails, Continue, Return
  <2> QED
    BY <2>1, <2>2, <2>3
<1> QED
  BY <1>1, <1>2, <1>3 DEF TypeOK, Step, Quiet

\* Every step keeps the invariant: one step per action that is not quiet.
LEMMA ProjectionNext ==
  ASSUME ProjectionInv, [Next]_vars
  PROVE  ProjectionInv'
<1> USE FileProjectionAssumption
<1> DEFINE Rest == FromDatabase /\ ReadIsNewer /\ MutexHeld
                   /\ PublishedStaysServed
<1>0. TypeOK /\ FromDatabase /\ ReadIsNewer /\ MutexHeld /\ PublishedStaysServed
  BY DEF ProjectionInv
<1>t. TypeOK'
  BY <1>0, TypeNext
<1>q. ASSUME Quiet
      PROVE  Rest'
  BY <1>q, QuietKeeps
<1>1. ASSUME NEW w \in Writers, NEW k \in Keys, Commit(w, k)
      PROVE  Rest'
  <2>1. /\ db'[k].version = db[k].version + 1
        /\ \A j \in Keys : j # k => db'[j] = db[j]
    BY <1>0, <1>1 DEF Commit, TypeOK
  <2>2. /\ UNCHANGED <<assets, incremental, startEpoch, next, acked, worker, got,
                       publishMu>>
        /\ \A v \in Writers : writer'[v] = "generated"
             => writer[v] = "generated" /\ wkey'[v] = wkey[v]
    BY <1>0, <1>1 DEF Commit, Step, TypeOK, contentVars, assetVars, workerVars
  <2>3. ASSUME NEW j \in Keys, NEW c \in Content \cup {Unread}, Older(c, db[j])
        PROVE  Older(c, db'[j])
    <3>1. db[j].version \in Nat /\ c.version \in Int
      BY <1>0, ContentFields DEF TypeOK, Unread
    <3> QED
      BY <2>1, <2>3, <3>1 DEF Older
  <2>4. FromDatabase'
    <3>1. \A j \in Keys : Older(assets[j], db'[j])
      BY <1>0, <2>3 DEF TypeOK, FromDatabase
    <3>2. \A v \in Writers : writer[v] = "generated"
            => got[v] # Unread /\ Older(got[v], db'[wkey[v]])
      BY <1>0, <2>3 DEF TypeOK, FromDatabase
    <3>3. \A j \in Keys : next[j] # Unread => Older(next[j], db'[j])
      BY <1>0, <2>3 DEF TypeOK, FromDatabase
    <3> QED
      BY <2>2, <3>1, <3>2, <3>3 DEF FromDatabase
  <2>5. ReadIsNewer' /\ MutexHeld' /\ PublishedStaysServed'
    BY <1>0, <2>2 DEF ReadIsNewer, MutexHeld, PublishedStaysServed, Older
  <2> QED
    BY <2>4, <2>5
<1>2. ASSUME NEW w \in Writers, Generate(w)
      PROVE  Rest'
  <2>1. /\ UNCHANGED <<db, assets, incremental, startEpoch, next, acked, worker,
                       wkey>>
        /\ got'[w] = db[wkey[w]] /\ wkey[w] \in Keys
        /\ \A v \in Writers : v # w => got'[v] = got[v] /\ writer'[v] = writer[v]
    BY <1>0, <1>2 DEF Generate, Step, TypeOK, contentVars, assetVars, workerVars
  <2>2. /\ wkey[w] \in Serialised => publishMu = NoWriter /\ publishMu' = w
        /\ wkey[w] \notin Serialised => publishMu' = publishMu
    BY <1>2 DEF Generate
  <2>3. got'[w] # Unread /\ Older(got'[w], db[wkey[w]])
    BY <1>0, <2>1, ContentFields DEF TypeOK, Older
  <2>4. FromDatabase' /\ ReadIsNewer' /\ PublishedStaysServed'
    BY <1>0, <2>1, <2>3 DEF FromDatabase, ReadIsNewer, PublishedStaysServed,
                            Older
  <2>5. wkey[w] \in Serialised => got'[w].version >= acked[wkey[w]]
    <3>1. ASSUME wkey[w] \in Serialised
          PROVE  got'[w].version >= acked[wkey[w]]
      <4>1. /\ Older(assets[wkey[w]], db[wkey[w]])
            /\ assets[wkey[w]].version >= acked[wkey[w]]
        BY <1>0, <2>1, <3>1 DEF FromDatabase, PublishedStaysServed
      <4>2. /\ assets[wkey[w]].version \in Nat /\ db[wkey[w]].version \in Nat
            /\ acked[wkey[w]] \in Nat
        BY <1>0, <2>1, ContentFields DEF TypeOK
      <4> QED
        BY <2>1, <4>1, <4>2 DEF Older
    <3> QED
      BY <3>1
  <2>6. MutexHeld'
    <3> SUFFICES ASSUME NEW v \in Writers, writer'[v] = "generated",
                        wkey'[v] \in Serialised
                 PROVE  publishMu' = v /\ got'[v].version >= acked'[wkey'[v]]
      BY DEF MutexHeld
    <3>1. CASE v = w
      BY <2>1, <2>2, <2>5, <3>1
    <3>2. CASE v # w
      <4>1. publishMu = v /\ got[v].version >= acked[wkey[v]]
        BY <1>0, <2>1, <3>2 DEF MutexHeld
      <4> QED
        BY <2>1, <2>2, <3>2, <4>1
    <3> QED
      BY <3>1, <3>2
  <2> QED
    BY <2>4, <2>6
<1>3. ASSUME NEW w \in Writers, applyIncremental(w)
      PROVE  Rest'
  <2> DEFINE k == wkey[w]
  <2>1. /\ k \in Keys /\ writer[w] = "generated"
        /\ got[w] \in Content /\ got[w].version \in Nat
        /\ acked[k] \in Nat /\ Older(got[w], db[k])
    BY <1>0, <1>3, ContentFields DEF applyIncremental, TypeOK, FromDatabase
  <2>2. /\ assets'[k] = got[w]
        /\ \A j \in Keys : j # k => assets'[j] = assets[j]
        /\ incremental'[k] > startEpoch
        /\ \A j \in Keys : j # k => incremental'[j] = incremental[j]
        /\ acked'[k] = IF got[w].version > acked[k] THEN got[w].version
                       ELSE acked[k]
        /\ \A j \in Keys : j # k => acked'[j] = acked[j]
        /\ UNCHANGED <<db, startEpoch, next, worker>>
    BY <1>0, <1>3, <2>1 DEF applyIncremental, TypeOK, workerVars
  <2>3. /\ writer'[w] # "generated"
        /\ \A v \in Writers : v # w =>
             /\ writer'[v] = writer[v] /\ wkey'[v] = wkey[v]
             /\ got'[v] = got[v]
             /\ publishMu = v => publishMu' = v
    <3>1. CASE k \in NotifiesFirst \/ w \in Backfill
      BY <1>0, <1>3, <3>1 DEF applyIncremental, Continue, Return, Step, TypeOK
    <3>2. CASE ~(k \in NotifiesFirst \/ w \in Backfill)
      BY <1>0, <1>3, <3>2 DEF applyIncremental, Continue, Step, TypeOK
    <3> QED
      BY <3>1, <3>2
  <2>4. FromDatabase'
    <3>1. \A j \in Keys : Older(assets'[j], db[j])
      BY <1>0, <2>1, <2>2 DEF FromDatabase
    <3>2. \A v \in Writers : writer'[v] = "generated"
            => got'[v] # Unread /\ Older(got'[v], db[wkey'[v]])
      BY <1>0, <2>3 DEF FromDatabase
    <3> QED
      BY <1>0, <2>2, <3>1, <3>2 DEF FromDatabase
  <2>5. ReadIsNewer'
    <3>1. \A j \in Keys : next[j] # Unread /\ incremental'[j] <= startEpoch
            => Older(assets'[j], next[j])
      <4> SUFFICES ASSUME NEW j \in Keys, next[j] # Unread,
                          incremental'[j] <= startEpoch
                   PROVE  Older(assets'[j], next[j])
        OBVIOUS
      <4>1. j # k
        BY <1>0, <1>t, <2>1, <2>2 DEF TypeOK
      <4> QED
        BY <1>0, <2>2, <4>1 DEF ReadIsNewer, Older
    <3> QED
      BY <1>0, <2>2, <3>1 DEF ReadIsNewer
  <2>6. ASSUME k \in Serialised
        PROVE  /\ publishMu = w /\ acked'[k] = got[w].version
    <3>1. publishMu = w /\ got[w].version >= acked[k]
      BY <1>0, <2>1, <2>6 DEF MutexHeld
    <3> QED
      BY <2>1, <2>2, <3>1
  <2>7. PublishedStaysServed'
    <3> SUFFICES ASSUME NEW j \in Serialised
                 PROVE  assets'[j].version >= acked'[j]
      BY DEF PublishedStaysServed
    <3>1. CASE j = k
      BY <2>1, <2>2, <2>6, <3>1
    <3>2. CASE j # k
      BY <1>0, <2>2, <3>2 DEF PublishedStaysServed
    <3> QED
      BY <3>1, <3>2
  <2>8. MutexHeld'
    <3> SUFFICES ASSUME NEW v \in Writers, writer'[v] = "generated",
                        wkey'[v] \in Serialised
                 PROVE  publishMu' = v /\ got'[v].version >= acked'[wkey'[v]]
      BY DEF MutexHeld
    <3>1. v # w /\ writer[v] = "generated" /\ wkey[v] \in Serialised
          /\ wkey'[v] = wkey[v] /\ wkey[v] \in Keys /\ got'[v] = got[v]
      BY <1>0, <2>3 DEF TypeOK
    <3>2. publishMu = v /\ got[v].version >= acked[wkey[v]]
      BY <1>0, <3>1 DEF MutexHeld
    <3>3. wkey[v] # k
      BY <2>6, <3>1, <3>2
    <3> QED
      BY <2>2, <2>3, <3>1, <3>2, <3>3
  <2> QED
    BY <2>4, <2>5, <2>7, <2>8
<1>4. ASSUME BeginReading
      PROVE  Rest'
  <2>1. /\ UNCHANGED <<db, assets, incremental, next, acked, writer, wkey, got,
                       publishMu>>
        /\ next = [k \in Keys |-> Unread]
    BY <1>0, <1>4 DEF BeginReading, ReadIsNewer, contentVars, assetVars,
                      writerVars
  <2> QED
    BY <1>0, <2>1 DEF FromDatabase, ReadIsNewer, MutexHeld,
                      PublishedStaysServed, Older
<1>5. ASSUME NEW k \in Keys, ReadKey(k)
      PROVE  Rest'
  <2>1. /\ UNCHANGED <<db, assets, incremental, startEpoch, acked, worker, writer,
                       wkey, got, publishMu>>
        /\ worker = "reading"
        /\ next'[k] = db[k]
        /\ \A j \in Keys : j # k => next'[j] = next[j]
    BY <1>0, <1>5 DEF ReadKey, TypeOK, contentVars, assetVars, writerVars
  <2>2. FromDatabase'
    BY <1>0, <2>1 DEF FromDatabase, Older
  <2>3. ReadIsNewer'
    BY <1>0, <2>1 DEF FromDatabase, ReadIsNewer, Older
  <2> QED
    BY <1>0, <2>1, <2>2, <2>3 DEF MutexHeld, PublishedStaysServed
<1>6. ASSUME Swap
      PROVE  Rest'
  <2>1. /\ UNCHANGED <<db, startEpoch, acked, writer, wkey, got, publishMu>>
        /\ next' = [k \in Keys |-> Unread]
        /\ \A k \in Keys : next[k] # Unread
    BY <1>6 DEF Swap, contentVars, writerVars
  <2>2. \A k \in Keys :
          /\ assets'[k] = assets[k] \/ assets'[k] = next[k]
          /\ Older(assets[k], assets'[k])
    BY <1>0, <1>6, <2>1 DEF Swap, ReadIsNewer, TypeOK, Older
  <2>3. FromDatabase'
    BY <1>0, <2>1, <2>2 DEF FromDatabase, Older
  <2>4. ReadIsNewer'
    BY <2>1 DEF ReadIsNewer
  <2>5. PublishedStaysServed'
    <3> SUFFICES ASSUME NEW k \in Serialised
                 PROVE  assets'[k].version >= acked'[k]
      BY DEF PublishedStaysServed
    <3>1. /\ k \in Keys /\ acked[k] \in Nat
          /\ assets[k].version \in Nat /\ assets'[k].version \in Nat
          /\ assets[k].version >= acked[k]
      BY <1>0, <1>t, ContentFields DEF TypeOK, PublishedStaysServed
    <3> QED
      BY <2>1, <2>2, <3>1 DEF Older
  <2> QED
    BY <1>0, <2>1, <2>3, <2>4, <2>5 DEF MutexHeld
<1>7. ASSUME FailRebuild
      PROVE  Rest'
  <2>1. /\ UNCHANGED <<db, assets, incremental, startEpoch, acked, writer, wkey,
                       got, publishMu>>
        /\ next' = [k \in Keys |-> Unread]
    BY <1>7 DEF FailRebuild, contentVars, assetVars, writerVars
  <2> QED
    BY <1>0, <2>1 DEF FromDatabase, ReadIsNewer, MutexHeld,
                      PublishedStaysServed, Older
<1>8. ASSUME NEW w \in Writers, WriterStep(w)
      PROVE  Rest'
  BY <1>0, <1>q, <1>2, <1>3, <1>8, QuietWriters DEF WriterStep
<1>9. ASSUME \/ BeginRebuild \/ FinishRebuild \/ Drain \/ Decide
             \/ RetryTimer \/ Wake \/ DebounceUrged \/ DebounceExtended
             \/ DebounceTimer \/ WorkerEnds \/ Stop
      PROVE  Rest'
  <2>1. Quiet
    BY <1>9 DEF Quiet, BeginRebuild, FinishRebuild, Drain, Decide, RetryTimer,
                Wake, DebounceUrged, DebounceExtended, DebounceTimer,
                WorkerEnds, Stop, contentVars, assetVars, workerVars,
                writerVars
  <2> QED
    BY <1>q, <2>1
<1>10. ASSUME NEW a \in Awaiters, AwaiterNext(a)
       PROVE  Rest'
  <2>1. Quiet
    BY <1>10 DEF Quiet, AwaiterNext, AwaitPublished, AwaitPoll, AwaitGivesUp,
                 AwaitReturns, contentVars, assetVars, workerVars, writerVars
  <2> QED
    BY <1>q, <2>1
<1>11. ASSUME UNCHANGED vars
       PROVE  Rest'
  <2>1. Quiet
    BY <1>11 DEF Quiet, vars, contentVars, assetVars, workerVars, writerVars
  <2> QED
    BY <1>q, <2>1
<1>12. Rest'
  BY <1>1, <1>4, <1>5, <1>6, <1>7, <1>8, <1>9, <1>10, <1>11
     DEF Next, WorkerStep
<1> QED
  BY <1>t, <1>12 DEF ProjectionInv

-----------------------------------------------------------------------------
(* Theorems                                                                *)

\* The invariant holds in every reachable state of the file service.
THEOREM ProjectionInvariant == Spec => []ProjectionInv
BY ProjectionInit, ProjectionNext, PTL DEF Spec

\* Generations, epochs, channels and locals of the file service keep their
\* types: published never runs ahead of requested, nor a record of an
\* incremental publication ahead of assetEpoch.
THEOREM ProjectionTypes == Spec => []TypeOK
<1>1. ProjectionInv => TypeOK
  BY DEF ProjectionInv
<1> QED
  BY <1>1, ProjectionInvariant, PTL

\* A side story that an editor or the backfill has published through
\* RebuildSideStoryContext is never served older than that again.
THEOREM SideStoriesStayServed == Spec => []PublishedStaysServed
<1>1. ProjectionInv => PublishedStaysServed
  BY DEF ProjectionInv
<1> QED
  BY <1>1, ProjectionInvariant, PTL

\* The swap of rebuildAssetsContext never takes a public file backwards and
\* never restores a withdrawn one, for any number of files and writers.
THEOREM RebuildsGoForward == Spec => SwapNeverBackwards
<1> DEFINE Forward == worker = "reading" /\ worker' = "swapped"
                        => \A k \in Keys :
                             \/ assets'[k] = assets[k]
                             \/ assets'[k].version > assets[k].version
<1>1. ASSUME ProjectionInv, [Next]_vars
      PROVE  [Forward]_vars
  <2>1. CASE Swap
    <3>1. \A k \in Keys : Older(assets[k], assets'[k])
      BY <1>1, <2>1 DEF ProjectionInv, Swap, ReadIsNewer, TypeOK, Older
    <3>2. \A k \in Keys : assets[k].version \in Nat /\ assets'[k].version \in Nat
      BY <1>1, TypeNext, ContentFields DEF ProjectionInv, TypeOK
    <3> QED
      BY <3>1, <3>2 DEF Older
  <2>2. CASE ~Swap
    <3>1. ~(worker = "reading" /\ worker' = "swapped")
      BY <1>1, <2>2 DEF Next, WriterStep, Commit, Request, Trigger, PublishNow,
         Generate, applyIncremental, GenerateFails, AwaiterNext,
         AwaitPublished, AwaitPoll, AwaitGivesUp, AwaitReturns, WorkerStep,
         BeginRebuild, BeginReading, ReadKey, FinishRebuild, FailRebuild,
         Drain, Decide, RetryTimer, Wake, DebounceUrged, DebounceExtended,
         DebounceTimer, WorkerEnds, Stop, vars, workerVars
    <3> QED
      BY <3>1
  <2> QED
    BY <2>1, <2>2
<1> QED
  BY <1>1, ProjectionInvariant, PTL DEF Spec, SwapNeverBackwards

-----------------------------------------------------------------------------
(* Settled files                                                           *)

Rebuilding == {"snapshot", "reading", "swapped"}

\* The worker's place and the counters agree: a rebuild that runs will have
\* published more than has been.
Counted ==
  /\ running <=> worker \in Rebuilding
  /\ worker \in Rebuilding => target > published

\* Only a file that is published incrementally is generated by its writer, and
\* the backfill writes side stories only.
Placed ==
  \A w \in Writers :
    /\ writer[w] \in {"committed", "generated"} => wkey[w] \in Incremental
    /\ w \in Backfill /\ writer[w] # "idle" => wkey[w] \in Serialised

\* A writer of file k has yet to publish it or to ask for a rebuild.
Owed(k) ==
  \E w \in Writers : /\ wkey[w] = k
                     /\ writer[w] \in {"committed", "generated", "requesting"}

\* A rebuild to come, or the one that runs, will publish what the database
\* holds of file k.
Due(k) ==
  \/ worker \notin Rebuilding /\ requested > published
  \/ worker \in Rebuilding /\ requested > target
  \/ worker = "snapshot"
  \/ worker = "reading" /\ incremental[k] <= startEpoch /\ next[k] \in {Unread, db[k]}

\* A side story the backfill has generated is the newest, unless a handler
\* that wrote a newer one waits for the mutex the backfill holds.
Overtaken(w) ==
  w \in Backfill /\ writer[w] = "generated" =>
    \/ got[w] = db[wkey[w]]
    \/ \E v \in Writers : wkey[v] = wkey[w] /\ writer[v] = "committed"

\* The files whose writers ask for a rebuild after they have published, or do
\* not publish at all: every kind but the categories.
Orderly == Keys \ (Incremental \cap NotifiesFirst)

\* The public file is the database's, or someone will still see to it.
Current(k) == assets[k] = db[k] \/ Owed(k) \/ Due(k)

CurrentInv ==
  /\ Counted /\ Placed
  /\ ~stopped => /\ \A w \in Writers : wkey[w] \in Orderly => Overtaken(w)
                 /\ \A k \in Orderly : Current(k)

-----------------------------------------------------------------------------
(* Awaited publications                                                    *)

\* A file that only rebuilds publish has no incremental record.
Unrecorded ==
  \A k \in Keys \ Incremental : incremental[k] = 0

\* Whoever counted on generation g for version v of file k is not deceived:
\* it has been read or is served once that generation is published.
Covered(g, v, k) ==
  /\ v <= db[k].version
  /\ g <= published => assets[k].version >= v
  /\ worker = "reading" /\ g <= target /\ next[k] # Unread => next[k].version >= v
  /\ worker = "swapped" /\ g <= target => assets[k].version >= v

AwaitInv ==
  /\ Unrecorded
  /\ \A k \in Keys \ Incremental :
       /\ Covered(requested, asked[k], k)
       /\ \A a \in Awaiters : awaiter[a] = "waiting"
            => Covered(want[a].target, want[a].content[k], k)
  /\ AwaitTruth

\* A step of one writer leaves the others where they are, and the worker too.
LEMMA OtherWriters ==
  ASSUME TypeOK, NEW w \in Writers, WriterStep(w) \/ \E k \in Keys : Commit(w, k)
  PROVE  /\ \A v \in Writers : v # w =>
              writer'[v] = writer[v] /\ wkey'[v] = wkey[v] /\ got'[v] = got[v]
         /\ UNCHANGED <<worker, target, startEpoch, next, running, published, stopped>>
<1>1. ASSUME NEW place \in {"requesting", "urging"}, Request(w, place)
      PROVE  /\ \A v \in Writers : v # w =>
                  writer'[v] = writer[v] /\ wkey'[v] = wkey[v] /\ got'[v] = got[v]
             /\ UNCHANGED <<worker, target, startEpoch, next, running, published, stopped>>
  BY <1>1 DEF TypeOK, Request, AfterTrigger, Return, Step, workerVars
<1>2. CASE Trigger(w) \/ PublishNow(w)
  BY <1>2 DEF TypeOK, Trigger, PublishNow, AfterTrigger, Return, Step, workerVars, statusVars
<1>3. CASE Generate(w)
  BY <1>3 DEF TypeOK, Generate, Step, workerVars, statusVars
<1>4. CASE applyIncremental(w)
  BY <1>4 DEF TypeOK, applyIncremental, Continue, Return, Step, workerVars, statusVars
<1>5. CASE GenerateFails(w)
  BY <1>5 DEF TypeOK, GenerateFails, Continue, Return, Step, statusVars
<1>6. ASSUME NEW k \in Keys, Commit(w, k)
      PROVE  /\ \A v \in Writers : v # w =>
                  writer'[v] = writer[v] /\ wkey'[v] = wkey[v] /\ got'[v] = got[v]
             /\ UNCHANGED <<worker, target, startEpoch, next, running, published, stopped>>
  BY <1>6 DEF TypeOK, Commit, Step, workerVars, statusVars
<1> QED
  BY <1>1, <1>2, <1>3, <1>4, <1>5, <1>6 DEF WriterStep

\* The worker, AwaitPublished and Stop leave the writers and the database.
WritersRest == UNCHANGED <<db, writer, wkey, got, publishMu, asked>>

\* The worker leaves writers, database and awaiting callers as they are.
LEMMA WorkerFrame ==
  ASSUME WorkerStep \/ DebounceExtended
  PROVE  WritersRest /\ UNCHANGED <<stopped, awaiter, want>>
<1>1. ASSUME BeginRebuild \/ BeginReading \/ (\E k \in Keys : ReadKey(k)) \/ Swap
      PROVE  WritersRest /\ UNCHANGED <<stopped, awaiter, want>>
  BY <1>1 DEF WritersRest, BeginRebuild, BeginReading, ReadKey, Swap, contentVars, writerVars,
              awaitVars
<1>2. ASSUME FinishRebuild \/ FailRebuild \/ Drain \/ Decide \/ RetryTimer \/ Wake
      PROVE  WritersRest /\ UNCHANGED <<stopped, awaiter, want>>
  BY <1>2 DEF WritersRest, FinishRebuild, FailRebuild, Drain, Decide, RetryTimer, Wake,
              contentVars, writerVars, awaitVars
<1>3. ASSUME DebounceUrged \/ DebounceTimer \/ WorkerEnds \/ DebounceExtended
      PROVE  WritersRest /\ UNCHANGED <<stopped, awaiter, want>>
  BY <1>3 DEF WritersRest, DebounceUrged, DebounceTimer, WorkerEnds, DebounceExtended,
              contentVars, writerVars, awaitVars
<1> QED
  BY <1>1, <1>2, <1>3 DEF WorkerStep

\* Steps that leave the files, the worker and the counters as they are.
StatusRest ==
  UNCHANGED <<assets, incremental, worker, target, startEpoch, next, running, requested,
              published>>

\* AwaitPublished and Stop leave the writers and the files.
LEMMA AwaiterFrame ==
  ASSUME (\E a \in Awaiters : AwaiterNext(a)) \/ Stop \/ UNCHANGED vars
  PROVE  WritersRest /\ StatusRest
<1>1. ASSUME NEW a \in Awaiters, AwaiterNext(a)
      PROVE  WritersRest /\ StatusRest
  BY <1>1 DEF WritersRest, StatusRest, AwaiterNext, AwaitPublished, AwaitPoll, AwaitGivesUp,
              AwaitReturns, contentVars, assetVars, statusVars, workerVars, writerVars
<1>2. ASSUME Stop \/ UNCHANGED vars
      PROVE  WritersRest /\ StatusRest
  BY <1>2 DEF WritersRest, StatusRest, Stop, vars, contentVars, assetVars, statusVars,
              workerVars, writerVars
<1> QED
  BY <1>1, <1>2

\* The worker between two rebuilds.
LEMMA WorkerIdles ==
  ASSUME \/ Drain \/ Decide \/ RetryTimer \/ Wake \/ DebounceUrged \/ DebounceTimer
         \/ WorkerEnds \/ DebounceExtended
  PROVE  /\ UNCHANGED <<assets, incremental, target, startEpoch, next, running, requested,
                        published>>
         /\ worker \notin Rebuilding /\ worker' \notin Rebuilding
<1>1. ASSUME Drain \/ Decide \/ RetryTimer \/ Wake
      PROVE  /\ UNCHANGED <<assets, incremental, target, startEpoch, next, running, requested,
                            published>>
             /\ worker \notin Rebuilding /\ worker' \notin Rebuilding
  BY <1>1 DEF Drain, Decide, RetryTimer, Wake, Rebuilding, assetVars, statusVars
<1>2. ASSUME DebounceUrged \/ DebounceTimer \/ WorkerEnds \/ DebounceExtended
      PROVE  /\ UNCHANGED <<assets, incremental, target, startEpoch, next, running, requested,
                            published>>
             /\ worker \notin Rebuilding /\ worker' \notin Rebuilding
  BY <1>2 DEF DebounceUrged, DebounceTimer, WorkerEnds, DebounceExtended, Rebuilding,
              assetVars, statusVars, workerVars
<1> QED
  BY <1>1, <1>2

\* Every step keeps the agreement of the counters with the worker.
LEMMA CountedStep ==
  ASSUME TypeOK, Counted, [Next]_vars
  PROVE  Counted'
<1>1. ASSUME NEW w \in Writers, WriterStep(w) \/ \E k \in Keys : Commit(w, k)
      PROVE  Counted'
  BY <1>1, OtherWriters DEF Counted
<1>2. CASE (\E a \in Awaiters : AwaiterNext(a)) \/ Stop \/ UNCHANGED vars
  BY <1>2, AwaiterFrame DEF StatusRest, Counted
<1>3. CASE BeginRebuild
  <2>1. target' > published /\ published' = published /\ running' = TRUE /\ worker' = "snapshot"
    BY <1>3 DEF BeginRebuild, TypeOK
  <2> QED
    BY <2>1 DEF Counted, Rebuilding
<1>4. CASE BeginReading \/ (\E k \in Keys : ReadKey(k)) \/ Swap
  <2>1. /\ UNCHANGED <<running, target, published>>
        /\ worker \in Rebuilding /\ worker' \in Rebuilding
    BY <1>4 DEF BeginReading, ReadKey, Swap, Rebuilding, statusVars
  <2> QED
    BY <2>1 DEF Counted
<1>5. CASE FinishRebuild \/ FailRebuild
  BY <1>5 DEF FinishRebuild, FailRebuild, Counted, Rebuilding
<1>6. CASE Drain \/ Decide \/ RetryTimer \/ Wake \/ DebounceUrged \/ DebounceTimer
           \/ WorkerEnds \/ DebounceExtended
  BY <1>6, WorkerIdles DEF Counted
<1> QED
  BY <1>1, <1>2, <1>3, <1>4, <1>5, <1>6 DEF Next, WorkerStep

\* Every step keeps a writer on a file of its own kind.
LEMMA PlacedStep ==
  ASSUME TypeOK, Placed, [Next]_vars
  PROVE  Placed'
<1>1. ASSUME NEW w \in Writers, WriterStep(w) \/ \E k \in Keys : Commit(w, k)
      PROVE  Placed'
  <2> DEFINE Good == /\ writer'[w] \in {"committed", "generated"} => wkey'[w] \in Incremental
                     /\ w \in Backfill /\ writer'[w] # "idle" => wkey'[w] \in Serialised
  <2>0. /\ writer[w] \in {"committed", "generated"} => wkey[w] \in Incremental
        /\ w \in Backfill /\ writer[w] # "idle" => wkey[w] \in Serialised
    BY DEF Placed
  <2>1. ASSUME NEW place \in {"requesting", "urging"}, Request(w, place)
        PROVE  Good
    <3>1. CASE stopped
      BY <2>0, <2>1, <3>1 DEF TypeOK, Request, AfterTrigger, Return, Step
    <3>2. CASE ~stopped
      BY <2>0, <2>1, <3>2 DEF TypeOK, Request, Step
    <3> QED
      BY <3>1, <3>2
  <2>2. ASSUME Trigger(w) PROVE Good
    BY <2>0, <2>2 DEF TypeOK, Trigger, AfterTrigger, Return, Step
  <2>3. ASSUME PublishNow(w) PROVE Good
    BY <2>3 DEF TypeOK, PublishNow, Return, Step
  <2>4. ASSUME Generate(w) PROVE Good
    BY <2>0, <2>4 DEF TypeOK, Generate, Step
  <2>5. ASSUME applyIncremental(w) PROVE Good
    BY <2>0, <2>5 DEF TypeOK, applyIncremental, Continue, Return, Step
  <2>6. ASSUME GenerateFails(w) PROVE Good
    BY <2>0, <2>6 DEF TypeOK, GenerateFails, Continue, Return, Step
  <2>7. ASSUME NEW k \in Keys, Commit(w, k)
        PROVE  Good
    BY <2>7, FileProjectionAssumption DEF TypeOK, Commit, Step
  <2> HIDE DEF Good
  <2>8. Good
    BY <1>1, <2>1, <2>2, <2>3, <2>4, <2>5, <2>6, <2>7 DEF WriterStep
  <2> QED
    BY <1>1, <2>8, OtherWriters DEF Placed, Good
<1>2. CASE WritersRest
  BY <1>2 DEF WritersRest, Placed
<1> QED
  BY <1>1, <1>2, WorkerFrame, AwaiterFrame DEF Next

\* Only Commit changes the database.
LEMMA DatabaseRests ==
  ASSUME NEW w \in Writers, WriterStep(w)
  PROVE  UNCHANGED db
<1>1. ASSUME NEW place, Request(w, place)
      PROVE  UNCHANGED db
  BY <1>1 DEF Request
<1>2. CASE Trigger(w) \/ PublishNow(w) \/ Generate(w)
  BY <1>2 DEF Trigger, PublishNow, Generate, contentVars
<1>3. CASE applyIncremental(w) \/ GenerateFails(w)
  BY <1>3 DEF applyIncremental, GenerateFails, contentVars
<1> QED
  BY <1>1, <1>2, <1>3 DEF WriterStep

\* A writer comes to hold generated content by Generate only.
LEMMA GeneratedBy ==
  ASSUME TypeOK, NEW w \in Writers, WriterStep(w) \/ \E k \in Keys : Commit(w, k),
         writer'[w] = "generated"
  PROVE  Generate(w)
<1>1. ASSUME NEW place \in {"requesting", "urging"}, Request(w, place)
      PROVE  writer'[w] # "generated"
  BY <1>1 DEF TypeOK, Request, AfterTrigger, Return, Step
<1>2. ASSUME Trigger(w) \/ PublishNow(w)
      PROVE  writer'[w] # "generated"
  BY <1>2 DEF TypeOK, Trigger, PublishNow, AfterTrigger, Return, Step
<1>3. ASSUME applyIncremental(w) \/ GenerateFails(w)
      PROVE  writer'[w] # "generated"
  BY <1>3 DEF TypeOK, applyIncremental, GenerateFails, Continue, Return, Step
<1>4. ASSUME NEW k \in Keys, Commit(w, k)
      PROVE  writer'[w] # "generated"
  BY <1>4 DEF TypeOK, Commit, Step
<1> QED
  BY <1>1, <1>2, <1>3, <1>4 DEF WriterStep

\* A writer with nothing generated yet generates, gives up, or stays.
LEMMA CommittedBy ==
  ASSUME NEW w \in Writers, WriterStep(w), writer[w] = "committed"
  PROVE  Generate(w) \/ (GenerateFails(w) /\ (stopped \/ w \in Backfill))
<1>1. ASSUME NEW place \in {"requesting", "urging"}, Request(w, place)
      PROVE  FALSE
  BY <1>1 DEF Request
<1>2. ASSUME Trigger(w) \/ PublishNow(w) \/ applyIncremental(w)
      PROVE  FALSE
  BY <1>2 DEF Trigger, PublishNow, applyIncremental
<1>3. ASSUME GenerateFails(w)
      PROVE  stopped \/ w \in Backfill
  BY <1>3 DEF GenerateFails
<1> QED
  BY <1>1, <1>2, <1>3 DEF WriterStep

\* What the backfill has generated is overtaken only by a handler that the
\* mutex makes wait: publishRound and publishSideStory.
LEMMA OvertakenStep ==
  ASSUME TypeOK, MutexHeld, Placed, ~stopped,
         \A w \in Writers : wkey[w] \in Orderly => Overtaken(w),
         [Next]_vars
  PROVE  \A w \in Writers : wkey'[w] \in Orderly => Overtaken(w)'
<1> SUFFICES ASSUME NEW b \in Writers, wkey'[b] \in Orderly, b \in Backfill,
                    writer'[b] = "generated"
             PROVE  \/ got'[b] = db'[wkey'[b]]
                    \/ \E v \in Writers : wkey'[v] = wkey'[b] /\ writer'[v] = "committed"
  BY DEF Overtaken
<1>1. ASSUME NEW w \in Writers, WriterStep(w) \/ \E k \in Keys : Commit(w, k)
      PROVE  \/ got'[b] = db'[wkey'[b]]
             \/ \E v \in Writers : wkey'[v] = wkey'[b] /\ writer'[v] = "committed"
  <2>1. CASE w = b
    <3>1. Generate(b)
      BY <1>1, <2>1, GeneratedBy
    <3> QED
      BY <3>1 DEF Generate, TypeOK, contentVars
  <2>2. CASE w # b
    <3>1. writer[b] = "generated" /\ wkey'[b] = wkey[b] /\ got'[b] = got[b]
      BY <1>1, <2>2, OtherWriters
    <3>2. PICK k \in Keys : k = wkey[b]
      BY DEF TypeOK
    <3>3. k \in Serialised /\ k \in Incremental /\ k \notin NotifiesFirst /\ publishMu = b
      BY <3>1, <3>2 DEF Placed, Orderly, MutexHeld
    <3>4. got[b] = db[k] \/ \E v \in Writers : wkey[v] = k /\ writer[v] = "committed"
      BY <3>1, <3>2 DEF Overtaken
    <3>5. ASSUME NEW j \in Keys, Commit(w, j)
          PROVE  got[b] = db'[k] \/ \E v \in Writers : wkey'[v] = k /\ writer'[v] = "committed"
      <4>1. CASE j = k
        BY <3>3, <3>5, <4>1 DEF Commit, Step, TypeOK
      <4>2. CASE j # k
        <5>1. db'[k] = db[k] /\ writer[w] = "idle"
          BY <3>5, <4>2 DEF Commit, TypeOK
        <5> QED
          BY <1>1, <3>4, <5>1, OtherWriters
      <4> QED
        BY <4>1, <4>2
    <3>6. ASSUME WriterStep(w)
          PROVE  got[b] = db'[k] \/ \E v \in Writers : wkey'[v] = k /\ writer'[v] = "committed"
      <4>1. db' = db
        BY <3>6, DatabaseRests
      <4>2. CASE got[b] = db[k]
        BY <4>1, <4>2
      <4>3. ASSUME NEW v \in Writers, wkey[v] = k, writer[v] = "committed"
            PROVE  v # w
        <5>1. ~Generate(v)
          BY <3>3, <4>3, FileProjectionAssumption DEF Generate
        <5>2. v \notin Backfill
          BY <3>1, <4>3, FileProjectionAssumption
        <5> QED
          BY <3>6, <4>3, <5>1, <5>2, CommittedBy
      <4> QED
        BY <1>1, <3>4, <4>2, <4>3, OtherWriters
    <3> QED
      BY <1>1, <3>1, <3>2, <3>5, <3>6
  <2> QED
    BY <2>1, <2>2
<1>2. CASE WritersRest
  BY <1>2 DEF WritersRest, Overtaken
<1> QED
  BY <1>1, <1>2, WorkerFrame, AwaiterFrame DEF Next

\* What is owed stays owed while its writer only generates, and what others do
\* does not concern it.
LEMMA OwedStep ==
  ASSUME TypeOK, NEW w \in Writers, WriterStep(w) \/ \E j \in Keys : Commit(w, j),
         NEW k \in Keys, Owed(k),
         \/ wkey[w] # k
         \/ writer[w] \notin {"committed", "generated", "requesting"}
         \/ wkey'[w] = k /\ writer'[w] \in {"committed", "generated", "requesting"}
  PROVE  Owed(k)'
<1>1. PICK v \in Writers : wkey[v] = k /\ writer[v] \in {"committed", "generated", "requesting"}
  BY DEF Owed
<1>2. CASE v = w
  BY <1>1, <1>2 DEF Owed
<1>3. CASE v # w
  BY <1>1, <1>3, OtherWriters DEF Owed
<1> QED
  BY <1>2, <1>3

\* Due depends on the worker and the file's records only.
LEMMA DueRests ==
  ASSUME NEW k \in Keys, Due(k), requested' = requested, db'[k] = db[k],
         incremental'[k] = incremental[k],
         UNCHANGED <<worker, target, startEpoch, next, published>>
  PROVE  Due(k)'
BY DEF Due

\* Handlers and the backfill keep every orderly file current: a committed
\* version is owed until a rebuild is asked for or the newest is published.
LEMMA CurrentWriter ==
  ASSUME TypeOK, Placed, ~stopped, NEW k \in Orderly, Current(k),
         \A w \in Writers : wkey[w] \in Orderly => Overtaken(w),
         NEW w \in Writers, WriterStep(w) \/ \E j \in Keys : Commit(w, j)
  PROVE  Current(k)'
<1>0. /\ UNCHANGED <<worker, target, startEpoch, next, published>>
      /\ k \in Keys
  BY OtherWriters DEF Orderly
<1>1. ASSUME NEW j \in Keys, Commit(w, j)
      PROVE  Current(k)'
  <2>1. CASE j = k
    <3>1. wkey'[w] = k /\ writer'[w] \in {"committed", "requesting"}
      BY <1>1, <2>1 DEF Commit, Step, TypeOK
    <3> QED
      BY <3>1 DEF Current, Owed
  <2>2. CASE j # k
    <3>1. /\ db'[k] = db[k] /\ assets' = assets /\ incremental' = incremental
          /\ requested' = requested /\ writer[w] = "idle"
      BY <1>1, <2>2 DEF Commit, TypeOK, assetVars, statusVars
    <3>2. Owed(k) => Owed(k)'
      BY <1>0, <1>1, <3>1, OwedStep
    <3>3. Due(k) => Due(k)'
      BY <1>0, <3>1, DueRests
    <3> QED
      BY <3>1, <3>2, <3>3 DEF Current
  <2> QED
    BY <2>1, <2>2
<1>2. ASSUME NEW place \in {"requesting", "urging"}, Request(w, place)
      PROVE  Current(k)'
  <2>1. requested' > published /\ requested' > target
    BY <1>2 DEF Request, TypeOK
  <2> QED
    BY <1>0, <2>1 DEF Current, Due
<1>3. ASSUME Trigger(w) \/ PublishNow(w) \/ Generate(w)
      PROVE  Current(k)'
  <2>1. UNCHANGED <<db, assets, incremental, requested>>
    BY <1>3 DEF Trigger, PublishNow, Generate, contentVars, assetVars, statusVars
  <2>2. \/ writer[w] \notin {"committed", "generated", "requesting"}
        \/ wkey'[w] = wkey[w] /\ writer'[w] = "generated"
    BY <1>3 DEF Trigger, PublishNow, Generate, Step, TypeOK
  <2>3. Owed(k) => Owed(k)'
    BY <1>0, <2>2, OwedStep
  <2>4. Due(k) => Due(k)'
    BY <1>0, <2>1, DueRests
  <2> QED
    BY <2>1, <2>3, <2>4 DEF Current
<1>4. ASSUME applyIncremental(w)
      PROVE  Current(k)'
  <2>1. CASE wkey[w] # k
    <3>1. UNCHANGED <<db, requested>> /\ assets'[k] = assets[k] /\ incremental'[k] = incremental[k]
      BY <1>0, <1>4, <2>1 DEF applyIncremental, TypeOK, statusVars
    <3>2. Owed(k) => Owed(k)'
      BY <1>0, <2>1, OwedStep
    <3>3. Due(k) => Due(k)'
      BY <1>0, <3>1, DueRests
    <3> QED
      BY <3>1, <3>2, <3>3 DEF Current
  <2>2. CASE wkey[w] = k
    <3>1. writer[w] = "generated" /\ k \in Incremental /\ k \notin NotifiesFirst
      BY <1>4, <2>2 DEF applyIncremental, Placed, Orderly
    <3>2. CASE w \notin Backfill
      <4>1. writer'[w] = "requesting" /\ wkey'[w] = k
        BY <1>4, <2>2, <3>1, <3>2 DEF applyIncremental, Continue, Step, TypeOK
      <4> QED
        BY <4>1 DEF Current, Owed
    <3>3. CASE w \in Backfill
      <4>1. db' = db /\ assets'[k] = got[w]
        BY <1>0, <1>4, <2>2 DEF applyIncremental, TypeOK
      <4>2. CASE got[w] = db[k]
        BY <4>1, <4>2 DEF Current
      <4>3. ASSUME NEW v \in Writers, wkey[v] = k, writer[v] = "committed"
            PROVE  Owed(k)'
        <5>1. v # w
          BY <3>1, <4>3
        <5> QED
          BY <4>3, <5>1, OtherWriters DEF Owed
      <4> QED
        BY <2>2, <3>1, <3>3, <4>2, <4>3 DEF Overtaken, Current
    <3> QED
      BY <3>2, <3>3
  <2> QED
    BY <2>1, <2>2
<1>5. ASSUME GenerateFails(w)
      PROVE  Current(k)'
  <2>1. UNCHANGED <<db, assets, incremental, requested>>
    BY <1>5 DEF GenerateFails, contentVars, assetVars, statusVars
  <2>2. wkey[w] = k => wkey'[w] = k /\ writer'[w] = "requesting"
    <3>1. wkey[w] \in Incremental
      BY <1>5 DEF GenerateFails, Placed
    <3> QED
      BY <1>5, <3>1 DEF GenerateFails, Continue, Step, TypeOK, Orderly
  <2>3. Owed(k) => Owed(k)'
    BY <1>0, <2>2, OwedStep
  <2>4. Due(k) => Due(k)'
    BY <1>0, <2>1, DueRests
  <2> QED
    BY <2>1, <2>3, <2>4 DEF Current
<1> QED
  BY <1>1, <1>2, <1>3, <1>4, <1>5 DEF WriterStep

\* The worker keeps every file current: what it has read is the database's or
\* a request made since is still counted.
LEMMA CurrentWorker ==
  ASSUME ProjectionInv, Counted, NEW k \in Orderly, Current(k),
         WorkerStep \/ DebounceExtended
  PROVE  Current(k)'
<1>0. /\ UNCHANGED <<db, writer, wkey>> /\ k \in Keys
      /\ TypeOK /\ FromDatabase /\ ReadIsNewer
  BY WorkerFrame DEF WritersRest, Orderly, ProjectionInv
<1>1. Owed(k) => Owed(k)'
  BY <1>0 DEF Owed
<1> SUFFICES ASSUME assets[k] = db[k] \/ Due(k)
             PROVE  assets'[k] = db'[k] \/ Due(k)'
  BY <1>1 DEF Current
<1>2. CASE BeginRebuild
  BY <1>2 DEF BeginRebuild, Due
<1>3. CASE BeginReading
  <2>1. incremental'[k] <= startEpoch' /\ next'[k] = Unread /\ worker' = "reading"
    BY <1>0, <1>3 DEF BeginReading, TypeOK, ReadIsNewer, assetVars
  <2> QED
    BY <2>1 DEF Due
<1>4. ASSUME NEW j \in Keys, ReadKey(j)
      PROVE  assets'[k] = db'[k] \/ Due(k)'
  <2>1. /\ UNCHANGED <<assets, incremental, requested, published, worker, target, startEpoch>>
        /\ worker = "reading"
        /\ next'[k] \in {next[k], db[k]}
    BY <1>0, <1>4 DEF ReadKey, TypeOK, assetVars, statusVars
  <2> QED
    BY <1>0, <2>1 DEF Due
<1>5. CASE Swap
  <2>1. /\ worker = "reading" /\ worker' = "swapped" /\ next[k] # Unread
        /\ assets'[k] = IF incremental[k] > startEpoch THEN assets[k] ELSE next[k]
        /\ UNCHANGED <<requested, target, published>>
    BY <1>0, <1>5 DEF Swap, statusVars
  <2>2. CASE Due(k)
    <3>1. requested > target \/ (incremental[k] <= startEpoch /\ next[k] = db[k])
      BY <2>1, <2>2 DEF Due, Rebuilding
    <3>2. CASE requested > target
      BY <2>1, <3>2 DEF Due, Rebuilding
    <3>3. CASE incremental[k] <= startEpoch /\ next[k] = db[k]
      BY <1>0, <2>1, <3>3 DEF TypeOK
    <3> QED
      BY <3>1, <3>2, <3>3
  <2>3. CASE assets[k] = db[k]
    <3>1. CASE incremental[k] > startEpoch
      BY <1>0, <2>1, <2>3, <3>1
    <3>2. CASE ~(incremental[k] > startEpoch)
      <4>1. Older(assets[k], next[k]) /\ Older(next[k], db[k])
        BY <1>0, <2>1, <3>2 DEF ReadIsNewer, FromDatabase, TypeOK
      <4>2. assets[k].version \in Nat /\ next[k].version \in Nat
        BY <1>0, <2>1, ContentFields DEF TypeOK
      <4>3. next[k] = db[k]
        BY <2>3, <4>1, <4>2 DEF Older
      <4> QED
        BY <1>0, <2>1, <3>2, <4>3
    <3> QED
      BY <3>1, <3>2
  <2> QED
    BY <2>2, <2>3
<1>6. CASE FinishRebuild
  <2>1. /\ worker = "swapped" /\ worker' = "drain" /\ published' = target
        /\ UNCHANGED <<requested, assets>>
    BY <1>6 DEF FinishRebuild, assetVars
  <2> QED
    BY <1>0, <2>1 DEF Due, Rebuilding
<1>7. CASE FailRebuild
  <2>1. /\ worker = "reading" /\ worker' = "drain" /\ UNCHANGED <<requested, published>>
    BY <1>7 DEF FailRebuild
  <2>2. requested > published
    BY <1>0, <2>1 DEF Counted, Rebuilding, TypeOK
  <2> QED
    BY <2>1, <2>2 DEF Due, Rebuilding
<1>8. CASE Drain \/ Decide \/ RetryTimer \/ Wake \/ DebounceUrged \/ DebounceTimer
           \/ WorkerEnds \/ DebounceExtended
  <2>1. /\ UNCHANGED <<assets, requested, published>>
        /\ worker \notin Rebuilding /\ worker' \notin Rebuilding
    BY <1>8, WorkerIdles
  <2> QED
    BY <1>0, <2>1 DEF Due, Rebuilding
<1> QED
  BY <1>2, <1>3, <1>4, <1>5, <1>6, <1>7, <1>8 DEF WorkerStep

\* No step of the system leaves a file of the database behind.
LEMMA CurrentNext ==
  ASSUME ProjectionInv, CurrentInv, [Next]_vars
  PROVE  CurrentInv'
<1>1. Counted' /\ Placed'
  BY CountedStep, PlacedStep DEF ProjectionInv, CurrentInv
<1>2. ASSUME ~stopped'
      PROVE  /\ \A w \in Writers : wkey'[w] \in Orderly => Overtaken(w)'
             /\ \A k \in Orderly : Current(k)'
  <2>1. ~stopped
    <3>1. CASE \E w \in Writers : WriterStep(w) \/ \E k \in Keys : Commit(w, k)
      BY <1>2, <3>1, OtherWriters DEF ProjectionInv
    <3>2. CASE WorkerStep \/ DebounceExtended
      BY <1>2, <3>2, WorkerFrame
    <3>3. ASSUME NEW a \in Awaiters, AwaiterNext(a)
          PROVE  UNCHANGED stopped
      BY <3>3 DEF AwaiterNext, AwaitPublished, AwaitPoll, AwaitGivesUp, AwaitReturns
    <3>4. CASE Stop \/ UNCHANGED vars
      BY <1>2, <3>4 DEF Stop, vars
    <3> QED
      BY <1>2, <3>1, <3>2, <3>3, <3>4 DEF Next
  <2>2. \A w \in Writers : wkey'[w] \in Orderly => Overtaken(w)'
    BY <2>1, OvertakenStep DEF ProjectionInv, CurrentInv
  <2>3. ASSUME NEW k \in Orderly
        PROVE  Current(k)'
    <3>0. Current(k) /\ TypeOK /\ Placed /\ Counted
          /\ \A w \in Writers : wkey[w] \in Orderly => Overtaken(w)
      BY <2>1 DEF CurrentInv, ProjectionInv
    <3>1. CASE \E w \in Writers : WriterStep(w) \/ \E j \in Keys : Commit(w, j)
      BY <2>1, <3>0, <3>1, CurrentWriter
    <3>2. CASE WorkerStep \/ DebounceExtended
      BY <3>0, <3>2, CurrentWorker
    <3>3. CASE (\E a \in Awaiters : AwaiterNext(a)) \/ Stop \/ UNCHANGED vars
      <4>1. WritersRest /\ StatusRest
        BY <3>3, AwaiterFrame
      <4> QED
        BY <3>0, <4>1 DEF WritersRest, StatusRest, Current, Owed, Due
    <3> QED
      BY <3>1, <3>2, <3>3 DEF Next
  <2> QED
    BY <2>2, <2>3
<1> QED
  BY <1>1, <1>2 DEF CurrentInv

\* While the service runs, every file that its writers publish in order is
\* what the database holds, or someone still owes its publication: a writer
\* before its request, a request not yet published, or the running rebuild.
THEOREM CurrentInvariant == Spec => [](ProjectionInv /\ CurrentInv)
<1>1. Init => CurrentInv
  BY DEF Init, CurrentInv, Counted, Placed, Rebuilding, Overtaken, Current, Orderly
<1>2. ProjectionInv /\ CurrentInv /\ [Next]_vars => CurrentInv'
  BY CurrentNext
<1> QED
  BY <1>1, <1>2, ProjectionInvariant, PTL DEF Spec

\* The promise of the projection status, for every kind of file but the
\* categories, whose handlers publish after the rebuild has been requested
\* and are caught out by the run CategoryProjection: once the status is not
\* pending and shows no error, and no writer is at work on the file, the
\* public file is the database's.
THEOREM SettledIsCurrentHolds ==
  ASSUME Incremental \cap NotifiesFirst = {}
  PROVE  Spec => []SettledIsCurrent
<1>1. CurrentInv => SettledIsCurrent
  <2> SUFFICES ASSUME CurrentInv, NEW k \in Keys, ~stopped, ~Pending,
                      \A w \in Writers : writer[w] = "idle" \/ wkey[w] # k
               PROVE  assets[k] = db[k]
    BY DEF SettledIsCurrent
  <2>1. Current(k) /\ Counted
    BY DEF CurrentInv, Orderly
  <2>2. ~Owed(k)
    BY DEF Owed
  <2>3. ~Due(k)
    BY <2>1 DEF Due, Counted, Pending, Rebuilding
  <2> QED
    BY <2>1, <2>2, <2>3 DEF Current
<1> QED
  BY <1>1, CurrentInvariant, PTL

\* A file that only rebuilds publish: its writers leave what is served, and
\* its version in the database grows.
LEMMA LyricsWriter ==
  ASSUME TypeOK, Placed, NEW k \in Keys \ Incremental,
         NEW w \in Writers, WriterStep(w) \/ \E j \in Keys : Commit(w, j)
  PROVE  /\ assets'[k] = assets[k] /\ incremental'[k] = incremental[k]
         /\ db'[k].version >= db[k].version
         /\ UNCHANGED <<awaiter, want>>
<1>0. db[k].version \in Nat
  BY ContentFields DEF TypeOK
<1>1. ASSUME NEW j \in Keys, Commit(w, j)
      PROVE  /\ UNCHANGED <<assets, incremental, awaiter, want>>
             /\ db'[k].version >= db[k].version
  <2>1. PICK here \in BOOLEAN :
          db' = [db EXCEPT ![j] = [version |-> @.version + 1, present |-> here]]
    BY <1>1 DEF Commit
  <2>2. db'[k].version >= db[k].version
    BY <1>0, <2>1 DEF TypeOK
  <2> QED
    BY <1>1, <2>2 DEF Commit, assetVars, awaitVars
<1>2. ASSUME NEW place, Request(w, place)
      PROVE  UNCHANGED <<assets, incremental, awaiter, want>>
  BY <1>2 DEF Request, assetVars, awaitVars
<1>3. ASSUME Trigger(w) \/ PublishNow(w) \/ Generate(w) \/ GenerateFails(w)
      PROVE  UNCHANGED <<assets, incremental, awaiter, want>>
  BY <1>3 DEF Trigger, PublishNow, Generate, GenerateFails, assetVars, awaitVars
<1>4. ASSUME applyIncremental(w)
      PROVE  /\ assets'[k] = assets[k] /\ incremental'[k] = incremental[k]
             /\ UNCHANGED <<awaiter, want>>
  <2>1. wkey[w] # k
    BY <1>4 DEF applyIncremental, Placed
  <2> QED
    BY <1>4, <2>1 DEF applyIncremental, TypeOK, awaitVars
<1>5. WriterStep(w) => db'[k].version >= db[k].version
  BY <1>0, DatabaseRests
<1> QED
  BY <1>1, <1>2, <1>3, <1>4, <1>5 DEF WriterStep

\* The swap publishes what the rebuild read of such a file.
LEMMA LyricsSwap ==
  ASSUME ProjectionInv, Unrecorded, NEW k \in Keys \ Incremental, Swap
  PROVE  /\ next[k] # Unread /\ assets'[k] = next[k] /\ incremental'[k] = 0
         /\ assets'[k].version >= assets[k].version
<1>0. TypeOK /\ ReadIsNewer /\ incremental[k] = 0 /\ startEpoch \in Nat
  BY DEF ProjectionInv, Unrecorded, TypeOK
<1>1. next[k] # Unread /\ assets'[k] = next[k] /\ incremental'[k] = 0
  BY <1>0 DEF Swap
<1>2. Older(assets[k], next[k])
  BY <1>0, <1>1 DEF ReadIsNewer
<1>3. assets[k].version \in Nat /\ next[k].version \in Nat
  BY <1>0, <1>1, ContentFields DEF TypeOK
<1> QED
  BY <1>1, <1>2, <1>3 DEF Older

\* What is served of such a file never gets older.
LEMMA LyricsServed ==
  ASSUME ProjectionInv, Placed, Unrecorded, NEW k \in Keys \ Incremental, [Next]_vars
  PROVE  assets'[k].version >= assets[k].version /\ incremental'[k] = 0
<1>0. TypeOK /\ assets[k].version \in Nat /\ incremental[k] = 0
  BY ContentFields DEF ProjectionInv, TypeOK, Unrecorded
<1>1. CASE \E w \in Writers : WriterStep(w) \/ \E j \in Keys : Commit(w, j)
  BY <1>0, <1>1, LyricsWriter
<1>2. CASE Swap
  BY <1>2, LyricsSwap
<1>3. ASSUME \/ BeginRebuild \/ BeginReading \/ (\E j \in Keys : ReadKey(j))
             \/ FinishRebuild \/ FailRebuild
      PROVE  UNCHANGED <<assets, incremental>>
  BY <1>3 DEF BeginRebuild, BeginReading, ReadKey, FinishRebuild, FailRebuild, assetVars
<1>4. CASE Drain \/ Decide \/ RetryTimer \/ Wake \/ DebounceUrged \/ DebounceTimer
           \/ WorkerEnds \/ DebounceExtended
  BY <1>0, <1>4, WorkerIdles
<1>5. CASE (\E a \in Awaiters : AwaiterNext(a)) \/ Stop \/ UNCHANGED vars
  BY <1>0, <1>5, AwaiterFrame DEF StatusRest
<1> QED
  BY <1>0, <1>1, <1>2, <1>3, <1>4, <1>5 DEF Next, WorkerStep

\* Whoever counted on a generation stays covered by it.
LEMMA CoveredStep ==
  ASSUME ProjectionInv, Placed, Unrecorded, NEW k \in Keys \ Incremental,
         NEW g \in Nat, NEW v \in Nat, Covered(g, v, k), [Next]_vars
  PROVE  Covered(g, v, k)'
<1>0. TypeOK /\ assets[k].version \in Nat /\ db[k].version \in Nat /\ assets'[k].version \in Nat
  <2>1. TypeOK /\ TypeOK'
    BY ProjectionNext DEF ProjectionInv
  <2> QED
    BY <2>1, ContentFields DEF TypeOK
<1>1. ASSUME NEW w \in Writers, WriterStep(w) \/ \E j \in Keys : Commit(w, j)
      PROVE  Covered(g, v, k)'
  <2>1. UNCHANGED <<worker, target, next, published>>
    BY <1>0, <1>1, OtherWriters
  <2>2. assets'[k] = assets[k] /\ db'[k].version >= db[k].version /\ db'[k].version \in Nat
    <3>1. TypeOK'
      BY ProjectionNext DEF ProjectionInv
    <3>2. db'[k].version \in Nat
      BY <3>1, ContentFields DEF TypeOK
    <3> QED
      BY <1>0, <1>1, <3>2, LyricsWriter
  <2> QED
    BY <1>0, <2>1, <2>2 DEF Covered
<1>2. CASE (\E a \in Awaiters : AwaiterNext(a)) \/ Stop \/ UNCHANGED vars
  BY <1>2, AwaiterFrame DEF WritersRest, StatusRest, Covered
<1>3. CASE WorkerStep \/ DebounceExtended
  <2>0. db' = db
    BY <1>3, WorkerFrame DEF WritersRest
  <2>1. CASE BeginRebuild
    <3>1. worker' = "snapshot" /\ UNCHANGED <<assets, published>>
      BY <2>1 DEF BeginRebuild, assetVars
    <3> QED
      BY <2>0, <3>1 DEF Covered
  <2>2. CASE BeginReading
    <3>1. worker' = "reading" /\ UNCHANGED <<assets, published>> /\ next'[k] = Unread
      BY <2>2 DEF BeginReading, ProjectionInv, ReadIsNewer, assetVars, statusVars
    <3> QED
      BY <2>0, <3>1 DEF Covered
  <2>3. ASSUME NEW j \in Keys, ReadKey(j)
        PROVE  Covered(g, v, k)'
    <3>1. /\ UNCHANGED <<assets, published, worker, target>>
          /\ next'[k] = next[k] \/ next'[k] = db[k]
      BY <1>0, <2>3 DEF ReadKey, TypeOK, assetVars, statusVars
    <3>2. worker' = "reading"
      BY <2>3 DEF ReadKey
    <3> QED
      BY <1>0, <2>0, <3>1, <3>2 DEF Covered
  <2>4. CASE Swap
    <3>1. /\ worker = "reading" /\ worker' = "swapped" /\ UNCHANGED <<published, target>>
      BY <2>4 DEF Swap, statusVars
    <3>2. next[k] # Unread /\ assets'[k] = next[k] /\ assets'[k].version >= assets[k].version
      BY <2>4, LyricsSwap
    <3> QED
      BY <1>0, <2>0, <3>1, <3>2 DEF Covered
  <2>5. CASE FinishRebuild
    <3>1. worker = "swapped" /\ worker' = "drain" /\ published' = target /\ assets' = assets
      BY <2>5 DEF FinishRebuild, assetVars
    <3> QED
      BY <2>0, <3>1 DEF Covered
  <2>6. CASE FailRebuild
    <3>1. worker' = "drain" /\ UNCHANGED <<published, assets>>
      BY <2>6 DEF FailRebuild, assetVars
    <3> QED
      BY <2>0, <3>1 DEF Covered
  <2>7. CASE Drain \/ Decide \/ RetryTimer \/ Wake \/ DebounceUrged \/ DebounceTimer
             \/ WorkerEnds \/ DebounceExtended
    <3>1. worker' \notin Rebuilding /\ UNCHANGED <<published, assets>>
      BY <2>7, WorkerIdles
    <3> QED
      BY <2>0, <3>1 DEF Covered, Rebuilding
  <2> QED
    BY <1>3, <2>1, <2>2, <2>3, <2>4, <2>5, <2>6, <2>7 DEF WorkerStep
<1> QED
  BY <1>1, <1>2, <1>3 DEF Next

\* A request counts on a generation that no rebuild has reached yet.
LEMMA CoveredRequest ==
  ASSUME ProjectionInv, Placed, Unrecorded, NEW k \in Keys \ Incremental,
         Covered(requested, asked[k], k), [Next]_vars
  PROVE  Covered(requested, asked[k], k)'
<1>0. /\ TypeOK /\ requested \in Nat /\ asked[k] \in Nat /\ db[k].version \in Nat
      /\ published \in Nat /\ published <= requested /\ target \in Nat /\ target <= requested
  BY ContentFields DEF ProjectionInv, TypeOK
<1>1. UNCHANGED <<requested, asked>> => Covered(requested, asked[k], k)'
  <2>1. PICK g \in Nat, v \in Nat : g = requested /\ v = asked[k]
    BY <1>0
  <2>2. Covered(g, v, k)
    BY <2>1
  <2>3. Covered(g, v, k)'
    BY <2>2, CoveredStep
  <2> QED
    BY <2>1, <2>3 DEF Covered
<1>2. ASSUME NEW w \in Writers, NEW place \in {"requesting", "urging"}, Request(w, place),
             ~stopped
      PROVE  Covered(requested, asked[k], k)'
  <2>1. requested' > published' /\ requested' > target'
    BY <1>0, <1>2 DEF Request, workerVars
  <2>2. db' = db /\ (asked'[k] = asked[k] \/ asked'[k] = db[k].version)
    BY <1>0, <1>2 DEF Request, TypeOK
  <2>3. asked'[k] <= db'[k].version
    BY <1>0, <2>2 DEF Covered
  <2>4. requested' \in Nat /\ published' \in Nat /\ target' \in Nat
    BY <1>0, <1>2 DEF Request, workerVars
  <2>5. ~(requested' <= published') /\ ~(requested' <= target')
    BY <2>1, <2>4
  <2> QED
    BY <2>3, <2>5 DEF Covered
<1>3. ASSUME NEW w \in Writers, WriterStep(w) \/ \E j \in Keys : Commit(w, j)
      PROVE  \/ UNCHANGED <<requested, asked>>
             \/ ~stopped /\ \E place \in {"requesting", "urging"} : Request(w, place)
  <2>1. ASSUME NEW place \in {"requesting", "urging"}, Request(w, place)
        PROVE  ~stopped \/ UNCHANGED <<requested, asked>>
    BY <2>1 DEF Request
  <2>2. ASSUME Trigger(w) \/ PublishNow(w) \/ Generate(w)
        PROVE  UNCHANGED <<requested, asked>>
    BY <2>2 DEF Trigger, PublishNow, Generate, contentVars, statusVars
  <2>3. ASSUME applyIncremental(w) \/ GenerateFails(w)
        PROVE  UNCHANGED <<requested, asked>>
    BY <2>3 DEF applyIncremental, GenerateFails, contentVars, statusVars
  <2>4. ASSUME NEW j \in Keys, Commit(w, j)
        PROVE  UNCHANGED <<requested, asked>>
    BY <2>4 DEF Commit, statusVars
  <2> QED
    BY <1>3, <2>1, <2>2, <2>3, <2>4 DEF WriterStep
<1>4. CASE BeginRebuild
  <2>1. CASE requested <= published
    <3>1. /\ requested' = published + 1 /\ published' = published /\ worker' = "snapshot"
          /\ UNCHANGED <<db, asked>>
      BY <1>4, <2>1 DEF BeginRebuild, contentVars
    <3>2. ~(requested' <= published')
      BY <1>0, <3>1
    <3> QED
      BY <3>1, <3>2 DEF Covered
  <2>2. CASE ~(requested <= published)
    BY <1>1, <1>4, <2>2 DEF BeginRebuild, contentVars
  <2> QED
    BY <2>1, <2>2
<1>5. ASSUME \/ BeginReading \/ (\E j \in Keys : ReadKey(j)) \/ Swap
             \/ FinishRebuild \/ FailRebuild
      PROVE  UNCHANGED <<requested, asked>>
  BY <1>5 DEF BeginReading, ReadKey, Swap, FinishRebuild, FailRebuild, contentVars, statusVars
<1>6. ASSUME \/ Drain \/ Decide \/ RetryTimer \/ Wake \/ DebounceUrged \/ DebounceTimer
             \/ WorkerEnds \/ DebounceExtended
      PROVE  UNCHANGED <<requested, asked>>
  BY <1>6, WorkerIdles, WorkerFrame DEF WritersRest, WorkerStep
<1>7. ASSUME (\E a \in Awaiters : AwaiterNext(a)) \/ Stop \/ UNCHANGED vars
      PROVE  UNCHANGED <<requested, asked>>
  BY <1>7, AwaiterFrame DEF WritersRest, StatusRest
<1> QED
  BY <1>1, <1>2, <1>3, <1>4, <1>5, <1>6, <1>7 DEF Next, WorkerStep

\* What a step may do to a call of AwaitPublished: begin it, find its
\* generation published, end it, or leave it.
LEMMA AwaiterMoves ==
  ASSUME TypeOK, Placed, [Next]_vars, NEW a \in Awaiters
  PROVE  \/ awaiter'[a] = awaiter[a] /\ want'[a] = want[a]
         \/ /\ want'[a] = [target |-> requested, content |-> asked]
            /\ UNCHANGED <<assets, db, published, worker, target, next>>
            /\ awaiter'[a] = "served" => published >= requested
         \/ /\ awaiter[a] = "waiting" /\ want'[a] = want[a] /\ UNCHANGED assets
            /\ published >= want[a].target
         \/ awaiter'[a] \notin {"waiting", "served"}
<1>1. ASSUME NEW b \in Awaiters, AwaiterNext(b), b # a
      PROVE  awaiter'[a] = awaiter[a] /\ want'[a] = want[a]
  BY <1>1 DEF AwaiterNext, AwaitPublished, AwaitPoll, AwaitGivesUp, AwaitReturns, TypeOK
<1>2. ASSUME AwaitPublished(a)
      PROVE  /\ want'[a] = [target |-> requested, content |-> asked]
             /\ UNCHANGED <<assets, db, published, worker, target, next>>
             /\ awaiter'[a] = "served" => published >= requested
  BY <1>2 DEF AwaitPublished, TypeOK, contentVars, assetVars, statusVars, workerVars
<1>3. ASSUME AwaitPoll(a)
      PROVE  /\ awaiter[a] = "waiting" /\ want'[a] = want[a] /\ UNCHANGED assets
             /\ published >= want[a].target
  BY <1>3 DEF AwaitPoll, assetVars
<1>4. ASSUME AwaitGivesUp(a) \/ AwaitReturns(a)
      PROVE  awaiter'[a] \notin {"waiting", "served"}
  BY <1>4 DEF AwaitGivesUp, AwaitReturns, TypeOK
<1>5. ASSUME NEW w \in Writers, WriterStep(w) \/ \E k \in Keys : Commit(w, k)
      PROVE  UNCHANGED <<awaiter, want>>
  <2>1. ASSUME NEW place, Request(w, place)
        PROVE  UNCHANGED <<awaiter, want>>
    BY <2>1 DEF Request, awaitVars
  <2>2. ASSUME Trigger(w) \/ PublishNow(w) \/ Generate(w) \/ applyIncremental(w)
        PROVE  UNCHANGED <<awaiter, want>>
    BY <2>2 DEF Trigger, PublishNow, Generate, applyIncremental, awaitVars
  <2>3. ASSUME GenerateFails(w) \/ \E k \in Keys : Commit(w, k)
        PROVE  UNCHANGED <<awaiter, want>>
    BY <2>3 DEF GenerateFails, Commit, awaitVars
  <2> QED
    BY <1>5, <2>1, <2>2, <2>3 DEF WriterStep
<1>6. ASSUME WorkerStep \/ DebounceExtended
      PROVE  UNCHANGED <<awaiter, want>>
  BY <1>6, WorkerFrame
<1>7. ASSUME Stop \/ UNCHANGED vars
      PROVE  UNCHANGED <<awaiter, want>>
  BY <1>7 DEF Stop, vars, awaitVars
<1>8. ASSUME AwaiterNext(a)
      PROVE  \/ /\ want'[a] = [target |-> requested, content |-> asked]
                /\ UNCHANGED <<assets, db, published, worker, target, next>>
                /\ awaiter'[a] = "served" => published >= requested
             \/ /\ awaiter[a] = "waiting" /\ want'[a] = want[a] /\ UNCHANGED assets
                /\ published >= want[a].target
             \/ awaiter'[a] \notin {"waiting", "served"}
  BY <1>2, <1>3, <1>4, <1>8 DEF AwaiterNext
<1> QED
  BY <1>1, <1>5, <1>6, <1>7, <1>8 DEF Next

\* No step deceives a caller of AwaitPublished.
LEMMA AwaitNext ==
  ASSUME ProjectionInv, Placed, AwaitInv, [Next]_vars
  PROVE  AwaitInv'
<1>0. TypeOK /\ TypeOK'
  BY ProjectionNext DEF ProjectionInv
<1>1. Unrecorded'
  BY LyricsServed DEF AwaitInv, Unrecorded
<1>2. ASSUME NEW k \in Keys \ Incremental
      PROVE  Covered(requested, asked[k], k)'
  BY <1>2, CoveredRequest DEF AwaitInv
<1>3. ASSUME NEW k \in Keys \ Incremental, NEW a \in Awaiters
      PROVE  /\ awaiter'[a] = "waiting" => Covered(want[a].target, want[a].content[k], k)'
             /\ awaiter'[a] = "served" => assets'[k].version >= want'[a].content[k]
  <2>0. /\ want[a].target \in Nat /\ want[a].content[k] \in Nat
        /\ requested \in Nat /\ asked[k] \in Nat /\ published \in Nat
        /\ assets[k].version \in Nat /\ assets'[k].version \in Nat
    BY <1>0, ContentFields DEF TypeOK
  <2>1. PICK g \in Nat, v \in Nat : g = want[a].target /\ v = want[a].content[k]
    BY <2>0
  <2>2. awaiter[a] = "waiting" => Covered(g, v, k)
    BY <2>1 DEF AwaitInv
  <2>3. awaiter[a] = "served" => assets[k].version >= v
    BY <2>1 DEF AwaitInv, AwaitTruth
  <2>4. assets'[k].version >= assets[k].version
    BY LyricsServed DEF AwaitInv
  <2>5. CASE awaiter'[a] = awaiter[a] /\ want'[a] = want[a]
    <3>1. awaiter'[a] = "waiting" => Covered(g, v, k)'
      BY <2>2, <2>5, CoveredStep DEF AwaitInv
    <3>2. awaiter'[a] = "waiting" => Covered(want[a].target, want[a].content[k], k)'
      BY <2>1, <2>5, <3>1 DEF Covered
    <3> QED
      BY <2>0, <2>1, <2>3, <2>4, <2>5, <3>2
  <2>6. CASE /\ want'[a] = [target |-> requested, content |-> asked]
             /\ UNCHANGED <<assets, db, published, worker, target, next>>
             /\ awaiter'[a] = "served" => published >= requested
    <3>1. Covered(requested, asked[k], k)
      BY DEF AwaitInv
    <3>2. want'[a].target = requested /\ want'[a].content[k] = asked[k]
      BY <2>6
    <3> QED
      BY <2>0, <2>6, <3>1, <3>2 DEF Covered
  <2>7. CASE /\ awaiter[a] = "waiting" /\ want'[a] = want[a] /\ UNCHANGED assets
             /\ published >= want[a].target
    <3>1. assets[k].version >= v
      BY <2>0, <2>1, <2>2, <2>7 DEF Covered
    <3>2. awaiter'[a] # "waiting" \/ awaiter'[a] = awaiter[a]
      BY <2>7
    <3> QED
      BY <2>1, <2>5, <2>7, <3>1, <3>2
  <2>8. CASE awaiter'[a] \notin {"waiting", "served"}
    BY <2>8
  <2> QED
    BY <1>0, <2>5, <2>6, <2>7, <2>8, AwaiterMoves
<1> QED
  BY <1>1, <1>2, <1>3 DEF AwaitInv, AwaitTruth

\* The counters, the rebuild in progress and what is served vouch for every
\* request and for every call of AwaitPublished that waits.
THEOREM AwaitInvariant == Spec => []AwaitInv
<1>1. Init => AwaitInv
  <2> SUFFICES ASSUME Init PROVE AwaitInv
    OBVIOUS
  <2>1. \A k \in Keys : Covered(requested, asked[k], k)
    BY DEF Init, Covered, NoContent
  <2> QED
    BY <2>1, FileProjectionAssumption DEF Init, AwaitInv, Unrecorded, AwaitTruth
<1>2. ProjectionInv /\ CurrentInv /\ AwaitInv /\ [Next]_vars => AwaitInv'
  BY AwaitNext DEF CurrentInv
<1> QED
  BY <1>1, <1>2, CurrentInvariant, PTL DEF Spec

\* AwaitPublished tells the truth: when it reports that the publications
\* requested before the call are published, the files that only rebuilds
\* publish, the lyrics, are served at least as new as they were requested.
THEOREM AwaitTruthHolds == Spec => []AwaitTruth
BY AwaitInvariant, PTL DEF AwaitInv
=============================================================================
