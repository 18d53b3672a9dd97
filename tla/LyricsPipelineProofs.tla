------------------------- MODULE LyricsPipelineProofs -------------------------
(***************************************************************************)
(* Proofs about the lyrics source pipeline, for any catalog, any number of *)
(* consumers and administrators, and any number of faults.                 *)
(***************************************************************************)
EXTENDS LyricsPipeline, FiniteSetTheorems, TLAPS

Owners == ({"discover", "fetch"} \X Nat) \cup {NoOwner}

Row == [state : JobStates, attempts : 0..MaxAttempts, due : BOOLEAN, live : BOOLEAN,
        version : Nat, owner : Owners]

\* A table of jobs and the effects stored for them.
Sound(table, eff) ==
    /\ table \in [Targets -> Row]
    /\ eff \in [Targets -> Nat]
    /\ \A t \in Targets : eff[t] = IF table[t].state = "succeeded" THEN 1 ELSE 0

JobInv == process \in Nat /\ Sound(jobs, effects)

-----------------------------------------------------------------------------
(* The operators of the job table.                                         *)

\* The owner of a job that is not leased has its type.
LEMMA NoOwnerIsOwner == NoOwner \in Owners
  BY DEF Owners

\* The row of a job that does not exist has its type.
LEMMA AbsentIsRow == Absent \in Row
  BY NoOwnerIsOwner, MaxAttemptsAssumption DEF Absent, Row, JobStates

\* A row with another version is otherwise the same.
LEMMA VersionSet ==
    ASSUME NEW row \in Row, NEW v \in Nat
    PROVE  LET n == [row EXCEPT !.version = v]
           IN  n \in Row /\ n.state = row.state /\ n.version = v
  BY DEF Row

\* Changing a row that is not succeeded into another that is not.
LEMMA RowSound ==
    ASSUME NEW table, NEW eff, Sound(table, eff), NEW t \in Targets, NEW row \in Row,
           table[t].state # "succeeded", row.state # "succeeded"
    PROVE  Sound([table EXCEPT ![t] = row], eff)
  BY DEF Sound

\* Enqueuing adds queued rows where there were none.
LEMMA EnqueueSound ==
    ASSUME NEW table, NEW eff, Sound(table, eff), NEW targets
    PROVE  /\ Sound(Enqueue(table, targets), eff)
           /\ \A t \in Targets : LET new == Enqueue(table, targets)[t] IN
                  \/ new = table[t]
                  \/ table[t].state = "absent" /\ new.state = "queued"
<1> DEFINE r == [Absent EXCEPT !.state = "queued", !.due = TRUE]
           fresh == [r EXCEPT !.version = 1]
<1>1. r \in Row /\ r.state = "queued"
  <2>1. "queued" \in JobStates
    BY DEF JobStates
  <2> QED
    BY <2>1, AbsentIsRow DEF Row
<1> HIDE DEF r
<1>2. fresh \in Row /\ fresh.state = "queued"
  BY <1>1, VersionSet
<1> USE DEF r
<1> HIDE DEF fresh
<1> QED
  BY <1>2 DEF Sound, Enqueue, fresh

\* A row that leaves its lease moves its version on.
LEMMA UnleaseRow ==
    ASSUME NEW row \in Row, NEW s \in JobStates, NEW isDue \in BOOLEAN
    PROVE  /\ Unlease(row, s, isDue) \in Row
           /\ Unlease(row, s, isDue).state = s
           /\ Unlease(row, s, isDue).version = row.version + 1
<1> DEFINE r == [row EXCEPT !.state = s, !.due = isDue, !.live = FALSE, !.owner = NoOwner]
<1>1. r \in Row /\ r.state = s
  BY NoOwnerIsOwner DEF Row
<1> HIDE DEF r
<1>2. row.version + 1 \in Nat
  BY DEF Row
<1>3. LET n == [r EXCEPT !.version = row.version + 1]
      IN  n \in Row /\ n.state = s /\ n.version = row.version + 1
  BY <1>1, <1>2, VersionSet
<1> QED
  BY <1>3 DEF r, Unlease

\* An expired lease goes back to waiting or to the dead letters.
LEMMA ExpireSound ==
    ASSUME NEW table, NEW eff, Sound(table, eff), NEW kind, NEW providers
    PROVE  /\ Sound(ExpireLapsed(table, kind, providers), eff)
           /\ \A t \in Targets : LET new == ExpireLapsed(table, kind, providers)[t] IN
                  \/ new = table[t]
                  \/ /\ table[t].state = "leased"
                     /\ new.state \in {"retry_wait", "dead_letter"}
                     /\ new.version = table[t].version + 1
<1> DEFINE new == ExpireLapsed(table, kind, providers)
<1>1. ASSUME NEW t \in Targets
      PROVE  /\ new[t] \in Row
             /\ new[t].state = "succeeded" <=> table[t].state = "succeeded"
             /\ \/ new[t] = table[t]
                \/ /\ table[t].state = "leased"
                   /\ new[t].state \in {"retry_wait", "dead_letter"}
                   /\ new[t].version = table[t].version + 1
  <2>1. table[t] \in Row
    BY DEF Sound
  <2>2. new[t] = table[t] \/
            /\ table[t].state = "leased"
            /\ \E s \in {"dead_letter", "retry_wait"} : new[t] = Unlease(table[t], s, TRUE)
    BY DEF ExpireLapsed
  <2>3. "dead_letter" \in JobStates /\ "retry_wait" \in JobStates /\ TRUE \in BOOLEAN
    BY DEF JobStates
  <2>4. CASE new[t] = table[t]
    BY <2>1, <2>4
  <2>5. ASSUME NEW s \in {"dead_letter", "retry_wait"}, table[t].state = "leased",
               new[t] = Unlease(table[t], s, TRUE)
        PROVE  /\ new[t] \in Row /\ new[t].state = s
               /\ new[t].version = table[t].version + 1
    <3>1. /\ Unlease(table[t], s, TRUE) \in Row /\ Unlease(table[t], s, TRUE).state = s
          /\ Unlease(table[t], s, TRUE).version = table[t].version + 1
      BY <2>1, <2>3, UnleaseRow
    <3> QED
      BY <2>5, <3>1
  <2> QED
    BY <2>2, <2>4, <2>5
<1> QED
  BY <1>1 DEF Sound, ExpireLapsed

\* A claimable row is leased to one worker, at its next version.
LEMMA LeaseSound ==
    ASSUME NEW table, NEW eff, Sound(table, eff), NEW kind, NEW providers,
           NEW t \in Claimable(table, kind, providers), NEW c \in Consumers, process \in Nat
    PROVE  LET new == [table EXCEPT ![t] = Lease(@, <<WorkerOf(c), process>>)]
           IN  /\ Sound(new, eff)
               /\ new[t].state = "leased" /\ new[t].version = table[t].version + 1
<1> DEFINE o == <<WorkerOf(c), process>>
           row == table[t]
           r == [row EXCEPT !.state = "leased", !.attempts = @ + 1, !.live = TRUE, !.owner = o]
           n == [r EXCEPT !.version = @ + 1]
<1>1. t \in Targets /\ row.state \in {"queued", "retry_wait"} /\ row.attempts < MaxAttempts
  BY DEF Claimable
<1>2. row \in Row
  BY <1>1 DEF Sound
<1>3. o \in Owners
  BY DEF Owners, WorkerOf
<1> HIDE DEF o, row
<1>4. /\ r \in Row /\ r.state = "leased" /\ r.version = row.version
      /\ r.version + 1 \in Nat
  <2> DEFINE a == row.attempts + 1
  <2>1. a \in 0..MaxAttempts /\ "leased" \in JobStates
    BY <1>1, <1>2, MaxAttemptsAssumption DEF Row, JobStates
  <2>2. r = [row EXCEPT !.state = "leased", !.attempts = a, !.live = TRUE, !.owner = o]
    BY <1>2 DEF Row
  <2> HIDE DEF a, r
  <2> DEFINE m == [row EXCEPT !.attempts = a]
  <2>3. m \in Row /\ m.version = row.version
    BY <1>2, <2>1 DEF Row
  <2>4. r = [m EXCEPT !.state = "leased", !.live = TRUE, !.owner = o]
    BY <1>2, <2>2 DEF Row
  <2> HIDE DEF m
  <2>5. r \in Row /\ r.state = "leased" /\ r.version = row.version
    BY <1>3, <2>1, <2>3, <2>4 DEF Row
  <2> QED
    BY <2>5 DEF Row
<1> HIDE DEF r
<1>5. n \in Row /\ n.state = "leased" /\ n.version = row.version + 1
  BY <1>4, VersionSet
<1>6. Lease(row, o) = n
  BY <1>2 DEF Lease, Row, r
<1>7. table \in [Targets -> Row]
  BY DEF Sound
<1> QED
  BY <1>1, <1>5, <1>6, <1>7, RowSound DEF row, o

\* A leased row succeeds together with its effect.
LEMMA SucceedSound ==
    ASSUME NEW table, NEW eff, Sound(table, eff), NEW t, table[t].state = "leased"
    PROVE  Sound([table EXCEPT ![t] = Succeed(@)], [eff EXCEPT ![t] = @ + 1])
<1>1. CASE t \in Targets
  <2>1. Succeed(table[t]) \in Row /\ Succeed(table[t]).state = "succeeded"
    BY <1>1, UnleaseRow DEF Sound, Succeed, JobStates
  <2> QED
    BY <1>1, <2>1 DEF Sound
<1>2. CASE t \notin Targets
  BY <1>2 DEF Sound
<1> QED
  BY <1>1, <1>2

\* A leased row fails, for now or for good, without an effect.
LEMMA FailSound ==
    ASSUME NEW table, NEW eff, Sound(table, eff), NEW t, table[t].state = "leased",
           NEW row \in {RetryLater(table[t]), TerminalFail(table[t])}
    PROVE  Sound([table EXCEPT ![t] = row], eff)
<1>1. CASE t \in Targets
  <2>1. table[t] \in Row
    BY <1>1 DEF Sound
  <2>2. RetryLater(table[t]) \in Row /\ RetryLater(table[t]).state = "retry_wait"
    BY <2>1, UnleaseRow DEF RetryLater, JobStates
  <2>3. TerminalFail(table[t]) \in Row /\ TerminalFail(table[t]).state = "dead_letter"
    <3> DEFINE u == Unlease(table[t], "dead_letter", TRUE)
    <3>1. u \in Row /\ u.state = "dead_letter"
      BY <2>1, UnleaseRow DEF JobStates
    <3>2. TerminalFail(table[t]) = [u EXCEPT !.attempts = MaxAttempts]
      BY DEF TerminalFail
    <3>3. MaxAttempts \in 0..MaxAttempts
      BY MaxAttemptsAssumption
    <3> HIDE DEF u
    <3> QED
      BY <3>1, <3>2, <3>3 DEF Row
  <2> QED
    BY <1>1, <2>2, <2>3, RowSound
<1>2. CASE t \notin Targets
  BY <1>2 DEF Sound
<1> QED
  BY <1>1, <1>2

\* The passing of time changes a flag of a row and nothing else.
LEMMA FlagSound ==
    ASSUME NEW table, NEW eff, Sound(table, eff), NEW t \in Targets, NEW b \in BOOLEAN
    PROVE  /\ Sound([table EXCEPT ![t].live = b], eff)
           /\ Sound([table EXCEPT ![t].due = b], eff)
<1>1. table[t] \in Row
  BY DEF Sound
<1>2. /\ [table[t] EXCEPT !.live = b] \in Row
      /\ [table[t] EXCEPT !.live = b].state = table[t].state
      /\ [table[t] EXCEPT !.due = b] \in Row
      /\ [table[t] EXCEPT !.due = b].state = table[t].state
  BY <1>1 DEF Row
<1> QED
  BY <1>2 DEF Sound

-----------------------------------------------------------------------------
(* One effect per finished job.                                            *)

\* Whoever holds a lease has a leased row.
LEMMA HolderIsLeased ==
    ASSUME NEW c, Holds(c)
    PROVE  jobs[consumer[c].job].state = "leased"
  BY DEF Holds, HoldsLease

\* A claim, with the expiry it begins with, keeps the table sound.
LEMMA ClaimSound ==
    ASSUME JobInv, NEW c \in Consumers, Claim(c)
    PROVE  JobInv'
<1> DEFINE w == WorkerOf(c)
           order == ProvidersTried(w)
           table(n) == ExpireLapsed(jobs, w, {order[i] : i \in 1..n})
           takes(n) == Claimable(table(n), w, {order[n]})
<1>1. process' = process /\ effects' = effects
  BY DEF Claim
<1>2. \A n : Sound(table(n), effects)
  BY ExpireSound DEF JobInv
<1>3. \/ \E n \in 1..Len(order) : \E t \in takes(n) :
             jobs' = [table(n) EXCEPT ![t] = Lease(@, <<w, process>>)]
      \/ jobs' = table(Len(order))
  BY DEF Claim
<1>4. ASSUME NEW n, NEW t \in takes(n)
      PROVE  Sound([table(n) EXCEPT ![t] = Lease(@, <<w, process>>)], effects)
  <2> DEFINE tab == table(n)
             p == {order[n]}
  <2>1. Sound(tab, effects)
    BY <1>2
  <2>2. t \in Claimable(tab, w, p)
    BY <1>4
  <2> HIDE DEF tab, p, w
  <2>3. Sound([tab EXCEPT ![t] = Lease(@, <<WorkerOf(c), process>>)], effects)
    BY <2>1, <2>2, LeaseSound DEF JobInv
  <2> QED
    BY <2>3 DEF tab, w
<1> HIDE DEF table, takes
<1> QED
  BY <1>1, <1>2, <1>3, <1>4 DEF JobInv

\* Every step keeps the table and its effects sound.
LEMMA JobInvStep ==
    ASSUME JobInv, [Next]_vars
    PROVE  JobInv'
<1> USE DEF JobInv
<1>1. ASSUME NEW t \in Targets, Lapse(t) \/ Mature(t) PROVE JobInv'
  <2>1. effects' = effects /\ process' = process
    BY <1>1 DEF Lapse, Mature, workVars
  <2>2. jobs' \in {[jobs EXCEPT ![t].live = FALSE], [jobs EXCEPT ![t].due = TRUE]}
    BY <1>1 DEF Lapse, Mature
  <2>3. /\ Sound([jobs EXCEPT ![t].live = FALSE], effects)
        /\ Sound([jobs EXCEPT ![t].due = TRUE], effects)
    BY FlagSound
  <2> QED
    BY <2>1, <2>2, <2>3
<1>2. CASE NextProcess
  BY <1>2 DEF NextProcess, storeVars
<1>3. CASE ScanCommits
  BY <1>3, EnqueueSound DEF ScanCommits
<1>4. ASSUME NEW c \in Consumers, ConsumerNext(c) PROVE JobInv'
  <2> DEFINE t == consumer[c].job
  <2>1. CASE Claim(c)
    BY <2>1, ClaimSound
  <2>2. CASE CheckClaim(c)
    BY <2>2, HolderIsLeased, FailSound DEF CheckClaim
  <2>3. CASE StoreResult(c) /\ (CompleteDiscovery(c) \/ CompleteFetch(c))
    <3>1. Sound([jobs EXCEPT ![t] = Succeed(@)], effects')
      BY <2>3, HolderIsLeased, SucceedSound DEF StoreResult
    <3>2. process' = process
      BY <2>3 DEF StoreResult
    <3>3. CASE CompleteDiscovery(c)
      BY <3>1, <3>2, <3>3, EnqueueSound DEF CompleteDiscovery
    <3>4. CASE CompleteFetch(c)
      BY <3>1, <3>2, <3>4 DEF CompleteFetch
    <3> QED
      BY <2>3, <3>3, <3>4
  <2>4. CASE FailAttempt(c)
    <3>1. PICK row \in {RetryLater(jobs[t]), TerminalFail(jobs[t])} :
               jobs' = [jobs EXCEPT ![t] = row]
      BY <2>4 DEF FailAttempt
    <3>2. effects' = effects /\ process' = process /\ jobs[t].state = "leased"
      BY <2>4, HolderIsLeased DEF FailAttempt
    <3>3. Sound([jobs EXCEPT ![t] = row], effects)
      BY <3>2, FailSound
    <3> QED
      BY <3>1, <3>2, <3>3
  <2>5. CASE Abandon(c)
    BY <2>5 DEF Abandon, storeVars
  <2> QED
    BY <1>4, <2>1, <2>2, <2>3, <2>4, <2>5
       DEF ConsumerNext, CompleteDiscovery, CompleteFetch
<1>5. ASSUME NEW i \in Keys, NEW k \in ReviewKeys, Decide(i, k) PROVE JobInv'
  BY <1>5, EnqueueSound DEF Decide, workVars
<1>6. CASE UNCHANGED <<jobs, effects, process>>
  BY <1>6
<1> QED
  BY <1>1, <1>2, <1>3, <1>4, <1>5, <1>6
     DEF Next, vars, storeVars, workVars, UpsertCatalog, ScanReads, ScanFails,
         DecideBatch, ImportLoads, ImportSaves

\* A job has stored its effect exactly when its row says succeeded, and once:
\* no lapsed lease, restart or failed attempt makes a result count twice.
THEOREM OneEffectHolds == Spec => []OneEffect
<1>1. Init => JobInv
  <2> SUFFICES ASSUME Init PROVE JobInv
    OBVIOUS
  <2>1. jobs \in [Targets -> Row] /\ \A t \in Targets : jobs[t].state = "absent"
    BY AbsentIsRow DEF Init, Absent
  <2> QED
    BY <2>1 DEF Init, JobInv, Sound
<1>2. JobInv /\ [Next]_vars => JobInv'
  BY JobInvStep
<1>3. JobInv => OneEffect
  BY DEF JobInv, Sound, OneEffect, Queue!OneEffect, TaskStatus, StatusOf
<1> QED
  BY <1>1, <1>2, <1>3, PTL DEF Spec

-----------------------------------------------------------------------------
(* Pending artifacts.                                                      *)

\* A review row has the fields of one; what they hold is left open.
IsItem(row) == row = [state |-> row.state, version |-> row.version, gates |-> row.gates]

IsTable(table) ==
    /\ table = [k \in ReviewKeys |-> table[k]]
    /\ \A k \in ReviewKeys : IsItem(table[k])

ItemInv == catalog \in [Music -> Entries] /\ IsTable(reviews) /\ PendingIsCurrent

\* A superseded review is an item.
LEMMA SupersedeItem ==
    ASSUME NEW row, IsItem(row)
    PROVE  IsItem(Supersede(row)) /\ Supersede(row).state = "superseded"
<1> DEFINE s == row.state
           v == row.version
           g == row.gates
           w == v + 1
           r == [row EXCEPT !.state = "superseded"]
<1>1. row = [state |-> s, version |-> v, gates |-> g]
  BY DEF IsItem
<1>2. Supersede(row) = [r EXCEPT !.version = w]
  BY DEF Supersede
<1> HIDE DEF s, v, g, w
<1>3. r = [state |-> "superseded", version |-> v, gates |-> g]
  BY <1>1
<1> HIDE DEF r
<1>4. Supersede(row) = [state |-> "superseded", version |-> w, gates |-> g]
  BY <1>2, <1>3
<1> QED
  BY <1>4 DEF IsItem

\* A new review is an item.
LEMMA FreshItem ==
    ASSUME NEW k
    PROVE  IsItem(FreshReview(k))
  BY DEF FreshReview, IsItem

\* A decided review is an item.
LEMMA DecidedItem ==
    ASSUME NEW row, NEW gate, NEW decision
    PROVE  IsItem(Decided(row, gate, decision))
  BY DEF Decided, IsItem

\* A new review is pending only under the keys it was asked for.
LEMMA CreateItems ==
    ASSUME NEW table, IsTable(table), NEW ks
    PROVE  /\ IsTable(CreateReviews(table, ks))
           /\ \A k \in ReviewKeys : CreateReviews(table, ks)[k].state = "pending"
                  => table[k].state = "pending" \/ k \in ks
<1> DEFINE new == CreateReviews(table, ks)
<1>1. ASSUME NEW k \in ReviewKeys
      PROVE  IsItem(new[k]) /\ (new[k].state = "pending"
                                    => table[k].state = "pending" \/ k \in ks)
  <2>1. \/ new[k] = FreshReview(k) /\ k \in ks
        \/ new[k] = Supersede(table[k])
        \/ new[k] = table[k]
    BY DEF CreateReviews
  <2> HIDE DEF new
  <2> QED
    BY <2>1, FreshItem, SupersedeItem DEF IsTable
<1> QED
  BY <1>1 DEF CreateReviews, IsTable

\* After SupersedeStale what is pending has the fingerprint of its song.
LEMMA StaleItems ==
    ASSUME NEW table, IsTable(table), NEW m, NEW fp
    PROVE  /\ IsTable(SupersedeStale(table, m, fp))
           /\ \A k \in ReviewKeys : SupersedeStale(table, m, fp)[k].state = "pending"
                  => table[k].state = "pending" /\ (k.music = m => k.fp = fp)
<1> DEFINE new == SupersedeStale(table, m, fp)
<1>1. ASSUME NEW k \in ReviewKeys
      PROVE  IsItem(new[k]) /\ (new[k].state = "pending"
                 => table[k].state = "pending" /\ (k.music = m => k.fp = fp))
  <2>1. \/ new[k] = Supersede(table[k])
        \/ new[k] = table[k] /\ ~(k.music = m /\ k.fp # fp /\ table[k].state = "pending")
    BY DEF SupersedeStale
  <2> HIDE DEF new
  <2> QED
    BY <2>1, SupersedeItem DEF IsTable
<1> QED
  BY <1>1 DEF SupersedeStale, IsTable

\* A review belongs to a song.
LEMMA KeyOfSong ==
    ASSUME NEW k \in ReviewKeys
    PROVE  k.music \in Music
  BY DEF ReviewKeys

\* Reviews change while the catalog stays.
LEMMA ReviewsStep ==
    ASSUME ItemInv, catalog' = catalog, IsTable(reviews'),
           \A k \in ReviewKeys : k.kind = "artifact" /\ reviews'[k].state = "pending"
               => reviews[k].state = "pending" \/ k.fp = catalog[k.music].fp
    PROVE  ItemInv'
  BY DEF ItemInv, PendingIsCurrent

\* Every step keeps pending artifacts current.
LEMMA ItemInvStep ==
    ASSUME ItemInv, [Next]_vars
    PROVE  ItemInv'
<1>0. catalog \in [Music -> Entries] /\ IsTable(reviews) /\ PendingIsCurrent
  BY DEF ItemInv
<1>1. ASSUME NEW m \in Music, UpsertCatalog(m) PROVE ItemInv'
  <2>1. PICK e \in Entries, rowChanged \in BOOLEAN :
            /\ e.fp # catalog[m].fp => rowChanged
            /\ catalog' = [catalog EXCEPT ![m] = e]
            /\ reviews' = IF rowChanged THEN SupersedeStale(reviews, m, e.fp) ELSE reviews
    BY <1>1 DEF UpsertCatalog
  <2>2. catalog' \in [Music -> Entries]
    BY <1>0, <2>1
  <2>3. CASE rowChanged
    <3>1. reviews' = SupersedeStale(reviews, m, e.fp)
      BY <2>1, <2>3
    <3>2. /\ IsTable(reviews')
          /\ \A k \in ReviewKeys : reviews'[k].state = "pending"
                 => reviews[k].state = "pending" /\ (k.music = m => k.fp = e.fp)
      BY <1>0, <3>1, StaleItems
    <3>3. PendingIsCurrent'
      BY <1>0, <2>1, <3>2, KeyOfSong DEF PendingIsCurrent
    <3> QED
      BY <2>2, <3>2, <3>3 DEF ItemInv
  <2>4. CASE ~rowChanged
    <3>1. reviews' = reviews /\ \A n \in Music : catalog'[n].fp = catalog[n].fp
      BY <1>0, <2>1, <2>4
    <3> QED
      BY <1>0, <2>2, <3>1, KeyOfSong DEF ItemInv, PendingIsCurrent
  <2> QED
    BY <2>3, <2>4
<1>2. CASE ScanCommits
  <2> DEFINE ks == {k \in ReviewKeys : /\ k.kind = "candidate" /\ k.cands = {}
                                       /\ scan[k.music] = [fp |-> k.fp, disp |-> "review"]}
  <2>1. catalog' = catalog /\ reviews' = CreateReviews(reviews, ks)
    BY <1>2 DEF ScanCommits
  <2>2. \A k \in ks : k.kind = "candidate"
    OBVIOUS
  <2> HIDE DEF ks
  <2> QED
    BY <1>0, <2>1, <2>2, CreateItems, ReviewsStep
<1>3. ASSUME NEW c, CompleteDiscovery(c) PROVE ItemInv'
  <2>1. catalog' = catalog
    BY <1>3 DEF CompleteDiscovery, StoreResult
  <2>2. PICK ks : /\ reviews' \in {reviews, CreateReviews(reviews, ks)}
                  /\ \A k \in ks : k.kind = "candidate"
    <3>1. PICK found : reviews' \in {reviews, CreateReviews(reviews,
                                   {[kind |-> "candidate", music |-> consumer[c].job.music,
                                     fp |-> consumer[c].job.fp, cands |-> found]})}
      BY <1>3 DEF CompleteDiscovery
    <3> WITNESS {[kind |-> "candidate", music |-> consumer[c].job.music,
                  fp |-> consumer[c].job.fp, cands |-> found]}
    <3> QED
      BY <3>1
  <2> QED
    BY <1>0, <2>1, <2>2, CreateItems, ReviewsStep
<1>4. ASSUME NEW c, CompleteFetch(c) PROVE ItemInv'
  <2> DEFINE t == consumer[c].job
             n == [kind |-> "artifact", music |-> t.music, fp |-> t.fp, cands |-> {t.cand}]
  <2>1. catalog' = catalog /\ reviews' = CreateReviews(reviews, {n})
    BY <1>4 DEF CompleteFetch, StoreResult
  <2>2. n.fp = catalog[n.music].fp
    <3>1. catalog[t.music] = [fp |-> t.fp, disp |-> "full_target"]
      BY <1>4 DEF CompleteFetch, StillTarget
    <3> QED
      BY <3>1
  <2> HIDE DEF n
  <2> QED
    BY <1>0, <2>1, <2>2, CreateItems, ReviewsStep
<1>5. ASSUME NEW i \in Keys, NEW k \in ReviewKeys, Decide(i, k) PROVE ItemInv'
  <2>1. \E gate, d : reviews' = [reviews EXCEPT ![k] = Decided(@, gate, d)]
    BY <1>5 DEF Decide
  <2>2. reviews[k].state = "pending"
    BY <1>5 DEF Decide, Decidable
  <2>3. catalog' = catalog
    BY <1>5 DEF Decide
  <2>4. PICK row : IsItem(row) /\ reviews' = [reviews EXCEPT ![k] = row]
    BY <2>1, DecidedItem
  <2>5. IsTable(reviews') /\ \A x \in ReviewKeys : x # k => reviews'[x] = reviews[x]
    BY <1>0, <2>4 DEF IsTable
  <2> QED
    BY <2>2, <2>3, <2>5, ReviewsStep
<1>6. ASSUME NEW i \in Keys, NEW ks, DecideBatch(i, ks) PROVE ItemInv'
  <2>1. \E d : reviews' = [k \in ReviewKeys |-> IF k \in ks
                              THEN Decided(reviews[k], "overall", d) ELSE reviews[k]]
    BY <1>6 DEF DecideBatch
  <2>2. catalog' = catalog
    BY <1>6 DEF DecideBatch
  <2>3. \A k \in ks : reviews[k].state = "pending"
    BY <1>6 DEF DecideBatch, Decidable
  <2>4. IsTable(reviews') /\ \A k \in ReviewKeys : k \notin ks => reviews'[k] = reviews[k]
    BY <1>0, <2>1, DecidedItem DEF IsTable
  <2> QED
    BY <2>2, <2>3, <2>4, ReviewsStep
<1>7. CASE UNCHANGED <<catalog, reviews>>
  BY <1>7 DEF ItemInv, PendingIsCurrent, IsTable
<1> QED
  BY <1>1, <1>2, <1>3, <1>4, <1>5, <1>6, <1>7
     DEF Next, vars, storeVars, workVars, Lapse, Mature, NextProcess, ScanReads, ScanFails,
         ConsumerNext, Claim, CheckClaim, FailAttempt, Abandon, ImportLoads, ImportSaves

\* An artifact that waits for review is of the catalog as it is now, however
\* the fetches, the decisions and the upstream changes interleave.
THEOREM PendingIsCurrentHolds == Spec => []PendingIsCurrent
<1>1. Init => ItemInv
  <2> SUFFICES ASSUME Init PROVE ItemInv
    OBVIOUS
  <2>1. IsItem(NoReview) /\ NoReview.state = "absent"
    BY DEF NoReview, IsItem
  <2> QED
    BY <2>1 DEF Init, ItemInv, PendingIsCurrent, IsTable
<1>2. ItemInv /\ [Next]_vars => ItemInv'
  BY ItemInvStep
<1>3. ItemInv => PendingIsCurrent
  BY DEF ItemInv
<1> QED
  BY <1>1, <1>2, <1>3, PTL DEF Spec

-----------------------------------------------------------------------------
(* Consumers and the rows they work on.                                    *)

Loop == [pc : {"idle", "checking", "running"}, job : Targets \cup {NoTarget}, version : Nat]

\* The claim a consumer works on is of its worker's kind, of a row that is
\* there, and not of a version to come; no two consumers work on the same claim.
Working ==
    /\ consumer \in [Consumers -> Loop]
    /\ \A c \in Consumers : consumer[c].pc = "idle" <=> consumer[c].job = NoTarget
    /\ \A c \in Consumers : consumer[c].job # NoTarget =>
           /\ consumer[c].job.kind = WorkerOf(c)
           /\ jobs[consumer[c].job].state # "absent"
           /\ consumer[c].version <= jobs[consumer[c].job].version
    /\ \A c, d \in Consumers : consumer[c].job = consumer[d].job /\ consumer[c].job # NoTarget
           /\ consumer[c].version = consumer[d].version => c = d

\* What a step can do to a row: nothing that counts, post it, or take it back.
Kept(t) == jobs'[t].state = jobs[t].state /\ jobs'[t].version = jobs[t].version

Posted(t) == jobs[t].state = "absent" /\ jobs'[t].state = "queued"

Expired(t) ==
    /\ jobs[t].state = "leased" /\ jobs'[t].state \in {"retry_wait", "dead_letter"}
    /\ jobs'[t].version = jobs[t].version + 1

\* The four kinds of steps, as far as the job table and its consumers go.
Managed ==
    /\ \A t \in Targets : Kept(t) \/ Posted(t) \/ Expired(t)
    /\ effects' = effects
    /\ consumer' \in [Consumers -> Loop]
    /\ \A c \in Consumers :
           /\ consumer'[c].job = consumer[c].job /\ consumer'[c].version = consumer[c].version
           /\ consumer'[c].pc = "idle" <=> consumer[c].pc = "idle"

Taken(c, t) ==
    /\ consumer[c].job = NoTarget /\ t.kind = WorkerOf(c)
    /\ jobs[t].state \in {"queued", "retry_wait", "leased"} /\ jobs'[t].state = "leased"
    /\ jobs'[t].version > jobs[t].version
    /\ \A u \in Targets \ {t} : Kept(u) \/ Expired(u)
    /\ effects' = effects
    /\ consumer' = [consumer EXCEPT ![c] =
           [pc |-> "checking", job |-> t, version |-> jobs'[t].version]]

Ended(c) ==
    LET t == consumer[c].job
    IN  /\ t # NoTarget /\ Owns(c, t)
        /\ jobs'[t].state \in {"succeeded", "retry_wait", "dead_letter"}
        /\ jobs'[t].version = jobs[t].version + 1
        /\ \A u \in Targets \ {t} : Kept(u) \/ Posted(u)
        /\ effects' = IF jobs'[t].state = "succeeded" THEN [effects EXCEPT ![t] = @ + 1]
                      ELSE effects
        /\ consumer' = [consumer EXCEPT ![c] = AtRest]

Rested(C) ==
    /\ \A t \in Targets : Kept(t)
    /\ effects' = effects
    /\ consumer' = [c \in Consumers |-> IF c \in C THEN AtRest ELSE consumer[c]]

\* A consumer at rest has no job.
LEMMA NoTargetIsNone == NoTarget \notin Targets
  BY DEF NoTarget, Targets

\* A consumer at rest has its type.
LEMMA AtRestIsLoop == AtRest \in Loop /\ AtRest.job = NoTarget /\ AtRest.pc = "idle"
  BY DEF AtRest, Loop

\* A claim takes a job, or only takes lapsed ones back.
LEMMA StepOfClaim ==
    ASSUME JobInv, Working, NEW c \in Consumers, Claim(c)
    PROVE  Managed \/ \E t \in Targets : Taken(c, t)
<1> DEFINE w == WorkerOf(c)
           order == ProvidersTried(w)
           table(n) == ExpireLapsed(jobs, w, {order[i] : i \in 1..n})
           takes(n) == Claimable(table(n), w, {order[n]})
<1>1. effects' = effects /\ consumer[c].pc = "idle" /\ process \in Nat
  BY DEF Claim, JobInv
<1>2. \A n : /\ Sound(table(n), effects)
             /\ \A t \in Targets :
                    \/ table(n)[t] = jobs[t]
                    \/ /\ jobs[t].state = "leased"
                       /\ table(n)[t].state \in {"retry_wait", "dead_letter"}
                       /\ table(n)[t].version = jobs[t].version + 1
  BY ExpireSound DEF JobInv
<1>3. \/ \E n \in 1..Len(order) : \E t \in takes(n) :
             /\ jobs' = [table(n) EXCEPT ![t] = Lease(@, <<w, process>>)]
             /\ consumer' = [consumer EXCEPT ![c] =
                    [pc |-> "checking", job |-> t, version |-> jobs'[t].version]]
      \/ jobs' = table(Len(order)) /\ consumer' = consumer
  BY DEF Claim
<1>4. ASSUME NEW n, NEW t \in takes(n),
             jobs' = [table(n) EXCEPT ![t] = Lease(@, <<w, process>>)],
             consumer' = [consumer EXCEPT ![c] =
                 [pc |-> "checking", job |-> t, version |-> jobs'[t].version]]
      PROVE  t \in Targets /\ Taken(c, t)
  <2> DEFINE tab == table(n)
             p == {order[n]}
  <2>1. /\ Sound(tab, effects)
        /\ \A u \in Targets :
               \/ tab[u] = jobs[u]
               \/ /\ jobs[u].state = "leased"
                  /\ tab[u].state \in {"retry_wait", "dead_letter"}
                  /\ tab[u].version = jobs[u].version + 1
    BY <1>2
  <2>2. t \in Claimable(tab, w, p) /\ jobs' = [tab EXCEPT ![t] = Lease(@, <<WorkerOf(c), process>>)]
    BY <1>4
  <2>10. t.kind = WorkerOf(c)
    BY <2>2 DEF Claimable, InScope
  <2> HIDE DEF tab, p, w
  <2>3. jobs'[t].state = "leased" /\ jobs'[t].version = tab[t].version + 1
    BY <1>1, <2>1, <2>2, LeaseSound
  <2>4. t \in Targets /\ tab[t].state \in {"queued", "retry_wait"}
    BY <2>2 DEF Claimable
  <2>5. tab \in [Targets -> Row] /\ jobs[t].version \in Nat
    BY <2>1, <2>4 DEF Sound, JobInv, Row
  <2>6. \A u \in Targets \ {t} : jobs'[u] = tab[u]
    BY <2>2, <2>5
  <2>7. \A u \in Targets \ {t} : Kept(u) \/ Expired(u)
    BY <2>1, <2>6 DEF Kept, Expired
  <2>8. jobs[t].state \in {"queued", "retry_wait", "leased"} /\ jobs'[t].version > jobs[t].version
    BY <2>1, <2>3, <2>4, <2>5
  <2>9. consumer[c].job = NoTarget
    BY <1>1 DEF Working
  <2> QED
    BY <1>1, <1>4, <2>3, <2>4, <2>7, <2>8, <2>9, <2>10 DEF Taken
<1>5. CASE jobs' = table(Len(order)) /\ consumer' = consumer
  <2>1. \A t \in Targets : Kept(t) \/ Expired(t)
    BY <1>2, <1>5 DEF Kept, Expired
  <2> QED
    BY <1>1, <1>5, <2>1 DEF Managed, Working
<1> HIDE DEF table, takes
<1> QED
  BY <1>3, <1>4, <1>5

\* A row that leaves its lease, and what else a step posts.
LEMMA EndOf ==
    ASSUME JobInv, Working, NEW c \in Consumers, consumer[c].job \in Targets, Holds(c),
           NEW s \in {"succeeded", "retry_wait", "dead_letter"}, NEW row \in Row,
           row.state = s, row.version = jobs[consumer[c].job].version + 1,
           NEW ts,
           jobs' = Enqueue([jobs EXCEPT ![consumer[c].job] = row], ts)
              \/ jobs' = [jobs EXCEPT ![consumer[c].job] = row],
           effects' = IF s = "succeeded" THEN [effects EXCEPT ![consumer[c].job] = @ + 1]
                      ELSE effects,
           consumer' = [consumer EXCEPT ![c] = AtRest]
    PROVE  Ended(c)
<1> DEFINE t == consumer[c].job
           tab == [jobs EXCEPT ![t] = row]
<1>1. jobs \in [Targets -> Row]
  BY DEF JobInv, Sound
<1>2. tab[t] = row /\ \A u \in Targets \ {t} : tab[u] = jobs[u]
  BY <1>1
<1>3. Owns(c, t) /\ t # NoTarget
  BY NoTargetIsNone DEF Holds, HoldsLease, Owns
<1>4. \A u \in Targets : jobs'[u] = tab[u] \/ (tab[u].state = "absent" /\ jobs'[u].state = "queued")
  <2>1. CASE jobs' = tab
    BY <2>1
  <2>2. CASE jobs' = Enqueue(tab, ts)
    BY <2>2 DEF Enqueue, Absent
  <2> QED
    BY <2>1, <2>2
<1> HIDE DEF tab
<1>5. jobs'[t] = row
  BY <1>2, <1>4
<1>6. \A u \in Targets \ {t} : Kept(u) \/ Posted(u)
  BY <1>2, <1>4 DEF Kept, Posted
<1> QED
  BY <1>3, <1>5, <1>6 DEF Ended

\* What a failed or finished attempt makes of its row.
LEMMA EndRows ==
    ASSUME NEW row \in Row
    PROVE  /\ Succeed(row) \in Row /\ Succeed(row).state = "succeeded"
           /\ Succeed(row).version = row.version + 1
           /\ RetryLater(row) \in Row /\ RetryLater(row).state = "retry_wait"
           /\ RetryLater(row).version = row.version + 1
           /\ TerminalFail(row) \in Row /\ TerminalFail(row).state = "dead_letter"
           /\ TerminalFail(row).version = row.version + 1
<1>1. Succeed(row) \in Row /\ Succeed(row).state = "succeeded"
      /\ Succeed(row).version = row.version + 1
  BY UnleaseRow DEF Succeed, JobStates
<1>2. RetryLater(row) \in Row /\ RetryLater(row).state = "retry_wait"
      /\ RetryLater(row).version = row.version + 1
  BY UnleaseRow DEF RetryLater, JobStates
<1>3. TerminalFail(row) \in Row /\ TerminalFail(row).state = "dead_letter"
      /\ TerminalFail(row).version = row.version + 1
  <2> DEFINE u == Unlease(row, "dead_letter", TRUE)
  <2>1. u \in Row /\ u.state = "dead_letter" /\ u.version = row.version + 1
    BY UnleaseRow DEF JobStates
  <2>2. TerminalFail(row) = [u EXCEPT !.attempts = MaxAttempts]
    BY DEF TerminalFail
  <2>3. MaxAttempts \in 0..MaxAttempts
    BY MaxAttemptsAssumption
  <2> HIDE DEF u
  <2> QED
    BY <2>1, <2>2, <2>3 DEF Row
<1> QED
  BY <1>1, <1>2, <1>3

\* One consumer returns to rest.
LEMMA AllRest ==
    ASSUME Working, NEW c \in Consumers, consumer' = [consumer EXCEPT ![c] = AtRest]
    PROVE  consumer' = [d \in Consumers |-> IF d \in {c} THEN AtRest ELSE consumer[d]]
  BY DEF Working

\* Every step is of one of the four kinds.
LEMMA StepKinds ==
    ASSUME JobInv, Working, [Next]_vars
    PROVE  \/ Managed
           \/ \E c \in Consumers, t \in Targets : Taken(c, t)
           \/ \E c \in Consumers : Ended(c)
           \/ \E C \in SUBSET Consumers : Rested(C)
<1>0. /\ Sound(jobs, effects) /\ jobs \in [Targets -> Row]
      /\ consumer \in [Consumers -> Loop]
  BY DEF JobInv, Sound, Working
<1>1. ASSUME NEW t \in Targets, Lapse(t) \/ Mature(t) PROVE Managed
  <2>1. effects' = effects /\ consumer' = consumer
    BY <1>1 DEF Lapse, Mature, workVars
  <2>2. jobs' = [jobs EXCEPT ![t].live = FALSE] \/ jobs' = [jobs EXCEPT ![t].due = TRUE]
    BY <1>1 DEF Lapse, Mature
  <2>3. jobs[t] \in Row
    BY <1>0
  <2>4. /\ [jobs[t] EXCEPT !.live = FALSE].state = jobs[t].state
        /\ [jobs[t] EXCEPT !.live = FALSE].version = jobs[t].version
        /\ [jobs[t] EXCEPT !.due = TRUE].state = jobs[t].state
        /\ [jobs[t] EXCEPT !.due = TRUE].version = jobs[t].version
    BY <2>3 DEF Row
  <2>5. \A u \in Targets : Kept(u)
    BY <1>0, <2>2, <2>4 DEF Kept
  <2> QED
    BY <1>0, <2>1, <2>5 DEF Managed
<1>2. CASE NextProcess
  <2>1. Rested(Consumers)
    BY <1>2 DEF NextProcess, storeVars, Rested, Kept
  <2> QED
    BY <2>1
<1>3. ASSUME NEW ts, jobs' = Enqueue(jobs, ts), UNCHANGED <<effects, consumer>>
      PROVE  Managed
  <2>1. \A t \in Targets : Kept(t) \/ Posted(t)
    BY <1>0, <1>3, EnqueueSound DEF Kept, Posted
  <2> QED
    BY <1>0, <1>3, <2>1 DEF Managed
<1>4. CASE ScanCommits
  BY <1>3, <1>4 DEF ScanCommits
<1>5. ASSUME NEW i \in Keys, NEW k \in ReviewKeys, Decide(i, k) PROVE Managed
  BY <1>3, <1>5 DEF Decide, workVars
<1>6. CASE UNCHANGED <<jobs, effects, consumer>>
  BY <1>0, <1>6 DEF Managed, Kept
<1>7. ASSUME NEW c \in Consumers, ConsumerNext(c)
      PROVE  \/ Managed
             \/ \E t \in Targets : Taken(c, t)
             \/ Ended(c)
             \/ Rested({c})
  <2> DEFINE t == consumer[c].job
  <2>1. CASE Claim(c)
    BY <2>1, StepOfClaim
  <2>2. ASSUME consumer[c].pc # "idle"
        PROVE  t \in Targets
    BY <1>0, <2>2 DEF Loop, Working
  <2>3. ASSUME Holds(c) PROVE jobs[t].state = "leased"
    BY <2>3 DEF Holds, HoldsLease
  <2>4. ASSUME jobs' = jobs, effects' = effects, consumer' = [consumer EXCEPT ![c] = AtRest]
        PROVE  Rested({c})
    BY <2>4, AllRest DEF Rested, Kept
  <2>5. CASE Abandon(c)
    BY <2>4, <2>5 DEF Abandon, storeVars
  <2>6. ASSUME t \in Targets, Holds(c), CheckClaim(c) \/ FailAttempt(c),
               NEW row \in {RetryLater(jobs[t]), TerminalFail(jobs[t])},
               jobs' = [jobs EXCEPT ![t] = row], effects' = effects,
               consumer' = [consumer EXCEPT ![c] = AtRest]
        PROVE  Ended(c)
    <3>1. jobs[t] \in Row
      BY <1>0, <2>6
    <3>2. row \in Row /\ row.version = jobs[t].version + 1
          /\ row.state \in {"retry_wait", "dead_letter"}
      BY <2>6, <3>1, EndRows
    <3>3. row.state \in {"succeeded", "retry_wait", "dead_letter"} /\ row.state # "succeeded"
      BY <3>2
    <3> QED
      BY <2>6, <3>2, <3>3, EndOf
  <2>8. CASE CheckClaim(c)
    <3>0. consumer[c].pc = "checking" /\ effects' = effects
      BY <2>8 DEF CheckClaim
    <3>1. CASE catalog[t.music].fp # t.fp /\ Holds(c)
      <4>1. /\ jobs' = [jobs EXCEPT ![t] = TerminalFail(jobs[t])]
            /\ consumer' = [consumer EXCEPT ![c] = AtRest]
        BY <2>8, <3>1 DEF CheckClaim
      <4> QED
        BY <2>2, <2>6, <2>8, <3>0, <3>1, <4>1
    <3>2. CASE catalog[t.music].fp # t.fp /\ ~Holds(c)
      BY <2>4, <2>8, <3>0, <3>2 DEF CheckClaim
    <3>3. CASE ~(catalog[t.music].fp # t.fp)
      <4> DEFINE n == [consumer[c] EXCEPT !.pc = "running"]
      <4>1. jobs' = jobs /\ consumer' = [consumer EXCEPT ![c] = n]
        BY <2>8, <3>3 DEF CheckClaim
      <4>2. n \in Loop /\ n.job = t /\ n.version = consumer[c].version /\ n.pc = "running"
        BY <1>0 DEF Loop
      <4> HIDE DEF n
      <4>3. consumer'[c] = n /\ \A d \in Consumers : d # c => consumer'[d] = consumer[d]
        BY <1>0, <4>1
      <4>4. consumer' \in [Consumers -> Loop]
        BY <1>0, <4>1, <4>2
      <4>5. \A d \in Consumers :
                /\ consumer'[d].job = consumer[d].job /\ consumer'[d].version = consumer[d].version
                /\ consumer'[d].pc = "idle" <=> consumer[d].pc = "idle"
        BY <3>0, <4>2, <4>3
      <4> QED
        BY <3>0, <4>1, <4>4, <4>5 DEF Managed, Kept
    <3> QED
      BY <3>1, <3>2, <3>3
  <2>9. CASE FailAttempt(c)
    <3>1. PICK row \in {RetryLater(jobs[t]), TerminalFail(jobs[t])} :
               jobs' = [jobs EXCEPT ![t] = row]
      BY <2>9 DEF FailAttempt
    <3>2. effects' = effects /\ Holds(c) /\ consumer[c].pc = "running"
          /\ consumer' = [consumer EXCEPT ![c] = AtRest]
      BY <2>9 DEF FailAttempt
    <3> QED
      BY <2>2, <2>6, <2>9, <3>1, <3>2
  <2>10. CASE CompleteDiscovery(c) \/ CompleteFetch(c)
    <3>1. StoreResult(c) /\ consumer[c].pc = "running" /\ Holds(c)
      BY <2>10 DEF CompleteDiscovery, CompleteFetch, StoreResult
    <3>2. \E ts : jobs' = Enqueue([jobs EXCEPT ![t] = Succeed(jobs[t])], ts)
                  \/ jobs' = [jobs EXCEPT ![t] = Succeed(jobs[t])]
      BY <2>10 DEF CompleteDiscovery, CompleteFetch
    <3>3. /\ effects' = [effects EXCEPT ![t] = @ + 1]
          /\ consumer' = [consumer EXCEPT ![c] = AtRest]
      BY <3>1 DEF StoreResult
    <3>4. t \in Targets
      BY <2>2, <3>1
    <3>5. /\ Succeed(jobs[t]) \in Row /\ Succeed(jobs[t]).state = "succeeded"
          /\ Succeed(jobs[t]).version = jobs[t].version + 1
      BY <1>0, <3>4, EndRows
    <3> QED
      BY <3>1, <3>2, <3>3, <3>4, <3>5, EndOf
  <2> QED
    BY <1>7, <2>1, <2>5, <2>8, <2>9, <2>10 DEF ConsumerNext
<1> QED
  BY <1>1, <1>2, <1>4, <1>5, <1>6, <1>7
     DEF Next, vars, storeVars, workVars, UpsertCatalog, ScanReads, ScanFails,
         DecideBatch, ImportLoads, ImportSaves

\* The claims stay as they are meant: a new one has a version of its own.
LEMMA WorkingStep ==
    ASSUME JobInv, JobInv', Working, [Next]_vars
    PROVE  Working'
<1>0. /\ \A t \in Targets : jobs[t].version \in Nat /\ jobs'[t].version \in Nat
      /\ consumer \in [Consumers -> Loop] /\ NoTarget \notin Targets
      /\ \A c \in Consumers : /\ consumer[c].version \in Nat
                              /\ consumer[c].job \in Targets \cup {NoTarget}
  BY NoTargetIsNone DEF JobInv, Sound, Row, Working, Loop
<1>1. CASE Managed
  <2>1. \A t \in Targets : jobs[t].state # "absent" =>
            jobs'[t].state # "absent" /\ jobs'[t].version >= jobs[t].version
    BY <1>0, <1>1 DEF Managed, Kept, Posted, Expired
  <2>2. \A c \in Consumers :
           /\ consumer'[c].job = consumer[c].job /\ consumer'[c].version = consumer[c].version
           /\ consumer'[c].pc = "idle" <=> consumer[c].pc = "idle"
    BY <1>1 DEF Managed
  <2>3. consumer' \in [Consumers -> Loop]
    BY <1>1 DEF Managed
  <2>4. ASSUME NEW c \in Consumers, consumer[c].job # NoTarget
        PROVE  /\ jobs'[consumer[c].job].state # "absent"
               /\ consumer[c].version <= jobs'[consumer[c].job].version
    BY <1>0, <2>1, <2>4 DEF Working
  <2> QED
    BY <2>2, <2>3, <2>4 DEF Working
<1>2. ASSUME NEW c \in Consumers, NEW t \in Targets, Taken(c, t) PROVE Working'
  <2> DEFINE new == [pc |-> "checking", job |-> t, version |-> jobs'[t].version]
  <2>1. new \in Loop /\ new.pc = "checking" /\ new.job = t /\ new.version = jobs'[t].version
    BY <1>0 DEF Loop
  <2>2. consumer' = [consumer EXCEPT ![c] = new]
    BY <1>2 DEF Taken
  <2> HIDE DEF new
  <2>3. /\ consumer' \in [Consumers -> Loop] /\ consumer'[c] = new
        /\ \A d \in Consumers : d # c => consumer'[d] = consumer[d]
    BY <1>0, <2>1, <2>2
  <2>4. \A u \in Targets : jobs[u].state # "absent" =>
            jobs'[u].state # "absent" /\ jobs'[u].version >= jobs[u].version
    BY <1>0, <1>2 DEF Taken, Kept, Expired
  <2>5. jobs'[t].state # "absent" /\ jobs'[t].version > jobs[t].version
    BY <1>2 DEF Taken
  <2>6. ASSUME NEW d \in Consumers, d # c, consumer[d].job # NoTarget
        PROVE  /\ jobs'[consumer[d].job].state # "absent"
               /\ consumer[d].version <= jobs'[consumer[d].job].version
               /\ consumer[d].job = t => consumer[d].version # new.version
    BY <1>0, <2>1, <2>4, <2>5, <2>6 DEF Working
  <2>7. new.version <= jobs'[t].version /\ t # NoTarget /\ t.kind = WorkerOf(c)
    BY <1>0, <1>2, <2>1 DEF Taken
  <2> QED
    BY <2>1, <2>3, <2>5, <2>6, <2>7 DEF Working
<1>3. ASSUME NEW C \in SUBSET Consumers,
             consumer' = [c \in Consumers |-> IF c \in C THEN AtRest ELSE consumer[c]],
             \A t \in Targets : jobs[t].state # "absent" =>
                 jobs'[t].state # "absent" /\ jobs'[t].version >= jobs[t].version
      PROVE  Working'
  <2>0. \A c \in Consumers : /\ c \in C => consumer'[c] = AtRest
                             /\ c \notin C => consumer'[c] = consumer[c]
    BY <1>3
  <2>1. /\ consumer' \in [Consumers -> Loop]
        /\ \A c \in Consumers : consumer'[c] = consumer[c]
               \/ (consumer'[c].job = NoTarget /\ consumer'[c].pc = "idle")
    BY <1>0, <1>3, <2>0, AtRestIsLoop
  <2>2. ASSUME NEW c \in Consumers, consumer[c].job # NoTarget
        PROVE  /\ jobs'[consumer[c].job].state # "absent"
               /\ consumer[c].version <= jobs'[consumer[c].job].version
    BY <1>0, <1>3, <2>2 DEF Working
  <2> QED
    BY <2>1, <2>2 DEF Working
<1>4. ASSUME NEW c \in Consumers, Ended(c) PROVE Working'
  <2>1. consumer' = [d \in Consumers |-> IF d \in {c} THEN AtRest ELSE consumer[d]]
    BY <1>4, AllRest DEF Ended
  <2>2. \A t \in Targets : jobs[t].state # "absent" =>
            jobs'[t].state # "absent" /\ jobs'[t].version >= jobs[t].version
    BY <1>0, <1>4 DEF Ended, Kept, Posted
  <2> QED
    BY <1>3, <2>1, <2>2
<1>5. ASSUME NEW C \in SUBSET Consumers, Rested(C) PROVE Working'
  <2>1. \A t \in Targets : jobs[t].state # "absent" =>
            jobs'[t].state # "absent" /\ jobs'[t].version >= jobs[t].version
    BY <1>0, <1>5 DEF Rested, Kept
  <2> QED
    BY <1>3, <1>5, <2>1 DEF Rested
<1> QED
  BY <1>1, <1>2, <1>4, <1>5, StepKinds

-----------------------------------------------------------------------------
(* The job table as a leased queue.                                        *)

\* The consumer that holds a task is the one that works on the row's claim.
LEMMA HolderNow ==
    ASSUME Working, NEW t \in Targets
    PROVE  /\ \A c \in Consumers : Owns(c, t) => TaskHolder[t] = c
           /\ (\A c \in Consumers : ~Owns(c, t)) => TaskHolder[t] = None
<1>1. \A c, d \in Consumers : Owns(c, t) /\ Owns(d, t) => c = d
  BY NoTargetIsNone DEF Owns, Working
<1> QED
  BY <1>1 DEF TaskHolder

\* After a step the holder of a task is the consumer that owns it.
LEMMA HolderThen ==
    ASSUME Working', NEW t \in Targets
    PROVE  /\ \A c \in Consumers : Owns(c, t)' => TaskHolder'[t] = c
           /\ (\A c \in Consumers : ~Owns(c, t)') => TaskHolder'[t] = None
<1>1. \A c, d \in Consumers : Owns(c, t)' /\ Owns(d, t)' => c = d
  BY NoTargetIsNone DEF Owns, Working
<1> QED
  BY <1>1 DEF TaskHolder

\* A task whose owners stay keeps its holder.
LEMMA HolderSame ==
    ASSUME Working, Working', NEW t \in Targets,
           \A c \in Consumers : Owns(c, t)' <=> Owns(c, t)
    PROVE  TaskHolder'[t] = TaskHolder[t]
  BY HolderNow, HolderThen

\* A row that is kept or posted, and whose workers stay, is a task that stays.
LEMMA KeptStays ==
    ASSUME Working, Working', NEW t \in Targets, Kept(t) \/ Posted(t),
           effects'[t] = effects[t],
           \A c \in Consumers : consumer'[c].job = t \/ consumer[c].job = t =>
               consumer'[c].job = consumer[c].job /\ consumer'[c].version = consumer[c].version
    PROVE  Queue!Stays(t)
<1>1. TaskStatus[t] = StatusOf(jobs[t]) /\ TaskStatus'[t] = StatusOf(jobs'[t])
  BY DEF TaskStatus
<1>2. TaskStatus'[t] = TaskStatus[t] \/ (TaskStatus[t] = "new" /\ TaskStatus'[t] = "open")
  BY <1>1 DEF Kept, Posted, StatusOf
<1>3. \A c \in Consumers : Owns(c, t)' <=> Owns(c, t)
  BY DEF Kept, Posted, Owns
<1> QED
  BY <1>2, <1>3, HolderSame DEF Queue!Stays

\* A lease that has ended is a task taken back.
LEMMA ExpiredTaken ==
    ASSUME Working', NEW t \in Targets, Expired(t), effects'[t] = effects[t]
    PROVE  Queue!TakenBack(t)
<1>1. TaskStatus[t] = StatusOf(jobs[t]) /\ TaskStatus'[t] = StatusOf(jobs'[t])
  BY DEF TaskStatus
<1>2. TaskStatus[t] = "taken" /\ TaskStatus'[t] \in {"open", "dead"}
  BY <1>1 DEF Expired, StatusOf
<1>3. \A c \in Consumers : ~Owns(c, t)'
  BY DEF Expired, Owns
<1> QED
  BY <1>2, <1>3, HolderThen DEF Queue!TakenBack

\* Every step of the pipeline is a step of the leased queue, or a stutter.
LEMMA QueueStep ==
    ASSUME JobInv, JobInv', Working, Working', [Next]_vars
    PROVE  [Queue!Next]_(Queue!vars)
<1>0. /\ NoTarget \notin Targets /\ effects \in [Targets -> Nat]
      /\ consumer \in [Consumers -> Loop]
  BY NoTargetIsNone DEF JobInv, Sound, Working
<1>1. CASE Managed
  <2>1. \A t \in Targets : Queue!Stays(t) \/ Queue!TakenBack(t)
    BY <1>1, KeptStays, ExpiredTaken DEF Managed
  <2>2. TaskOf' = TaskOf
    BY <1>1 DEF Managed, TaskOf
  <2>3. Queue!Manage
    BY <2>1, <2>2 DEF Queue!Manage
  <2> QED
    BY <2>3 DEF Queue!Next
<1>2. ASSUME NEW c \in Consumers, NEW t \in Targets, Taken(c, t)
      PROVE  Queue!Take(c, t)
  <2> DEFINE new == [pc |-> "checking", job |-> t, version |-> jobs'[t].version]
  <2>1. /\ new.job = t /\ new.version = jobs'[t].version
        /\ consumer' = [consumer EXCEPT ![c] = new] /\ effects' = effects
    BY <1>2 DEF Taken
  <2> HIDE DEF new
  <2>2. consumer'[c] = new /\ \A d \in Consumers : d # c => consumer'[d] = consumer[d]
    BY <1>0, <2>1
  <2>3. TaskOf[c] = NoTarget /\ TaskOf' = [TaskOf EXCEPT ![c] = t]
    BY <1>2, <2>1, <2>2 DEF Taken, TaskOf
  <2>4. TaskStatus[t] = StatusOf(jobs[t]) /\ TaskStatus'[t] = StatusOf(jobs'[t])
    BY DEF TaskStatus
  <2>5. TaskStatus[t] \in {"open", "taken"} /\ TaskStatus'[t] = "taken"
    BY <1>2, <2>4 DEF Taken, StatusOf
  <2>6. TaskHolder'[t] = c
    <3>1. Owns(c, t)'
      BY <1>2, <2>1, <2>2 DEF Owns, Taken
    <3> QED
      BY <3>1, HolderThen
  <2>7. ASSUME NEW u \in Targets \ {t} PROVE Queue!Stays(u) \/ Queue!TakenBack(u)
    <3>1. \A d \in Consumers : consumer'[d].job = u \/ consumer[d].job = u =>
              consumer'[d].job = consumer[d].job /\ consumer'[d].version = consumer[d].version
      BY <1>0, <1>2, <2>1, <2>2 DEF Taken
    <3>2. Kept(u) \/ Expired(u)
      BY <1>2 DEF Taken
    <3> QED
      BY <2>1, <3>1, <3>2, KeptStays, ExpiredTaken
  <2> QED
    BY <2>1, <2>3, <2>5, <2>6, <2>7 DEF Queue!Take
<1>3. ASSUME NEW c \in Consumers, Ended(c)
      PROVE  Queue!End(c)
  <2>0. PICK t : t = consumer[c].job
    OBVIOUS
  <2>1. t \in Targets /\ Owns(c, t) /\ consumer' = [consumer EXCEPT ![c] = AtRest]
    BY <1>0, <1>3, <2>0 DEF Ended, Loop
  <2>2. /\ consumer'[c].job = NoTarget
        /\ \A d \in Consumers : d # c => consumer'[d] = consumer[d]
    BY <1>0, <2>1, AtRestIsLoop
  <2>3. TaskOf[c] = t /\ TaskOf' = [TaskOf EXCEPT ![c] = NoTarget]
    <3>1. \A d \in Consumers : consumer'[d].job = IF d = c THEN NoTarget ELSE consumer[d].job
      BY <2>2
    <3> QED
      BY <2>0, <3>1 DEF TaskOf
  <2>4. TaskHolder[t] = c
    BY <2>1, HolderNow
  <2>5. TaskStatus'[t] = StatusOf(jobs'[t])
    BY <2>1 DEF TaskStatus
  <2>6. jobs'[t].state \in {"succeeded", "retry_wait", "dead_letter"}
    BY <1>3, <2>0 DEF Ended
  <2>7. /\ TaskStatus'[t] \in {"open", "done", "dead"}
        /\ TaskStatus'[t] = "done" <=> jobs'[t].state = "succeeded"
    BY <2>5, <2>6 DEF StatusOf
  <2>8. effects'[t] = effects[t] + (IF TaskStatus'[t] = "done" THEN 1 ELSE 0)
    BY <1>0, <1>3, <2>0, <2>1, <2>7 DEF Ended
  <2>9. TaskHolder'[t] = None
    <3>1. \A d \in Consumers : ~Owns(d, t)'
      BY <2>6 DEF Owns
    <3> QED
      BY <2>1, <3>1, HolderThen
  <2>10. ASSUME NEW u \in Targets \ {t} PROVE Queue!Stays(u)
    <3>1. \A d \in Consumers : consumer'[d].job = u \/ consumer[d].job = u =>
              consumer'[d].job = consumer[d].job /\ consumer'[d].version = consumer[d].version
      BY <1>0, <2>0, <2>2
    <3>2. (Kept(u) \/ Posted(u)) /\ effects'[u] = effects[u]
      BY <1>0, <1>3, <2>0 DEF Ended
    <3> QED
      BY <3>1, <3>2, KeptStays
  <2> QED
    BY <1>0, <2>1, <2>3, <2>4, <2>7, <2>8, <2>9, <2>10 DEF Queue!End
<1>4. ASSUME NEW C \in SUBSET Consumers, Rested(C)
      PROVE  Queue!Leave(C)
  <2>1. \A c \in Consumers : consumer'[c] = IF c \in C THEN AtRest ELSE consumer[c]
    BY <1>4 DEF Rested
  <2>2. TaskOf' = [c \in Consumers |-> IF c \in C THEN NoTarget ELSE TaskOf[c]]
    BY <2>1, AtRestIsLoop DEF TaskOf
  <2>3. TaskStatus' = TaskStatus /\ effects' = effects
    BY <1>4 DEF Rested, Kept, TaskStatus, StatusOf
  <2>4. ASSUME NEW t \in Targets
        PROVE  TaskHolder'[t] = IF TaskHolder[t] \in C THEN None ELSE TaskHolder[t]
    <3>1. \A c \in Consumers : Owns(c, t)' <=> (Owns(c, t) /\ c \notin C)
      BY <1>0, <1>4, <2>1, AtRestIsLoop DEF Owns, Rested, Kept
    <3>2. CASE \E c \in Consumers : Owns(c, t)
      BY <3>1, <3>2, HolderNow, HolderThen
    <3>3. CASE \A c \in Consumers : ~Owns(c, t)
      BY <3>1, <3>3, HolderNow, HolderThen
    <3> QED
      BY <3>2, <3>3
  <2>5. TaskHolder' = [t \in Targets |-> IF TaskHolder[t] \in C THEN None ELSE TaskHolder[t]]
    BY <2>4 DEF TaskHolder
  <2> QED
    BY <2>2, <2>3, <2>5 DEF Queue!Leave
<1> QED
  BY <1>1, <1>2, <1>3, <1>4, StepKinds DEF Queue!Next

\* The pipeline starts where the leased queue starts.
LEMMA WorkingInit ==
    ASSUME Init
    PROVE  JobInv /\ Working /\ Queue!Init
<1>1. jobs \in [Targets -> Row] /\ \A t \in Targets : jobs[t].state = "absent"
  BY AbsentIsRow DEF Init, Absent
<1>2. JobInv
  BY <1>1 DEF Init, JobInv, Sound
<1>3. /\ consumer \in [Consumers -> Loop]
      /\ \A c \in Consumers : consumer[c].job = NoTarget /\ consumer[c].pc = "idle"
  BY AtRestIsLoop DEF Init
<1>4. Working
  BY <1>3 DEF Working
<1>5. TaskStatus = [t \in Targets |-> "new"]
  BY <1>1 DEF TaskStatus, StatusOf
<1>6. TaskHolder = [t \in Targets |-> None]
  BY <1>1 DEF TaskHolder, Owns
<1>7. TaskOf = [c \in Consumers |-> NoTarget]
  BY <1>3 DEF TaskOf
<1> QED
  BY <1>2, <1>4, <1>5, <1>6, <1>7 DEF Init, Queue!Init

\* Rows, effects and claims agree in every reachable state.
THEOREM ClaimsInvariant == Spec => [](JobInv /\ Working)
<1>1. JobInv /\ Working /\ [Next]_vars => (JobInv /\ Working)'
  BY JobInvStep, WorkingStep
<1> QED
  BY <1>1, WorkingInit, PTL DEF Spec

\* The job table of the lyrics workers is a leased queue, for any number of
\* consumers, lapses, failures and restarts: a job is in the hands of one
\* claim at a time, and a claim whose lease was taken over stores nothing.
THEOREM PipelineImplementsQueue == Spec => QueueRefined
<1>1. Init => Queue!Init
  BY WorkingInit
<1>2. JobInv /\ Working /\ (JobInv /\ Working)' /\ [Next]_vars => [Queue!Next]_(Queue!vars)
  BY QueueStep
<1> QED
  BY <1>1, <1>2, ClaimsInvariant, PTL DEF Spec, QueueRefined, Queue!Spec

-----------------------------------------------------------------------------
(* Review items and the ledger of their decisions.                         *)

\* The request under key i decided item k.
On(i, k) == ledger[i] # NoRequest /\ k \in DOMAIN ledger[i].seen

LedgerTypes ==
    /\ reviews \in [ReviewKeys -> Items]
    /\ ledger = [i \in Keys |-> ledger[i]]
    /\ \A i \in Keys : ledger[i] # NoRequest =>
           \E ks \in SUBSET ReviewKeys : ledger[i] \in RequestsOn(ks)

\* The versions of item k that decisions have made: one each, all of them up
\* to the present one, or to the one that was superseded.
Decisions(k) == reviews[k].version - 1 - (IF reviews[k].state = "superseded" THEN 1 ELSE 0)

Accounted(k) ==
    IF reviews[k].state = "absent" THEN \A i \in Keys : ~On(i, k)
    ELSE /\ Decisions(k) \in Nat
         /\ \A i \in Keys : On(i, k) => ledger[i].seen[k] \in 1..Decisions(k)
         /\ \A v \in 1..Decisions(k) : \E i \in Keys : On(i, k) /\ ledger[i].seen[k] = v
         /\ \A i, j \in Keys : On(i, k) /\ On(j, k) /\ ledger[i].seen[k] = ledger[j].seen[k]
                => i = j

\* Item k was x at version v: as it was created, or as the decision that made
\* this version was answered.
WasAt(table, k, v, x) ==
    IF v = 1 THEN x = FreshReview(k)
    ELSE \E i \in Keys : /\ table[i] # NoRequest /\ k \in DOMAIN table[i].seen
                         /\ table[i].seen[k] = v - 1 /\ table[i].answer[k] = x

\* Every answer is what its decision made of the item as it was, and the item
\* is as the last answer left it unless it was superseded.
Chained(k) ==
    /\ \A i \in Keys : On(i, k) =>
           /\ ledger[i].answer[k].version = ledger[i].seen[k] + 1
           /\ \E x \in Items : /\ WasAt(ledger, k, ledger[i].seen[k], x)
                               /\ ledger[i].answer[k]
                                      = Decided(x, ledger[i].gate, ledger[i].decision)
    /\ reviews[k].state \notin {"absent", "superseded"}
           => WasAt(ledger, k, reviews[k].version, reviews[k])

\* Artifact k was fetched by a job of its own.
Fetched(k) ==
    \E t \in Targets : /\ t.kind = "fetch" /\ {t.cand} = k.cands
                       /\ t.music = k.music /\ t.fp = k.fp
                       /\ jobs[t].state = "succeeded"

\* An artifact is fetched before it is reviewed, and approved gate by gate, each
\* gate by a decision that the ledger has.
Vouched(k) == k.kind = "artifact" =>
    /\ \A g \in Gates : reviews[k].gates[g] = "approved" =>
           \E i \in Keys : /\ On(i, k) /\ ledger[i].gate \in {g, "overall"}
                           /\ ledger[i].decision = "approved"
    /\ reviews[k].state = "approved" => \A g \in Gates : reviews[k].gates[g] = "approved"
    /\ reviews[k].state # "absent" => Fetched(k)

\* The review table and its ledger agree on every item.
ReviewInv ==
    /\ LedgerTypes
    /\ \A k \in ReviewKeys : Accounted(k) /\ Chained(k) /\ Vouched(k)

\* A gate and what can be decided of it.
Valid(gate, d) ==
    /\ gate \in Gates \cup {"candidate", "overall"}
    /\ d \in IF gate = "candidate" THEN {"selected", "excluded"} ELSE {"approved", "rejected"}

\* A new review is pending at version 1, no gate approved.
LEMMA FreshType ==
    ASSUME NEW k
    PROVE  /\ FreshReview(k) \in Items /\ FreshReview(k).state = "pending"
           /\ FreshReview(k).version = 1
           /\ \A g \in Gates : FreshReview(k).gates[g] # "approved"
<1> DEFINE gs == [g \in Gates |-> IF k.kind = "artifact" THEN "pending" ELSE "n/a"]
<1>1. /\ gs \in [Gates -> {"n/a", "pending", "approved", "rejected"}]
      /\ \A g \in Gates : gs[g] # "approved"
  OBVIOUS
<1>2. FreshReview(k) = [state |-> "pending", version |-> 1, gates |-> gs]
  BY DEF FreshReview
<1> HIDE DEF gs
<1> QED
  BY <1>1, <1>2 DEF Items, ReviewStates

\* Superseding moves the version on and keeps the gates.
LEMMA SupersedeType ==
    ASSUME NEW row \in Items
    PROVE  /\ Supersede(row) \in Items /\ Supersede(row).state = "superseded"
           /\ Supersede(row).version = row.version + 1
           /\ Supersede(row).gates = row.gates
<1> DEFINE w == row.version + 1
           r == [row EXCEPT !.state = "superseded"]
<1>1. w \in Nat /\ row.version \in Nat
  BY DEF Items
<1>2. r \in Items /\ r.state = "superseded" /\ r.gates = row.gates /\ r.version = row.version
  BY DEF Items, ReviewStates
<1>3. Supersede(row) = [r EXCEPT !.version = w]
  BY DEF Supersede
<1> HIDE DEF w, r
<1>4. /\ Supersede(row) \in Items /\ Supersede(row).state = "superseded"
      /\ Supersede(row).version = w /\ Supersede(row).gates = row.gates
  BY <1>1, <1>2, <1>3 DEF Items
<1> QED
  BY <1>4 DEF w

\* A decision moves the version on and sets its gate, or all of them.
LEMMA DecidedType ==
    ASSUME NEW row \in Items, NEW gate, NEW d, Valid(gate, d)
    PROVE  LET new == Decided(row, gate, d)
           IN  /\ new \in Items /\ new.version = row.version + 1
               /\ \A g \in Gates : new.gates[g] = IF gate \in {g, "overall"}
                                                  THEN d ELSE row.gates[g]
               /\ new.state \in {"approved", "rejected", row.state}
               /\ gate # "candidate" /\ new.state = "approved" /\ row.state # "approved"
                      => \A g \in Gates : new.gates[g] = "approved"
<1> DEFINE gs == [g \in Gates |-> IF gate \in {g, "overall"} THEN d ELSE row.gates[g]]
           st == CASE d = "selected" -> "approved"
                     [] d \in {"excluded", "rejected"} -> "rejected"
                     [] \A g \in Gates : gs[g] = "approved" -> "approved"
                     [] OTHER -> row.state
           v == row.version + 1
<1>1. gs \in [Gates -> {"n/a", "pending", "approved", "rejected"}]
  <2>1. row.gates \in [Gates -> {"n/a", "pending", "approved", "rejected"}]
    BY DEF Items
  <2>2. \A g \in Gates : gate \in {g, "overall"} => d \in {"approved", "rejected"}
    BY ReviewsAssumption DEF Valid
  <2> QED
    BY <2>1, <2>2
<1>2. \A g \in Gates : gs[g] = IF gate \in {g, "overall"} THEN d ELSE row.gates[g]
  OBVIOUS
<1>3. Decided(row, gate, d) = [version |-> v, gates |-> gs, state |-> st]
  BY DEF Decided
<1>4. v \in Nat /\ row.state \in ReviewStates
  BY DEF Items
<1> HIDE DEF gs
<1>5. CASE gate = "candidate"
  <2>1. d \in {"selected", "excluded"}
    BY <1>5 DEF Valid
  <2>2. st \in {"approved", "rejected"}
    BY <2>1
  <2> HIDE DEF st, v
  <2> QED
    BY <1>1, <1>2, <1>3, <1>4, <1>5, <2>2 DEF Items, ReviewStates, v
<1>6. CASE gate # "candidate"
  <2>1. d \in {"approved", "rejected"}
    BY <1>6 DEF Valid
  <2>2. /\ st \in {"approved", "rejected", row.state}
        /\ st = "approved" /\ row.state # "approved" => \A g \in Gates : gs[g] = "approved"
    BY <2>1
  <2> HIDE DEF st, v
  <2> QED
    BY <1>1, <1>2, <1>3, <1>4, <1>6, <2>2 DEF Items, ReviewStates, v
<1> QED
  BY <1>5, <1>6

\* The ledger is as it was as far as item k goes.
SameLedger(k) ==
    \A i \in Keys : /\ On(i, k)' <=> On(i, k)
                    /\ On(i, k) => ledger'[i] = ledger[i]

\* What a step can do to a review item: nothing, create it, supersede it, or
\* apply one request to it that is recorded with its answer.
Still(k) == reviews'[k] = reviews[k] /\ SameLedger(k)

Created(k) ==
    /\ reviews[k].state = "absent" /\ reviews'[k] = FreshReview(k) /\ SameLedger(k)
    /\ k.kind = "artifact" => Fetched(k)'

Superseded(k) ==
    reviews[k].state = "pending" /\ reviews'[k] = Supersede(reviews[k]) /\ SameLedger(k)

Judged(k, i) ==
    LET rq == ledger'[i]
    IN  /\ Valid(rq.gate, rq.decision)
        /\ Decidable(k, reviews[k], rq.gate, reviews[k].version)
        /\ reviews'[k] = Decided(reviews[k], rq.gate, rq.decision)
        /\ On(i, k)' /\ ~On(i, k)
        /\ rq.seen[k] = reviews[k].version /\ rq.answer[k] = reviews'[k]
        /\ \A j \in Keys \ {i} : /\ On(j, k)' <=> On(j, k)
                                 /\ On(j, k) => ledger'[j] = ledger[j]

ItemStep(k) == Still(k) \/ Created(k) \/ Superseded(k) \/ \E i \in Keys : Judged(k, i)

\* What the ledger holds of an item it keeps.
LEMMA LedgerGrows ==
    ASSUME NEW k, ItemStep(k)
    PROVE  \A i \in Keys : On(i, k) => On(i, k)' /\ ledger'[i] = ledger[i]
  BY DEF ItemStep, Still, Created, Superseded, Judged, SameLedger

\* The versions of an item stay accounted for by its ledger.
LEMMA AccountedStep ==
    ASSUME NEW k \in ReviewKeys, LedgerTypes, Accounted(k), ItemStep(k)
    PROVE  Accounted(k)'
<1>0. /\ reviews[k] \in Items /\ reviews[k].version \in Nat
      /\ Decisions(k)' = reviews'[k].version - 1
                            - (IF reviews'[k].state = "superseded" THEN 1 ELSE 0)
  BY DEF LedgerTypes, Items, Decisions
<1>1. CASE Still(k)
  <2>1. Decisions(k)' = Decisions(k) /\ reviews'[k] = reviews[k]
    BY <1>1 DEF Still, Decisions
  <2> QED
    BY <1>1, <2>1 DEF Still, SameLedger, Accounted
<1>2. CASE Created(k)
  <2>1. reviews'[k].version = 1 /\ reviews'[k].state = "pending"
    BY <1>2, FreshType DEF Created
  <2>2. Decisions(k)' = 0
    BY <1>0, <2>1
  <2>3. \A i \in Keys : ~On(i, k)'
    BY <1>2 DEF Created, SameLedger, Accounted
  <2> QED
    BY <2>1, <2>2, <2>3 DEF Accounted
<1>3. CASE Superseded(k)
  <2>1. /\ reviews'[k].version = reviews[k].version + 1 /\ reviews'[k].state = "superseded"
        /\ reviews[k].state = "pending"
    BY <1>0, <1>3, SupersedeType DEF Superseded
  <2>2. Decisions(k)' = Decisions(k)
    BY <1>0, <2>1 DEF Decisions
  <2> QED
    BY <1>3, <2>1, <2>2 DEF Superseded, SameLedger, Accounted
<1>4. ASSUME NEW i \in Keys, Judged(k, i)
      PROVE  Accounted(k)'
  <2>1. reviews[k].state = "pending"
    BY <1>4 DEF Judged, Decidable
  <2>2. /\ reviews'[k].version = reviews[k].version + 1
        /\ reviews'[k].state \in {"approved", "rejected", "pending"}
    BY <1>0, <1>4, <2>1, DecidedType DEF Judged
  <2>3. PICK n : n = Decisions(k)
    OBVIOUS
  <2>4. n \in Nat /\ n + 1 = reviews[k].version /\ Decisions(k)' = n + 1
    BY <1>0, <2>1, <2>2, <2>3 DEF Accounted, Decisions
  <2>5. On(i, k)' /\ ~On(i, k) /\ ledger'[i].seen[k] = n + 1
    BY <1>4, <2>4 DEF Judged
  <2>6. \A j \in Keys \ {i} : On(j, k)' <=> On(j, k)
    BY <1>4 DEF Judged
  <2>7. \A j \in Keys \ {i} : On(j, k) => ledger'[j] = ledger[j]
    BY <1>4 DEF Judged
  <2>8. /\ \A j \in Keys : On(j, k) => ledger[j].seen[k] \in 1..n
        /\ \A v \in 1..n : \E j \in Keys : On(j, k) /\ ledger[j].seen[k] = v
        /\ \A h, j \in Keys : On(h, k) /\ On(j, k) /\ ledger[h].seen[k] = ledger[j].seen[k]
               => h = j
    BY <2>1, <2>3 DEF Accounted
  <2>9. \A j \in Keys \ {i} : On(j, k)' => ledger'[j].seen[k] \in 1..n /\ On(j, k)
                                           /\ ledger'[j].seen[k] = ledger[j].seen[k]
    BY <2>6, <2>7, <2>8
  <2>10. \A v \in 1..n : v \in 1..(n + 1) /\ v # n + 1
    BY <2>4
  <2>11. n + 1 \in 1..(n + 1) /\ \A v \in 1..(n + 1) : v = n + 1 \/ v \in 1..n
    BY <2>4
  <2>12. \A j \in Keys : On(j, k)' => ledger'[j].seen[k] \in 1..(n + 1)
    BY <2>5, <2>9, <2>10, <2>11
  <2>13. ASSUME NEW v \in 1..(n + 1)
         PROVE  \E j \in Keys : On(j, k)' /\ ledger'[j].seen[k] = v
    <3>1. CASE v = n + 1
      BY <2>5, <3>1
    <3>2. CASE v \in 1..n
      BY <2>5, <2>6, <2>7, <2>8, <3>2
    <3> QED
      BY <2>11, <3>1, <3>2
  <2>14. \A h, j \in Keys : On(h, k)' /\ On(j, k)' /\ ledger'[h].seen[k] = ledger'[j].seen[k]
             => h = j
    BY <2>5, <2>8, <2>9, <2>10
  <2>15. n + 1 \in Nat
    BY <2>4
  <2> QED
    BY <2>2, <2>4, <2>12, <2>13, <2>14, <2>15 DEF Accounted
<1> QED
  BY <1>1, <1>2, <1>3, <1>4 DEF ItemStep

\* The answers in the ledger stay the ones a repetition rebuilds.
LEMMA ChainedStep ==
    ASSUME NEW k \in ReviewKeys, LedgerTypes, Accounted(k), Chained(k), ItemStep(k)
    PROVE  Chained(k)'
<1>0. reviews[k] \in Items /\ reviews[k].version \in Nat
  BY DEF LedgerTypes, Items
<1>1. \A v, x : WasAt(ledger, k, v, x) => WasAt(ledger', k, v, x)
  BY LedgerGrows DEF WasAt, On
<1>2. ASSUME NEW i \in Keys, On(i, k)
      PROVE  /\ ledger'[i].answer[k].version = ledger'[i].seen[k] + 1
             /\ \E x \in Items : /\ WasAt(ledger', k, ledger'[i].seen[k], x)
                                 /\ ledger'[i].answer[k]
                                        = Decided(x, ledger'[i].gate, ledger'[i].decision)
  BY <1>1, <1>2, LedgerGrows DEF Chained
<1>3. CASE SameLedger(k)
  <2>1. \A i \in Keys : On(i, k)' => On(i, k)
    BY <1>3 DEF SameLedger
  <2>2. reviews'[k].state \notin {"absent", "superseded"}
            => WasAt(ledger', k, reviews'[k].version, reviews'[k])
    <3>1. CASE Still(k)
      BY <1>1, <3>1 DEF Still, Chained
    <3>2. CASE Created(k)
      <4>1. reviews'[k] = FreshReview(k) /\ reviews'[k].version = 1
        BY <3>2, FreshType DEF Created
      <4> QED
        BY <4>1 DEF WasAt
    <3>3. CASE Superseded(k)
      BY <1>0, <3>3, SupersedeType DEF Superseded
    <3>4. \A i \in Keys : ~Judged(k, i)
      BY <2>1 DEF Judged
    <3> QED
      BY <3>1, <3>2, <3>3, <3>4 DEF ItemStep
  <2> QED
    BY <1>2, <2>1, <2>2 DEF Chained
<1>4. ASSUME NEW i \in Keys, Judged(k, i)
      PROVE  Chained(k)'
  <2>1. reviews[k].state = "pending"
    BY <1>4 DEF Judged, Decidable
  <2>2. reviews'[k].version = reviews[k].version + 1
    BY <1>0, <1>4, DecidedType DEF Judged
  <2>3. reviews[k].version >= 1
    BY <1>0, <2>1 DEF Accounted, Decisions
  <2>4. WasAt(ledger', k, reviews[k].version, reviews[k])
    BY <1>1, <2>1 DEF Chained
  <2>5. /\ On(i, k)' /\ ledger'[i].seen[k] = reviews[k].version
        /\ ledger'[i].answer[k] = reviews'[k]
        /\ reviews'[k] = Decided(reviews[k], ledger'[i].gate, ledger'[i].decision)
    BY <1>4 DEF Judged
  <2>6. WasAt(ledger', k, reviews'[k].version, reviews'[k])
    <3>1. reviews'[k].version # 1 /\ reviews'[k].version - 1 = reviews[k].version
      BY <1>0, <2>2, <2>3
    <3> QED
      BY <2>5, <3>1 DEF WasAt, On
  <2>7. ASSUME NEW j \in Keys, On(j, k)'
        PROVE  /\ ledger'[j].answer[k].version = ledger'[j].seen[k] + 1
               /\ \E x \in Items : /\ WasAt(ledger', k, ledger'[j].seen[k], x)
                                   /\ ledger'[j].answer[k]
                                        = Decided(x, ledger'[j].gate, ledger'[j].decision)
    <3>1. CASE j = i
      BY <1>0, <2>2, <2>4, <2>5, <3>1
    <3>2. CASE j # i
      <4>1. On(j, k)
        BY <1>4, <2>7, <3>2 DEF Judged
      <4> QED
        BY <1>2, <4>1
    <3> QED
      BY <3>1, <3>2
  <2> QED
    BY <2>6, <2>7 DEF Chained
<1> QED
  BY <1>3, <1>4 DEF ItemStep, Still, Created, Superseded

\* An artifact stays fetched, and its approvals vouched for, at every step.
LEMMA VouchedStep ==
    ASSUME NEW k \in ReviewKeys, LedgerTypes, Vouched(k), ItemStep(k), Fetched(k) => Fetched(k)'
    PROVE  Vouched(k)'
<1> SUFFICES ASSUME k.kind = "artifact"
             PROVE  Vouched(k)'
  BY DEF Vouched
<1>0. reviews[k] \in Items
  BY DEF LedgerTypes
<1>1. ASSUME NEW g \in Gates, reviews[k].gates[g] = "approved"
      PROVE  \E i \in Keys : /\ On(i, k)' /\ ledger'[i].gate \in {g, "overall"}
                             /\ ledger'[i].decision = "approved"
  BY <1>1, LedgerGrows DEF Vouched
<1>2. CASE Still(k)
  BY <1>1, <1>2 DEF Still, Vouched
<1>3. CASE Created(k)
  <2>1. /\ reviews'[k].state = "pending" /\ Fetched(k)'
        /\ \A g \in Gates : reviews'[k].gates[g] # "approved"
    BY <1>3, FreshType DEF Created
  <2> QED
    BY <2>1 DEF Vouched
<1>4. CASE Superseded(k)
  <2>1. /\ reviews'[k].state = "superseded" /\ reviews[k].state = "pending"
        /\ reviews'[k].gates = reviews[k].gates
    BY <1>0, <1>4, SupersedeType DEF Superseded
  <2> QED
    BY <1>1, <2>1 DEF Vouched
<1>5. ASSUME NEW i \in Keys, Judged(k, i)
      PROVE  Vouched(k)'
  <2>1. PICK gate, d : gate = ledger'[i].gate /\ d = ledger'[i].decision
    OBVIOUS
  <2>2. /\ Valid(gate, d) /\ reviews'[k] = Decided(reviews[k], gate, d) /\ On(i, k)'
        /\ Decidable(k, reviews[k], gate, reviews[k].version)
    BY <1>5, <2>1 DEF Judged
  <2>3. gate # "candidate" /\ reviews[k].state = "pending"
    BY <2>2 DEF Decidable
  <2>4. /\ \A g \in Gates : reviews'[k].gates[g] = IF gate \in {g, "overall"}
                                                   THEN d ELSE reviews[k].gates[g]
        /\ reviews'[k].state = "approved" => \A g \in Gates : reviews'[k].gates[g] = "approved"
    BY <1>0, <2>2, <2>3, DecidedType
  <2>5. ASSUME NEW g \in Gates, reviews'[k].gates[g] = "approved"
        PROVE  \E j \in Keys : /\ On(j, k)' /\ ledger'[j].gate \in {g, "overall"}
                               /\ ledger'[j].decision = "approved"
    <3>1. CASE gate \in {g, "overall"}
      BY <2>1, <2>2, <2>4, <2>5, <3>1
    <3>2. CASE gate \notin {g, "overall"}
      BY <1>1, <2>4, <2>5, <3>2
    <3> QED
      BY <3>1, <3>2
  <2>6. Fetched(k)'
    BY <2>3 DEF Vouched
  <2> QED
    BY <2>4, <2>5, <2>6 DEF Vouched
<1> QED
  BY <1>2, <1>3, <1>4, <1>5 DEF ItemStep

\* What CreateReviews does to one item.
LEMMA CreateKinds ==
    ASSUME NEW table \in [ReviewKeys -> Items], NEW ks
    PROVE  /\ CreateReviews(table, ks) \in [ReviewKeys -> Items]
           /\ \A k \in ReviewKeys : LET new == CreateReviews(table, ks)[k] IN
                  \/ new = table[k]
                  \/ table[k].state = "absent" /\ new = FreshReview(k) /\ k \in ks
                  \/ table[k].state = "pending" /\ new = Supersede(table[k])
<1> DEFINE new == CreateReviews(table, ks)
<1>1. \A k \in ReviewKeys : \/ new[k] = table[k]
                            \/ table[k].state = "absent" /\ new[k] = FreshReview(k) /\ k \in ks
                            \/ table[k].state = "pending" /\ new[k] = Supersede(table[k])
  BY DEF CreateReviews
<1>2. new = [k \in ReviewKeys |-> new[k]]
  BY DEF CreateReviews
<1> HIDE DEF new
<1>3. \A k \in ReviewKeys : new[k] \in Items
  BY <1>1, FreshType, SupersedeType
<1>4. new \in [ReviewKeys -> Items]
  BY <1>2, <1>3
<1> QED
  BY <1>1, <1>4 DEF new

\* What SupersedeStale does to one item.
LEMMA StaleKinds ==
    ASSUME NEW table \in [ReviewKeys -> Items], NEW m, NEW fp
    PROVE  /\ SupersedeStale(table, m, fp) \in [ReviewKeys -> Items]
           /\ \A k \in ReviewKeys : LET new == SupersedeStale(table, m, fp)[k] IN
                  \/ new = table[k]
                  \/ table[k].state = "pending" /\ new = Supersede(table[k])
<1> DEFINE new == SupersedeStale(table, m, fp)
<1>1. \A k \in ReviewKeys : \/ new[k] = table[k]
                            \/ table[k].state = "pending" /\ new[k] = Supersede(table[k])
  BY DEF SupersedeStale
<1>2. new = [k \in ReviewKeys |-> new[k]]
  BY DEF SupersedeStale
<1> HIDE DEF new
<1>3. \A k \in ReviewKeys : new[k] \in Items
  BY <1>1, SupersedeType
<1>4. new \in [ReviewKeys -> Items]
  BY <1>2, <1>3
<1> QED
  BY <1>1, <1>4 DEF new

\* A step that records no request.
LEMMA UnrecordedStep ==
    ASSUME LedgerTypes, ledger' = ledger, reviews' \in [ReviewKeys -> Items],
           \A k \in ReviewKeys :
               \/ reviews'[k] = reviews[k]
               \/ /\ reviews[k].state = "absent" /\ reviews'[k] = FreshReview(k)
                  /\ k.kind = "artifact" => Fetched(k)'
               \/ reviews[k].state = "pending" /\ reviews'[k] = Supersede(reviews[k])
    PROVE  LedgerTypes' /\ \A k \in ReviewKeys : ItemStep(k)
<1>1. LedgerTypes'
  BY DEF LedgerTypes
<1>2. \A k \in ReviewKeys : SameLedger(k)
  BY DEF SameLedger, On
<1> QED
  BY <1>1, <1>2 DEF ItemStep, Still, Created, Superseded

\* A step that records one.
LEMMA RecordedStep ==
    ASSUME LedgerTypes, NEW i \in Keys, ledger[i] = NoRequest,
           NEW ks \in SUBSET ReviewKeys, NEW gate, NEW d, Valid(gate, d),
           \A k \in ks : Decidable(k, reviews[k], gate, reviews[k].version),
           reviews' = [k \in ReviewKeys |-> IF k \in ks THEN Decided(reviews[k], gate, d)
                                                        ELSE reviews[k]],
           ledger' = [ledger EXCEPT ![i] =
               [gate |-> gate, decision |-> d, seen |-> [k \in ks |-> reviews[k].version],
                answer |-> [k \in ks |-> reviews'[k]]]]
    PROVE  LedgerTypes' /\ \A k \in ReviewKeys : ItemStep(k)
<1> DEFINE sn == [k \in ks |-> reviews[k].version]
           an == [k \in ks |-> reviews'[k]]
           rq == [gate |-> gate, decision |-> d, seen |-> sn, answer |-> an]
<1>1. /\ reviews \in [ReviewKeys -> Items] /\ ledger = [j \in Keys |-> ledger[j]]
      /\ \A j \in Keys : ledger[j] # NoRequest =>
             \E x \in SUBSET ReviewKeys : ledger[j] \in RequestsOn(x)
  BY DEF LedgerTypes
<1>2. \A k \in ReviewKeys : /\ k \in ks => reviews'[k] = Decided(reviews[k], gate, d)
                            /\ k \notin ks => reviews'[k] = reviews[k]
  OBVIOUS
<1>3. reviews' \in [ReviewKeys -> Items]
  <2>1. \A k \in ReviewKeys : reviews'[k] \in Items
    BY <1>1, <1>2, DecidedType
  <2> QED
    BY <2>1
<1>4. sn \in [ks -> Nat] /\ an \in [ks -> Items]
  BY <1>1, <1>3 DEF Items
<1>5. DOMAIN sn = ks /\ \A k \in ks : sn[k] = reviews[k].version /\ an[k] = reviews'[k]
  OBVIOUS
<1> HIDE DEF sn, an
<1>6. rq \in RequestsOn(ks)
  BY <1>4 DEF RequestsOn, Valid
<1>7. rq # NoRequest
  BY <1>6, ReviewsAssumption
<1>8. /\ rq.gate = gate /\ rq.decision = d /\ rq.seen = sn /\ rq.answer = an
  OBVIOUS
<1>9. ledger' = [ledger EXCEPT ![i] = rq]
  BY DEF sn, an
<1> HIDE DEF rq
<1>10. ledger'[i] = rq /\ \A j \in Keys \ {i} : ledger'[j] = ledger[j]
  BY <1>1, <1>9
<1>11. ledger' = [j \in Keys |-> ledger'[j]]
  BY <1>1, <1>9
<1>12. LedgerTypes'
  BY <1>1, <1>3, <1>6, <1>10, <1>11 DEF LedgerTypes
<1>13. ASSUME NEW k \in ReviewKeys
       PROVE  ItemStep(k)
  <2>1. \A j \in Keys \ {i} : /\ On(j, k)' <=> On(j, k)
                              /\ On(j, k) => ledger'[j] = ledger[j]
    BY <1>10 DEF On
  <2>2. ~On(i, k) /\ (On(i, k)' <=> k \in ks)
    BY <1>5, <1>7, <1>8, <1>10 DEF On
  <2>3. CASE k \in ks
    <3>1. ledger'[i].gate = gate /\ ledger'[i].decision = d
      BY <1>8, <1>10
    <3>2. ledger'[i].seen[k] = reviews[k].version /\ ledger'[i].answer[k] = reviews'[k]
      BY <1>5, <1>8, <1>10, <2>3
    <3>3. Decidable(k, reviews[k], gate, reviews[k].version)
      BY <2>3
    <3>4. Judged(k, i)
      BY <1>2, <2>1, <2>2, <2>3, <3>1, <3>2, <3>3 DEF Judged
    <3> QED
      BY <3>4 DEF ItemStep
  <2>4. CASE k \notin ks
    BY <1>2, <2>1, <2>2, <2>4 DEF ItemStep, Still, SameLedger
  <2> QED
    BY <2>3, <2>4
<1> QED
  BY <1>12, <1>13

\* A finished job stays finished, so what was fetched stays fetched.
LEMMA FetchedStays ==
    ASSUME JobInv, Working, [Next]_vars, NEW k
    PROVE  Fetched(k) => Fetched(k)'
<1>1. \A t \in Targets : jobs[t].state = "succeeded" => jobs'[t].state = "succeeded"
  <2>1. CASE Managed
    BY <2>1 DEF Managed, Kept, Posted, Expired
  <2>2. CASE \E c \in Consumers, t \in Targets : Taken(c, t)
    BY <2>2 DEF Taken, Kept, Expired
  <2>3. CASE \E c \in Consumers : Ended(c)
    BY <2>3 DEF Ended, Owns, Kept, Posted
  <2>4. CASE \E C \in SUBSET Consumers : Rested(C)
    BY <2>4 DEF Rested, Kept
  <2> QED
    BY <2>1, <2>2, <2>3, <2>4, StepKinds
<1> QED
  BY <1>1 DEF Fetched

\* Every step does to each review item one of four things.
LEMMA ItemSteps ==
    ASSUME JobInv, Working, LedgerTypes, [Next]_vars
    PROVE  LedgerTypes' /\ \A k \in ReviewKeys : ItemStep(k)
<1>0. reviews \in [ReviewKeys -> Items] /\ consumer \in [Consumers -> Loop]
  BY DEF LedgerTypes, Working
<1> DEFINE Goal == LedgerTypes' /\ \A k \in ReviewKeys : ItemStep(k)
<1>1. CASE UNCHANGED <<reviews, ledger>>
  BY <1>0, <1>1, UnrecordedStep
<1>2. ASSUME NEW m \in Music, UpsertCatalog(m)
      PROVE  Goal
  <2>1. ledger' = ledger
    BY <1>2 DEF UpsertCatalog
  <2>2. PICK fp : reviews' = SupersedeStale(reviews, m, fp) \/ reviews' = reviews
    BY <1>2 DEF UpsertCatalog
  <2>3. CASE reviews' = SupersedeStale(reviews, m, fp)
    BY <1>0, <2>1, <2>3, StaleKinds, UnrecordedStep
  <2> QED
    BY <1>1, <2>1, <2>2, <2>3
<1>3. ASSUME NEW ks, ledger' = ledger, reviews' = CreateReviews(reviews, ks),
             \A k \in ks : k.kind = "artifact" => Fetched(k)'
      PROVE  Goal
  BY <1>0, <1>3, CreateKinds, UnrecordedStep
<1>4. CASE ScanCommits
  <2> DEFINE ks == {k \in ReviewKeys : /\ k.kind = "candidate" /\ k.cands = {}
                                       /\ scan[k.music] = [fp |-> k.fp, disp |-> "review"]}
  <2>1. ledger' = ledger /\ reviews' = CreateReviews(reviews, ks)
    BY <1>4 DEF ScanCommits
  <2>2. \A k \in ks : k.kind # "artifact"
    OBVIOUS
  <2> HIDE DEF ks
  <2> QED
    BY <1>3, <2>1, <2>2
<1>5. ASSUME NEW c \in Consumers, CompleteDiscovery(c)
      PROVE  Goal
  <2>1. ledger' = ledger
    BY <1>5 DEF CompleteDiscovery, StoreResult
  <2>2. PICK found : \/ reviews' = reviews
                     \/ reviews' = CreateReviews(reviews,
                            {[kind |-> "candidate", music |-> consumer[c].job.music,
                              fp |-> consumer[c].job.fp, cands |-> found]})
    BY <1>5 DEF CompleteDiscovery
  <2> DEFINE n == [kind |-> "candidate", music |-> consumer[c].job.music,
                   fp |-> consumer[c].job.fp, cands |-> found]
  <2>3. n.kind # "artifact"
    OBVIOUS
  <2>4. reviews' = reviews \/ reviews' = CreateReviews(reviews, {n})
    BY <2>2
  <2> HIDE DEF n
  <2> QED
    BY <1>1, <1>3, <2>1, <2>3, <2>4
<1>6. ASSUME NEW c \in Consumers, CompleteFetch(c)
      PROVE  Goal
  <2>1. PICK t : t = consumer[c].job
    OBVIOUS
  <2> DEFINE n == [kind |-> "artifact", music |-> t.music, fp |-> t.fp, cands |-> {t.cand}]
  <2>2. /\ ledger' = ledger /\ jobs' = [jobs EXCEPT ![t] = Succeed(jobs[t])]
        /\ reviews' = CreateReviews(reviews, {n})
        /\ c \in FetchConsumers /\ consumer[c].pc = "running"
    BY <1>6, <2>1 DEF CompleteFetch, StoreResult
  <2>3. t \in Targets /\ t.kind = "fetch"
    BY <1>0, <2>1, <2>2, PipelineAssumption DEF Working, WorkerOf, Loop
  <2>4. jobs'[t].state = "succeeded"
    <3>1. jobs \in [Targets -> Row] /\ jobs[t] \in Row
      BY <2>3 DEF JobInv, Sound
    <3> QED
      BY <2>2, <2>3, <3>1, EndRows
  <2>5. Fetched(n)'
    <3>1. n.cands = {t.cand} /\ n.music = t.music /\ n.fp = t.fp
      OBVIOUS
    <3> HIDE DEF n
    <3> QED
      BY <2>3, <2>4, <3>1 DEF Fetched
  <2> HIDE DEF n
  <2> QED
    BY <1>3, <2>2, <2>5
<1>7. ASSUME NEW i \in Keys, NEW k \in ReviewKeys, Decide(i, k)
      PROVE  Goal
  <2>1. PICK gate, d :
            /\ Valid(gate, d) /\ ledger[i] = NoRequest
            /\ Decidable(k, reviews[k], gate, reviews[k].version)
            /\ reviews' = [reviews EXCEPT ![k] = Decided(reviews[k], gate, d)]
            /\ ledger' = [ledger EXCEPT ![i] =
                   [gate |-> gate, decision |-> d, seen |-> [x \in {k} |-> reviews[k].version],
                    answer |-> [x \in {k} |-> reviews'[k]]]]
    BY <1>7 DEF Decide, Valid
  <2>2. reviews' = [x \in ReviewKeys |-> IF x \in {k} THEN Decided(reviews[x], gate, d)
                                                      ELSE reviews[x]]
    BY <1>0, <2>1
  <2>3. /\ [x \in {k} |-> reviews[k].version] = [x \in {k} |-> reviews[x].version]
        /\ [x \in {k} |-> reviews'[k]] = [x \in {k} |-> reviews'[x]]
    OBVIOUS
  <2>4. ledger' = [ledger EXCEPT ![i] =
                   [gate |-> gate, decision |-> d, seen |-> [x \in {k} |-> reviews[x].version],
                    answer |-> [x \in {k} |-> reviews'[x]]]]
    BY <2>1, <2>3
  <2>5. {k} \in SUBSET ReviewKeys /\ \A x \in {k} : Decidable(x, reviews[x], gate, reviews[x].version)
    BY <2>1
  <2> QED
    BY <2>1, <2>2, <2>4, <2>5, RecordedStep
<1>8. ASSUME NEW i \in Keys, NEW ks \in SUBSET ReviewKeys, DecideBatch(i, ks)
      PROVE  Goal
  <2>1. PICK d \in {"approved", "rejected"} :
            /\ ledger[i] = NoRequest
            /\ \A k \in ks : Decidable(k, reviews[k], "overall", reviews[k].version)
            /\ reviews' = [k \in ReviewKeys |-> IF k \in ks
                              THEN Decided(reviews[k], "overall", d) ELSE reviews[k]]
            /\ ledger' = [ledger EXCEPT ![i] =
                   [gate |-> "overall", decision |-> d,
                    seen |-> [k \in ks |-> reviews[k].version],
                    answer |-> [k \in ks |-> reviews'[k]]]]
    BY <1>8 DEF DecideBatch
  <2>2. Valid("overall", d)
    BY DEF Valid
  <2> QED
    BY <2>1, <2>2, RecordedStep
<1> HIDE DEF Goal
<1>9. Goal
  BY <1>1, <1>2, <1>4, <1>5, <1>6, <1>7, <1>8
     DEF Next, vars, storeVars, workVars, Lapse, Mature, NextProcess, ScanReads, ScanFails,
         ConsumerNext, Claim, CheckClaim, FailAttempt, Abandon, ImportLoads, ImportSaves, Goal
<1> QED
  BY <1>9 DEF Goal

\* Every step keeps items and ledger in accord.
LEMMA ReviewInvStep ==
    ASSUME JobInv, Working, ReviewInv, [Next]_vars
    PROVE  ReviewInv'
<1>1. LedgerTypes' /\ \A k \in ReviewKeys : ItemStep(k)
  BY ItemSteps DEF ReviewInv
<1>2. \A k \in ReviewKeys : Accounted(k)' /\ Chained(k)' /\ Vouched(k)'
  BY <1>1, AccountedStep, ChainedStep, VouchedStep, FetchedStays DEF ReviewInv
<1> QED
  BY <1>1, <1>2 DEF ReviewInv

\* The empty ledger accounts for the absent items.
LEMMA ReviewInvInit ==
    ASSUME Init
    PROVE  ReviewInv
<1>1. /\ NoReview \in Items /\ NoReview.state = "absent"
      /\ \A g \in Gates : NoReview.gates[g] # "approved"
  <2> DEFINE gs == [g \in Gates |-> "n/a"]
  <2>1. /\ gs \in [Gates -> {"n/a", "pending", "approved", "rejected"}]
        /\ \A g \in Gates : gs[g] # "approved"
    OBVIOUS
  <2>2. NoReview = [state |-> "absent", version |-> 0, gates |-> gs]
    BY DEF NoReview
  <2> HIDE DEF gs
  <2> QED
    BY <2>1, <2>2 DEF Items, ReviewStates
<1>2. reviews = [k \in ReviewKeys |-> NoReview] /\ ledger = [i \in Keys |-> NoRequest]
  BY DEF Init
<1> HIDE DEF NoReview
<1>3. \A k \in ReviewKeys : reviews[k] = NoReview
  BY <1>2
<1>4. \A i \in Keys : ledger[i] = NoRequest
  BY <1>2
<1>5. LedgerTypes
  BY <1>1, <1>2, <1>3, <1>4 DEF LedgerTypes
<1>6. \A i \in Keys : \A k : ~On(i, k)
  BY <1>4 DEF On
<1> QED
  BY <1>1, <1>3, <1>5, <1>6 DEF ReviewInv, Accounted, Chained, Vouched

\* Review items and the ledger of their decisions agree in every reachable state.
THEOREM ReviewInvariant == Spec => []ReviewInv
<1>1. JobInv /\ Working /\ ReviewInv /\ [Next]_vars => ReviewInv'
  BY ReviewInvStep
<1>2. Init => ReviewInv
  BY ReviewInvInit
<1> QED
  BY <1>1, <1>2, ClaimsInvariant, PTL DEF Spec

\* Every version of an item after its creation is the work of exactly one
\* decision in the ledger, and a last one of its supersession: no decision is
\* lost and no version is skipped, whatever restarts or changes come between.
THEOREM VersionsAccountedHolds == Spec => []VersionsAccounted
<1>1. ReviewInv => VersionsAccounted
  <2> SUFFICES ASSUME ReviewInv, NEW k \in ReviewKeys, reviews[k].state # "absent"
               PROVE  {d.seen[k] : d \in DecisionsOn(ledger, k)} = 1..Decisions(k)
    BY DEF VersionsAccounted, Decisions
  <2>1. Accounted(k)
    BY DEF ReviewInv
  <2>2. \A d : d \in DecisionsOn(ledger, k) <=> \E i \in Keys : On(i, k) /\ d = ledger[i]
    BY DEF DecisionsOn, On
  <2>3. \A v : (\E i \in Keys : On(i, k) /\ ledger[i].seen[k] = v) <=> v \in 1..Decisions(k)
    BY <2>1 DEF Accounted
  <2>4. \A v : v \in {d.seen[k] : d \in DecisionsOn(ledger, k)}
                   <=> \E i \in Keys : On(i, k) /\ ledger[i].seen[k] = v
    BY <2>2
  <2> QED
    BY <2>3, <2>4
<1> QED
  BY <1>1, ReviewInvariant, PTL

-----------------------------------------------------------------------------
(* The history of an item, rebuilt from the ledger.                        *)

\* A set that holds 1 and with every number the next one holds all up to n.
LEMMA UpTo ==
    ASSUME NEW n \in Nat, NEW S, 1 \in S, \A v \in 2..n : v - 1 \in S => v \in S
    PROVE  1..n \subseteq S
<1> DEFINE D == {v \in 1..n : 1..v \subseteq S}
<1>1. \A m \in Nat : IsFiniteSet(1..m) /\ Cardinality(1..m) = m
  BY FS_Interval
<1>2. IsFiniteSet(D) /\ Cardinality(D) \in Nat /\ Cardinality(D) <= n
  <2>1. D \subseteq 1..n
    OBVIOUS
  <2>2. IsFiniteSet(1..n) /\ Cardinality(1..n) = n
    BY <1>1
  <2> HIDE DEF D
  <2>3. IsFiniteSet(D) /\ Cardinality(D) <= Cardinality(1..n)
    BY <2>1, <2>2, FS_Subset
  <2> QED
    BY <2>2, <2>3, FS_CardinalityType
<1>3. PICK x \in Nat : x = Cardinality(D)
  BY <1>2
<1>4. 1..x \subseteq S
  <2>1. CASE x = 0
    BY <2>1
  <2>2. CASE x # 0 /\ x \notin D
    <3>1. x - 1 \in Nat /\ x \in 1..n
      BY <1>2, <1>3, <2>2
    <3>2. D \subseteq 1..(x - 1)
      <4> SUFFICES ASSUME NEW v \in D, v > x - 1 PROVE FALSE
        BY <3>1
      <4>1. v \in Nat /\ x <= v /\ 1..v \subseteq S
        BY <3>1
      <4>2. 1..x \subseteq S
        BY <4>1
      <4> QED
        BY <2>2, <3>1, <4>2
    <3>3. x <= x - 1
      <4>1. IsFiniteSet(1..(x - 1)) /\ Cardinality(1..(x - 1)) = x - 1
        BY <1>1, <3>1
      <4> HIDE DEF D
      <4>2. Cardinality(D) <= Cardinality(1..(x - 1))
        BY <3>2, <4>1, FS_Subset
      <4> QED
        BY <1>3, <4>1, <4>2
    <3> QED
      BY <3>3
  <2>3. CASE x \in D
    BY <2>3
  <2> QED
    BY <2>1, <2>2, <2>3
<1>5. x = n
  <2> SUFFICES ASSUME x # n PROVE FALSE
    OBVIOUS
  <2>1. x + 1 \in 1..n
    BY <1>2, <1>3
  <2>2. x + 1 \in S
    <3>1. CASE x = 0
      BY <3>1
    <3>2. CASE x # 0
      <4>1. x \in 1..x /\ x + 1 \in 2..n /\ (x + 1) - 1 = x
        BY <2>1, <3>2
      <4> QED
        BY <1>4, <4>1
    <3> QED
      BY <3>1, <3>2
  <2>3. \A v \in 1..(x + 1) : v = x + 1 \/ v \in 1..x
    OBVIOUS
  <2>4. 1..(x + 1) \subseteq S
    BY <1>4, <2>2, <2>3
  <2>5. 1..(x + 1) \subseteq D
    <3> SUFFICES ASSUME NEW v \in 1..(x + 1) PROVE v \in 1..n /\ 1..v \subseteq S
      OBVIOUS
    <3> QED
      BY <2>1, <2>4
  <2>6. Cardinality(1..(x + 1)) = x + 1
    BY <1>1
  <2>7. Cardinality(1..(x + 1)) <= Cardinality(D)
    <3> HIDE DEF D
    <3> QED
      BY <1>2, <2>5, FS_Subset
  <2> QED
    BY <1>3, <2>6, <2>7
<1> QED
  BY <1>4, <1>5

\* A function that obeys the equation of History is the history.
LEMMA HistoryIs ==
    ASSUME NEW table, NEW k, NEW n \in Nat, NEW f,
           f = [v \in 1..n |-> IF v = 1 THEN FreshReview(k) ELSE Rebuild(table, k, v, f[v - 1])]
    PROVE  \A v \in 1..n : History(table, k, n)[v] = f[v]
<1>1. PICK h : h = History(table, k, n)
  OBVIOUS
<1>2. h = [v \in 1..n |-> IF v = 1 THEN FreshReview(k) ELSE Rebuild(table, k, v, h[v - 1])]
  <2>1. History(table, k, n) = [v \in 1..n |-> IF v = 1 THEN FreshReview(k)
                                   ELSE Rebuild(table, k, v, History(table, k, n)[v - 1])]
    BY Zenon DEF History
  <2> QED
    BY <1>1, <2>1
<1> DEFINE S == {v \in 1..n : h[v] = f[v]}
<1>3. CASE n = 0
  BY <1>3
<1>4. CASE n # 0
  <2>1. 1 \in 1..n
    BY <1>4
  <2>2. 1 \in S
    BY <1>2, <2>1
  <2>3. ASSUME NEW v \in 2..n, v - 1 \in S PROVE v \in S
    <3>1. v \in 1..n /\ v # 1
      BY <2>3
    <3>2. h[v] = Rebuild(table, k, v, h[v - 1]) /\ f[v] = Rebuild(table, k, v, f[v - 1])
      BY <1>2, <3>1
    <3>3. h[v - 1] = f[v - 1]
      BY <2>3
    <3> QED
      BY <3>1, <3>2, <3>3
  <2> HIDE DEF S
  <2>4. 1..n \subseteq S
    BY <2>2, <2>3, UpTo
  <2> QED
    BY <1>1, <2>4 DEF S
<1> QED
  BY <1>3, <1>4

\* What a decision made of an item is what the ledger rebuilds of it.
LEMMA RebuildIs ==
    ASSUME ReviewInv, NEW k \in ReviewKeys, NEW i \in Keys, On(i, k), NEW x,
           WasAt(ledger, k, ledger[i].seen[k], x)
    PROVE  Rebuild(ledger, k, ledger[i].seen[k] + 1, x) = ledger[i].answer[k]
<1>0. Accounted(k) /\ Chained(k) /\ reviews[k].state # "absent"
  BY DEF ReviewInv, Accounted
<1>1. PICK s : s = ledger[i].seen[k]
  OBVIOUS
<1>2. PICK n \in Nat : n = Decisions(k)
  BY <1>0 DEF Accounted
<1>3. \A j \in Keys : On(j, k) => ledger[j].seen[k] \in 1..n
  BY <1>0, <1>2 DEF Accounted
<1>4. \A h, j \in Keys : On(h, k) /\ On(j, k) /\ ledger[h].seen[k] = ledger[j].seen[k] => h = j
  BY <1>0 DEF Accounted
<1>5. s \in Nat /\ s >= 1
  BY <1>1, <1>3
<1>6. {d \in DecisionsOn(ledger, k) : d.seen[k] + 1 = s + 1} = {ledger[i]}
  <2>1. \A j \in Keys : On(j, k) => (ledger[j].seen[k] + 1 = s + 1 <=> j = i)
    <3>1. \A j \in Keys : On(j, k) => ledger[j].seen[k] \in Int
      BY <1>3
    <3> QED
      BY <1>1, <1>4, <1>5, <3>1
  <2>2. \A d : d \in DecisionsOn(ledger, k) <=> \E j \in Keys : On(j, k) /\ d = ledger[j]
    BY DEF DecisionsOn, On
  <2> QED
    BY <2>1, <2>2
<1>7. \A y, z : WasAt(ledger, k, s, y) /\ WasAt(ledger, k, s, z) => y = z
  BY <1>4 DEF WasAt, On
<1>8. /\ ledger[i].answer[k] = Decided(x, ledger[i].gate, ledger[i].decision)
      /\ ledger[i].answer[k].version = s + 1
  BY <1>0, <1>1, <1>7 DEF Chained
<1>9. Rebuild(ledger, k, s + 1, x)
          = [Decided(x, ledger[i].gate, ledger[i].decision) EXCEPT !.version = s + 1]
  BY <1>6 DEF Rebuild
<1>10. PICK r : r = Decided(x, ledger[i].gate, ledger[i].decision)
  OBVIOUS
<1>11. IsItem(r)
  BY <1>10, DecidedItem
<1>12. r.version = s + 1
  BY <1>8, <1>10
<1>13. PICK w : w = s + 1
  OBVIOUS
<1>14. [r EXCEPT !.version = w] = r
  BY <1>11, <1>12, <1>13 DEF IsItem
<1> QED
  BY <1>1, <1>8, <1>9, <1>10, <1>13, <1>14

\* A decision request that is repeated under its key is answered as it was the
\* first time, however often its items were decided or superseded since.
THEOREM ReplayAnswersSameHolds == Spec => []ReplayAnswersSame
<1>1. ReviewInv => ReplayAnswersSame
  <2> SUFFICES ASSUME ReviewInv, NEW i \in Keys, ledger[i] # NoRequest,
                      NEW k \in DOMAIN ledger[i].seen
               PROVE  ItemAtVersion(ledger, k, reviews[k], ledger[i].seen[k] + 1)
                          = ledger[i].answer[k]
    BY DEF ReplayAnswersSame
  <2>1. k \in ReviewKeys /\ On(i, k)
    <3>1. PICK ks \in SUBSET ReviewKeys : ledger[i] \in RequestsOn(ks)
      BY DEF ReviewInv, LedgerTypes
    <3>2. DOMAIN ledger[i].seen = ks
      BY <3>1 DEF RequestsOn
    <3> QED
      BY <3>2 DEF On
  <2>2. Accounted(k) /\ Chained(k) /\ reviews[k].state # "absent" /\ reviews[k] \in Items
    BY <2>1 DEF ReviewInv, Accounted, LedgerTypes
  <2>3. PICK last \in Nat : last = Decisions(k)
    BY <2>2 DEF Accounted
  <2>4. PICK n : n = ledger[i].seen[k] + 1
    OBVIOUS
  <2>5. /\ \A j \in Keys : On(j, k) => ledger[j].seen[k] \in 1..last
        /\ \A v \in 1..last : \E j \in Keys : On(j, k) /\ ledger[j].seen[k] = v
        /\ \A h, j \in Keys : On(h, k) /\ On(j, k) /\ ledger[h].seen[k] = ledger[j].seen[k]
               => h = j
    BY <2>2, <2>3 DEF Accounted
  <2>6. /\ n \in Nat /\ n - 1 \in 1..last /\ n # 1 /\ ledger[i].seen[k] = n - 1 /\ n \in 1..n
        /\ ledger[i].seen[k] \in 1..last
    BY <2>1, <2>4, <2>5
  <2>7. WasAt(ledger, k, n, ledger[i].answer[k])
    BY <2>1, <2>6 DEF WasAt, On
  <2>8. \A v, y, z : WasAt(ledger, k, v, y) /\ WasAt(ledger, k, v, z) => y = z
    BY <2>5 DEF WasAt, On
  <2>9. CASE reviews[k].version = n
    <3>1. reviews[k].state # "superseded"
      BY <2>2, <2>3, <2>6, <2>9 DEF Decisions, Items
    <3>2. WasAt(ledger, k, n, reviews[k])
      BY <2>2, <2>9, <3>1 DEF Chained
    <3> QED
      BY <2>4, <2>7, <2>8, <2>9, <3>2 DEF ItemAtVersion
  <2>10. CASE reviews[k].version # n
    <3> DEFINE f == [v \in 1..n |-> CHOOSE x : WasAt(ledger, k, v, x)]
    <3>1. ASSUME NEW v \in 1..n
          PROVE  WasAt(ledger, k, v, f[v])
      <4>1. \E x : WasAt(ledger, k, v, x)
        <5>1. CASE v = 1
          BY <5>1 DEF WasAt
        <5>2. CASE v # 1
          <6>1. v - 1 \in 1..last
            BY <2>6, <5>2
          <6> QED
            BY <2>5, <5>2, <6>1 DEF WasAt, On
        <5> QED
          BY <5>1, <5>2
      <4> QED
        BY <4>1
    <3>2. ASSUME NEW v \in 1..n
          PROVE  f[v] = IF v = 1 THEN FreshReview(k) ELSE Rebuild(ledger, k, v, f[v - 1])
      <4>1. CASE v = 1
        BY <3>1, <4>1 DEF WasAt
      <4>2. CASE v # 1
        <5>1. v - 1 \in 1..last /\ v - 1 \in 1..n /\ (v - 1) + 1 = v
          BY <2>6, <4>2
        <5>2. PICK j \in Keys : On(j, k) /\ ledger[j].seen[k] = v - 1
          BY <2>5, <5>1
        <5>3. WasAt(ledger, k, v - 1, f[v - 1])
          BY <3>1, <5>1
        <5>4. WasAt(ledger, k, v, ledger[j].answer[k])
          BY <4>2, <5>2 DEF WasAt, On
        <5>5. f[v] = ledger[j].answer[k]
          BY <2>8, <3>1, <5>4
        <5> HIDE DEF f
        <5>6. Rebuild(ledger, k, v, f[v - 1]) = ledger[j].answer[k]
          BY <2>1, <5>1, <5>2, <5>3, RebuildIs
        <5> QED
          BY <4>2, <5>5, <5>6
      <4> QED
        BY <4>1, <4>2
    <3>3. f = [v \in 1..n |-> f[v]]
      OBVIOUS
    <3> HIDE DEF f
    <3>4. f = [v \in 1..n |-> IF v = 1 THEN FreshReview(k) ELSE Rebuild(ledger, k, v, f[v - 1])]
      BY <3>2, <3>3
    <3>5. History(ledger, k, n)[n] = f[n]
      BY <2>6, <3>4, HistoryIs
    <3>6. f[n] = ledger[i].answer[k]
      BY <2>6, <2>7, <2>8, <3>1
    <3> QED
      BY <2>4, <2>10, <3>5, <3>6 DEF ItemAtVersion
  <2> QED
    BY <2>9, <2>10
<1> QED
  BY <1>1, ReviewInvariant, PTL

-----------------------------------------------------------------------------
(* Types, and the drafts that are imported.                                *)

\* The types of what lies outside jobs, consumers and reviews.
RestTypes ==
    /\ catalog \in [Music -> Entries]
    /\ changes \in 0..MaxChanges /\ faults \in 0..MaxFaults
    /\ doc \in [Music -> ReviewKeys \cup {None}]
    /\ import \in ReviewKeys \cup {None}
    /\ scan \in [Music -> Entries] \cup {None}

\* A fault is counted within the bound.
LEMMA FaultType ==
    ASSUME faults \in 0..MaxFaults, Fault \/ UNCHANGED faults
    PROVE  faults' \in 0..MaxFaults
  BY PipelineAssumption DEF Fault

\* Where a draft comes from: only from a review that can be imported.
LEMMA DraftStep ==
    ASSUME RestTypes, [Next]_vars
    PROVE  \/ doc' = doc
           \/ /\ import \in ReviewKeys /\ Importable(import) /\ doc[import.music] = None
              /\ doc' = [doc EXCEPT ![import.music] = import]
<1>1. CASE ImportSaves
  BY <1>1 DEF ImportSaves, RestTypes
<1>2. ASSUME NEW c, ConsumerNext(c) PROVE doc' = doc
  <2>1. ASSUME Claim(c) \/ CheckClaim(c) PROVE doc' = doc
    BY <2>1 DEF Claim, CheckClaim
  <2>2. ASSUME CompleteDiscovery(c) \/ CompleteFetch(c) PROVE doc' = doc
    BY <2>2 DEF CompleteDiscovery, CompleteFetch, StoreResult
  <2>3. ASSUME FailAttempt(c) \/ Abandon(c) PROVE doc' = doc
    BY <2>3 DEF FailAttempt, Abandon, storeVars
  <2> QED
    BY <1>2, <2>1, <2>2, <2>3 DEF ConsumerNext
<1>3. ASSUME NEW i, NEW k, Decide(i, k) \/ DecideBatch(i, k) PROVE doc' = doc
  BY <1>3 DEF Decide, DecideBatch
<1>4. ASSUME ScanReads \/ ScanCommits \/ ScanFails \/ NextProcess PROVE doc' = doc
  BY <1>4 DEF ScanReads, ScanCommits, ScanFails, NextProcess, storeVars
<1>5. ASSUME NEW x, UpsertCatalog(x) \/ Lapse(x) \/ Mature(x) \/ ImportLoads(x)
      PROVE  doc' = doc
  BY <1>5 DEF UpsertCatalog, Lapse, Mature, ImportLoads, storeVars
<1> QED
  BY <1>1, <1>2, <1>3, <1>4, <1>5 DEF Next, vars, storeVars

\* Every step keeps the types of what lies outside jobs and reviews.
LEMMA RestTypesStep ==
    ASSUME RestTypes, [Next]_vars
    PROVE  RestTypes'
<1>1. doc' \in [Music -> ReviewKeys \cup {None}]
  <2>1. doc \in [Music -> ReviewKeys \cup {None}]
    BY DEF RestTypes
  <2> QED
    BY <2>1, DraftStep
<1>2. ASSUME NEW m \in Music, UpsertCatalog(m) PROVE RestTypes'
  <2>1. catalog' \in [Music -> Entries]
    BY <1>2 DEF UpsertCatalog, RestTypes
  <2>2. changes' \in 0..MaxChanges
    BY <1>2, PipelineAssumption DEF UpsertCatalog, RestTypes
  <2>3. UNCHANGED <<faults, import, scan>>
    BY <1>2 DEF UpsertCatalog, workVars
  <2> QED
    BY <1>1, <2>1, <2>2, <2>3 DEF RestTypes
<1>3. ASSUME UNCHANGED <<catalog, changes>>, Fault \/ UNCHANGED faults,
             import' = import \/ import' = None \/ \E k \in ReviewKeys : import' = k,
             scan' = scan \/ scan' = None \/ scan' = catalog
      PROVE  RestTypes'
  <2>1. faults' \in 0..MaxFaults
    BY <1>3, FaultType DEF RestTypes
  <2>2. import' \in ReviewKeys \cup {None} /\ scan' \in [Music -> Entries] \cup {None}
    BY <1>3 DEF RestTypes
  <2> QED
    BY <1>1, <1>3, <2>1, <2>2 DEF RestTypes
<1>4. ASSUME NEW c, ConsumerNext(c) PROVE RestTypes'
  <2>1. CASE Abandon(c)
    BY <1>3, <2>1 DEF Abandon
  <2>2. CASE FailAttempt(c)
    BY <1>3, <2>2 DEF FailAttempt
  <2> QED
    BY <1>3, <1>4, <2>1, <2>2 DEF ConsumerNext, Claim, CheckClaim, StoreResult, CompleteDiscovery,
                                  CompleteFetch
<1>5. CASE NextProcess
  BY <1>3, <1>5 DEF NextProcess
<1>6. CASE ScanReads \/ ScanCommits \/ ScanFails
  BY <1>3, <1>6 DEF ScanReads, ScanCommits, ScanFails
<1>7. ASSUME NEW k \in ReviewKeys, ImportLoads(k) PROVE RestTypes'
  BY <1>3, <1>7 DEF ImportLoads, workVars
<1>8. CASE ImportSaves
  BY <1>3, <1>8 DEF ImportSaves, workVars
<1>9. ASSUME NEW t \in Targets, Lapse(t) \/ Mature(t) PROVE RestTypes'
  BY <1>3, <1>9 DEF Lapse, Mature, workVars
<1>10. ASSUME NEW i \in Keys, NEW k \in ReviewKeys, Decide(i, k) PROVE RestTypes'
  BY <1>3, <1>10 DEF Decide, workVars
<1>11. ASSUME NEW i \in Keys, NEW ks, DecideBatch(i, ks) PROVE RestTypes'
  BY <1>3, <1>11 DEF DecideBatch, workVars
<1>12. CASE UNCHANGED vars
  BY <1>3, <1>12 DEF vars, workVars
<1> QED
  BY <1>2, <1>4, <1>5, <1>6, <1>7, <1>8, <1>9, <1>10, <1>11, <1>12 DEF Next

\* The catalog, the lyrics documents, the scan, the import and the counters of
\* the pipeline have their types at every step.
THEOREM RestTyped == Spec => []RestTypes
<1>1. Init => RestTypes
  BY PipelineAssumption DEF Init, RestTypes
<1>2. RestTypes /\ [Next]_vars => RestTypes'
  BY RestTypesStep
<1> QED
  BY <1>1, <1>2, PTL DEF Spec

\* Every variable of the pipeline keeps its type: attempts never pass their
\* limit, and every ledger row names items that exist.
THEOREM PipelineTypes == Spec => []TypeOK
<1>1. JobInv /\ Working /\ ReviewInv /\ RestTypes => TypeOK
  <2> SUFFICES ASSUME JobInv, Working, ReviewInv, RestTypes PROVE TypeOK
    OBVIOUS
  <2>1. /\ jobs \in [Targets -> [state : JobStates, attempts : 0..MaxAttempts,
                                 due : BOOLEAN, live : BOOLEAN, version : Nat,
                                 owner : ({"discover", "fetch"} \X Nat) \cup {NoOwner}]]
        /\ effects \in [Targets -> Nat] /\ process \in Nat
    BY DEF JobInv, Sound, Row, Owners
  <2>2. /\ reviews \in [ReviewKeys -> Items] /\ DOMAIN ledger = Keys
        /\ \A i \in Keys : ledger[i] # NoRequest =>
               /\ DOMAIN ledger[i].seen \subseteq ReviewKeys
               /\ ledger[i] \in RequestsOn(DOMAIN ledger[i].seen)
    <3>1. /\ reviews \in [ReviewKeys -> Items] /\ ledger = [i \in Keys |-> ledger[i]]
          /\ \A i \in Keys : ledger[i] # NoRequest =>
                 \E ks \in SUBSET ReviewKeys : ledger[i] \in RequestsOn(ks)
      BY DEF ReviewInv, LedgerTypes
    <3>2. \A ks : \A rq \in RequestsOn(ks) : DOMAIN rq.seen = ks
      BY DEF RequestsOn
    <3>3. DOMAIN ledger = Keys
      BY <3>1
    <3> QED
      BY <3>1, <3>2, <3>3
  <2>3. consumer \in [Consumers -> [pc : {"idle", "checking", "running"},
                                    job : Targets \cup {NoTarget}, version : Nat]]
    BY DEF Working, Loop
  <2> QED
    BY <2>1, <2>2, <2>3 DEF TypeOK, RestTypes
<1> QED
  BY <1>1, ClaimsInvariant, ReviewInvariant, RestTyped, PTL

\* A first draft is created only from an artifact that a job of its own fetched
\* and administrators approved in every gate, for the catalog as it then is:
\* whatever was loaded before the lock was taken is validated again.
THEOREM DraftIsVouchedHolds == Spec => DraftIsVouched
<1> DEFINE Imported(m) ==
              /\ doc[m] = None
              /\ catalog[m] = [fp |-> doc'[m].fp, disp |-> "full_target"]
              /\ \A g \in Gates : \E d \in DecisionsOn(ledger, doc'[m]) :
                     d.gate \in {g, "overall"} /\ d.decision = "approved"
              /\ \E t \in Targets : /\ t.kind = "fetch" /\ {t.cand} = doc'[m].cands
                                    /\ t.music = m /\ t.fp = doc'[m].fp
                                    /\ effects[t] = 1
<1>1. ASSUME JobInv, ReviewInv, RestTypes, [Next]_vars, NEW m \in Music, doc'[m] # doc[m]
      PROVE  Imported(m)
  <2>1. PICK k \in ReviewKeys : /\ k = import /\ Importable(k) /\ doc[k.music] = None
                                /\ doc' = [doc EXCEPT ![k.music] = k]
    BY <1>1, DraftStep
  <2>2. k.music = m /\ doc'[m] = k
    BY <1>1, <2>1 DEF RestTypes
  <2>3. /\ k.kind = "artifact" /\ reviews[k].state = "approved"
        /\ catalog[k.music] = [fp |-> k.fp, disp |-> "full_target"]
    BY <2>1 DEF Importable, StillTarget
  <2>4. Vouched(k)
    BY <1>1 DEF ReviewInv
  <2>5. \A g \in Gates : \E i \in Keys : /\ On(i, k) /\ ledger[i].gate \in {g, "overall"}
                                         /\ ledger[i].decision = "approved"
    BY <2>3, <2>4 DEF Vouched
  <2>6. \A g \in Gates : \E d \in DecisionsOn(ledger, k) :
            d.gate \in {g, "overall"} /\ d.decision = "approved"
    BY <2>5 DEF On, DecisionsOn
  <2>7. \E t \in Targets : /\ t.kind = "fetch" /\ {t.cand} = k.cands
                           /\ t.music = k.music /\ t.fp = k.fp /\ effects[t] = 1
    BY <1>1, <2>3, <2>4 DEF Vouched, Fetched, JobInv, Sound
  <2> QED
    BY <2>1, <2>2, <2>3, <2>6, <2>7
<1>2. JobInv /\ ReviewInv /\ RestTypes /\ [Next]_vars
          => [\A m \in Music : doc'[m] # doc[m] => Imported(m)]_vars
  BY <1>1
<1> QED
  BY <1>2, ClaimsInvariant, ReviewInvariant, RestTyped, PTL DEF Spec, DraftIsVouched
=============================================================================
