------------------------------ MODULE LyricsJobs ------------------------------
(***************************************************************************)
(* The durable lyrics_discovery_jobs table: one row per target, claimed    *)
(* under a lease and finished by a compare-and-set on the row's version.   *)
(* The idempotency key is a digest of the target, so a table is a function *)
(* from targets to rows; a target without a row has state "absent".        *)
(*                                                                         *)
(* Time is kept as two flags per row: "due" stands for next_attempt_at <=  *)
(* now and "live" for lease_expires_at > now.  The passing of time is what *)
(* clears or sets them, so every order of a worker's clock and a lease is  *)
(* covered.                                                                *)
(***************************************************************************)
EXTENDS Integers, FiniteSets

CONSTANTS
    Music,          \* songs of the catalog
    Fingerprints,   \* catalog evidence fingerprints
    Candidates,     \* fixed page revisions a discovery can find
    NoCandidate,    \* the fixed candidate of a discover job
    ProviderOf,     \* the provider of each candidate
    Fandom,         \* the provider of every discover job
    MaxAttempts     \* max_attempts of every row

ASSUME MaxAttemptsAssumption == MaxAttempts \in Nat \ {0}

Targets ==
    [kind : {"discover"}, music : Music, fp : Fingerprints, cand : {NoCandidate}]
      \cup
    [kind : {"fetch"}, music : Music, fp : Fingerprints, cand : Candidates]

Provider(t) == IF t.kind = "discover" THEN Fandom ELSE ProviderOf[t.cand]

JobStates == {"absent", "queued", "retry_wait", "leased", "succeeded", "dead_letter"}
NoOwner == <<"none", 0>>
Absent == [state |-> "absent", attempts |-> 0, due |-> FALSE, live |-> FALSE,
           owner |-> NoOwner, version |-> 0]

\* INSERT ... ON CONFLICT(idempotency_key) DO NOTHING
Enqueue(table, targets) ==
    [t \in Targets |->
        IF t \in targets /\ table[t].state = "absent"
        THEN [Absent EXCEPT !.state = "queued", !.due = TRUE, !.version = 1]
        ELSE table[t]]

\* The row leaves its lease for state s.
Unlease(row, s, isDue) ==
    [row EXCEPT !.state = s, !.due = isDue, !.live = FALSE,
                !.owner = NoOwner, !.version = @ + 1]

InScope(t, kind, providers) == t.kind = kind /\ Provider(t) \in providers

\* The first statement of a claim: every lapsed lease of the scope ends.
ExpireLapsed(table, kind, providers) ==
    [t \in Targets |->
        IF /\ InScope(t, kind, providers)
           /\ table[t].state = "leased" /\ ~table[t].live
        THEN Unlease(table[t],
                     IF table[t].attempts >= MaxAttempts
                     THEN "dead_letter" ELSE "retry_wait", TRUE)
        ELSE table[t]]

\* The rows a claim may take once the lapsed leases have ended.  The code
\* takes the earliest next_attempt_at, which the two flags do not order.
Claimable(table, kind, providers) ==
    {t \in Targets : /\ InScope(t, kind, providers)
                     /\ table[t].state \in {"queued", "retry_wait"}
                     /\ table[t].due
                     /\ table[t].attempts < MaxAttempts}

Lease(row, owner) ==
    [row EXCEPT !.state = "leased", !.attempts = @ + 1, !.live = TRUE,
                !.owner = owner, !.version = @ + 1]

\* A mistaken form of the next guard, without the version: the owner is one
\* per worker, so another consumer of that worker would pass it.
HoldsLeaseUnversioned(row, owner, version) ==
    row.state = "leased" /\ row.owner = owner /\ row.live

\* The guard of every transition out of a lease.  The version also fixes
\* the attempt, which the code compares as well.
HoldsLease(row, owner, version) ==
    /\ row.state = "leased"
    /\ row.owner = owner
    /\ row.version = version
    /\ row.live

Succeed(row) == Unlease(row, "succeeded", TRUE)

\* RetryLyricsDiscoveryJob: the retry time lies after the failure.
RetryLater(row) == Unlease(row, "retry_wait", FALSE)

\* TerminalFailLyricsDiscoveryJob also spends the remaining attempts.
TerminalFail(row) ==
    [Unlease(row, "dead_letter", TRUE) EXCEPT !.attempts = MaxAttempts]
=============================================================================
