----------------------------- MODULE ContentGate -----------------------------
(***************************************************************************)
(* The store's content lock (internal/store/store.go): LockContentShared   *)
(* takes weight 1 and LockContentExclusive the whole weight of one         *)
(* golang.org/x/sync/semaphore.Weighted.  The weight, 2^20, exceeds every  *)
(* number of concurrent shares, so what remains of the arithmetic is a     *)
(* first-in-first-out readers/writer lock: a request that finds the        *)
(* semaphore taken or anybody waiting is queued, and a release grants the  *)
(* longest prefix of the queue that fits.                                  *)
(*                                                                         *)
(* The lock is not reentrant: an actor that holds a share and asks for     *)
(* another one queues behind a waiting exclusive request like anybody.     *)
(***************************************************************************)
EXTENDS Naturals, Sequences, SequencesExt

CONSTANTS Actors, NoActor

ASSUME ContentGateAssumption == NoActor \notin Actors

VARIABLES shares,   \* how many shares each actor holds
          owner,    \* the holder of the whole weight, or NoActor
          waiters   \* the FIFO of blocked Acquire calls

contentVars == <<shares, owner, waiters>>

Modes == {"shared", "exclusive"}

ContentTypeOK ==
  /\ shares \in [Actors -> 0..2]
  /\ owner \in Actors \cup {NoActor}
  /\ waiters \in Seq([who : Actors, mode : Modes])

ContentInit ==
  /\ shares = [a \in Actors |-> 0]
  /\ owner = NoActor
  /\ waiters = <<>>

Queued(a) == \E i \in DOMAIN waiters : waiters[i].who = a

Fits(mode) ==
  /\ owner = NoActor
  /\ mode = "exclusive" => \A a \in Actors : shares[a] = 0

\* Acquire: granted at once only if nobody waits.
LockContent(a, mode) ==
  LET free == waiters = <<>> /\ Fits(mode)
  IN  /\ waiters' = IF free THEN waiters
                    ELSE Append(waiters, [who |-> a, mode |-> mode])
      /\ shares' = IF free /\ mode = "shared"
                     THEN [shares EXCEPT ![a] = @ + 1] ELSE shares
      /\ owner' = IF free /\ mode = "exclusive" THEN a ELSE owner

\* notifyWaiters: how many requests at the head of q fit the tokens left when
\* the actors hold held and nobody holds the whole weight.
Grantable(q, held) ==
  LET allShared(k) == \A i \in 1..k : q[i].mode = "shared"
      idle == \A a \in Actors : held[a] = 0
  IN  IF q # <<>> /\ q[1].mode = "exclusive"
        THEN IF idle THEN 1 ELSE 0
        ELSE CHOOSE k \in 0..Len(q) :
               /\ allShared(k)
               /\ k = Len(q) \/ ~allShared(k + 1)

Notify(q, held) ==
  LET k == Grantable(q, held)
      granted(a, mode) == \E i \in 1..k : q[i] = [who |-> a, mode |-> mode]
  IN  /\ waiters' = SubSeq(q, k + 1, Len(q))
      /\ shares' = [a \in Actors |->
                      IF granted(a, "shared") THEN held[a] + 1 ELSE held[a]]
      /\ owner' = IF \E a \in Actors : granted(a, "exclusive")
                    THEN q[1].who ELSE NoActor

UnlockShared(a) ==
  /\ shares[a] > 0
  /\ Notify(waiters, [shares EXCEPT ![a] = @ - 1])

UnlockExclusive(a) ==
  /\ owner = a
  /\ Notify(waiters, shares)

\* A blocked Acquire whose context is done leaves the queue; if it was the
\* first, the ones behind it are looked at again.
AbandonWait(a) ==
  \E i \in DOMAIN waiters :
    LET rest == RemoveAt(waiters, i)
    IN  /\ waiters[i].who = a
        /\ IF i = 1 /\ owner = NoActor
             THEN Notify(rest, shares)
             ELSE waiters' = rest /\ UNCHANGED <<shares, owner>>
=============================================================================
