------------------------ MODULE ContentAdmissionProofs ------------------------
(***************************************************************************)
(* Proofs about the gate and the content lock taken together, for any      *)
(* number of handlers, sessions, builders and restores.                    *)
(***************************************************************************)
EXTENDS ContentAdmission, SequenceTheorems, FiniteSetTheorems, TLAPS

Requests == [who : Actors, mode : Modes]

\* Where each kind of actor can be.
RolePlaces ==
  /\ pc \in [Actors -> Places]
  /\ \A h \in Handlers : pc[h] \notin {"connected", "claiming", "entered", "applied"}
  /\ \A s \in Sessions : pc[s] \in {"idle", "connected"}
  /\ \A b \in Builders : pc[b] \in {"idle", "locking", "locked"}
  /\ pc[Translate] \in {"idle", "claiming", "entered", "locking", "locked", "leaving"}
  /\ pc[Restore] \in {"idle", "claiming", "entered", "locking", "applied", "leaving"}

\* The gate knows who is inside and who has claimed it, and a claimant that is
\* past its wait is alone.
GateHolders ==
  /\ GateTypeOK
  /\ \A e \in Editors : e \in readers <=> pc[e] # "idle"
  /\ \A p \in Producers : claimant = p <=> pc[p] # "idle"
  /\ \A p \in Producers : pc[p] \notin {"idle", "claiming"} => readers = {}

\* A queue of the content lock: nobody waits twice, and only the restore asks
\* for the whole.
GoodQueue(q) ==
  /\ q \in Seq(Requests)
  /\ \A i \in 1..Len(q) : q[i].mode = "exclusive" <=> q[i].who = Restore
  /\ \A i, j \in 1..Len(q) : q[i].who = q[j].who => i = j

Waits(q, a) == \E i \in 1..Len(q) : q[i].who = a

Queue ==
  /\ GoodQueue(waiters)
  /\ \A a \in Actors : Waits(waiters, a) => pc[a] \in {"locking", "nesting"}

\* The shares an actor has at a place if it waits for none, and those it has.
Held(a, place) ==
  IF place \in {"locked", "written"} \/ (place = "locking" /\ a # Restore) THEN 1
  ELSE IF place = "nesting" THEN 2 ELSE 0

Due(a) ==
  IF a # Restore /\ Waits(waiters, a) THEN Held(a, pc[a]) - 1 ELSE Held(a, pc[a])

HoldsAll == \/ pc[Restore] = "applied"
            \/ pc[Restore] = "locking" /\ ~Waits(waiters, Restore)

Locks ==
  /\ shares \in [Actors -> Nat]
  /\ \A a \in Actors : shares[a] = Due(a)
  /\ owner = IF HoldsAll THEN Restore ELSE NoActor
  /\ HoldsAll => \A a \in Actors : shares[a] = 0

Counts ==
  /\ began \in [Actors -> 0..MaxRestores] /\ restores \in 0..MaxRestores
  /\ pc[Restore] \in {"claiming", "entered", "locking"} => restores < MaxRestores

Inv == RolePlaces /\ GateHolders /\ Queue /\ Locks /\ Counts /\ OneContent

-----------------------------------------------------------------------------
(* The queue of the content lock                                           *)

\* notifyWaiters grants requests of one kind: the restore alone on an idle
\* lock, or shares.
LEMMA GrantableRange ==
  ASSUME NEW q, GoodQueue(q), NEW held \in [Actors -> Nat]
  PROVE  /\ Grantable(q, held) \in 0..Len(q)
         /\ \/ \A i \in 1..Grantable(q, held) : q[i].mode = "shared"
            \/ /\ Grantable(q, held) = 1
               /\ q[1].mode = "exclusive"
               /\ \A a \in Actors : held[a] = 0
<1> DEFINE allShared(k) == \A i \in 1..k : q[i].mode = "shared"
           P(k) == allShared(k) /\ (k = Len(q) \/ ~allShared(k + 1))
<1>1. Len(q) \in Nat /\ (q # <<>> => Len(q) >= 1)
  BY DEF GoodQueue
<1>2. CASE q # <<>> /\ q[1].mode = "exclusive"
  BY <1>1, <1>2 DEF Grantable
<1>3. CASE ~(q # <<>> /\ q[1].mode = "exclusive")
  <2>1. \E k \in 0..Len(q) : P(k)
    <3>1. CASE allShared(Len(q))
      BY <1>1, <3>1
    <3>2. CASE ~allShared(Len(q))
      <4> DEFINE D == {i \in 1..Len(q) : allShared(i)}
      <4>0. IsFiniteSet(D) /\ Cardinality(D) \in Nat
        <5>1. IsFiniteSet(1..Len(q)) /\ D \subseteq 1..Len(q)
          BY <1>1, FS_Interval
        <5> QED BY <5>1, FS_Subset, FS_CardinalityType
      <4>1. PICK x \in Nat : x = Cardinality(D)
        BY <4>0
      <4>2. \A n \in Nat : IsFiniteSet(1..n) /\ Cardinality(1..n) = n
        BY FS_Interval
      <4>3. x <= Len(q)
        BY <1>1, <4>0, <4>1, <4>2, FS_Subset
      <4>4. allShared(x)
        <5>1. CASE x = 0
          BY <5>1
        <5>2. CASE x # 0 /\ x \notin D
          <6>0. x - 1 \in Nat /\ x \in 1..Len(q)
            BY <1>1, <4>1, <4>3, <5>2
          <6>1. D \subseteq 1..(x - 1)
            <7> SUFFICES ASSUME NEW i \in D, i > x - 1 PROVE FALSE
              BY <6>0, <1>1
            <7>1. i \in Nat /\ x <= i /\ allShared(i)
              BY <6>0, <1>1
            <7>2. allShared(x)
              BY <7>1, <4>1
            <7> QED BY <7>2, <5>2, <6>0
          <6>2. x <= x - 1
            BY <4>0, <4>1, <4>2, <6>0, <6>1, FS_Subset
          <6> QED BY <6>2, <4>1
        <5>3. CASE x \in D
          BY <5>3
        <5> QED BY <5>1, <5>2, <5>3
      <4>5. x = Len(q) \/ ~allShared(x + 1)
        <5> SUFFICES ASSUME x # Len(q), allShared(x + 1) PROVE FALSE
          OBVIOUS
        <5>0. x + 1 \in Nat /\ x + 1 <= Len(q)
          BY <1>1, <4>1, <4>3
        <5>1. 1..(x + 1) \subseteq D
          <6> SUFFICES ASSUME NEW i \in 1..(x + 1)
                       PROVE i \in 1..Len(q) /\ allShared(i)
            OBVIOUS
          <6> QED BY <1>1, <5>0
        <5>2. Cardinality(1..(x + 1)) = x + 1
          BY <4>2, <5>0
        <5>3. Cardinality(1..(x + 1)) <= Cardinality(D)
          <6> HIDE DEF D
          <6> QED BY <4>0, <5>1, FS_Subset
        <5> QED BY <5>2, <5>3, <4>1
      <4>6. x \in 0..Len(q) /\ P(x)
        BY <1>1, <4>1, <4>3, <4>4, <4>5
      <4> QED BY <4>6
    <3> QED BY <3>1, <3>2
  <2>2. Grantable(q, held) = CHOOSE k \in 0..Len(q) : P(k)
    BY <1>3 DEF Grantable
  <2>3. Grantable(q, held) \in 0..Len(q) /\ P(Grantable(q, held))
    BY <2>1, <2>2
  <2> QED BY <2>3
<1> QED BY <1>2, <1>3

\* What is left of a queue when its head has been served is a queue, and
\* exactly those behind the head still wait.
LEMMA SuffixQueue ==
  ASSUME NEW q, GoodQueue(q), NEW k \in 0..Len(q)
  PROVE  /\ GoodQueue(SubSeq(q, k + 1, Len(q)))
         /\ \A a : Waits(SubSeq(q, k + 1, Len(q)), a)
                     <=> \E i \in (k + 1)..Len(q) : q[i].who = a
<1> DEFINE s == SubSeq(q, k + 1, Len(q))
<1>1. Len(q) \in Nat /\ k \in Nat /\ k + 1 \in Int /\ Len(q) \in Int
  BY DEF GoodQueue
<1>2. \A i \in (k + 1)..Len(q) : q[i] \in Requests /\ i \in 1..Len(q)
  BY <1>1 DEF GoodQueue
<1>3. /\ s \in Seq(Requests)
      /\ Len(s) = IF k + 1 <= Len(q) THEN Len(q) - (k + 1) + 1 ELSE 0
      /\ \A i \in 1..(Len(q) - (k + 1) + 1) : s[i] = q[(k + 1) + i - 1]
  BY <1>1, <1>2, SubSeqProperties
<1>4. Len(s) = Len(q) - k /\ \A i \in 1..Len(s) : i + k \in (k + 1)..Len(q) /\ s[i] = q[i + k]
  <2>1. Len(s) = Len(q) - k
    BY <1>1, <1>3
  <2>2. ASSUME NEW i \in 1..Len(s)
        PROVE  i + k \in (k + 1)..Len(q) /\ s[i] = q[i + k]
    <3>1. i \in 1..(Len(q) - (k + 1) + 1) /\ (k + 1) + i - 1 = i + k
      BY <1>1, <2>1
    <3> QED BY <1>1, <1>3, <2>1, <3>1
  <2> QED BY <2>1, <2>2
<1>5. ASSUME NEW j \in (k + 1)..Len(q)
      PROVE  j - k \in 1..Len(s) /\ s[j - k] = q[j]
  <2>1. j - k \in 1..Len(s) /\ (j - k) + k = j
    BY <1>1, <1>4
  <2> QED BY <1>4, <2>1
<1> HIDE DEF s
<1>6. GoodQueue(s)
  <2>1. \A i \in 1..Len(s) : s[i].mode = "exclusive" <=> s[i].who = Restore
    BY <1>4, <1>2 DEF GoodQueue
  <2>2. ASSUME NEW i \in 1..Len(s), NEW j \in 1..Len(s), s[i].who = s[j].who
        PROVE  i = j
    <3>1. i + k \in 1..Len(q) /\ j + k \in 1..Len(q) /\ q[i + k].who = q[j + k].who
      BY <1>2, <1>4, <2>2
    <3>2. i + k = j + k
      BY <3>1 DEF GoodQueue
    <3> QED BY <1>1, <1>4, <3>2
  <2> QED BY <1>3, <2>1, <2>2 DEF GoodQueue
<1>7. ASSUME NEW a
      PROVE  Waits(s, a) <=> \E i \in (k + 1)..Len(q) : q[i].who = a
  BY <1>4, <1>5 DEF Waits
<1> QED BY <1>6, <1>7 DEF s

\* A release serves the head of the queue: whoever is served and is not the
\* restore has one share more, and the restore is served only when nobody
\* holds a share, and then alone.
LEMMA NotifyServes ==
  ASSUME NEW q, GoodQueue(q), NEW held \in [Actors -> Nat], Notify(q, held)
  PROVE  /\ GoodQueue(waiters')
         /\ \A a : Waits(waiters', a) => Waits(q, a)
         /\ shares' \in [Actors -> Nat]
         /\ \A a \in Actors :
              shares'[a] = IF a # Restore /\ Waits(q, a) /\ ~Waits(waiters', a)
                             THEN held[a] + 1 ELSE held[a]
         /\ owner' = IF Waits(q, Restore) /\ ~Waits(waiters', Restore)
                       THEN Restore ELSE NoActor
         /\ Waits(q, Restore) /\ ~Waits(waiters', Restore) =>
              /\ \A a \in Actors : held[a] = 0
              /\ \A a \in Actors : a # Restore /\ Waits(q, a) => Waits(waiters', a)
<1> DEFINE k == Grantable(q, held)
           granted(a, mode) == \E i \in 1..k : q[i] = [who |-> a, mode |-> mode]
<1>1. /\ k \in 0..Len(q)
      /\ \/ \A i \in 1..k : q[i].mode = "shared"
         \/ k = 1 /\ q[1].mode = "exclusive" /\ \A a \in Actors : held[a] = 0
  BY GrantableRange
<1>2. /\ waiters' = SubSeq(q, k + 1, Len(q))
      /\ shares' = [a \in Actors |->
                      IF granted(a, "shared") THEN held[a] + 1 ELSE held[a]]
      /\ owner' = IF \E a \in Actors : granted(a, "exclusive")
                    THEN q[1].who ELSE NoActor
  BY DEF Notify
<1> HIDE DEF k
<1>3. /\ GoodQueue(waiters')
      /\ \A a : Waits(waiters', a) <=> \E i \in (k + 1)..Len(q) : q[i].who = a
  BY <1>1, <1>2, SuffixQueue
<1>4. Len(q) \in Nat /\ k \in Nat /\ k <= Len(q)
  BY <1>1 DEF GoodQueue
<1>5. \A i \in 1..k : /\ i \in 1..Len(q)
                      /\ q[i].who \in Actors /\ q[i].mode \in Modes
                      /\ q[i] = [who |-> q[i].who, mode |-> q[i].mode]
                      /\ q[i].mode = "exclusive" <=> q[i].who = Restore
  <2> TAKE i \in 1..k
  <2>1. i \in 1..Len(q)
    BY <1>4
  <2>2. q[i] \in Requests /\ (q[i].mode = "exclusive" <=> q[i].who = Restore)
    BY <2>1 DEF GoodQueue
  <2> QED BY <2>1, <2>2 DEF Requests
<1>6. \A a : Waits(q, a) /\ ~Waits(waiters', a) <=> \E i \in 1..k : q[i].who = a
  <2> SUFFICES ASSUME NEW a
               PROVE  Waits(q, a) /\ ~Waits(waiters', a) <=> \E i \in 1..k : q[i].who = a
    OBVIOUS
  <2>1. ASSUME Waits(q, a), ~Waits(waiters', a) PROVE \E i \in 1..k : q[i].who = a
    <3>1. PICK i \in 1..Len(q) : q[i].who = a
      BY <2>1 DEF Waits
    <3>2. i \notin (k + 1)..Len(q)
      BY <1>3, <2>1, <3>1
    <3>3. i \in 1..k
      BY <1>4, <3>2
    <3> QED BY <3>1, <3>3
  <2>2. ASSUME NEW i \in 1..k, q[i].who = a PROVE Waits(q, a) /\ ~Waits(waiters', a)
    <3>1. Waits(q, a)
      BY <1>5, <2>2 DEF Waits
    <3>2. ASSUME Waits(waiters', a) PROVE FALSE
      <4>1. PICK j \in (k + 1)..Len(q) : q[j].who = a
        BY <1>3, <3>2
      <4>2. j \in 1..Len(q) /\ j # i /\ i \in 1..Len(q)
        BY <1>4
      <4> QED BY <2>2, <4>1, <4>2 DEF GoodQueue
    <3> QED BY <3>1, <3>2
  <2> QED BY <2>1, <2>2
<1>7. \A a \in Actors : granted(a, "shared")
                          <=> a # Restore /\ \E i \in 1..k : q[i].who = a
  <2> TAKE a \in Actors
  <2>1. ASSUME NEW i \in 1..k
        PROVE  q[i] = [who |-> a, mode |-> "shared"]
                 <=> a # Restore /\ q[i].who = a
    <3>1. /\ q[i].mode \in Modes
          /\ q[i] = [who |-> q[i].who, mode |-> q[i].mode]
          /\ q[i].mode = "exclusive" <=> q[i].who = Restore
      BY <1>5
    <3>2. q[i] = [who |-> a, mode |-> "shared"] => q[i].who = a /\ q[i].mode = "shared"
      OBVIOUS
    <3>3. q[i].who = a /\ q[i].mode = "shared" => q[i] = [who |-> a, mode |-> "shared"]
      BY <3>1, Zenon
    <3> QED BY <3>1, <3>2, <3>3 DEF Modes
  <2> QED BY <2>1
<1>8. \A a \in Actors : granted(a, "exclusive")
                          <=> a = Restore /\ \E i \in 1..k : q[i].who = a
  <2> TAKE a \in Actors
  <2>1. ASSUME NEW i \in 1..k
        PROVE  q[i] = [who |-> a, mode |-> "exclusive"]
                 <=> a = Restore /\ q[i].who = a
    <3>1. /\ q[i].mode \in Modes
          /\ q[i] = [who |-> q[i].who, mode |-> q[i].mode]
          /\ q[i].mode = "exclusive" <=> q[i].who = Restore
      BY <1>5
    <3>2. q[i] = [who |-> a, mode |-> "exclusive"] => q[i].who = a /\ q[i].mode = "exclusive"
      OBVIOUS
    <3>3. q[i].who = a /\ q[i].mode = "exclusive" => q[i] = [who |-> a, mode |-> "exclusive"]
      BY <3>1, Zenon
    <3> QED BY <3>1, <3>2, <3>3 DEF Modes
  <2> QED BY <2>1
<1>9. \A a \in Actors :
        shares'[a] = IF a # Restore /\ Waits(q, a) /\ ~Waits(waiters', a)
                       THEN held[a] + 1 ELSE held[a]
  BY <1>2, <1>6, <1>7
<1>10. shares' \in [Actors -> Nat]
  BY <1>2
<1>11. \A a : Waits(waiters', a) => Waits(q, a)
  <2> SUFFICES ASSUME NEW a, Waits(waiters', a) PROVE Waits(q, a)
    OBVIOUS
  <2>1. PICK i \in (k + 1)..Len(q) : q[i].who = a
    BY <1>3
  <2>2. i \in 1..Len(q)
    BY <1>4
  <2> QED BY <2>1, <2>2 DEF Waits
<1>12. ASSUME Waits(q, Restore), ~Waits(waiters', Restore)
       PROVE  /\ k = 1 /\ q[1].who = Restore
              /\ \A a \in Actors : held[a] = 0
  <2>1. PICK i \in 1..k : q[i].who = Restore
    BY <1>6, <1>12
  <2>2. q[i].mode = "exclusive"
    BY <1>5, <2>1
  <2>3. k = 1 /\ \A a \in Actors : held[a] = 0
    BY <1>1, <2>2
  <2> QED BY <2>1, <2>3
<1>13. owner' = IF Waits(q, Restore) /\ ~Waits(waiters', Restore)
                  THEN Restore ELSE NoActor
  <2>1. CASE Waits(q, Restore) /\ ~Waits(waiters', Restore)
    <3>2. Restore \in Actors
      <4>1. PICK i \in 1..k : q[i].who = Restore
        BY <1>6, <2>1
      <4> QED BY <1>5, <4>1
    <3>1. granted(Restore, "exclusive")
      BY <1>6, <1>8, <2>1, <3>2
    <3>3. owner' = q[1].who
      BY <1>2, <3>1, <3>2
    <3> QED BY <1>12, <2>1, <3>3
  <2>2. CASE ~(Waits(q, Restore) /\ ~Waits(waiters', Restore))
    BY <1>2, <1>6, <1>8, <2>2
  <2> QED BY <2>1, <2>2
<1>14. ASSUME Waits(q, Restore), ~Waits(waiters', Restore),
              NEW a \in Actors, a # Restore, Waits(q, a)
       PROVE  Waits(waiters', a)
  BY <1>6, <1>12, <1>14
<1> QED BY <1>3, <1>9, <1>10, <1>11, <1>12, <1>13, <1>14

\* A new request is the last of a queue in which its actor does not wait yet.
LEMMA AppendQueue ==
  ASSUME NEW q, GoodQueue(q), NEW a \in Actors, ~Waits(q, a),
         NEW mode \in Modes, mode = "exclusive" <=> a = Restore
  PROVE  /\ GoodQueue(Append(q, [who |-> a, mode |-> mode]))
         /\ \A b : Waits(Append(q, [who |-> a, mode |-> mode]), b)
                     <=> Waits(q, b) \/ b = a
<1> DEFINE e == [who |-> a, mode |-> mode]
           s == Append(q, e)
<1>1. e \in Requests /\ e.who = a /\ e.mode = mode
  BY DEF Requests
<1> HIDE DEF e
<1>2. Len(q) \in Nat /\ q \in Seq(Requests)
  BY DEF GoodQueue
<1>3. /\ s \in Seq(Requests) /\ Len(s) = Len(q) + 1
      /\ \A i \in 1..Len(q) : s[i] = q[i]
      /\ s[Len(q) + 1] = e
  BY <1>1, <1>2, AppendProperties
<1> HIDE DEF s
<1>4. \A i \in 1..Len(s) : i \in 1..Len(q) \/ i = Len(q) + 1
  BY <1>2, <1>3
<1>5. \A i \in 1..Len(q) : i \in 1..Len(s) /\ q[i].who # a
  BY <1>2, <1>3 DEF Waits
<1>6. Len(q) + 1 \in 1..Len(s)
  BY <1>2, <1>3
<1>7. \A i \in 1..Len(s) : s[i].mode = "exclusive" <=> s[i].who = Restore
  BY <1>1, <1>3, <1>4 DEF GoodQueue
<1>8. ASSUME NEW i \in 1..Len(s), NEW j \in 1..Len(s), s[i].who = s[j].who
      PROVE  i = j
  <2>1. CASE i \in 1..Len(q) /\ j \in 1..Len(q)
    BY <1>3, <1>8, <2>1 DEF GoodQueue
  <2>2. CASE i = Len(q) + 1 \/ j = Len(q) + 1
    BY <1>1, <1>3, <1>4, <1>5, <1>8, <2>2
  <2> QED BY <1>4, <2>1, <2>2
<1>9. GoodQueue(s)
  BY <1>3, <1>7, <1>8 DEF GoodQueue
<1>10. ASSUME NEW b PROVE Waits(s, b) <=> Waits(q, b) \/ b = a
  <2>1. ASSUME Waits(s, b) PROVE Waits(q, b) \/ b = a
    BY <1>1, <1>3, <1>4, <2>1 DEF Waits
  <2>2. ASSUME Waits(q, b) PROVE Waits(s, b)
    BY <1>3, <1>5, <2>2 DEF Waits
  <2>3. Waits(s, a)
    BY <1>1, <1>3, <1>6 DEF Waits
  <2> QED BY <2>1, <2>2, <2>3
<1> QED BY <1>9, <1>10 DEF s, e

\* A waiter that leaves takes nobody with it.
LEMMA RemoveQueue ==
  ASSUME NEW q, GoodQueue(q), NEW k \in 1..Len(q)
  PROVE  /\ GoodQueue(RemoveAt(q, k))
         /\ \A b : Waits(RemoveAt(q, k), b) <=> Waits(q, b) /\ b # q[k].who
<1> DEFINE n == Len(q)
           s1 == SubSeq(q, 1, k - 1)
           s2 == SubSeq(q, k + 1, n)
           s == s1 \o s2
           old(i) == IF i <= k - 1 THEN i ELSE i + 1
<1>1. n \in Nat /\ k \in Nat /\ k >= 1 /\ k <= n /\ q \in Seq(Requests)
  BY DEF GoodQueue
<1> HIDE DEF n
<1>2. \A i \in 1..n : q[i] \in Requests
  BY DEF n, GoodQueue
<1>3. /\ s1 \in Seq(Requests) /\ Len(s1) = k - 1
      /\ \A i \in 1..(k - 1) : s1[i] = q[i]
  <2>1. 1 \in Int /\ k - 1 \in Int /\ \A i \in 1..(k - 1) : q[i] \in Requests
    BY <1>1, <1>2
  <2>2. /\ s1 \in Seq(Requests)
        /\ Len(s1) = IF 1 <= k - 1 THEN (k - 1) - 1 + 1 ELSE 0
        /\ \A i \in 1..((k - 1) - 1 + 1) : s1[i] = q[1 + i - 1]
    BY <2>1, SubSeqProperties
  <2> HIDE DEF s1
  <2>3. (k - 1) - 1 + 1 = k - 1 /\ \A i \in 1..(k - 1) : 1 + i - 1 = i
    BY <1>1
  <2> QED BY <1>1, <2>2, <2>3
<1>4. /\ s2 \in Seq(Requests) /\ Len(s2) = n - k
      /\ \A i \in 1..(n - k) : s2[i] = q[k + i]
  <2>1. k + 1 \in Int /\ n \in Int /\ \A i \in (k + 1)..n : q[i] \in Requests
    BY <1>1, <1>2
  <2>2. /\ s2 \in Seq(Requests)
        /\ Len(s2) = IF k + 1 <= n THEN n - (k + 1) + 1 ELSE 0
        /\ \A i \in 1..(n - (k + 1) + 1) : s2[i] = q[(k + 1) + i - 1]
    BY <2>1, SubSeqProperties
  <2> HIDE DEF s2
  <2>3. n - (k + 1) + 1 = n - k /\ \A i \in 1..(n - k) : (k + 1) + i - 1 = k + i
    BY <1>1
  <2> QED BY <1>1, <2>2, <2>3
<1> HIDE DEF s1, s2
<1>5. /\ s \in Seq(Requests) /\ Len(s) = n - 1
      /\ \A i \in 1..(n - 1) : s[i] = IF i <= k - 1 THEN s1[i] ELSE s2[i - (k - 1)]
  <2>1. Len(s1) + Len(s2) = n - 1
    BY <1>1, <1>3, <1>4
  <2>2. /\ s1 \o s2 \in Seq(Requests)
        /\ Len(s1 \o s2) = Len(s1) + Len(s2)
        /\ \A i \in 1..(Len(s1) + Len(s2)) :
             (s1 \o s2)[i] = IF i <= Len(s1) THEN s1[i] ELSE s2[i - Len(s1)]
    BY <1>3, <1>4, ConcatProperties
  <2> QED BY <1>3, <2>1, <2>2
<1> HIDE DEF s
<1>6. ASSUME NEW i \in 1..Len(s)
      PROVE  old(i) \in 1..n /\ old(i) # k /\ s[i] = q[old(i)]
  <2>1. i \in 1..(n - 1)
    BY <1>5
  <2>2. CASE i <= k - 1
    BY <1>1, <1>3, <1>5, <2>1, <2>2
  <2>3. CASE ~(i <= k - 1)
    <3>1. i - (k - 1) \in 1..(n - k) /\ k + (i - (k - 1)) = i + 1
      BY <1>1, <2>1, <2>3
    <3>2. s[i] = q[i + 1]
      BY <1>4, <1>5, <2>1, <2>3, <3>1
    <3> QED BY <1>1, <2>1, <2>3, <3>2
  <2> QED BY <2>2, <2>3
<1>7. ASSUME NEW j \in 1..n, j # k
      PROVE  \E i \in 1..Len(s) : old(i) = j
  <2>1. CASE j <= k - 1
    <3>1. j \in 1..Len(s) /\ old(j) = j
      BY <1>1, <1>5, <2>1
    <3> QED BY <3>1
  <2>2. CASE ~(j <= k - 1)
    <3>1. j - 1 \in 1..Len(s) /\ old(j - 1) = j
      BY <1>1, <1>5, <1>7, <2>2
    <3> QED BY <3>1
  <2> QED BY <2>1, <2>2
<1>8. \A i, j \in 1..Len(s) : old(i) = old(j) => i = j
  BY <1>1, <1>5
<1> HIDE DEF old
<1>9. GoodQueue(s)
  <2>1. \A i \in 1..Len(s) : s[i].mode = "exclusive" <=> s[i].who = Restore
    BY <1>6 DEF GoodQueue, n
  <2>2. ASSUME NEW i \in 1..Len(s), NEW j \in 1..Len(s), s[i].who = s[j].who
        PROVE  i = j
    <3>1. q[old(i)].who = q[old(j)].who /\ old(i) \in 1..n /\ old(j) \in 1..n
      BY <1>6, <2>2
    <3>2. old(i) = old(j)
      BY <3>1 DEF GoodQueue, n
    <3> QED BY <1>8, <3>2
  <2> QED BY <1>5, <2>1, <2>2 DEF GoodQueue
<1>10. ASSUME NEW b PROVE Waits(s, b) <=> Waits(q, b) /\ b # q[k].who
  <2>1. ASSUME Waits(s, b) PROVE Waits(q, b) /\ b # q[k].who
    <3>1. PICK i \in 1..Len(s) : s[i].who = b
      BY <2>1 DEF Waits
    <3>2. old(i) \in 1..n /\ old(i) # k /\ q[old(i)].who = b
      BY <1>6, <3>1
    <3>3. k \in 1..n
      BY <1>1
    <3> QED BY <3>2, <3>3 DEF Waits, GoodQueue, n
  <2>2. ASSUME Waits(q, b), b # q[k].who PROVE Waits(s, b)
    <3>1. PICK j \in 1..n : q[j].who = b
      BY <2>2 DEF Waits, n
    <3>2. PICK i \in 1..Len(s) : old(i) = j
      BY <1>7, <2>2, <3>1
    <3> QED BY <1>6, <3>1, <3>2 DEF Waits
  <2> QED BY <2>1, <2>2
<1>11. RemoveAt(q, k) = s
  BY DEF RemoveAt, s, s1, s2, n
<1> QED BY <1>9, <1>10, <1>11

-----------------------------------------------------------------------------
(* What the steps do to the content lock                                   *)

\* The roles are disjoint: handlers, sessions, producers and builders.
LEMMA ActorSets ==
  /\ Translate \in Actors /\ Restore \in Actors /\ Translate # Restore
  /\ Translate \in Producers /\ Restore \in Producers
  /\ \A p \in Producers : p \in {Translate, Restore} /\ p \notin Editors /\ p \notin Builders
  /\ \A h \in Handlers : h \in Editors /\ h \in Actors /\ h \notin Sessions
                         /\ h \notin Producers /\ h \notin Builders
                         /\ h # Restore /\ h # Translate
  /\ \A s \in Sessions : s \in Editors /\ s \in Actors /\ s \notin Handlers
                         /\ s \notin Producers /\ s \notin Builders
                         /\ s # Restore /\ s # Translate
  /\ \A b \in Builders : b \in Actors /\ b \notin Editors /\ b \notin Producers
                         /\ b \notin Handlers /\ b \notin Sessions
                         /\ b # Restore /\ b # Translate
  /\ \A e \in Editors : e \in Handlers \/ e \in Sessions
  /\ \A e \in Editors : e \in Actors
  /\ NoActor # Restore /\ NoProducer # Restore /\ NoProducer # Translate
BY RWGateAssumption, ContentGateAssumption, ContentAdmissionAssumption

\* A step that leaves the lock alone moves an actor between places that go
\* with the same shares.
LEMMA LockUntouched ==
  ASSUME Queue, Locks, pc \in [Actors -> Places],
         NEW a \in Actors, NEW place \in Places, Goto(a, place),
         UNCHANGED contentVars, ~Waits(waiters, a),
         Held(a, place) = Held(a, pc[a]),
         a = Restore => (pc[a] \in {"locking", "applied"}
                           <=> place \in {"locking", "applied"})
  PROVE  Queue' /\ Locks'
<1>1. waiters' = waiters /\ shares' = shares /\ owner' = owner
  BY DEF contentVars
<1>2. /\ pc'[a] = place
      /\ \A b \in Actors : b # a => pc'[b] = pc[b]
  BY DEF Goto
<1>3. Queue'
  BY <1>1, <1>2 DEF Queue
<1>4. \A b \in Actors : Due(b)' = Due(b)
  BY <1>1, <1>2 DEF Due
<1>5. HoldsAll' <=> HoldsAll
  BY <1>1, <1>2, ActorSets DEF HoldsAll
<1> QED BY <1>1, <1>3, <1>4, <1>5 DEF Locks

\* A request is granted when it fits and nobody waits, and queued otherwise.
LEMMA LockRequested ==
  ASSUME Queue, Locks, pc \in [Actors -> Places],
         NEW a \in Actors, NEW place \in {"locking", "nesting"}, Goto(a, place),
         NEW mode \in Modes, mode = "exclusive" <=> a = Restore,
         LockContent(a, mode), pc[a] \notin {"locking", "nesting"},
         a # Restore => Held(a, place) = Held(a, pc[a]) + 1,
         a = Restore => pc[a] \notin {"locked", "written", "applied"} /\ place = "locking"
  PROVE  Queue' /\ Locks'
<1> DEFINE free == waiters = <<>> /\ Fits(mode)
<1>1. ~Waits(waiters, a)
  BY DEF Queue
<1>2. /\ pc'[a] = place
      /\ \A b \in Actors : b # a => pc'[b] = pc[b]
  BY DEF Goto
<1>3. GoodQueue(waiters) /\ \A b \in Actors : Waits(waiters, b) => pc[b] \in {"locking", "nesting"}
  BY DEF Queue
<1>4. /\ shares \in [Actors -> Nat]
      /\ \A b \in Actors : shares[b] = Due(b)
      /\ owner = IF HoldsAll THEN Restore ELSE NoActor
      /\ HoldsAll => \A b \in Actors : shares[b] = 0
  BY DEF Locks
<1>5. shares[a] = Held(a, pc[a]) /\ shares[a] \in Nat
  BY <1>1, <1>4 DEF Due
<1>6. CASE free
  <2>1. waiters' = waiters /\ (\A b : ~Waits(waiters, b)) /\ owner = NoActor /\ ~HoldsAll
    BY <1>4, <1>6, ActorSets DEF LockContent, Waits, Fits
  <2>2. Queue'
    BY <2>1, <1>3 DEF Queue
  <2>3. CASE a # Restore
    <3>1. owner' = owner /\ shares' = [shares EXCEPT ![a] = @ + 1]
      BY <1>6, <2>3 DEF LockContent, Modes
    <3>2. shares' \in [Actors -> Nat]
      BY <1>4, <3>1
    <3>3. ASSUME NEW b \in Actors PROVE shares'[b] = Due(b)'
      <4>1. CASE b = a
        BY <1>2, <1>4, <1>5, <2>1, <2>3, <3>1, <4>1 DEF Due
      <4>2. CASE b # a
        BY <1>2, <1>4, <2>1, <3>1, <4>2 DEF Due
      <4> QED BY <4>1, <4>2
    <3>4. ~HoldsAll'
      BY <1>2, <2>1, <2>3, ActorSets DEF HoldsAll
    <3> QED BY <2>1, <2>2, <3>1, <3>2, <3>3, <3>4 DEF Locks
  <2>4. CASE a = Restore
    <3>1. owner' = a /\ shares' = shares /\ \A b \in Actors : shares[b] = 0
      BY <1>6, <2>4 DEF LockContent, Fits
    <3>2. ASSUME NEW b \in Actors PROVE shares'[b] = Due(b)'
      <4>1. CASE b = a
        BY <1>2, <2>1, <2>4, <3>1, <4>1 DEF Due, Held
      <4>2. CASE b # a
        BY <1>2, <1>4, <2>1, <3>1, <4>2 DEF Due
      <4> QED BY <4>1, <4>2
    <3>3. HoldsAll'
      BY <1>2, <2>1, <2>4 DEF HoldsAll
    <3> QED BY <1>4, <2>1, <2>2, <2>4, <3>1, <3>2, <3>3 DEF Locks
  <2> QED BY <2>3, <2>4
<1>7. CASE ~free
  <2>1. /\ waiters' = Append(waiters, [who |-> a, mode |-> mode])
        /\ shares' = shares /\ owner' = owner
    BY <1>7 DEF LockContent
  <2>2. /\ GoodQueue(waiters')
        /\ \A b : Waits(waiters', b) <=> Waits(waiters, b) \/ b = a
    BY <1>1, <1>3, <2>1, AppendQueue
  <2>3. Queue'
    BY <1>2, <1>3, <2>2 DEF Queue
  <2>4. ASSUME NEW b \in Actors PROVE Due(b)' = Due(b)
    <3>1. CASE b # a
      BY <1>2, <2>2, <3>1 DEF Due
    <3>2. CASE b = a /\ a # Restore
      BY <1>1, <1>2, <1>5, <2>2, <3>2 DEF Due
    <3>3. CASE b = a /\ a = Restore
      BY <1>1, <1>2, <3>3 DEF Due, Held
    <3> QED BY <3>1, <3>2, <3>3
  <2>5. HoldsAll' <=> HoldsAll
    BY <1>2, <2>2, ActorSets DEF HoldsAll
  <2> QED BY <1>4, <2>1, <2>3, <2>4, <2>5 DEF Locks
<1> QED BY <1>6, <1>7

\* Requests are served, after a release or the retreat of the first waiter,
\* while nobody holds the whole lock: q is the queue without a, held what the
\* others hold and what a keeps.
LEMMA LockServed ==
  ASSUME Queue, Locks, RolePlaces,
         NEW a \in Actors, NEW place \in Places, Goto(a, place),
         place \notin {"locking", "nesting", "applied"},
         NEW q, GoodQueue(q), ~Waits(q, a),
         \A b \in Actors : b # a => (Waits(q, b) <=> Waits(waiters, b)),
         NEW held \in [Actors -> Nat], held[a] = Held(a, place),
         \A b \in Actors : b # a => held[b] = shares[b],
         a # Restore => ~HoldsAll,
         Notify(q, held)
  PROVE  Queue' /\ Locks'
<1>1. /\ pc'[a] = place
      /\ \A b \in Actors : b # a => pc'[b] = pc[b]
  BY DEF Goto, RolePlaces
<1>2. GoodQueue(waiters) /\ \A b \in Actors : Waits(waiters, b) => pc[b] \in {"locking", "nesting"}
  BY DEF Queue
<1>3. \A b \in Actors : shares[b] = Due(b)
  BY DEF Locks
<1>4. /\ GoodQueue(waiters')
      /\ \A b : Waits(waiters', b) => Waits(q, b)
      /\ shares' \in [Actors -> Nat]
      /\ \A b \in Actors :
           shares'[b] = IF b # Restore /\ Waits(q, b) /\ ~Waits(waiters', b)
                          THEN held[b] + 1 ELSE held[b]
      /\ owner' = IF Waits(q, Restore) /\ ~Waits(waiters', Restore)
                    THEN Restore ELSE NoActor
      /\ Waits(q, Restore) /\ ~Waits(waiters', Restore) =>
           /\ \A b \in Actors : held[b] = 0
           /\ \A b \in Actors : b # Restore /\ Waits(q, b) => Waits(waiters', b)
  BY NotifyServes
<1>5. Queue'
  BY <1>1, <1>2, <1>4 DEF Queue
<1>6. ASSUME NEW b \in Actors PROVE shares'[b] = Due(b)'
  <2>1. CASE b = a
    BY <1>1, <1>4, <2>1 DEF Due
  <2>2. CASE b # a
    <3>1. held[b] = Due(b) /\ pc'[b] = pc[b] /\ Held(b, pc[b]) \in Nat
      BY <1>1, <1>3, <2>2 DEF Held
    <3>2. CASE b = Restore
      BY <1>4, <3>1, <3>2 DEF Due
    <3>3. CASE b # Restore /\ Waits(waiters, b)
      <4>1. held[b] = Held(b, pc[b]) - 1
        BY <3>1, <3>3 DEF Due
      <4> QED BY <1>4, <2>2, <3>1, <3>3, <4>1 DEF Due
    <3>4. CASE b # Restore /\ ~Waits(waiters, b)
      BY <1>4, <2>2, <3>1, <3>4 DEF Due
    <3> QED BY <3>2, <3>3, <3>4
  <2> QED BY <2>1, <2>2
<1>7. HoldsAll' <=> Waits(q, Restore) /\ ~Waits(waiters', Restore)
  <2>1. CASE a = Restore
    BY <1>1, <2>1, ActorSets DEF HoldsAll
  <2>2. CASE a # Restore
    <3>1. pc'[Restore] = pc[Restore] /\ (Waits(q, Restore) <=> Waits(waiters, Restore))
      BY <1>1, <2>2, ActorSets
    <3>2. Waits(waiters, Restore) => pc[Restore] = "locking"
      BY <1>2, ActorSets DEF RolePlaces
    <3> QED BY <2>2, <3>1, <3>2, <1>4 DEF HoldsAll
  <2> QED BY <2>1, <2>2
<1>8. HoldsAll' => \A b \in Actors : shares'[b] = 0
  BY <1>4, <1>7
<1> QED BY <1>4, <1>5, <1>6, <1>7, <1>8 DEF Locks

\* A share comes back.
LEMMA ShareReturned ==
  ASSUME Queue, Locks, RolePlaces,
         NEW a \in Actors, a # Restore, NEW place \in Places, Goto(a, place),
         place \notin {"locking", "nesting", "applied"},
         ~Waits(waiters, a), Held(a, pc[a]) = Held(a, place) + 1,
         UnlockShared(a)
  PROVE  Queue' /\ Locks'
<1> DEFINE held == [shares EXCEPT ![a] = @ - 1]
<1>1. shares \in [Actors -> Nat] /\ shares[a] = Held(a, pc[a]) /\ GoodQueue(waiters)
  BY DEF Locks, Due, Queue
<1>2. Held(a, place) \in Nat
  BY DEF Held
<1>3. shares[a] - 1 = Held(a, place)
  BY <1>1, <1>2
<1>4. held \in [Actors -> Nat] /\ held[a] = Held(a, place)
  BY <1>1, <1>2, <1>3
<1>5. \A b \in Actors : b # a => held[b] = shares[b]
  BY <1>1
<1>6. ~HoldsAll
  BY <1>1, <1>2, <1>3 DEF Locks, UnlockShared
<1>7. Notify(waiters, held)
  BY DEF UnlockShared
<1> HIDE DEF held
<1> QED BY <1>1, <1>4, <1>5, <1>6, <1>7, LockServed

\* A waiter gives up.
LEMMA WaitAbandoned ==
  ASSUME Queue, Locks, RolePlaces,
         NEW a \in Actors, NEW place \in {"idle", "leaving"}, Goto(a, place),
         pc[a] = "locking", AbandonWait(a)
  PROVE  Queue' /\ Locks'
<1>1. GoodQueue(waiters) /\ DOMAIN waiters = 1..Len(waiters)
  BY DEF Queue, GoodQueue
<1>2. PICK i \in 1..Len(waiters) :
        /\ waiters[i].who = a
        /\ IF i = 1 /\ owner = NoActor
             THEN Notify(RemoveAt(waiters, i), shares)
             ELSE waiters' = RemoveAt(waiters, i) /\ UNCHANGED <<shares, owner>>
  BY <1>1 DEF AbandonWait
<1> DEFINE rest == RemoveAt(waiters, i)
<1>3. /\ GoodQueue(rest)
      /\ \A b : Waits(rest, b) <=> Waits(waiters, b) /\ b # a
  BY <1>1, <1>2, RemoveQueue
<1> HIDE DEF rest
<1>4. Waits(waiters, a)
  BY <1>2 DEF Waits
<1>5. shares \in [Actors -> Nat] /\ shares[a] = 0 /\ Held(a, place) = 0
  BY <1>4 DEF Locks, Due, Held
<1>6. place \in Places /\ place \notin {"locking", "nesting", "applied"}
  BY DEF Places
<1>7. CASE i = 1 /\ owner = NoActor
  <2>1. Notify(rest, shares)
    BY <1>2, <1>7 DEF rest
  <2>2. ~HoldsAll
    BY <1>7, ActorSets DEF Locks
  <2> QED BY <1>3, <1>5, <1>6, <2>1, <2>2, LockServed
<1>8. CASE ~(i = 1 /\ owner = NoActor)
  <2>1. waiters' = rest /\ shares' = shares /\ owner' = owner
    BY <1>2, <1>8 DEF rest
  <2>2. /\ pc'[a] = place
        /\ \A b \in Actors : b # a => pc'[b] = pc[b]
    BY DEF Goto, RolePlaces
  <2>3. Queue'
    BY <1>3, <2>1, <2>2 DEF Queue
  <2>4. ASSUME NEW b \in Actors PROVE shares'[b] = Due(b)'
    <3>1. CASE b = a
      BY <1>3, <1>5, <2>1, <2>2, <3>1 DEF Due
    <3>2. CASE b # a
      BY <1>3, <2>1, <2>2, <3>2 DEF Due, Locks
    <3> QED BY <3>1, <3>2
  <2>5. HoldsAll' <=> HoldsAll
    BY <1>3, <1>4, <2>1, <2>2, ActorSets DEF HoldsAll
  <2> QED BY <2>1, <2>3, <2>4, <2>5 DEF Locks
<1> QED BY <1>7, <1>8

-----------------------------------------------------------------------------
(* Steps between the gate's doors                                          *)

\* A place for an actor of a's kind.
Suits(a, place) ==
  /\ a \in Handlers => place \notin {"connected", "claiming", "entered", "applied"}
  /\ a \in Sessions => place \in {"idle", "connected"}
  /\ a \in Builders => place \in {"idle", "locking", "locked"}
  /\ a = Translate => place \in {"idle", "claiming", "entered", "locking", "locked", "leaving"}
  /\ a = Restore => place \in {"idle", "claiming", "entered", "locking", "applied", "leaving"}

\* One actor moves to a place of its role, the others stay.
LEMMA PlacesSuit ==
  ASSUME RolePlaces, NEW a \in Actors, NEW place \in Places, Goto(a, place),
         Suits(a, place)
  PROVE  /\ RolePlaces'
         /\ pc'[a] = place
         /\ \A b \in Actors : b # a => pc'[b] = pc[b]
<1>1. /\ pc' \in [Actors -> Places]
      /\ pc'[a] = place
      /\ \A b \in Actors : b # a => pc'[b] = pc[b]
  BY DEF RolePlaces, Goto
<1>2. \A h \in Handlers : pc'[h] \notin {"connected", "claiming", "entered", "applied"}
  BY <1>1, ActorSets DEF RolePlaces, Suits
<1>3. \A s \in Sessions : pc'[s] \in {"idle", "connected"}
  BY <1>1, ActorSets DEF RolePlaces, Suits
<1>4. \A b \in Builders : pc'[b] \in {"idle", "locking", "locked"}
  BY <1>1, ActorSets DEF RolePlaces, Suits
<1>5. pc'[Translate] \in {"idle", "claiming", "entered", "locking", "locked", "leaving"}
  BY <1>1, ActorSets DEF RolePlaces, Suits
<1>6. pc'[Restore] \in {"idle", "claiming", "entered", "locking", "applied", "leaving"}
  BY <1>1, ActorSets DEF RolePlaces, Suits
<1> QED BY <1>1, <1>2, <1>3, <1>4, <1>5, <1>6 DEF RolePlaces

\* A step that does not touch the gate keeps what the gate and the counters
\* say, as long as nobody passes one of its doors or begins to read.
LEMMA InsideStep ==
  ASSUME RolePlaces, GateHolders, Counts, OneContent,
         NEW a \in Actors, NEW place \in Places, Goto(a, place), Suits(a, place),
         UNCHANGED <<gateVars, began, restores>>,
         a \notin Builders => pc[a] # "idle" /\ place # "idle",
         a \in Producers => pc[a] # "claiming" /\ place # "claiming",
         a = Restore /\ place \in {"entered", "locking"} => pc[a] \in {"entered", "locking"},
         a = Translate /\ place \in {"entered", "locking", "locked"}
           => pc[a] \in {"entered", "locking", "locked"},
         a \in Builders => place # "locked"
  PROVE  RolePlaces' /\ GateHolders' /\ Counts' /\ OneContent'
<1>1. /\ RolePlaces'
      /\ pc'[a] = place
      /\ \A b \in Actors : b # a => pc'[b] = pc[b]
  BY PlacesSuit
<1>2. /\ readers' = readers /\ claimant' = claimant /\ exclusive' = exclusive
      /\ began' = began /\ restores' = restores
  BY DEF gateVars
<1>3. GateHolders'
  <2>1. \A e \in Editors : e \in readers' <=> pc'[e] # "idle"
    BY <1>1, <1>2, ActorSets DEF GateHolders
  <2>2. \A p \in Producers : claimant' = p <=> pc'[p] # "idle"
    BY <1>1, <1>2, ActorSets DEF GateHolders
  <2>3. \A p \in Producers : pc'[p] \notin {"idle", "claiming"} => readers' = {}
    BY <1>1, <1>2, ActorSets DEF GateHolders
  <2> QED BY <1>2, <2>1, <2>2, <2>3 DEF GateHolders, GateTypeOK
<1>4. Counts'
  BY <1>1, <1>2, ActorSets DEF Counts
<1>5. \A b \in Actors : Underway(b)' => Underway(b)
  BY <1>1, <1>2, ActorSets DEF Underway
<1>6. OneContent'
  BY <1>2, <1>5 DEF OneContent
<1> QED BY <1>1, <1>3, <1>4, <1>6

\* Whoever is queued for the content lock is one of its waiters.
LEMMA QueuedWaits ==
  ASSUME Queue, NEW a
  PROVE  Queued(a) <=> Waits(waiters, a)
BY DEF Queue, GoodQueue, Queued, Waits

\* A handler, a translation run or a builder asks for its share.
LEMMA LockContentSharedInv ==
  ASSUME Inv, NEW a \in Handlers \cup {Translate} \cup Builders,
         NEW place \in {"idle", "admitted", "entered"},
         a \in Handlers => place = "admitted",
         a = Translate => place = "entered",
         a \in Builders => place = "idle",
         LockContentShared(a, place)
  PROVE  Inv'
<1>1. a \in Actors /\ a # Restore /\ "locking" \in Places /\ "shared" \in Modes
  BY ActorSets DEF Places, Modes
<1>2. pc[a] = place /\ Goto(a, "locking") /\ LockContent(a, "shared")
  BY DEF LockContentShared
<1>3. Suits(a, "locking")
  BY <1>1, ActorSets DEF Suits
<1>4. RolePlaces' /\ GateHolders' /\ Counts' /\ OneContent'
  <2>1. UNCHANGED <<gateVars, began, restores>>
    BY DEF LockContentShared
  <2> QED BY <1>1, <1>2, <1>3, <2>1, ActorSets, InsideStep DEF Inv
<1>5. Queue' /\ Locks'
  <2>1. Held(a, "locking") = Held(a, pc[a]) + 1
    BY <1>1, <1>2 DEF Held
  <2> QED BY <1>1, <1>2, <2>1, LockRequested DEF Inv, RolePlaces
<1> QED BY <1>4, <1>5 DEF Inv

\* The context of a queued caller is done before its turn comes.
LEMMA CancelLockInv ==
  ASSUME Inv, NEW a \in Handlers \cup {Translate, Restore} \cup Builders,
         NEW place \in {"idle", "leaving"},
         a \in Builders <=> place = "idle",
         CancelLock(a, place)
  PROVE  Inv'
<1>1. a \in Actors /\ place \in Places
  BY ActorSets DEF Places
<1>2. pc[a] = "locking" /\ Goto(a, place) /\ AbandonWait(a)
  BY DEF CancelLock
<1>3. Suits(a, place)
  BY <1>1, ActorSets DEF Suits
<1>4. RolePlaces' /\ GateHolders' /\ Counts' /\ OneContent'
  <2>1. UNCHANGED <<gateVars, began, restores>>
    BY DEF CancelLock
  <2> QED BY <1>1, <1>2, <1>3, <2>1, ActorSets, InsideStep DEF Inv
<1>5. Queue' /\ Locks'
  BY <1>1, <1>2, WaitAbandoned DEF Inv
<1> QED BY <1>4, <1>5 DEF Inv

\* A handler or a translation run has been given its share.
LEMMA LockedInv ==
  ASSUME Inv, NEW a \in Handlers \cup {Translate}, Locked(a)
  PROVE  Inv'
<1>1. a \in Actors /\ a # Restore /\ "locked" \in Places
  BY ActorSets DEF Places
<1>2. pc[a] = "locking" /\ Goto(a, "locked") /\ ~Waits(waiters, a)
  BY QueuedWaits DEF Locked, Inv
<1>3. Suits(a, "locked")
  BY <1>1, ActorSets DEF Suits
<1>4. RolePlaces' /\ GateHolders' /\ Counts' /\ OneContent'
  <2>1. UNCHANGED <<gateVars, began, restores>>
    BY DEF Locked
  <2> QED BY <1>1, <1>2, <1>3, <2>1, ActorSets, InsideStep DEF Inv
<1>5. Queue' /\ Locks'
  <2>1. UNCHANGED contentVars
    BY DEF Locked
  <2>2. Held(a, "locked") = Held(a, pc[a])
    BY <1>1, <1>2 DEF Held
  <2> QED BY <1>1, <1>2, <2>1, <2>2, LockUntouched DEF Inv, RolePlaces
<1> QED BY <1>4, <1>5 DEF Inv

\* A handler asks for the second share with which it publishes.
LEMMA RebuildAssetInv ==
  ASSUME Inv, NEW h \in Handlers, rebuildAsset(h)
  PROVE  Inv'
<1>1. h \in Actors /\ h # Restore /\ "nesting" \in Places /\ "shared" \in Modes
  BY ActorSets DEF Places, Modes
<1>2. pc[h] = "locked" /\ Goto(h, "nesting") /\ LockContent(h, "shared")
  BY DEF rebuildAsset
<1>3. Suits(h, "nesting")
  BY <1>1, ActorSets DEF Suits
<1>4. RolePlaces' /\ GateHolders' /\ Counts' /\ OneContent'
  <2>1. UNCHANGED <<gateVars, began, restores>>
    BY DEF rebuildAsset
  <2> QED BY <1>1, <1>2, <1>3, <2>1, ActorSets, InsideStep DEF Inv
<1>5. Queue' /\ Locks'
  <2>1. Held(h, "nesting") = Held(h, pc[h]) + 1
    BY <1>1, <1>2 DEF Held
  <2> QED BY <1>1, <1>2, <2>1, LockRequested DEF Inv, RolePlaces
<1> QED BY <1>4, <1>5 DEF Inv

\* The handler gives the second share back.
LEMMA AssetRebuiltInv ==
  ASSUME Inv, NEW h \in Handlers, AssetRebuilt(h)
  PROVE  Inv'
<1>1. h \in Actors /\ h # Restore /\ "written" \in Places
  BY ActorSets DEF Places
<1>2. pc[h] = "nesting" /\ Goto(h, "written") /\ ~Waits(waiters, h) /\ UnlockShared(h)
  BY QueuedWaits DEF AssetRebuilt, Inv
<1>3. Suits(h, "written")
  BY <1>1, ActorSets DEF Suits
<1>4. RolePlaces' /\ GateHolders' /\ Counts' /\ OneContent'
  <2>1. UNCHANGED <<gateVars, began, restores>>
    BY DEF AssetRebuilt
  <2> QED BY <1>1, <1>2, <1>3, <2>1, ActorSets, InsideStep DEF Inv
<1>5. Queue' /\ Locks'
  <2>1. Held(h, pc[h]) = Held(h, "written") + 1
    BY <1>1, <1>2 DEF Held
  <2> QED BY <1>1, <1>2, <2>1, ShareReturned DEF Inv
<1> QED BY <1>4, <1>5 DEF Inv

\* A share is given back by its holder.
LEMMA ReleaseContentInv ==
  ASSUME Inv, NEW a \in Handlers \cup {Translate} \cup Builders,
         NEW place \in {"idle", "leaving"},
         a \in Builders <=> place = "idle",
         ReleaseContent(a, place)
  PROVE  Inv'
<1>1. a \in Actors /\ a # Restore /\ place \in Places
  BY ActorSets DEF Places
<1>2. pc[a] \in {"locked", "written"} /\ Goto(a, place) /\ UnlockShared(a)
  BY DEF ReleaseContent
<1>3. Suits(a, place)
  BY <1>1, ActorSets DEF Suits
<1>4. RolePlaces' /\ GateHolders' /\ Counts' /\ OneContent'
  <2>1. UNCHANGED <<gateVars, began, restores>>
    BY DEF ReleaseContent
  <2> QED BY <1>1, <1>2, <1>3, <2>1, ActorSets, InsideStep DEF Inv
<1>5. Queue' /\ Locks'
  <2>1. Held(a, pc[a]) = Held(a, place) + 1
    BY <1>1, <1>2 DEF Held
  <2>2. ~Waits(waiters, a)
    BY <1>1, <1>2 DEF Inv, Queue
  <2> QED BY <1>1, <1>2, <2>1, <2>2, ShareReturned DEF Inv
<1> QED BY <1>4, <1>5 DEF Inv

\* A restore asks for the whole lock.
LEMMA LockContentExclusiveInv ==
  ASSUME Inv, LockContentExclusive
  PROVE  Inv'
<1>1. Restore \in Actors /\ "locking" \in Places /\ "exclusive" \in Modes
  BY ActorSets DEF Places, Modes
<1>2. pc[Restore] = "entered" /\ Goto(Restore, "locking") /\ LockContent(Restore, "exclusive")
  BY DEF LockContentExclusive
<1>3. Suits(Restore, "locking")
  BY <1>1, ActorSets DEF Suits
<1>4. RolePlaces' /\ GateHolders' /\ Counts' /\ OneContent'
  <2>1. UNCHANGED <<gateVars, began, restores>>
    BY DEF LockContentExclusive
  <2> QED BY <1>1, <1>2, <1>3, <2>1, ActorSets, InsideStep DEF Inv
<1>5. Queue' /\ Locks'
  BY <1>1, <1>2, LockRequested DEF Inv, RolePlaces
<1> QED BY <1>4, <1>5 DEF Inv

\* A restore replaces the content and gives the lock back.
LEMMA RestoreUnlockInv ==
  ASSUME Inv, RestoreUnlock
  PROVE  Inv'
<1>1. Restore \in Actors /\ "leaving" \in Places
  BY ActorSets DEF Places
<1>2. pc[Restore] = "applied" /\ Goto(Restore, "leaving") /\ Notify(waiters, shares)
  BY DEF RestoreUnlock, UnlockExclusive
<1>3. Suits(Restore, "leaving")
  BY <1>1, ActorSets DEF Suits
<1>4. RolePlaces' /\ GateHolders' /\ Counts' /\ OneContent'
  <2>1. UNCHANGED <<gateVars, began, restores>>
    BY DEF RestoreUnlock
  <2> QED BY <1>1, <1>2, <1>3, <2>1, ActorSets, InsideStep DEF Inv
<1>5. Queue' /\ Locks'
  <2>1. ~Waits(waiters, Restore) /\ GoodQueue(waiters)
    BY <1>1, <1>2 DEF Inv, Queue
  <2>2. shares \in [Actors -> Nat] /\ shares[Restore] = Held(Restore, "leaving")
    BY <1>1, <1>2 DEF Inv, Locks, HoldsAll, Held
  <2> QED BY <1>1, <1>2, <2>1, <2>2, LockServed DEF Inv
<1> QED BY <1>4, <1>5 DEF Inv

-----------------------------------------------------------------------------
(* The doors of the gate, the readers and the restore                      *)

\* An editor comes in, on the content of the moment.
LEMMA EditorEnters ==
  ASSUME Inv, NEW e \in Editors, NEW place \in {"admitted", "connected"},
         e \in Sessions <=> place = "connected",
         pc[e] = "idle", Admit(e), Goto(e, place), Starts(e),
         UNCHANGED <<contentVars, restores>>
  PROVE  Inv'
<1>1. e \in Actors /\ e # Restore /\ e # Translate /\ e \notin Producers /\ place \in Places
  BY ActorSets DEF Places
<1>2. Suits(e, place)
  BY <1>1, ActorSets DEF Suits
<1>3. /\ RolePlaces'
      /\ pc'[e] = place
      /\ \A b \in Actors : b # e => pc'[b] = pc[b]
  BY <1>1, <1>2, PlacesSuit DEF Inv
<1>4. /\ claimant = NoProducer /\ claimant' = NoProducer /\ exclusive' = exclusive
      /\ readers' = readers \cup {e} /\ restores' = restores
  BY DEF Admit
<1>5. \A p \in Producers : pc[p] = "idle" /\ pc'[p] = "idle"
  BY <1>1, <1>3, <1>4, ActorSets DEF Inv, GateHolders
<1>6. GateHolders'
  <2>1. \A f \in Editors : f \in readers' <=> pc'[f] # "idle"
    BY <1>3, <1>4, ActorSets DEF Inv, GateHolders
  <2>2. \A p \in Producers : claimant' = p <=> pc'[p] # "idle"
    BY <1>4, <1>5, ActorSets
  <2>3. GateTypeOK'
    BY <1>4 DEF Inv, GateHolders, GateTypeOK
  <2> QED BY <1>5, <2>1, <2>2, <2>3 DEF GateHolders
<1>7. Queue' /\ Locks'
  <2>1. ~Waits(waiters, e) /\ Held(e, place) = Held(e, pc[e])
    BY <1>1 DEF Inv, Queue, Held
  <2>2. UNCHANGED contentVars
    OBVIOUS
  <2> QED BY <1>1, <2>1, <2>2, LockUntouched DEF Inv, RolePlaces
<1>8. began' = [began EXCEPT ![e] = restores]
  BY DEF Starts
<1>9. Counts'
  BY <1>1, <1>3, <1>4, <1>8, ActorSets DEF Inv, Counts
<1>10. \A b \in Actors : b # e /\ Underway(b)' => Underway(b)
  BY <1>3, <1>4, <1>5, ActorSets DEF Underway
<1>11. OneContent'
  BY <1>4, <1>8, <1>10 DEF Inv, Counts, OneContent
<1> QED BY <1>3, <1>6, <1>7, <1>9, <1>11 DEF Inv

\* A handler or a socket leaves the gate, no share in hand.
LEMMA EditorLeaves ==
  ASSUME Inv, NEW e \in Editors, pc[e] \in {"leaving", "connected"},
         Leave(e), Goto(e, "idle"), UNCHANGED <<contentVars, began, restores>>
  PROVE  Inv'
<1>1. e \in Actors /\ e # Restore /\ e # Translate /\ e \notin Producers /\ "idle" \in Places
  BY ActorSets DEF Places
<1>2. Suits(e, "idle")
  BY <1>1, ActorSets DEF Suits
<1>3. /\ RolePlaces'
      /\ pc'[e] = "idle"
      /\ \A b \in Actors : b # e => pc'[b] = pc[b]
  BY <1>1, <1>2, PlacesSuit DEF Inv
<1>4. /\ claimant' = claimant /\ exclusive' = exclusive
      /\ readers' = readers \ {e} /\ restores' = restores /\ began' = began
  BY DEF Leave
<1>5. GateHolders'
  <2>1. \A f \in Editors : f \in readers' <=> pc'[f] # "idle"
    BY <1>3, <1>4, ActorSets DEF Inv, GateHolders
  <2>2. \A p \in Producers : pc'[p] = pc[p]
    BY <1>1, <1>3, ActorSets
  <2>3. GateTypeOK'
    BY <1>4 DEF Inv, GateHolders, GateTypeOK
  <2> QED BY <1>4, <2>1, <2>2, <2>3 DEF Inv, GateHolders
<1>6. Queue' /\ Locks'
  <2>1. ~Waits(waiters, e) /\ Held(e, "idle") = Held(e, pc[e])
    BY <1>1 DEF Inv, Queue, Held
  <2>2. UNCHANGED contentVars
    OBVIOUS
  <2> QED BY <1>1, <2>1, <2>2, LockUntouched DEF Inv, RolePlaces
<1>7. Counts'
  BY <1>1, <1>3, <1>4, ActorSets DEF Inv, Counts
<1>8. \A b \in Actors : Underway(b)' => Underway(b)
  BY <1>3, <1>4, ActorSets DEF Underway
<1>9. OneContent'
  BY <1>4, <1>8 DEF Inv, OneContent
<1> QED BY <1>3, <1>5, <1>6, <1>7, <1>9 DEF Inv

\* A translation run or a restore claims the gate.
LEMMA BeginProducerInv ==
  ASSUME Inv, NEW p \in Producers, BeginProducer(p)
  PROVE  Inv'
<1>1. p \in Actors /\ p \in {Translate, Restore} /\ "claiming" \in Places
  BY ActorSets DEF Places
<1>2. Suits(p, "claiming") /\ Goto(p, "claiming")
  BY <1>1, ActorSets DEF Suits, BeginProducer
<1>3. /\ RolePlaces'
      /\ pc'[p] = "claiming"
      /\ \A b \in Actors : b # p => pc'[b] = pc[b]
  BY <1>1, <1>2, PlacesSuit DEF Inv
<1>4. /\ claimant = NoProducer /\ claimant' = p /\ readers' = readers
      /\ exclusive' = exclusive /\ began' = began /\ restores' = restores
      /\ pc[p] = "idle" /\ (p = Restore => restores < MaxRestores)
  BY DEF BeginProducer, Claim
<1>5. \A o \in Producers : pc[o] = "idle" /\ o # NoProducer
  BY <1>4, RWGateAssumption DEF Inv, GateHolders
<1>6. GateHolders'
  <2>1. \A e \in Editors : e \in readers' <=> pc'[e] # "idle"
    BY <1>3, <1>4, ActorSets DEF Inv, GateHolders
  <2>2. \A o \in Producers : claimant' = o <=> pc'[o] # "idle"
    BY <1>1, <1>3, <1>4, <1>5, ActorSets
  <2>3. \A o \in Producers : pc'[o] \in {"idle", "claiming"}
    BY <1>1, <1>3, <1>5, ActorSets
  <2>4. GateTypeOK'
    BY <1>4 DEF Inv, GateHolders, GateTypeOK
  <2> QED BY <2>1, <2>2, <2>3, <2>4 DEF GateHolders
<1>7. Queue' /\ Locks'
  <2>1. ~Waits(waiters, p) /\ Held(p, "claiming") = Held(p, pc[p])
    BY <1>1, <1>4, ActorSets DEF Inv, Queue, Held
  <2>2. UNCHANGED contentVars
    BY DEF BeginProducer
  <2> QED BY <1>1, <1>2, <1>4, <2>1, <2>2, LockUntouched DEF Inv, RolePlaces
<1>8. Counts'
  BY <1>1, <1>3, <1>4, ActorSets DEF Inv, Counts
<1>9. \A b \in Actors : Underway(b)' => Underway(b)
  BY <1>1, <1>3, <1>4, ActorSets DEF Underway
<1>10. OneContent'
  BY <1>4, <1>9 DEF Inv, OneContent
<1> QED BY <1>3, <1>6, <1>7, <1>8, <1>10 DEF Inv

\* The producer enters once the last editor has left.
LEMMA EditorsLeftInv ==
  ASSUME Inv, NEW p \in Producers, EditorsLeft(p)
  PROVE  Inv'
<1>1. p \in Actors /\ p \in {Translate, Restore} /\ "entered" \in Places
  BY ActorSets DEF Places
<1>2. Suits(p, "entered") /\ Goto(p, "entered")
  BY <1>1, ActorSets DEF Suits, EditorsLeft
<1>3. /\ RolePlaces'
      /\ pc'[p] = "entered"
      /\ \A b \in Actors : b # p => pc'[b] = pc[b]
  BY <1>1, <1>2, PlacesSuit DEF Inv
<1>4. /\ claimant = p /\ claimant' = p /\ readers = {} /\ readers' = {}
      /\ exclusive' = TRUE /\ restores' = restores
      /\ pc[p] = "claiming"
      /\ began' = [began EXCEPT ![p] = restores]
  BY DEF EditorsLeft, Enter, Starts
<1>5. GateHolders'
  <2>1. \A e \in Editors : e \in readers' <=> pc'[e] # "idle"
    BY <1>1, <1>3, <1>4, ActorSets DEF Inv, GateHolders
  <2>2. \A o \in Producers : claimant' = o <=> pc'[o] # "idle"
    BY <1>1, <1>3, <1>4, ActorSets DEF Inv, GateHolders
  <2>3. GateTypeOK'
    BY <1>4 DEF Inv, GateHolders, GateTypeOK
  <2> QED BY <1>4, <2>1, <2>2, <2>3 DEF GateHolders
<1>6. Queue' /\ Locks'
  <2>1. ~Waits(waiters, p) /\ Held(p, "entered") = Held(p, pc[p])
    BY <1>1, <1>4, ActorSets DEF Inv, Queue, Held
  <2>2. UNCHANGED contentVars
    BY DEF EditorsLeft
  <2> QED BY <1>1, <1>2, <1>4, <2>1, <2>2, LockUntouched DEF Inv, RolePlaces
<1>7. Counts'
  BY <1>1, <1>3, <1>4, ActorSets DEF Inv, Counts
<1>8. \A b \in Actors : b # p /\ Underway(b)' => Underway(b)
  BY <1>3, <1>4, ActorSets DEF Underway
<1>9. OneContent'
  BY <1>1, <1>4, <1>8 DEF Inv, Counts, OneContent
<1> QED BY <1>3, <1>5, <1>6, <1>7, <1>9 DEF Inv

\* A producer gives its claim up, having done its work or not.
LEMMA ProducerLeaves ==
  ASSUME Inv, NEW p \in Producers, pc[p] \in {"claiming", "entered", "leaving"},
         Complete(p), Goto(p, "idle"), UNCHANGED <<contentVars, began, restores>>
  PROVE  Inv'
<1>1. p \in Actors /\ p \in {Translate, Restore} /\ "idle" \in Places
  BY ActorSets DEF Places
<1>2. Suits(p, "idle")
  BY <1>1, ActorSets DEF Suits
<1>3. /\ RolePlaces'
      /\ pc'[p] = "idle"
      /\ \A b \in Actors : b # p => pc'[b] = pc[b]
  BY <1>1, <1>2, PlacesSuit DEF Inv
<1>4. /\ claimant = p /\ claimant' = NoProducer /\ readers' = readers
      /\ exclusive' = FALSE /\ restores' = restores /\ began' = began
  BY DEF Complete
<1>5. \A o \in Producers : pc'[o] = "idle" /\ o # NoProducer
  BY <1>1, <1>3, <1>4, ActorSets, RWGateAssumption DEF Inv, GateHolders
<1>6. GateHolders'
  <2>1. \A e \in Editors : e \in readers' <=> pc'[e] # "idle"
    BY <1>1, <1>3, <1>4, ActorSets DEF Inv, GateHolders
  <2>2. GateTypeOK'
    BY <1>4 DEF Inv, GateHolders, GateTypeOK
  <2> QED BY <1>4, <1>5, <2>1, <2>2 DEF GateHolders
<1>7. Queue' /\ Locks'
  <2>1. ~Waits(waiters, p) /\ Held(p, "idle") = Held(p, pc[p])
    BY <1>1, ActorSets DEF Inv, Queue, Held
  <2>2. UNCHANGED contentVars
    OBVIOUS
  <2> QED BY <1>1, <2>1, <2>2, LockUntouched DEF Inv, RolePlaces
<1>8. Counts'
  BY <1>1, <1>3, <1>4, ActorSets DEF Inv, Counts
<1>9. \A b \in Actors : Underway(b)' => Underway(b)
  BY <1>1, <1>3, <1>4, ActorSets DEF Underway
<1>10. OneContent'
  BY <1>4, <1>9 DEF Inv, OneContent
<1> QED BY <1>3, <1>6, <1>7, <1>8, <1>10 DEF Inv

\* A builder holds its share and reads the content.
LEMMA BuilderReadsInv ==
  ASSUME Inv, NEW b \in Builders, BuilderReads(b)
  PROVE  Inv'
<1>1. b \in Actors /\ b # Restore /\ b # Translate /\ "locked" \in Places
  BY ActorSets DEF Places
<1>2. Suits(b, "locked") /\ Goto(b, "locked")
  BY <1>1, ActorSets DEF Suits, BuilderReads
<1>3. /\ RolePlaces'
      /\ pc'[b] = "locked"
      /\ \A a \in Actors : a # b => pc'[a] = pc[a]
  BY <1>1, <1>2, PlacesSuit DEF Inv
<1>4. /\ readers' = readers /\ claimant' = claimant /\ exclusive' = exclusive
      /\ restores' = restores /\ pc[b] = "locking"
      /\ began' = [began EXCEPT ![b] = restores]
  BY DEF BuilderReads, gateVars, Starts
<1>5. GateHolders'
  BY <1>1, <1>3, <1>4, ActorSets DEF Inv, GateHolders, GateTypeOK
<1>6. Queue' /\ Locks'
  <2>1. ~Waits(waiters, b) /\ Held(b, "locked") = Held(b, pc[b])
    BY <1>1, <1>4, QueuedWaits DEF Inv, BuilderReads, Held
  <2>2. UNCHANGED contentVars
    BY DEF BuilderReads
  <2> QED BY <1>1, <1>2, <2>1, <2>2, LockUntouched DEF Inv, RolePlaces
<1>7. Counts'
  BY <1>1, <1>3, <1>4, ActorSets DEF Inv, Counts
<1>8. \A a \in Actors : a # b /\ Underway(a)' => Underway(a)
  BY <1>3, <1>4, ActorSets DEF Underway
<1>9. OneContent'
  BY <1>1, <1>4, <1>8 DEF Inv, Counts, OneContent
<1> QED BY <1>3, <1>5, <1>6, <1>7, <1>9 DEF Inv

\* The content is replaced while nothing is under way: the gate is empty, the
\* other producer is idle, and with all shares back no builder reads.
LEMMA ApplyRestoreInv ==
  ASSUME Inv, applyRestoreCandidate
  PROVE  Inv'
<1>1. Restore \in Actors /\ "applied" \in Places
  BY ActorSets DEF Places
<1>2. Suits(Restore, "applied") /\ Goto(Restore, "applied")
  BY <1>1, ActorSets DEF Suits, applyRestoreCandidate
<1>3. /\ RolePlaces'
      /\ pc'[Restore] = "applied"
      /\ \A b \in Actors : b # Restore => pc'[b] = pc[b]
  BY <1>1, <1>2, PlacesSuit DEF Inv
<1>4. /\ readers' = readers /\ claimant' = claimant /\ exclusive' = exclusive
      /\ restores' \in {restores, restores + 1} /\ pc[Restore] = "locking"
      /\ began' = began /\ owner = Restore
  BY DEF applyRestoreCandidate, gateVars
<1>5. HoldsAll /\ \A a \in Actors : shares[a] = 0
  BY <1>4, ActorSets DEF Inv, Locks
<1>6. readers = {} /\ pc[Translate] = "idle"
  BY <1>4, ActorSets DEF Inv, GateHolders
<1>7. \A b \in Builders : pc[b] # "locked"
  <2> SUFFICES ASSUME NEW b \in Builders, pc[b] = "locked" PROVE FALSE
    OBVIOUS
  <2>1. b \in Actors /\ ~Waits(waiters, b) /\ shares[b] = Due(b)
    BY ActorSets DEF Inv, Queue, Locks
  <2>2. shares[b] = 1
    BY <2>1 DEF Due, Held
  <2> QED BY <1>5, <2>1, <2>2
<1>8. GateHolders'
  BY <1>1, <1>3, <1>4, ActorSets DEF Inv, GateHolders, GateTypeOK
<1>9. Queue' /\ Locks'
  <2>1. ~Waits(waiters, Restore) /\ Held(Restore, "applied") = Held(Restore, pc[Restore])
    BY <1>4, <1>5 DEF HoldsAll, Held
  <2>2. UNCHANGED contentVars
    BY DEF applyRestoreCandidate
  <2> QED BY <1>1, <1>2, <1>4, <2>1, <2>2, LockUntouched DEF Inv, RolePlaces
<1>10. Counts'
  <2>1. restores \in 0..MaxRestores /\ restores < MaxRestores /\ MaxRestores \in Nat
    BY <1>4, ContentAdmissionAssumption DEF Inv, Counts
  <2>2. restores' \in 0..MaxRestores
    BY <1>4, <2>1
  <2> QED BY <1>3, <1>4, <2>2 DEF Inv, Counts
<1>11. \A a \in Actors : ~Underway(a)'
  BY <1>3, <1>4, <1>6, <1>7, ActorSets DEF Underway
<1>12. OneContent'
  BY <1>11 DEF OneContent
<1> QED BY <1>3, <1>8, <1>9, <1>10, <1>12 DEF Inv

-----------------------------------------------------------------------------
(* The theorems                                                            *)

\* The process starts in a state of the invariant.
LEMMA InitInv ==
  ASSUME Init PROVE Inv
<1>1. /\ readers = {} /\ claimant = NoProducer /\ exclusive = FALSE
      /\ shares = [a \in Actors |-> 0] /\ owner = NoActor /\ waiters = <<>>
      /\ pc = [a \in Actors |-> "idle"] /\ began = [a \in Actors |-> 0] /\ restores = 0
  BY DEF Init, GateInit, ContentInit
<1>2. \A a \in Actors : pc[a] = "idle"
  BY <1>1
<1>3. RolePlaces
  BY <1>1, <1>2, ActorSets DEF RolePlaces, Places
<1>4. GateHolders
  BY <1>1, <1>2, ActorSets, RWGateAssumption, ContentAdmissionAssumption
  DEF GateHolders, GateTypeOK
<1>5. Len(waiters) = 0 /\ waiters \in Seq(Requests)
  BY <1>1
<1>6. GoodQueue(waiters) /\ \A a : ~Waits(waiters, a)
  BY <1>5 DEF GoodQueue, Waits
<1>7. Queue
  BY <1>6 DEF Queue
<1>8. ~HoldsAll /\ \A a \in Actors : Due(a) = 0
  BY <1>2, <1>6, ActorSets DEF HoldsAll, Due, Held
<1>9. Locks
  BY <1>1, <1>8 DEF Locks
<1>10. Counts
  BY <1>1, <1>2, ActorSets, ContentAdmissionAssumption DEF Counts
<1>11. OneContent
  BY <1>1 DEF OneContent
<1> QED BY <1>3, <1>4, <1>7, <1>9, <1>10, <1>11 DEF Inv

\* Every step of every role keeps the invariant.
LEMMA NextInv ==
  ASSUME Inv, [Next]_vars PROVE Inv'
<1>1. CASE UNCHANGED vars
  <2>1. /\ readers' = readers /\ claimant' = claimant /\ exclusive' = exclusive
        /\ shares' = shares /\ owner' = owner /\ waiters' = waiters
        /\ pc' = pc /\ began' = began /\ restores' = restores
    BY <1>1 DEF vars, gateVars, contentVars
  <2>2. HoldsAll' <=> HoldsAll
    BY <2>1 DEF HoldsAll
  <2>3. \A a : Due(a)' = Due(a) /\ (Underway(a)' <=> Underway(a))
    BY <2>1 DEF Due, Underway
  <2> QED BY <2>1, <2>2, <2>3
    DEF Inv, RolePlaces, GateHolders, GateTypeOK, Queue, Locks, Counts, OneContent
<1>2. ASSUME NEW h \in Handlers, HandlerNext(h) PROVE Inv'
  <2>1. CASE contentMutation(h)
    BY <2>1, ActorSets, EditorEnters DEF contentMutation
  <2>2. CASE CancelLock(h, "leaving")
    BY <2>2, ActorSets, CancelLockInv
  <2>3. CASE rebuildAsset(h)
    BY <2>3, RebuildAssetInv
  <2>4. CASE LockContentShared(h, "admitted")
    BY <2>4, ActorSets, LockContentSharedInv
  <2>5. CASE Locked(h)
    BY <2>5, LockedInv
  <2>6. CASE AssetRebuilt(h)
    BY <2>6, AssetRebuiltInv
  <2>7. CASE ReleaseContent(h, "leaving")
    BY <2>7, ActorSets, ReleaseContentInv
  <2>8. CASE ReleaseEditor(h)
    BY <2>8, ActorSets, EditorLeaves DEF ReleaseEditor
  <2> QED BY <1>2, <2>1, <2>2, <2>3, <2>4, <2>5, <2>6, <2>7, <2>8
    DEF HandlerNext, HandlerStep
<1>3. ASSUME NEW s \in Sessions, authorize(s) \/ CloseSession(s) \/ revalidateConnection(s)
      PROVE  Inv'
  <2>1. CASE authorize(s)
    BY <2>1, ActorSets, EditorEnters DEF authorize
  <2>2. CASE CloseSession(s)
    BY <2>2, ActorSets, EditorLeaves DEF CloseSession
  <2> QED BY <1>3, <2>1, <2>2 DEF revalidateConnection
<1>4. ASSUME NEW p \in Producers,
             BeginProducer(p) \/ ProducerFails(p) \/ EditorsLeft(p) \/ EndProducer(p)
      PROVE  Inv'
  <2>1. CASE BeginProducer(p)
    BY <2>1, BeginProducerInv
  <2>2. CASE ProducerFails(p)
    BY <2>2, ProducerLeaves DEF ProducerFails
  <2>3. CASE EditorsLeft(p)
    BY <2>3, EditorsLeftInv
  <2>4. CASE EndProducer(p)
    BY <2>4, ProducerLeaves DEF EndProducer
  <2> QED BY <1>4, <2>1, <2>2, <2>3, <2>4
<1>5. CASE TranslateNext
  <2>1. CASE CancelLock(Translate, "leaving")
    BY <2>1, ActorSets, CancelLockInv
  <2>2. CASE LockContentShared(Translate, "entered")
    BY <2>2, ActorSets, LockContentSharedInv
  <2>3. CASE Locked(Translate)
    BY <2>3, LockedInv
  <2>4. CASE ReleaseContent(Translate, "leaving")
    BY <2>4, ActorSets, ReleaseContentInv
  <2> QED BY <1>4, <1>5, <2>1, <2>2, <2>3, <2>4, ActorSets
    DEF TranslateNext, TranslateStep
<1>6. CASE RestoreNext
  <2>1. CASE CancelLock(Restore, "leaving")
    BY <2>1, ActorSets, CancelLockInv
  <2>2. CASE LockContentExclusive
    BY <2>2, LockContentExclusiveInv
  <2>3. CASE applyRestoreCandidate
    BY <2>3, ApplyRestoreInv
  <2>4. CASE RestoreUnlock
    BY <2>4, RestoreUnlockInv
  <2> QED BY <1>4, <1>6, <2>1, <2>2, <2>3, <2>4, ActorSets
    DEF RestoreNext, RestoreStep
<1>7. ASSUME NEW b \in Builders, BuilderNext(b) PROVE Inv'
  <2>1. CASE LockContentShared(b, "idle")
    BY <2>1, ActorSets, LockContentSharedInv
  <2>2. CASE CancelLock(b, "idle")
    BY <2>2, ActorSets, CancelLockInv
  <2>3. CASE BuilderReads(b)
    BY <2>3, BuilderReadsInv
  <2>4. CASE ReleaseContent(b, "idle")
    BY <2>4, ActorSets, ReleaseContentInv
  <2> QED BY <1>7, <2>1, <2>2, <2>3, <2>4 DEF BuilderNext, BuilderStep
<1> QED BY <1>1, <1>2, <1>3, <1>5, <1>6, <1>7 DEF Next

\* The gate, the content lock and the operations inside them agree: who holds
\* which shares follows from where every operation is, and the whole lock is
\* held by the restore or by nobody.
THEOREM ContentInvariant == Spec => []Inv
<1>1. Init => Inv
  BY InitInv
<1>2. Inv /\ [Next]_vars => Inv'
  BY NextInv
<1> QED BY <1>1, <1>2, PTL DEF Spec

\* Both locks and all counters keep their types; in particular nobody ever
\* holds more than two shares of store.go's semaphore.
THEOREM ContentTypes == Spec => []TypeOK
<1>1. Inv => TypeOK
  <2> SUFFICES ASSUME Inv PROVE TypeOK
    OBVIOUS
  <2>1. shares \in [Actors -> 0..2]
    <3>1. ASSUME NEW a \in Actors PROVE shares[a] \in 0..2
      <4>1. shares[a] = Due(a) /\ shares[a] \in Nat
        BY DEF Inv, Locks
      <4>2. Held(a, pc[a]) \in 0..2
        BY DEF Held
      <4> QED BY <4>1, <4>2 DEF Due
    <3> QED BY <3>1 DEF Inv, Locks
  <2>2. owner \in Actors \cup {NoActor}
    BY ActorSets DEF Inv, Locks
  <2>3. waiters \in Seq([who : Actors, mode : Modes])
    BY DEF Inv, Queue, GoodQueue, Requests
  <2> QED BY <2>1, <2>2, <2>3
    DEF Inv, TypeOK, ContentTypeOK, GateHolders, RolePlaces, Counts
<1> QED BY <1>1, ContentInvariant, PTL

\* No operation spans a restore: what an editor, a collaboration socket, a
\* translation run or a rebuild began on is the content the database holds.
THEOREM OneContentHolds == Spec => []OneContent
<1>1. Inv => OneContent
  BY DEF Inv
<1> QED BY <1>1, ContentInvariant, PTL

\* A handler that publishes its file under a second share never waits for it
\* behind the restore, so the nested LockContentShared of rebuildEventAsset
\* cannot deadlock with LockContentExclusive.
THEOREM NestedShareSafeHolds == Spec => []NestedShareSafe
<1>1. Inv => NestedShareSafe
  <2> SUFFICES ASSUME Inv, NEW h \in Handlers, pc[h] = "nesting"
               PROVE  /\ owner = NoActor
                      /\ \A i \in DOMAIN waiters : waiters[i].mode = "shared"
    BY DEF NestedShareSafe
  <2>1. h \in readers
    BY ActorSets DEF Inv, GateHolders
  <2>2. pc[Restore] \in {"idle", "claiming"}
    BY <2>1, ActorSets DEF Inv, GateHolders
  <2>3. ~HoldsAll /\ ~Waits(waiters, Restore)
    BY <2>2, ActorSets DEF Inv, HoldsAll, Queue
  <2>4. owner = NoActor
    BY <2>3 DEF Inv, Locks
  <2>5. ASSUME NEW i \in DOMAIN waiters PROVE waiters[i].mode = "shared"
    <3>1. i \in 1..Len(waiters) /\ waiters[i] \in Requests
      BY DEF Inv, Queue, GoodQueue
    <3>2. waiters[i].who # Restore
      BY <2>3, <3>1 DEF Waits
    <3>3. waiters[i].mode \in Modes
      BY <3>1 DEF Requests
    <3> QED BY <3>1, <3>2, <3>3 DEF Inv, Queue, GoodQueue, Modes
  <2> QED BY <2>4, <2>5
<1> QED BY <1>1, ContentInvariant, PTL
=============================================================================
