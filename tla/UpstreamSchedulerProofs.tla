----------------------- MODULE UpstreamSchedulerProofs -----------------------
(***************************************************************************)
(* Theorems about UpstreamScheduler for any number of requests, instances  *)
(* and limits.  The argument: a waiter is in one queue until it is granted *)
(* (QueuesHoldWaiters), so a grant always charges a request that was not   *)
(* charged yet, and a release gives back one that was (ChargedExactly);    *)
(* the counters are bounded by the checks that precede every grant.        *)
(***************************************************************************)
EXTENDS UpstreamScheduler, FiniteSetTheorems, SequenceTheorems, TLAPS

Charged == Owners \cup lost

\* A grant is only lost on a request that gave up.
LostGaveUp == \A r \in lost : st[r] \in {"cancelled", "gone"}

\* The counter of an instance stays within its limit.
InstanceBounded ==
  \A i \in Instances : InstanceLimit[i] # None => instanceInUse[i] <= InstanceLimit[i]

Inv ==
  TypeOK /\ LostGaveUp /\ InstanceBounded /\ QueuesHoldWaiters /\ ChargedExactly

-----------------------------------------------------------------------------
\* The batch share of the global pool is a number of slots.
LEMMA CapacityType == GlobalBatchCapacity \in Nat
<1>1. CASE GlobalLimit = None \/ ShareNum = 0
  BY <1>1 DEF GlobalBatchCapacity
<1>2. CASE ~(GlobalLimit = None \/ ShareNum = 0)
  <2>1. GlobalLimit * ShareNum \in Nat /\ ShareDen \in Nat \ {0}
    BY <1>2, SchedulerAssumption
  <2>2. (GlobalLimit * ShareNum) \div ShareDen \in Int
    BY <2>1
  <2> QED BY <1>2, <2>2 DEF GlobalBatchCapacity, AtLeastOne
<1> QED BY <1>1, <1>2

\* RemoveAt on a queue without duplicates removes one request and no other.
LEMMA RemoveOne ==
  ASSUME NEW S, NEW q \in Seq(S), IsInjective(q), NEW i \in DOMAIN q
  PROVE  /\ RemoveAt(q, i) \in Seq(S)
         /\ IsInjective(RemoveAt(q, i))
         /\ ToSet(RemoveAt(q, i)) = ToSet(q) \ {q[i]}
<1> DEFINE n == Len(q)
           front == SubSeq(q, 1, i - 1)
           rear == SubSeq(q, i + 1, n)
           w == front \o rear
<1>1. n \in Nat /\ DOMAIN q = 1..n /\ i \in 1..n /\ \A j \in 1..n : q[j] \in S
  BY LenProperties, ElementOfSeq
<1>2. /\ front \in Seq(S) /\ Len(front) = i - 1
      /\ \A j \in 1..(i - 1) : front[j] = q[j]
  BY <1>1, SubSeqProperties
<1>3. /\ rear \in Seq(S) /\ Len(rear) = n - i
      /\ \A j \in 1..(n - i) : rear[j] = q[i + j]
  <2>1. \A j \in (i + 1)..n : q[j] \in S
    BY <1>1
  <2>2. /\ rear \in Seq(S)
        /\ Len(rear) = IF i + 1 <= n THEN n - (i + 1) + 1 ELSE 0
        /\ \A j \in 1..(n - (i + 1) + 1) : rear[j] = q[(i + 1) + j - 1]
    BY <1>1, <2>1, SubSeqProperties
  <2> HIDE DEF n, rear
  <2>3. n - (i + 1) + 1 = n - i /\ (i + 1 <= n \/ n - i = 0)
    BY <1>1
  <2>4. \A j \in 1..(n - i) : (i + 1) + j - 1 = i + j
    BY <1>1
  <2> QED BY <1>1, <2>2, <2>3, <2>4
<1>4. /\ w \in Seq(S) /\ Len(w) = Len(front) + Len(rear)
      /\ \A j \in 1..(Len(front) + Len(rear)) :
           w[j] = IF j <= Len(front) THEN front[j] ELSE rear[j - Len(front)]
  BY <1>2, <1>3, ConcatProperties
<1> HIDE DEF n, front, rear, w
<1>5. w \in Seq(S) /\ Len(w) = n - 1
  BY <1>1, <1>2, <1>3, <1>4
<1>6. \A j \in 1..(n - 1) : w[j] = IF j < i THEN q[j] ELSE q[j + 1]
  <2> SUFFICES ASSUME NEW j \in 1..(n - 1)
               PROVE  w[j] = IF j < i THEN q[j] ELSE q[j + 1]
    OBVIOUS
  <2>1. CASE j < i
    BY <1>1, <1>2, <1>3, <1>4, <2>1
  <2>2. CASE ~(j < i)
    <3>1. w[j] = rear[j - (i - 1)] /\ j - (i - 1) \in 1..(n - i)
      BY <1>1, <1>2, <1>3, <1>4, <2>2
    <3>2. rear[j - (i - 1)] = q[j + 1]
      BY <1>1, <1>3, <3>1
    <3> QED BY <3>1, <3>2, <2>2
  <2> QED BY <2>1, <2>2
<1>7. DOMAIN w = 1..(n - 1)
  BY <1>5, LenProperties
<1> DEFINE old(j) == IF j < i THEN j ELSE j + 1
<1>8. \A j \in 1..(n - 1) : old(j) \in 1..n /\ old(j) # i /\ w[j] = q[old(j)]
  BY <1>1, <1>6
<1>9. \A j, k \in 1..n : q[j] = q[k] => j = k
  BY <1>1 DEF IsInjective
<1>10. IsInjective(w)
  <2> SUFFICES ASSUME NEW j \in 1..(n - 1), NEW k \in 1..(n - 1), w[j] = w[k]
               PROVE  j = k
    BY <1>7 DEF IsInjective
  <2>1. old(j) = old(k)
    <3> HIDE DEF old
    <3> QED BY <1>8, <1>9
  <2> QED BY <1>1, <2>1
<1>11. ToSet(w) = ToSet(q) \ {q[i]}
  <2>1. ASSUME NEW j \in 1..(n - 1)
        PROVE  w[j] \in ToSet(q) \ {q[i]}
    <3> HIDE DEF old
    <3> QED BY <1>1, <1>8, <1>9 DEF ToSet
  <2>2. ASSUME NEW j \in 1..n, j # i
        PROVE  \E k \in 1..(n - 1) : w[k] = q[j]
    <3>1. CASE j < i
      BY <1>1, <1>6, <3>1
    <3>2. CASE j > i
      <4>1. j - 1 \in 1..(n - 1) /\ ~(j - 1 < i) /\ (j - 1) + 1 = j
        BY <1>1, <3>2
      <4>2. w[j - 1] = q[j]
        BY <1>6, <4>1
      <4> QED BY <4>1, <4>2
    <3> QED BY <1>1, <2>2, <3>1, <3>2
  <2>3. ToSet(w) \subseteq ToSet(q) \ {q[i]}
    BY <1>7, <2>1 DEF ToSet
  <2>4. ToSet(q) \ {q[i]} \subseteq ToSet(w)
    BY <1>1, <1>7, <2>2 DEF ToSet
  <2> QED BY <2>3, <2>4
<1> QED BY <1>5, <1>10, <1>11 DEF RemoveAt, w, front, rear, n

\* Append puts one new request at the end of a queue.
LEMMA AppendOne ==
  ASSUME NEW S, NEW q \in Seq(S), IsInjective(q), NEW e \in S, e \notin ToSet(q)
  PROVE  /\ Append(q, e) \in Seq(S)
         /\ IsInjective(Append(q, e))
         /\ ToSet(Append(q, e)) = ToSet(q) \cup {e}
<1> DEFINE n == Len(q)
           w == Append(q, e)
<1>1. n \in Nat /\ DOMAIN q = 1..n
  BY LenProperties
<1>2. /\ w \in Seq(S) /\ Len(w) = n + 1 /\ w[n + 1] = e
      /\ \A j \in 1..n : w[j] = q[j]
  BY AppendProperties
<1> HIDE DEF n, w
<1>3. DOMAIN w = 1..(n + 1)
  BY <1>2, LenProperties
<1>4. \A j \in 1..n : q[j] # e
  BY <1>1 DEF ToSet
<1>5. IsInjective(w)
  <2> SUFFICES ASSUME NEW j \in 1..(n + 1), NEW k \in 1..(n + 1), w[j] = w[k]
               PROVE  j = k
    BY <1>3 DEF IsInjective
  <2>1. CASE j \in 1..n /\ k \in 1..n
    BY <1>1, <1>2, <2>1 DEF IsInjective
  <2>2. CASE j = n + 1 \/ k = n + 1
    BY <1>1, <1>2, <1>4, <2>2
  <2> QED BY <1>1, <2>1, <2>2
<1>6. ToSet(w) = ToSet(q) \cup {e}
  <2>1. 1..(n + 1) = 1..n \cup {n + 1}
    BY <1>1
  <2> QED BY <1>1, <1>2, <1>3, <2>1 DEF ToSet
<1> QED BY <1>2, <1>5, <1>6 DEF w

-----------------------------------------------------------------------------
\* The sets of charged requests a step adds one request to, or takes one from.
InBatch(X) == X \cap Batch
On(X, i) == {r \in X : InstanceOf[r] = i}

\* The requests that hold a charge are finitely many.
LEMMA ChargedFinite ==
  ASSUME TypeOK
  PROVE  /\ Charged \subseteq Requests
         /\ \A X \in SUBSET Requests : IsFiniteSet(X) /\ Cardinality(X) \in Nat
<1>1. Charged \subseteq Requests
  BY DEF TypeOK, Charged, Owners
<1>2. \A X \in SUBSET Requests : IsFiniteSet(X) /\ Cardinality(X) \in Nat
  BY SchedulerAssumption, FS_Subset, FS_CardinalityType
<1> QED BY <1>1, <1>2

\* One more, one less: how the three counts move.
LEMMA CountAdd ==
  ASSUME NEW X \in SUBSET Requests, NEW r \in Requests, r \notin X
  PROVE  /\ Cardinality(X \cup {r}) = Cardinality(X) + 1
         /\ Cardinality(InBatch(X \cup {r}))
              = Cardinality(InBatch(X)) + (IF r \in Batch THEN 1 ELSE 0)
         /\ \A i \in Instances : Cardinality(On(X \cup {r}, i))
              = Cardinality(On(X, i)) + (IF InstanceOf[r] = i THEN 1 ELSE 0)
<1>1. \A Y \in SUBSET Requests : IsFiniteSet(Y) /\ Cardinality(Y) \in Nat
  BY SchedulerAssumption, FS_Subset, FS_CardinalityType
<1>2. \A Y \in SUBSET Requests : r \notin Y => Cardinality(Y \cup {r}) = Cardinality(Y) + 1
  BY <1>1, FS_AddElement
<1>3. Cardinality(InBatch(X \cup {r}))
        = Cardinality(InBatch(X)) + (IF r \in Batch THEN 1 ELSE 0)
  <2>1. InBatch(X \cup {r}) = IF r \in Batch THEN InBatch(X) \cup {r} ELSE InBatch(X)
    BY DEF InBatch
  <2>2. InBatch(X) \in SUBSET Requests /\ r \notin InBatch(X)
    BY DEF InBatch
  <2> QED BY <1>1, <1>2, <2>1, <2>2
<1>4. ASSUME NEW i \in Instances
      PROVE  Cardinality(On(X \cup {r}, i))
               = Cardinality(On(X, i)) + (IF InstanceOf[r] = i THEN 1 ELSE 0)
  <2>1. On(X \cup {r}, i) = IF InstanceOf[r] = i THEN On(X, i) \cup {r} ELSE On(X, i)
    BY DEF On
  <2>2. On(X, i) \in SUBSET Requests /\ r \notin On(X, i)
    BY DEF On
  <2> QED BY <1>1, <1>2, <2>1, <2>2
<1> QED BY <1>2, <1>3, <1>4

\* ChargedExactly in the terms of the lemmas above.
ExactFor(X) ==
  /\ GlobalLimit # None =>
       /\ globalInUse = Cardinality(X)
       /\ globalBatchInUse = Cardinality(InBatch(X))
  /\ \A i \in Instances :
       InstanceLimit[i] # None => instanceInUse[i] = Cardinality(On(X, i))

\* ChargedExactly, restated over the set of charged requests.
LEMMA ExactIsCharged == ChargedExactly <=> ExactFor(Charged)
  BY DEF ChargedExactly, ExactFor, Charged, InBatch, On

\* _grant charges a request that was not charged.
LEMMA GrantCharges ==
  ASSUME TypeOK, NEW X \in SUBSET Requests, ExactFor(X),
         NEW r \in Requests, r \notin X, Grant(r)
  PROVE  ExactFor(X \cup {r})'
<1>1. /\ Cardinality(X) \in Nat /\ Cardinality(InBatch(X)) \in Nat
      /\ \A i \in Instances : Cardinality(On(X, i)) \in Nat
  <2>1. InBatch(X) \in SUBSET Requests /\ \A i \in Instances : On(X, i) \in SUBSET Requests
    BY DEF InBatch, On
  <2> QED BY <2>1, ChargedFinite
<1>2. GlobalLimit # None =>
        /\ globalInUse' = Cardinality(X \cup {r})
        /\ globalBatchInUse' = Cardinality(InBatch(X \cup {r}))
  BY <1>1, CountAdd DEF ExactFor, Grant, GlobalCharge, BatchCharge
<1>3. ASSUME NEW i \in Instances, InstanceLimit[i] # None
      PROVE  instanceInUse'[i] = Cardinality(On(X \cup {r}, i))
  <2>1. InstanceOf[r] \in Instances /\ instanceInUse \in [Instances -> Nat]
    BY SchedulerAssumption DEF TypeOK
  <2>2. instanceInUse'[i] =
          instanceInUse[i] + (IF InstanceOf[r] = i THEN 1 ELSE 0)
    BY <1>3, <2>1 DEF Grant, InstanceCharge
  <2>3. instanceInUse[i] = Cardinality(On(X, i))
    BY <1>3 DEF ExactFor
  <2>4. Cardinality(On(X \cup {r}, i))
          = Cardinality(On(X, i)) + (IF InstanceOf[r] = i THEN 1 ELSE 0)
    BY CountAdd
  <2> QED BY <2>2, <2>3, <2>4
<1>4. InBatch(X \cup {r})' = InBatch(X \cup {r})
      /\ \A i \in Instances : On(X \cup {r}, i)' = On(X \cup {r}, i)
  BY DEF InBatch, On
<1> QED BY <1>2, <1>3, <1>4 DEF ExactFor

\* _release gives back a request that was charged: nothing is clipped at zero.
LEMMA GiveBackDischarges ==
  ASSUME TypeOK, NEW X \in SUBSET Requests, ExactFor(X), NEW r \in X, GiveBack(r)
  PROVE  ExactFor(X \ {r})'
<1> DEFINE Y == X \ {r}
<1>1. X = Y \cup {r} /\ Y \in SUBSET Requests /\ r \notin Y /\ r \in Requests
  OBVIOUS
<1> HIDE DEF Y
<1>2. /\ Cardinality(Y) \in Nat /\ Cardinality(InBatch(Y)) \in Nat
      /\ \A i \in Instances : Cardinality(On(Y, i)) \in Nat
  <2>1. InBatch(Y) \in SUBSET Requests /\ \A i \in Instances : On(Y, i) \in SUBSET Requests
    BY <1>1 DEF InBatch, On
  <2> QED BY <1>1, <2>1, ChargedFinite
<1>3. /\ Cardinality(X) = Cardinality(Y) + 1
      /\ Cardinality(InBatch(X))
           = Cardinality(InBatch(Y)) + (IF r \in Batch THEN 1 ELSE 0)
      /\ \A i \in Instances : Cardinality(On(X, i))
           = Cardinality(On(Y, i)) + (IF InstanceOf[r] = i THEN 1 ELSE 0)
  BY <1>1, CountAdd
<1>4. GlobalLimit # None =>
        /\ globalInUse' = Cardinality(Y)
        /\ globalBatchInUse' = Cardinality(InBatch(Y))
  BY <1>2, <1>3 DEF ExactFor, GiveBack, GlobalCharge, BatchCharge, Less
<1>5. ASSUME NEW i \in Instances, InstanceLimit[i] # None
      PROVE  instanceInUse'[i] = Cardinality(On(Y, i))
  <2>1. InstanceOf[r] \in Instances /\ instanceInUse \in [Instances -> Nat]
    BY <1>1, SchedulerAssumption DEF TypeOK
  <2>2. instanceInUse'[i] =
          IF InstanceOf[r] = i THEN Less(instanceInUse[i], 1) ELSE instanceInUse[i]
    BY <1>5, <2>1 DEF GiveBack, InstanceCharge
  <2>3. instanceInUse[i] = Cardinality(On(X, i))
    BY <1>5 DEF ExactFor
  <2>4. /\ Cardinality(On(Y, i)) \in Nat
        /\ Cardinality(On(X, i))
             = Cardinality(On(Y, i)) + (IF InstanceOf[r] = i THEN 1 ELSE 0)
    BY <1>2, <1>3
  <2> QED BY <2>2, <2>3, <2>4 DEF Less
<1>6. InBatch(Y)' = InBatch(Y) /\ \A i \in Instances : On(Y, i)' = On(Y, i)
  BY DEF InBatch, On, Y
<1>7. ExactFor(Y)'
  BY <1>4, <1>5, <1>6 DEF ExactFor, Y
<1> QED BY <1>7 DEF Y

-----------------------------------------------------------------------------
\* Counters keep their type and their bounds: each grant is preceded by
\* _can_grant, and _release never goes below zero.
LEMMA BoundedGrant ==
  ASSUME TypeOK, InstanceBounded, NEW r \in Requests, CanGrant(r), Grant(r)
  PROVE  /\ globalInUse' \in 0..(IF GlobalLimit = None THEN 0 ELSE GlobalLimit)
         /\ globalBatchInUse' \in 0..GlobalBatchCapacity
         /\ instanceInUse' \in [Instances -> Nat]
         /\ InstanceBounded'
<1>1. InstanceOf[r] \in Instances /\ GlobalBatchCapacity \in Nat
      /\ (GlobalLimit # None => GlobalLimit \in Nat)
      /\ \A i \in Instances : InstanceLimit[i] # None => InstanceLimit[i] \in Nat
  BY SchedulerAssumption, CapacityType
<1>2. globalInUse' \in 0..(IF GlobalLimit = None THEN 0 ELSE GlobalLimit)
  <2>1. CASE GlobalLimit = None
    BY <2>1, <1>1 DEF TypeOK, CanGrant, GlobalHasRoom, Grant, GlobalCharge
  <2>2. CASE GlobalLimit # None
    BY <2>2, <1>1 DEF TypeOK, CanGrant, GlobalHasRoom, Grant, GlobalCharge
  <2> QED BY <2>1, <2>2
<1>3. globalBatchInUse' \in 0..GlobalBatchCapacity
  BY <1>1 DEF TypeOK, CanGrant, GlobalHasRoom, Grant, BatchCharge
<1>4. instanceInUse' \in [Instances -> Nat]
  BY <1>1 DEF TypeOK, Grant, InstanceCharge
<1>5. ASSUME NEW i \in Instances, InstanceLimit[i] # None
      PROVE  instanceInUse'[i] <= InstanceLimit[i]
  BY <1>1, <1>5
  DEF TypeOK, InstanceBounded, CanGrant, InstanceHasRoom, Grant, InstanceCharge
<1> QED BY <1>2, <1>3, <1>4, <1>5 DEF InstanceBounded

\* _release keeps the counters natural and within the limits.
LEMMA BoundedGiveBack ==
  ASSUME TypeOK, InstanceBounded, NEW r \in Requests, GiveBack(r)
  PROVE  /\ globalInUse' \in 0..(IF GlobalLimit = None THEN 0 ELSE GlobalLimit)
         /\ globalBatchInUse' \in 0..GlobalBatchCapacity
         /\ instanceInUse' \in [Instances -> Nat]
         /\ InstanceBounded'
<1>1. InstanceOf[r] \in Instances /\ GlobalBatchCapacity \in Nat
      /\ (GlobalLimit # None => GlobalLimit \in Nat)
      /\ \A i \in Instances : InstanceLimit[i] # None => InstanceLimit[i] \in Nat
  BY SchedulerAssumption, CapacityType
<1>2. globalInUse' \in 0..(IF GlobalLimit = None THEN 0 ELSE GlobalLimit)
  <2>1. CASE GlobalLimit = None
    BY <2>1, <1>1 DEF TypeOK, GiveBack, GlobalCharge, Less
  <2>2. CASE GlobalLimit # None
    BY <2>2, <1>1 DEF TypeOK, GiveBack, GlobalCharge, Less
  <2> QED BY <2>1, <2>2
<1>3. globalBatchInUse' \in 0..GlobalBatchCapacity
  BY <1>1 DEF TypeOK, GiveBack, BatchCharge, Less
<1>4. instanceInUse' \in [Instances -> Nat]
  BY <1>1 DEF TypeOK, GiveBack, InstanceCharge, Less
<1>5. ASSUME NEW i \in Instances, InstanceLimit[i] # None
      PROVE  instanceInUse'[i] <= InstanceLimit[i]
  BY <1>1, <1>5 DEF TypeOK, InstanceBounded, GiveBack, InstanceCharge, Less
<1> QED BY <1>2, <1>3, <1>4, <1>5 DEF InstanceBounded

-----------------------------------------------------------------------------
\* How a step moves ChargedExactly: one request more, one less, or none.
LEMMA ChargeMore ==
  ASSUME TypeOK, ChargedExactly, NEW r \in Requests, r \notin Charged,
         Grant(r), Charged' = Charged \cup {r}
  PROVE  ChargedExactly'
<1>1. PICK X \in SUBSET Requests : X = Charged
  BY ChargedFinite
<1>2. ExactFor(X)
  BY <1>1, ExactIsCharged
<1>3. ExactFor(X \cup {r})'
  BY <1>1, <1>2, GrantCharges
<1>4. Charged' = X \cup {r}
  BY <1>1
<1> QED BY <1>3, <1>4 DEF ChargedExactly, ExactFor, Charged, InBatch, On

\* When one charged request leaves, the counters lose exactly its charge.
LEMMA ChargeLess ==
  ASSUME TypeOK, ChargedExactly, NEW r \in Charged, GiveBack(r),
         Charged' = Charged \ {r}
  PROVE  ChargedExactly'
<1>1. PICK X \in SUBSET Requests : X = Charged
  BY ChargedFinite
<1>2. ExactFor(X)
  BY <1>1, ExactIsCharged
<1>3. ExactFor(X \ {r})'
  BY <1>1, <1>2, GiveBackDischarges
<1>4. Charged' = X \ {r}
  BY <1>1
<1> QED BY <1>3, <1>4 DEF ChargedExactly, ExactFor, Charged, InBatch, On

\* A step that changes neither counters nor charged requests keeps them equal.
LEMMA ChargeSame ==
  ASSUME ChargedExactly, UNCHANGED usage, Charged' = Charged
  PROVE  ChargedExactly'
  BY DEF ChargedExactly, Charged, usage

\* A grant inside _grant_waiters, on either queue.
LEMMA WakeStep ==
  ASSUME Inv, NEW r \in Requests, r \in Waiting \ lost, CanGrant(r), Wake(r)
  PROVE  /\ globalInUse' \in 0..(IF GlobalLimit = None THEN 0 ELSE GlobalLimit)
         /\ globalBatchInUse' \in 0..GlobalBatchCapacity
         /\ instanceInUse' \in [Instances -> Nat]
         /\ InstanceBounded' /\ LostGaveUp' /\ ChargedExactly'
         /\ st' \in [Requests -> States] /\ granting' \in BOOLEAN
         /\ lost' \subseteq Requests
         /\ Waiting' \ lost' = (Waiting \ lost) \ {r}
<1> USE DEF Inv
<1>1. Grant(r) /\ st[r] \in {"queued", "cancelled"} /\ r \notin lost
  BY DEF Wake, Waiting
<1>2. st \in [Requests -> States] /\ lost \subseteq Requests /\ granting \in BOOLEAN
  BY DEF TypeOK
<1>3. r \notin Charged
  BY <1>1 DEF Charged, Owners
<1>4. CASE st[r] = "cancelled"
  <2>1. lost' = lost \cup {r} /\ st' = st /\ granting' = FALSE
    BY <1>4 DEF Wake
  <2>2. Charged' = Charged \cup {r}
    BY <2>1 DEF Charged, Owners
  <2>3. LostGaveUp'
    BY <1>4, <2>1 DEF LostGaveUp
  <2>4. Waiting' \ lost' = (Waiting \ lost) \ {r}
    BY <2>1 DEF Waiting
  <2> QED BY <1>1, <1>2, <1>3, <2>1, <2>2, <2>3, <2>4, ChargeMore, BoundedGrant
<1>5. CASE st[r] # "cancelled"
  <2>1. lost' = lost /\ st' = [st EXCEPT ![r] = "granted"] /\ granting' = granting
    BY <1>5 DEF Wake, Become
  <2>2. st' \in [Requests -> States]
    BY <1>2, <2>1 DEF States
  <2>3. Charged' = Charged \cup {r}
    BY <1>2, <2>1 DEF Charged, Owners
  <2>4. LostGaveUp'
    BY <1>1, <1>2, <2>1 DEF LostGaveUp
  <2>5. Waiting' \ lost' = (Waiting \ lost) \ {r}
    BY <1>2, <2>1 DEF Waiting
  <2> QED BY <1>1, <1>2, <1>3, <2>1, <2>2, <2>3, <2>4, <2>5, ChargeMore, BoundedGrant
<1> QED BY <1>4, <1>5

\* _remove_waiter takes the waiter out of the queue it is in, if any.
LEMMA LeaveQueues ==
  ASSUME Inv, NEW r \in Requests, Leave(r)
  PROVE  /\ interactive' \in Seq(Requests) /\ IsInjective(interactive')
         /\ batch' \in Seq(Requests) /\ IsInjective(batch')
         /\ ToSet(interactive') = ToSet(interactive) \ {r}
         /\ ToSet(batch') = ToSet(batch) \ {r}
<1> DEFINE Left == /\ interactive' \in Seq(Requests) /\ IsInjective(interactive')
                   /\ batch' \in Seq(Requests) /\ IsInjective(batch')
                   /\ ToSet(interactive') = ToSet(interactive) \ {r}
                   /\ ToSet(batch') = ToSet(batch) \ {r}
<1>1. /\ IsInjective(interactive) /\ interactive \in Seq(Requests)
      /\ IsInjective(batch) /\ batch \in Seq(Requests)
      /\ ToSet(interactive) \cap ToSet(batch) = {}
  BY DEF Inv, TypeOK, QueuesHoldWaiters
<1>2. ASSUME NEW i \in Places(interactive, r),
             interactive' = RemoveAt(interactive, i), UNCHANGED batch
      PROVE  Left
  <2>1. i \in DOMAIN interactive /\ interactive[i] = r /\ r \in ToSet(interactive)
    BY DEF Places, ToSet
  <2> QED BY <1>1, <1>2, <2>1, RemoveOne
<1>3. ASSUME Places(interactive, r) = {}, UNCHANGED interactive,
             NEW i \in Places(batch, r), batch' = RemoveAt(batch, i)
      PROVE  Left
  <2>1. i \in DOMAIN batch /\ batch[i] = r /\ r \notin ToSet(interactive)
    BY <1>3 DEF Places, ToSet
  <2> QED BY <1>1, <1>3, <2>1, RemoveOne
<1>4. ASSUME Places(interactive, r) = {}, UNCHANGED interactive,
             Places(batch, r) = {}, UNCHANGED batch
      PROVE  Left
  <2>1. r \notin ToSet(interactive) /\ r \notin ToSet(batch)
    BY <1>4 DEF Places, ToSet
  <2> QED BY <1>1, <1>4, <2>1
<1> QED BY <1>2, <1>3, <1>4 DEF Leave

\* One step per action; under it, one per conjunct of Inv.
LEMMA InvStep == Inv /\ [Next]_vars => Inv'
<1> SUFFICES ASSUME Inv, [Next]_vars
             PROVE  Inv'
  OBVIOUS
<1> USE DEF Inv
<1>1. ASSUME NEW r \in Requests, Acquire(r)
      PROVE  Inv'
  <2>1. st[r] = "idle" /\ UNCHANGED <<granting, lost>> /\ r \notin lost
    BY <1>1 DEF Acquire, LostGaveUp
  <2>2. CASE CanGrant(r) /\ Grant(r) /\ Become(r, "holding") /\ UNCHANGED queues
    <3>1. st' = [st EXCEPT ![r] = "holding"] /\ UNCHANGED <<interactive, batch>>
      BY <2>2 DEF Become, queues
    <3>2. TypeOK' /\ InstanceBounded'
      BY <2>1, <2>2, <3>1, BoundedGrant DEF TypeOK, States
    <3>3. LostGaveUp'
      BY <2>1, <3>1 DEF TypeOK, LostGaveUp
    <3>4. QueuesHoldWaiters'
      BY <2>1, <3>1 DEF TypeOK, QueuesHoldWaiters, Waiting
    <3>5. r \notin Charged /\ Charged' = Charged \cup {r}
      BY <2>1, <3>1 DEF TypeOK, Charged, Owners
    <3> QED BY <2>2, <3>2, <3>3, <3>4, <3>5, ChargeMore
  <2>3. CASE ~CanGrant(r)
    <3>1. /\ st' = [st EXCEPT ![r] = "queued"] /\ UNCHANGED usage
          /\ interactive' = IF r \in Batch THEN interactive ELSE Append(interactive, r)
          /\ batch' = IF r \in Batch THEN Append(batch, r) ELSE batch
      BY <1>1, <2>3 DEF Acquire, Become
    <3>2. r \notin ToSet(interactive) /\ r \notin ToSet(batch)
      BY <2>1 DEF QueuesHoldWaiters, Waiting
    <3>3. /\ interactive' \in Seq(Requests) /\ IsInjective(interactive')
          /\ ToSet(interactive') =
               IF r \in Batch THEN ToSet(interactive) ELSE ToSet(interactive) \cup {r}
      <4>1. CASE r \notin Batch
        BY <3>1, <3>2, <4>1, AppendOne DEF TypeOK, QueuesHoldWaiters
      <4>2. CASE r \in Batch
        BY <3>1, <4>2 DEF TypeOK, QueuesHoldWaiters
      <4> QED BY <4>1, <4>2
    <3>4. /\ batch' \in Seq(Requests) /\ IsInjective(batch')
          /\ ToSet(batch') =
               IF r \in Batch THEN ToSet(batch) \cup {r} ELSE ToSet(batch)
      <4>1. CASE r \in Batch
        BY <3>1, <3>2, <4>1, AppendOne DEF TypeOK, QueuesHoldWaiters
      <4>2. CASE r \notin Batch
        BY <3>1, <4>2 DEF TypeOK, QueuesHoldWaiters
      <4> QED BY <4>1, <4>2
    <3>5. TypeOK' /\ InstanceBounded'
      BY <2>1, <3>1, <3>3, <3>4 DEF TypeOK, States, InstanceBounded, usage
    <3>6. LostGaveUp'
      BY <2>1, <3>1 DEF TypeOK, LostGaveUp
    <3>7. Waiting' \ lost' = (Waiting \ lost) \cup {r}
      BY <2>1, <3>1 DEF TypeOK, Waiting
    <3>8. QueuesHoldWaiters'
      BY <3>3, <3>4, <3>7 DEF QueuesHoldWaiters
    <3>9. Charged' = Charged
      BY <2>1, <3>1 DEF TypeOK, Charged, Owners
    <3> QED BY <3>1, <3>5, <3>6, <3>8, <3>9, ChargeSame
  <2> QED BY <1>1, <2>2, <2>3 DEF Acquire
<1>2. ASSUME NEW r \in Requests, Cancel(r)
      PROVE  Inv'
  <2>1. UNCHANGED <<interactive, batch, granting, lost>> /\ UNCHANGED usage
    BY <1>2 DEF Cancel, queues
  <2>2. TypeOK' /\ InstanceBounded'
    BY <1>2, <2>1 DEF Cancel, Become, TypeOK, States, InstanceBounded, usage
  <2>3. LostGaveUp'
    BY <1>2, <2>1 DEF Cancel, Become, TypeOK, LostGaveUp
  <2>4. QueuesHoldWaiters'
    BY <1>2, <2>1 DEF Cancel, Become, TypeOK, QueuesHoldWaiters, Waiting
  <2>5. Charged' = Charged
    BY <1>2, <2>1 DEF Cancel, Become, TypeOK, Charged, Owners
  <2> QED BY <2>1, <2>2, <2>3, <2>4, <2>5, ChargeSame
<1>3. ASSUME NEW r \in Requests, Resume(r)
      PROVE  Inv'
  <2>1. UNCHANGED <<interactive, batch, granting, lost>> /\ UNCHANGED usage
    BY <1>3 DEF Resume, queues
  <2>2. TypeOK' /\ InstanceBounded'
    BY <1>3, <2>1 DEF Resume, Become, TypeOK, States, InstanceBounded, usage
  <2>3. LostGaveUp'
    BY <1>3, <2>1 DEF Resume, Become, TypeOK, LostGaveUp
  <2>4. QueuesHoldWaiters'
    BY <1>3, <2>1 DEF Resume, Become, TypeOK, QueuesHoldWaiters, Waiting
  <2>5. Charged' = Charged
    BY <1>3, <2>1 DEF Resume, Become, TypeOK, Charged, Owners
  <2> QED BY <2>1, <2>2, <2>3, <2>4, <2>5, ChargeSame
<1>4. ASSUME NEW r \in Requests, Leave(r)
      PROVE  Inv'
  <2>1. /\ st[r] = "cancelled" /\ st' = [st EXCEPT ![r] = "gone"]
        /\ UNCHANGED usage /\ UNCHANGED <<granting, lost>>
    BY <1>4 DEF Leave, Become
  <2>2. /\ interactive' \in Seq(Requests) /\ IsInjective(interactive')
        /\ batch' \in Seq(Requests) /\ IsInjective(batch')
        /\ ToSet(interactive') = ToSet(interactive) \ {r}
        /\ ToSet(batch') = ToSet(batch) \ {r}
    BY <1>4, LeaveQueues
  <2>3. TypeOK' /\ InstanceBounded'
    BY <2>1, <2>2 DEF TypeOK, States, InstanceBounded, usage
  <2>4. LostGaveUp'
    BY <2>1 DEF TypeOK, LostGaveUp
  <2>5. Waiting' \ lost' = (Waiting \ lost) \ {r}
    BY <2>1 DEF TypeOK, Waiting
  <2>6. QueuesHoldWaiters'
    BY <2>2, <2>5 DEF QueuesHoldWaiters
  <2>7. Charged' = Charged
    BY <2>1 DEF TypeOK, Charged, Owners
  <2> QED BY <2>1, <2>3, <2>4, <2>6, <2>7, ChargeSame
<1>5. ASSUME NEW r \in Requests, LeaveGranted(r)
      PROVE  Inv'
  <2>1. GiveBack(r) /\ r \in Owners /\ UNCHANGED <<interactive, batch, lost>>
    BY <1>5 DEF LeaveGranted, queues, Owners
  <2>2. st' = [st EXCEPT ![r] = "gone"] /\ granting' = TRUE
    BY <1>5 DEF LeaveGranted, Become
  <2>3. r \in Charged /\ r \notin lost /\ st[r] \notin {"queued", "cancelled"}
    BY <2>1 DEF Charged, Owners, LostGaveUp
  <2>4. TypeOK' /\ InstanceBounded'
    BY <2>1, <2>2, BoundedGiveBack DEF TypeOK, States
  <2>5. LostGaveUp'
    BY <2>1, <2>2 DEF TypeOK, LostGaveUp
  <2>6. QueuesHoldWaiters'
    BY <2>1, <2>2, <2>3 DEF TypeOK, QueuesHoldWaiters, Waiting
  <2>7. Charged' = Charged \ {r}
    BY <2>1, <2>2, <2>3 DEF TypeOK, Charged, Owners
  <2> QED BY <2>1, <2>3, <2>4, <2>5, <2>6, <2>7, ChargeLess
<1>6. ASSUME NEW r \in Requests, Release(r)
      PROVE  Inv'
  <2>1. GiveBack(r) /\ r \in Owners /\ UNCHANGED <<interactive, batch, lost>>
    BY <1>6 DEF Release, queues, Owners
  <2>2. st' = [st EXCEPT ![r] = "gone"] /\ granting' = TRUE
    BY <1>6 DEF Release, Become
  <2>3. r \in Charged /\ r \notin lost /\ st[r] \notin {"queued", "cancelled"}
    BY <2>1 DEF Charged, Owners, LostGaveUp
  <2>4. TypeOK' /\ InstanceBounded'
    BY <2>1, <2>2, BoundedGiveBack DEF TypeOK, States
  <2>5. LostGaveUp'
    BY <2>1, <2>2 DEF TypeOK, LostGaveUp
  <2>6. QueuesHoldWaiters'
    BY <2>1, <2>2, <2>3 DEF TypeOK, QueuesHoldWaiters, Waiting
  <2>7. Charged' = Charged \ {r}
    BY <2>1, <2>2, <2>3 DEF TypeOK, Charged, Owners
  <2> QED BY <2>1, <2>3, <2>4, <2>5, <2>6, <2>7, ChargeLess
<1>7. ASSUME NEW r \in Requests, Again(r)
      PROVE  Inv'
  <2>1. UNCHANGED <<interactive, batch, granting, lost>> /\ UNCHANGED usage
    BY <1>7 DEF Again, queues
  <2>2. TypeOK' /\ InstanceBounded'
    BY <1>7, <2>1 DEF Again, Become, TypeOK, States, InstanceBounded, usage
  <2>3. LostGaveUp'
    BY <1>7, <2>1 DEF Again, Become, TypeOK, LostGaveUp
  <2>4. QueuesHoldWaiters'
    BY <1>7, <2>1 DEF Again, Become, TypeOK, QueuesHoldWaiters, Waiting
  <2>5. Charged' = Charged
    BY <1>7, <2>1 DEF Again, Become, TypeOK, Charged, Owners
  <2> QED BY <2>1, <2>2, <2>3, <2>4, <2>5, ChargeSame
<1>8. ASSUME GrantInteractive
      PROVE  Inv'
  <2>1. PICK i \in DOMAIN interactive :
          /\ CanGrant(interactive[i]) /\ Wake(interactive[i])
          /\ interactive' = RemoveAt(interactive, i) /\ batch' = batch
    BY <1>8 DEF GrantInteractive, FirstFit
  <2>2. PICK r \in Requests : r = interactive[i]
    BY <2>1, ElementOfSeq, LenProperties DEF TypeOK
  <2>3. r \in ToSet(interactive) /\ r \in Waiting \ lost /\ r \notin Batch
    BY <2>2 DEF ToSet, QueuesHoldWaiters
  <2>4. /\ interactive' \in Seq(Requests) /\ IsInjective(interactive')
        /\ ToSet(interactive') = ToSet(interactive) \ {r}
    BY <2>1, <2>2, RemoveOne DEF TypeOK, QueuesHoldWaiters
  <2>5. TypeOK' /\ InstanceBounded' /\ LostGaveUp' /\ ChargedExactly'
    BY <2>1, <2>2, <2>3, <2>4, WakeStep DEF TypeOK
  <2>6. Waiting' \ lost' = (Waiting \ lost) \ {r}
    BY <2>1, <2>2, <2>3, WakeStep
  <2>7. r \notin ToSet(batch)
    BY <2>3 DEF QueuesHoldWaiters
  <2>8. QueuesHoldWaiters'
    BY <2>1, <2>3, <2>4, <2>6, <2>7 DEF QueuesHoldWaiters
  <2> QED BY <2>5, <2>8
<1>9. ASSUME GrantBatch
      PROVE  Inv'
  <2>1. PICK i \in DOMAIN batch :
          /\ CanGrant(batch[i]) /\ Wake(batch[i])
          /\ batch' = RemoveAt(batch, i) /\ interactive' = interactive
    BY <1>9 DEF GrantBatch, FirstFit
  <2>2. PICK r \in Requests : r = batch[i]
    BY <2>1, ElementOfSeq, LenProperties DEF TypeOK
  <2>3. r \in ToSet(batch) /\ r \in Waiting \ lost /\ r \in Batch
    BY <2>2 DEF ToSet, QueuesHoldWaiters
  <2>4. /\ batch' \in Seq(Requests) /\ IsInjective(batch')
        /\ ToSet(batch') = ToSet(batch) \ {r}
    BY <2>1, <2>2, RemoveOne DEF TypeOK, QueuesHoldWaiters
  <2>5. TypeOK' /\ InstanceBounded' /\ LostGaveUp' /\ ChargedExactly'
    BY <2>1, <2>2, <2>3, <2>4, WakeStep DEF TypeOK
  <2>6. Waiting' \ lost' = (Waiting \ lost) \ {r}
    BY <2>1, <2>2, <2>3, WakeStep
  <2>7. r \notin ToSet(interactive)
    BY <2>3 DEF QueuesHoldWaiters
  <2>8. QueuesHoldWaiters'
    BY <2>1, <2>3, <2>4, <2>6, <2>7 DEF QueuesHoldWaiters
  <2> QED BY <2>5, <2>8
<1>10. CASE GrantDone
  <2>1. UNCHANGED <<interactive, batch, st, lost>> /\ UNCHANGED usage /\ granting' = FALSE
    BY <1>10 DEF GrantDone, queues
  <2>2. Charged' = Charged
    BY <2>1 DEF Charged, Owners
  <2>3. TypeOK' /\ InstanceBounded' /\ LostGaveUp' /\ QueuesHoldWaiters'
    BY <2>1 DEF TypeOK, InstanceBounded, LostGaveUp, QueuesHoldWaiters, Waiting, usage
  <2> QED BY <2>1, <2>2, <2>3, ChargeSame
<1>11. CASE UNCHANGED vars
  <2>1. UNCHANGED <<interactive, batch, st, lost, granting>> /\ UNCHANGED usage
    BY <1>11 DEF vars, usage
  <2>2. Charged' = Charged
    BY <2>1 DEF Charged, Owners
  <2>3. TypeOK' /\ InstanceBounded' /\ LostGaveUp' /\ QueuesHoldWaiters'
    BY <2>1 DEF TypeOK, InstanceBounded, LostGaveUp, QueuesHoldWaiters, Waiting, usage
  <2> QED BY <2>1, <2>2, <2>3, ChargeSame
<1> QED BY <1>1, <1>2, <1>3, <1>4, <1>5, <1>6, <1>7, <1>8, <1>9, <1>10, <1>11
    DEF Next, GrantStep, Run

-----------------------------------------------------------------------------
\* A grant only takes room away.
LEMMA RoomShrinks ==
  ASSUME TypeOK, NEW r \in Requests, NEW q \in Requests, Grant(r), ~CanGrant(q)
  PROVE  ~CanGrant(q)'
<1>1. /\ globalInUse' >= globalInUse /\ globalBatchInUse' >= globalBatchInUse
      /\ globalInUse \in Nat /\ globalBatchInUse \in Nat
      /\ globalInUse' \in Nat /\ globalBatchInUse' \in Nat
  BY SchedulerAssumption, CapacityType DEF TypeOK, Grant, GlobalCharge, BatchCharge
<1>2. InstanceOf[q] \in Instances /\ InstanceOf[r] \in Instances
      /\ (InstanceLimit[InstanceOf[q]] # None => InstanceLimit[InstanceOf[q]] \in Nat)
      /\ (GlobalLimit # None => GlobalLimit \in Nat) /\ GlobalBatchCapacity \in Nat
  BY SchedulerAssumption, CapacityType
<1>3. /\ instanceInUse'[InstanceOf[q]] >= instanceInUse[InstanceOf[q]]
      /\ instanceInUse[InstanceOf[q]] \in Nat /\ instanceInUse'[InstanceOf[q]] \in Nat
  BY <1>2 DEF TypeOK, Grant, InstanceCharge
<1>4. GlobalBatchCapacity' = GlobalBatchCapacity
  BY DEF GlobalBatchCapacity
<1>5. ~GlobalHasRoom(q) => ~GlobalHasRoom(q)'
  BY <1>1, <1>2, <1>4 DEF GlobalHasRoom
<1>6. ~InstanceHasRoom(q) => ~InstanceHasRoom(q)'
  BY <1>2, <1>3 DEF InstanceHasRoom
<1> QED BY <1>5, <1>6 DEF CanGrant

\* Capacity is offered to the waiters whenever some comes back, and only then
\* can one of them fit.
LEMMA FitsStep == Inv /\ NoWaiterFits /\ [Next]_vars => NoWaiterFits'
<1> SUFFICES ASSUME Inv, NoWaiterFits, [Next]_vars
             PROVE  NoWaiterFits'
  OBVIOUS
<1> DEFINE queued == ToSet(interactive) \cup ToSet(batch)
<1>1. TypeOK /\ queued \subseteq Requests
  BY DEF Inv, QueuesHoldWaiters, Waiting
<1>2. \A q \in Requests : UNCHANGED usage => CanGrant(q)' = CanGrant(q)
  BY DEF usage, CanGrant, GlobalHasRoom, InstanceHasRoom, GlobalBatchCapacity
<1>3. ASSUME NEW r \in Requests, Acquire(r)
      PROVE  NoWaiterFits'
  <2>1. ~granting /\ UNCHANGED lost
    BY <1>3 DEF Acquire
  <2>2. CASE Grant(r) /\ UNCHANGED queues
    BY <1>1, <2>1, <2>2, RoomShrinks DEF NoWaiterFits, queues
  <2>3. ASSUME ~CanGrant(r), UNCHANGED usage,
               interactive' = IF r \in Batch THEN interactive ELSE Append(interactive, r),
               batch' = IF r \in Batch THEN Append(batch, r) ELSE batch
        PROVE  NoWaiterFits'
    <3>1. r \notin queued
      BY <1>3 DEF Inv, QueuesHoldWaiters, Waiting, Acquire
    <3>2. /\ interactive \in Seq(Requests) /\ IsInjective(interactive)
          /\ batch \in Seq(Requests) /\ IsInjective(batch)
      BY DEF Inv, TypeOK, QueuesHoldWaiters
    <3>3. ToSet(Append(interactive, r)) = ToSet(interactive) \cup {r}
          /\ ToSet(Append(batch, r)) = ToSet(batch) \cup {r}
      BY <3>1, <3>2, AppendOne
    <3>4. queued' = queued \cup {r}
      BY <2>3, <3>3
    <3> QED BY <1>1, <1>2, <2>1, <2>3, <3>4 DEF NoWaiterFits
  <2> QED BY <1>3, <2>2, <2>3 DEF Acquire
<1>4. ASSUME NEW r \in Requests, Cancel(r) \/ Resume(r) \/ Again(r)
      PROVE  NoWaiterFits'
  <2>1. UNCHANGED <<granting, lost, interactive, batch>> /\ UNCHANGED usage
    BY <1>4 DEF Cancel, Resume, Again, queues
  <2> QED BY <1>1, <1>2, <2>1 DEF NoWaiterFits
<1>5. ASSUME NEW r \in Requests, Leave(r)
      PROVE  NoWaiterFits'
  <2>1. UNCHANGED <<granting, lost>> /\ UNCHANGED usage
    BY <1>5 DEF Leave
  <2>2. queued' \subseteq queued
    BY <1>5, LeaveQueues
  <2> QED BY <1>1, <1>2, <2>1, <2>2 DEF NoWaiterFits
<1>6. ASSUME NEW r \in Requests, LeaveGranted(r) \/ Release(r)
      PROVE  NoWaiterFits'
  BY <1>6 DEF LeaveGranted, Release, NoWaiterFits
<1>7. CASE GrantInteractive \/ GrantBatch
  <2>1. granting' \/ lost' # {}
    BY <1>7 DEF GrantInteractive, GrantBatch, Wake
  <2> QED BY <2>1 DEF NoWaiterFits
<1>8. CASE GrantDone
  <2>1. UNCHANGED <<interactive, batch>> /\ UNCHANGED usage
    BY <1>8 DEF GrantDone, queues
  <2>2. \A q \in queued : ~CanGrant(q)
    BY <1>8 DEF GrantDone, Grantable, ToSet
  <2> QED BY <1>1, <1>2, <2>1, <2>2 DEF NoWaiterFits
<1>9. CASE UNCHANGED vars
  BY <1>1, <1>2, <1>9 DEF vars, usage, NoWaiterFits
<1> QED BY <1>3, <1>4, <1>5, <1>6, <1>7, <1>8, <1>9 DEF Next, GrantStep, Run

-----------------------------------------------------------------------------
\* The invariant that carries the theorems.
LEMMA Invariant == Spec => []Inv
<1>1. Init => Inv
  <2> SUFFICES ASSUME Init
               PROVE  Inv
    OBVIOUS
  <2>1. TypeOK /\ LostGaveUp /\ InstanceBounded
    <3>1. globalInUse \in 0..(IF GlobalLimit = None THEN 0 ELSE GlobalLimit)
      BY SchedulerAssumption DEF Init
    <3>2. globalBatchInUse \in 0..GlobalBatchCapacity
      BY CapacityType DEF Init
    <3>3. interactive \in Seq(Requests) /\ batch \in Seq(Requests)
      BY EmptySeq DEF Init
    <3>4. InstanceBounded
      BY SchedulerAssumption DEF Init, InstanceBounded
    <3> QED BY <3>1, <3>2, <3>3, <3>4 DEF Init, TypeOK, States, LostGaveUp
  <2>2. QueuesHoldWaiters
    BY DEF Init, QueuesHoldWaiters, IsInjective, ToSet, Waiting
  <2>3. Charged = {} /\ InBatch({}) = {} /\ \A i \in Instances : On({}, i) = {}
    BY DEF Init, Charged, Owners, InBatch, On
  <2>4. ExactFor({})
    BY <2>3, FS_EmptySet DEF Init, ExactFor
  <2>5. ChargedExactly
    BY <2>3, <2>4, ExactIsCharged
  <2> QED BY <2>1, <2>2, <2>5 DEF Inv
<1> QED BY <1>1, InvStep, PTL DEF Spec

\* The counters stay within their limits, whatever is cancelled when.
THEOREM TypeCorrect == Spec => []TypeOK
<1>1. Inv => TypeOK
  BY DEF Inv
<1> QED BY <1>1, Invariant, PTL

\* The two deques hold exactly the waiters that were not granted, once each.
THEOREM QueuesCorrect == Spec => []QueuesHoldWaiters
<1>1. Inv => QueuesHoldWaiters
  BY DEF Inv
<1> QED BY <1>1, Invariant, PTL

\* acquire, release, _grant_waiters and the cancellation path of acquire
\* account for every slot; the only capacity that goes astray is that of
\* grants to cancelled waiters.
THEOREM CountersExact == Spec => []ChargedExactly
<1>1. Inv => ChargedExactly
  BY DEF Inv
<1> QED BY <1>1, Invariant, PTL

\* No limit is ever exceeded: not the global one, not the batch share, not an
\* instance's.
THEOREM NoOversubscription == Spec => []NeverOversubscribed
<1>1. Inv => NeverOversubscribed
  <2> SUFFICES ASSUME Inv
               PROVE  NeverOversubscribed
    OBVIOUS
  <2>1. TypeOK /\ ChargedExactly /\ InstanceBounded
    BY DEF Inv
  <2>2. \A X, Y \in SUBSET Requests : X \subseteq Y =>
          /\ Cardinality(X) \in Nat /\ Cardinality(Y) \in Nat
          /\ Cardinality(X) <= Cardinality(Y)
    BY SchedulerAssumption, FS_Subset, FS_CardinalityType
  <2>3. Owners \subseteq Requests /\ lost \subseteq Requests
    BY <2>1 DEF TypeOK, Owners
  <2>4. GlobalLimit # None =>
          /\ Cardinality(Owners) <= Cardinality(Owners \cup lost)
          /\ Cardinality(Owners \cap Batch) <= Cardinality((Owners \cup lost) \cap Batch)
          /\ Cardinality(Owners) \in Nat /\ Cardinality(Owners \cap Batch) \in Nat
    <3>1. /\ Owners \cup lost \in SUBSET Requests /\ Owners \in SUBSET Requests
          /\ Owners \cap Batch \in SUBSET Requests
          /\ (Owners \cup lost) \cap Batch \in SUBSET Requests
      BY <2>3
    <3> QED BY <2>2, <3>1
  <2>5. GlobalLimit # None =>
          /\ Cardinality(Owners) <= GlobalLimit
          /\ Cardinality(Owners \cap Batch) <= GlobalBatchCapacity
    BY <2>1, <2>4, CapacityType, SchedulerAssumption DEF TypeOK, ChargedExactly
  <2>6. ASSUME NEW i \in Instances, InstanceLimit[i] # None
        PROVE  Cardinality(OwnersOf(i)) <= InstanceLimit[i]
    <3> DEFINE all == {r \in Owners \cup lost : InstanceOf[r] = i}
    <3>1. OwnersOf(i) \subseteq all /\ all \in SUBSET Requests
          /\ OwnersOf(i) \in SUBSET Requests
      BY <2>3 DEF OwnersOf
    <3>2. Cardinality(OwnersOf(i)) <= Cardinality(all)
          /\ Cardinality(OwnersOf(i)) \in Nat /\ Cardinality(all) \in Nat
      BY <2>2, <3>1
    <3>3. instanceInUse[i] = Cardinality(all) /\ instanceInUse[i] <= InstanceLimit[i]
      BY <2>1, <2>6 DEF ChargedExactly, InstanceBounded
    <3>4. InstanceLimit[i] \in Nat
      BY <2>6, SchedulerAssumption
    <3> QED BY <3>2, <3>3, <3>4
  <2> QED BY <2>5, <2>6 DEF NeverOversubscribed
<1> QED BY <1>1, Invariant, PTL

\* No capacity idles beside a waiter that could use it.
THEOREM NoIdleCapacity == Spec => []NoWaiterFits
<1>1. Init => NoWaiterFits
  BY DEF Init, NoWaiterFits, ToSet
<1> QED BY <1>1, FitsStep, Invariant, PTL DEF Spec

\* A batch request is granted, at its arrival or from the queue, only when no
\* interactive waiter fits.
THEOREM InteractiveBeforeBatch == Spec => InteractiveFirst
<1> DEFINE First == \A b \in Batch :
             lost = {} /\ b \notin Owners /\ b \in Owners' => Grantable(interactive) = {}
<1>1. Inv /\ NoWaiterFits /\ [Next]_vars => First
  <2> SUFFICES ASSUME Inv, NoWaiterFits, [Next]_vars, NEW b \in Batch,
                      lost = {}, b \notin Owners, b \in Owners'
               PROVE  Grantable(interactive) = {}
    OBVIOUS
  <2>1. b \in Requests /\ st \in [Requests -> States]
    BY SchedulerAssumption DEF Inv, TypeOK
  <2>2. CASE ~granting
    BY <2>2 DEF NoWaiterFits, Grantable, ToSet
  <2>3. CASE GrantInteractive
    <3>1. PICK i \in DOMAIN interactive : Wake(interactive[i])
      BY <2>3 DEF GrantInteractive
    <3>2. interactive[i] \notin Batch /\ interactive[i] \in Requests
      BY DEF Inv, QueuesHoldWaiters, ToSet, Waiting
    <3>3. st'[b] = st[b]
      BY <2>1, <3>1, <3>2 DEF Wake, Become
    <3> QED BY <2>1, <3>3 DEF Owners
  <2>4. CASE GrantBatch
    BY <2>4 DEF GrantBatch
  <2>5. CASE GrantDone \/ UNCHANGED vars
    BY <2>5 DEF GrantDone, vars, Owners
  <2>6. ASSUME NEW r \in Requests, Acquire(r) \/ Cancel(r) \/ Run(r) \/ Again(r)
        PROVE  ~granting
    BY <2>6 DEF Acquire, Cancel, Run, Resume, Leave, LeaveGranted, Release, Again
  <2> QED BY <2>2, <2>3, <2>4, <2>5, <2>6 DEF Next, GrantStep
<1>2. Inv /\ NoWaiterFits /\ [Next]_vars => [First]_vars
  BY <1>1
<1> QED BY <1>2, Invariant, NoIdleCapacity, PTL DEF Spec, InteractiveFirst
-----------------------------------------------------------------------------
(* The scheduler implements the pool. *)

\* The counters say there is room exactly when the requests themselves do.
LEMMA RoomIsCanGrant ==
  ASSUME Inv, NEW r \in Requests
  PROVE  Pool!Room(r) <=> CanGrant(r)
<1>1. ChargedExactly /\ InstanceOf[r] \in Instances
  BY SchedulerAssumption DEF Inv
<1>2. GlobalLimit # None => /\ globalInUse = Cardinality(Owners \cup lost)
                            /\ globalBatchInUse = Cardinality((Owners \cup lost) \cap Batch)
  BY <1>1 DEF ChargedExactly
<1>3. InstanceLimit[InstanceOf[r]] # None =>
        instanceInUse[InstanceOf[r]]
          = Cardinality({q \in Owners \cup lost : InstanceOf[q] = InstanceOf[r]})
  BY <1>1 DEF ChargedExactly
<1>4. GlobalHasRoom(r) <=>
        (GlobalLimit # None =>
           /\ Cardinality(Owners \cup lost) < GlobalLimit
           /\ r \in Batch => Cardinality((Owners \cup lost) \cap Batch) < GlobalBatchCapacity)
  BY <1>2 DEF GlobalHasRoom
<1>5. InstanceHasRoom(r) <=>
        (InstanceLimit[InstanceOf[r]] # None =>
           Cardinality({q \in Owners \cup lost : InstanceOf[q] = InstanceOf[r]})
             < InstanceLimit[InstanceOf[r]])
  BY <1>3 DEF InstanceHasRoom
<1>6. Pool!Charged = Owners \cup lost
      /\ Pool!ChargedTo(InstanceOf[r]) = {q \in Owners \cup lost : InstanceOf[q] = InstanceOf[r]}
  BY DEF Pool!Charged, Pool!ChargedTo
<1>7. \A S : Pool!Cardinality(S) = Cardinality(S)
  BY DEF Pool!Cardinality, Cardinality
<1> QED BY <1>4, <1>5, <1>6, <1>7 DEF Pool!Room, CanGrant

\* A grant of _grant_waiters is the turn of a waiter of the pool, served or wasted.
LEMMA WakeIsTurn ==
  ASSUME Inv, NEW r \in Requests, r \in Waiting \ lost, CanGrant(r), Wake(r), Inv',
         r \in Batch => Grantable(interactive) = {}
  PROVE  Pool!Serve(r) \/ Pool!Waste(r)
<1> DEFINE W == ToSet(interactive) \cup ToSet(batch)
<1>1. W = Waiting \ lost /\ W' = (Waiting \ lost) \ {r}
  BY WakeStep DEF Inv, QueuesHoldWaiters
<1>2. r \in Batch => \A q \in W \ Batch : ~Pool!Room(q)
  <2> SUFFICES ASSUME r \in Batch, NEW q \in W \ Batch
               PROVE  ~Pool!Room(q)
    OBVIOUS
  <2>1. q \in ToSet(interactive) /\ q \in Requests
    BY <1>1 DEF Inv, QueuesHoldWaiters, Waiting
  <2>2. ~CanGrant(q)
    BY <2>1 DEF Grantable, ToSet
  <2> QED BY <2>1, <2>2, RoomIsCanGrant
<1>3. Pool!Turn(r)
  BY <1>1, <1>2, RoomIsCanGrant DEF Pool!Turn
<1>4. st \in [Requests -> States] /\ st[r] \in {"queued", "cancelled"}
  BY DEF Inv, TypeOK, Waiting
<1>5. CASE st[r] = "cancelled"
  <2>1. lost' = lost \cup {r} /\ Owners' = Owners
    BY <1>5 DEF Wake, Owners
  <2> QED BY <1>1, <1>3, <2>1 DEF Pool!Waste
<1>6. CASE st[r] # "cancelled"
  <2>1. lost' = lost /\ Owners' = Owners \cup {r}
    BY <1>4, <1>6 DEF Wake, Become, Owners
  <2> QED BY <1>1, <1>3, <2>1 DEF Pool!Serve
<1> QED BY <1>5, <1>6

\* Every step of the scheduler is a step of the pool, or changes nothing there.
LEMMA PoolStep == Inv /\ [Next]_vars => [Pool!Next]_(Pool!vars)
<1> DEFINE W == ToSet(interactive) \cup ToSet(batch)
<1> SUFFICES ASSUME Inv, [Next]_vars
             PROVE  Pool!Next \/ UNCHANGED <<Owners, W, lost>>
  BY DEF Pool!vars
<1>0. /\ Inv' /\ W = Waiting \ lost /\ W' = Waiting' \ lost'
      /\ st \in [Requests -> States]
  BY InvStep DEF Inv, QueuesHoldWaiters, TypeOK
<1>1. ASSUME NEW r \in Requests, Acquire(r)
      PROVE  Pool!Next
  <2>1. st[r] = "idle" /\ lost' = lost /\ r \notin lost
    BY <1>1 DEF Acquire, Inv, LostGaveUp
  <2>2. r \notin Owners \cup W \cup lost
    BY <1>0, <2>1 DEF Owners, Waiting
  <2>3. CASE CanGrant(r)
    <3>1. st' = [st EXCEPT ![r] = "holding"]
      BY <1>1, <2>3 DEF Acquire, Become
    <3>2. Owners' = Owners \cup {r} /\ W' = W
      BY <1>0, <2>1, <3>1 DEF Owners, Waiting
    <3> QED BY <2>1, <2>2, <2>3, <3>2, RoomIsCanGrant DEF Pool!Next, Pool!Enter
  <2>4. CASE ~CanGrant(r)
    <3>1. st' = [st EXCEPT ![r] = "queued"]
      BY <1>1, <2>4 DEF Acquire, Become
    <3>2. Owners' = Owners /\ W' = W \cup {r}
      BY <1>0, <2>1, <3>1 DEF Owners, Waiting
    <3> QED BY <2>1, <2>2, <2>4, <3>2, RoomIsCanGrant DEF Pool!Next, Pool!Enter
  <2> QED BY <2>3, <2>4
<1>2. ASSUME NEW r \in Requests, Cancel(r) \/ Resume(r) \/ Again(r)
      PROVE  UNCHANGED <<Owners, W, lost>>
  <2>1. UNCHANGED <<interactive, batch, lost>>
    BY <1>2 DEF Cancel, Resume, Again, queues
  <2>2. Owners' = Owners
    BY <1>0, <1>2 DEF Cancel, Resume, Again, Become, Owners
  <2> QED BY <2>1, <2>2
<1>3. ASSUME NEW r \in Requests, Leave(r)
      PROVE  Pool!Next \/ UNCHANGED <<Owners, W, lost>>
  <2>1. st[r] = "cancelled" /\ st' = [st EXCEPT ![r] = "gone"] /\ lost' = lost
    BY <1>3 DEF Leave, Become
  <2>2. Owners' = Owners /\ W' = W \ {r}
    BY <1>0, <2>1 DEF Owners, Waiting
  <2>3. CASE r \in W
    BY <2>1, <2>2, <2>3 DEF Pool!Next, Pool!GiveUp
  <2> QED BY <2>1, <2>2, <2>3
<1>4. ASSUME NEW r \in Requests, LeaveGranted(r) \/ Release(r)
      PROVE  Pool!Next
  <2>1. /\ r \in Owners /\ st' = [st EXCEPT ![r] = "gone"]
        /\ UNCHANGED <<interactive, batch, lost>>
    BY <1>4 DEF LeaveGranted, Release, Become, queues, Owners
  <2>2. Owners' = Owners \ {r}
    BY <1>0, <2>1 DEF Owners
  <2> QED BY <2>1, <2>2 DEF Pool!Next, Pool!GiveBack
<1>5. CASE GrantInteractive
  <2>1. PICK i \in DOMAIN interactive : CanGrant(interactive[i]) /\ Wake(interactive[i])
    BY <1>5 DEF GrantInteractive, FirstFit
  <2>2. PICK r \in Requests : r = interactive[i]
    BY <2>1, ElementOfSeq, LenProperties DEF Inv, TypeOK
  <2>3. r \in Waiting \ lost /\ r \notin Batch
    BY <2>2 DEF ToSet, Inv, QueuesHoldWaiters
  <2> QED BY <1>0, <2>1, <2>2, <2>3, WakeIsTurn DEF Pool!Next
<1>6. CASE GrantBatch
  <2>1. PICK i \in DOMAIN batch : CanGrant(batch[i]) /\ Wake(batch[i])
    BY <1>6 DEF GrantBatch, FirstFit
  <2>2. PICK r \in Requests : r = batch[i]
    BY <2>1, ElementOfSeq, LenProperties DEF Inv, TypeOK
  <2>3. r \in Waiting \ lost /\ Grantable(interactive) = {}
    BY <1>6, <2>2 DEF ToSet, Inv, QueuesHoldWaiters, GrantBatch
  <2> QED BY <1>0, <2>1, <2>2, <2>3, WakeIsTurn DEF Pool!Next
<1>7. CASE GrantDone \/ UNCHANGED vars
  BY <1>7 DEF GrantDone, vars, queues, Owners
<1> QED BY <1>1, <1>2, <1>3, <1>4, <1>5, <1>6, <1>7 DEF Next, GrantStep, Run

\* The detailed scheduler, with its counters, two queues and futures, keeps the
\* promise of the pool for any number of requests, instances and limits.
THEOREM Refinement == Spec => ImplementsPool
<1>1. Init => Pool!Init
  BY DEF Init, Pool!Init, Owners, ToSet
<1> QED BY <1>1, PoolStep, Invariant, PTL DEF Spec, ImplementsPool, Pool!Spec
=============================================================================
