-------------------------- MODULE OperationsProofs --------------------------
(***************************************************************************)
(* Theorems about Operations for any number of serves, instances, aliases  *)
(* and requests.  The argument: a row is not active while its slot is held *)
(* (LockedIsInactive), so the writes that are not announced concern rows   *)
(* that are not routed to; the labels of snapshots never run ahead of the  *)
(* generation (LabelsAreOld), so an announcement outdates all of them; the *)
(* thread of a benchmark lives in the process its row names (RunnerIsUp),  *)
(* so that the watchdog finds that process alive.                          *)
(***************************************************************************)
EXTENDS Operations, FiniteSetTheorems, NaturalsInduction, WellFoundedInduction, TLAPS

RowSet == [aliases : SUBSET AllAliases, status : Statuses, created : Nat]
RunStatuses == {"none", "PENDING", "RUNNING", "COMPLETED", "FAILED"}

RowsOK == rows \in [Instances -> RowSet \cup {None}]
SlotsOK ==
  /\ slot = [i \in Instances |-> slot[i]]
  /\ \A i \in Instances : slot[i] # None => slot[i].aliases \subseteq AllAliases
RunsOK == run \in [Runs -> RunStatuses]

\* A row is not active while somebody edits, launches or deletes it, and is
\* there while somebody edits it.
LockedIsInactive ==
  \A i \in Instances : slot[i] # None =>
    ~Is(i, Active) /\ (slot[i].todo = "edit" => Exists(i))

\* Snapshots and requests know no generation that is still to come.
LabelsAreOld ==
  /\ generation \in Nat /\ \A g \in reading : g \in Nat /\ g <= generation
  /\ cache # None => cache.generation \in Nat /\ cache.generation <= generation

\* A benchmark's thread lives in the process that its rows name.
RunnerIsUp == bench # None => bench \in Processes /\ bench = runner /\ Up(bench)

RoutingInv == RowsOK /\ SlotsOK /\ LockedIsInactive /\ LabelsAreOld /\ SnapshotIsCurrent
BenchInv == RunsOK /\ RunnerIsUp /\ LiveRunKeepsItsRow
Inv == RoutingInv /\ BenchInv

-----------------------------------------------------------------------------
(* The newest row. *)

\* A set of numbers that is not empty has a least one.
LEMMA LeastNumber ==
  ASSUME NEW S \in SUBSET Nat, S # {}
  PROVE  \E m \in S : \A n \in S : m <= n
<1>1. PICK m \in S : \A n \in S : ~(<<n, m>> \in {ss \in Nat \X Nat : ss[1] < ss[2]})
  <2>1. IsWellFoundedOn({ss \in Nat \X Nat : ss[1] < ss[2]}, Nat)
    BY NatLessThanWellFounded DEF OpToRel
  <2> QED BY <2>1, WFMin
<1>2. ASSUME NEW n \in S
      PROVE  m <= n
  <2>1. m \in Nat /\ n \in Nat /\ ~(n < m)
    BY <1>1
  <2> QED BY <2>1
<1> QED BY <1>2

\* Of finitely many things, each with a number, one has the greatest.
LEMMA GreatestOfFinite ==
  ASSUME NEW S, IsFiniteSet(S), S # {}, NEW f, \A x \in S : f[x] \in Nat
  PROVE  \E x \in S : \A y \in S : f[y] <= f[x]
<1> DEFINE n == Cardinality(S)
<1>1. n \in Nat /\ \E q \in [1..n -> S] : \A x \in S : \E k \in 1..n : q[k] = x
  <2>1. n \in Nat /\ ExistsBijection(1..n, S)
    BY FS_CardinalityType
  <2>2. PICK q \in Bijection(1..n, S) : TRUE
    BY <2>1 DEF ExistsBijection
  <2>3. q \in [1..n -> S] /\ \A x \in S : \E k \in 1..n : q[k] = x
    BY <2>2 DEF Bijection, Injection, Surjection
  <2> QED BY <2>1, <2>3
<1> HIDE DEF n
<1>q. PICK q \in [1..n -> S] : \A x \in S : \E k \in 1..n : q[k] = x
  BY <1>1
<1>2. PICK h \in [1..n -> Nat] : \A k \in 1..n : h[k] = f[q[k]]
  <2>1. [k \in 1..n |-> f[q[k]]] \in [1..n -> Nat]
    BY <1>q
  <2> QED BY <2>1
<1>3. n \in Nat /\ n \in 1..n
  BY <1>1, <1>q
<1> DEFINE Top(m) == \E k \in 1..m : \A l \in 1..m : h[l] <= h[k]
           Bad == {m \in 1..n : ~Top(m)}
<1>4. ASSUME Bad # {}
      PROVE  FALSE
  <2>1. PICK m \in Bad : \A l \in Bad : m <= l
    <3>1. Bad \in SUBSET Nat
      BY <1>3
    <3> HIDE DEF Bad
    <3> QED BY <1>4, <3>1, LeastNumber
  <2>2. m \in 1..n /\ ~Top(m)
    OBVIOUS
  <2>3. m # 1
    BY <2>2
  <2>4. m \in Nat /\ m - 1 \in 1..n /\ ~(m <= m - 1)
    BY <1>3, <2>2, <2>3
  <2>5. m - 1 \notin Bad
    <3> HIDE DEF Bad
    <3> QED BY <2>1, <2>4
  <2>6. PICK k \in 1..(m - 1) : \A l \in 1..(m - 1) : h[l] <= h[k]
    BY <2>4, <2>5
  <2>7. \A l \in 1..m : l \in 1..(m - 1) \/ l = m
    BY <2>4
  <2>8. /\ k \in 1..m /\ m \in 1..m /\ \A l \in 1..m : h[l] \in Nat
        /\ h[k] \in Nat /\ h[m] \in Nat
    BY <1>3, <2>2, <2>4, <2>6
  <2>9. CASE h[m] <= h[k]
    <3>1. \A l \in 1..m : h[l] <= h[k]
      BY <2>6, <2>7, <2>9
    <3> QED BY <2>2, <2>8, <3>1
  <2>10. CASE h[k] <= h[m]
    <3>1. ASSUME NEW l \in 1..m
          PROVE  h[l] <= h[m]
      <4> HIDE DEF Bad
      <4>1. h[l] \in Nat /\ (l = m \/ h[l] <= h[k])
        BY <2>6, <2>7, <2>8
      <4> QED BY <2>8, <2>10, <4>1
    <3> QED BY <2>2, <2>8, <3>1
  <2>11. h[m] <= h[k] \/ h[k] <= h[m]
    <3> HIDE DEF Bad
    <3> QED BY <2>8
  <2> QED BY <2>9, <2>10, <2>11
<1>5. PICK k \in 1..n : \A l \in 1..n : h[l] <= h[k]
  BY <1>3, <1>4
<1>6. \A l \in 1..n : f[q[l]] <= f[q[k]]
  BY <1>2, <1>5
<1> QED BY <1>q, <1>6

\* Among rows that exist there is a newest one.
LEMMA NewestOfRows ==
  ASSUME RowsOK, NEW S \in SUBSET RowIds, S # {}
  PROVE  Newest(S) \in S /\ \A i \in S : rows[i].created <= rows[Newest(S)].created
<1>1. S \subseteq Instances /\ \A i \in S : rows[i] \in RowSet
  BY DEF RowsOK, RowIds, Exists
<1>2. IsFiniteSet(S)
  BY <1>1, RoutingAssumption, FS_Subset
<1> DEFINE f == [i \in S |-> rows[i].created]
<1>3. \A i \in S : f[i] \in Nat
  BY <1>1 DEF RowSet
<1>4. PICK i \in S : \A j \in S : f[j] <= f[i]
  <2> HIDE DEF f
  <2> QED BY <1>2, <1>3, GreatestOfFinite
<1>5. \A j \in S : rows[j].created <= rows[i].created
  BY <1>4
<1> QED BY <1>5 DEF Newest

\* A row is created at a time of its own.
LEMMA LaterType ==
  ASSUME RowsOK
  PROVE  Later \in Nat
<1>1. CASE RowIds = {}
  BY <1>1 DEF Later
<1>2. CASE RowIds # {}
  <2>1. Newest(RowIds) \in RowIds
    BY <1>2, NewestOfRows
  <2>2. rows[Newest(RowIds)].created \in Nat
    BY <2>1 DEF RowsOK, RowIds, Exists, RowSet
  <2> QED BY <1>2, <2>2 DEF Later
<1> QED BY <1>1, <1>2

-----------------------------------------------------------------------------
(* The rows and the snapshot. *)

\* A writer at work on a row.
RowStep(i, p) ==
  \/ \E todo \in {"launch", "edit"} : Check(i, p, todo)
  \/ Reserve(i, p) \/ Save(i, p) \/ BecomeRunning(i, p) \/ Stop(i, p)
  \/ StartDeleting(i, p) \/ DeleteRow(i, p)

\* What a step does to the rows, the announcements and the snapshot, by its kind.
LEMMA RoutingActions ==
  ASSUME [Next]_vars
  PROVE  \/ UNCHANGED routing
         \/ Losses
         \/ \E i \in Instances : HealthFails(i) \/ \E p : RowStep(i, p)
         \/ \E p : \E listing \in BOOLEAN : Announce(p, listing)
         \/ ReadGeneration \/ TakeSnapshot \/ Expire
<1>1. CASE UNCHANGED vars
  BY <1>1 DEF vars
<1>2. CASE StackStep \/ Fault \/ StartStack
  BY <1>2 DEF StackStep, Fault, StartStack
<1>3. CASE AskOfModel \/ Downloading \/ Benchmarking \/ Watchdog
  BY <1>3 DEF AskOfModel, Downloading, Benchmarking, Watchdog
<1>4. CASE AskOfInstance \/ InstanceWork
  BY <1>4 DEF AskOfInstance, InstanceWork, RowStep
<1>5. CASE GatewayWork
  BY <1>5 DEF GatewayWork, RowStep
<1>6. CASE Announcing
  BY <1>6 DEF Announcing
<1>7. CASE Listing
  BY <1>7 DEF Listing
<1>8. CASE Deleting
  BY <1>8 DEF Deleting, Delete, StartInstance, EndInstance, FailInstance, RowStep
<1> QED BY <1>1, <1>2, <1>3, <1>4, <1>5, <1>6, <1>7, <1>8 DEF Next

\* Only writers change the rows; processes that end change the slots.
LEMMA RowActions ==
  ASSUME [Next]_vars
  PROVE  \/ UNCHANGED <<rows, slot>>
         \/ Losses /\ UNCHANGED rows
         \/ \E i \in Instances : HealthFails(i) \/ \E p : RowStep(i, p)
BY RoutingActions DEF routing, Losses, Lost, Announce, ReadGeneration, TakeSnapshot, Expire

\* The rows and the locks keep their types.
LEMMA RowTypeStep ==
  ASSUME RowsOK, SlotsOK, LockedIsInactive, [Next]_vars
  PROVE  RowsOK' /\ SlotsOK'
<1>1. \A i \in Instances : Exists(i) => rows[i] \in RowSet
  BY DEF RowsOK, Exists
<1>2. CASE UNCHANGED <<rows, slot>>
  BY <1>2 DEF RowsOK, SlotsOK
<1>3. CASE Losses /\ UNCHANGED rows
  BY <1>3 DEF Losses, Lost, RowsOK, SlotsOK
<1>4. ASSUME NEW i \in Instances, Exists(i), NEW to \in Statuses, rows' = WithStatus(i, to)
      PROVE  RowsOK'
  <2>1. [rows[i] EXCEPT !.status = to] \in RowSet
    BY <1>1, <1>4 DEF RowSet
  <2> QED BY <1>4, <2>1 DEF WithStatus, RowsOK
<1>5. ASSUME NEW i \in Instances, HealthFails(i)
      PROVE  RowsOK' /\ SlotsOK'
  BY <1>4, <1>5 DEF HealthFails, Is, Statuses, SlotsOK
<1>6. ASSUME NEW i \in Instances, NEW p, RowStep(i, p)
      PROVE  RowsOK' /\ SlotsOK'
  <2>1. CASE \E todo \in {"launch", "edit"} : Check(i, p, todo)
    <3>1. PICK todo \in {"launch", "edit"} : \E aliases \in AliasSets :
            slot' = [slot EXCEPT ![i] = [by |-> p, todo |-> todo, aliases |-> aliases]]
      BY <2>1 DEF Check
    <3>2. (\A aliases \in AliasSets : aliases \subseteq AllAliases) /\ UNCHANGED rows
      BY <2>1 DEF AllAliases, Check
    <3> QED BY <3>1, <3>2 DEF RowsOK, SlotsOK
  <2>2. CASE Reserve(i, p)
    <3>1. Row(slot[i].aliases, "LOADING", IF Exists(i) THEN rows[i].created ELSE Later) \in RowSet
      BY <1>1, <2>2, LaterType DEF Reserve, HeldBy, SlotsOK, Row, RowSet, Statuses, Active
    <3> QED BY <2>2, <3>1 DEF Reserve, Free, RowsOK, SlotsOK
  <2>3. CASE Save(i, p)
    <3>1. Exists(i)
      BY <2>3 DEF Save, HeldBy, LockedIsInactive
    <3>2. [rows[i] EXCEPT !.aliases = slot[i].aliases] \in RowSet
      BY <1>1, <2>3, <3>1 DEF Save, HeldBy, SlotsOK, RowSet
    <3>3. RowsOK'
      BY <2>3, <3>2 DEF Save, RowsOK
    <3> QED BY <2>3, <3>3 DEF Save, Free, SlotsOK
  <2>4. CASE BecomeRunning(i, p) \/ Stop(i, p)
    BY <1>4, <2>4 DEF BecomeRunning, Stop, Is, Statuses, Active, SlotsOK
  <2>5. CASE StartDeleting(i, p)
    <3>1. RowsOK'
      BY <1>4, <2>5 DEF StartDeleting, Statuses, RowsOK
    <3> QED BY <2>5, <3>1 DEF StartDeleting, SlotsOK
  <2>6. CASE DeleteRow(i, p)
    BY <2>6 DEF DeleteRow, Free, RowsOK, SlotsOK
  <2> QED BY <1>6, <2>1, <2>2, <2>3, <2>4, <2>5, <2>6 DEF RowStep
<1> QED BY <1>2, <1>3, <1>5, <1>6, RowActions

\* A slot is taken over a row that is not active, and a row becomes active only
\* when nobody holds its slot.
LEMMA LockStep ==
  ASSUME RowsOK, SlotsOK, LockedIsInactive, [Next]_vars
  PROVE  LockedIsInactive'
<1>1. /\ \A i \in Instances : Exists(i) => rows[i] \in RowSet
      /\ DOMAIN rows = Instances /\ DOMAIN slot = Instances
  BY DEF RowsOK, SlotsOK, Exists
<1>2. CASE UNCHANGED <<rows, slot>>
  BY <1>2 DEF LockedIsInactive, Is, Exists
<1>3. CASE Losses /\ UNCHANGED rows
  BY <1>3 DEF Losses, Lost, LockedIsInactive, Is, Exists
<1>4. ASSUME NEW i \in Instances,
             \A j \in Instances \ {i} : slot'[j] = slot[j] /\ rows'[j] = rows[j],
             slot'[i] # None => ~Is(i, Active)' /\ (slot'[i].todo = "edit" => Exists(i)')
      PROVE  LockedIsInactive'
  BY <1>4 DEF LockedIsInactive, Is, Exists
<1>5. ASSUME NEW i \in Instances, HealthFails(i)
      PROVE  LockedIsInactive'
  BY <1>1, <1>4, <1>5 DEF HealthFails, WithStatus
<1>6. ASSUME NEW i \in Instances, NEW p, RowStep(i, p)
      PROVE  LockedIsInactive'
  <2>1. CASE \E todo \in {"launch", "edit"} : Check(i, p, todo)
    BY <1>1, <1>4, <2>1 DEF Check, Is, Exists
  <2>2. CASE Reserve(i, p) \/ Save(i, p) \/ DeleteRow(i, p)
    BY <1>1, <1>4, <2>2 DEF Reserve, Save, DeleteRow, Free
  <2>3. CASE BecomeRunning(i, p) \/ Stop(i, p)
    BY <1>1, <1>4, <2>3 DEF BecomeRunning, Stop, MayWrite, WithStatus
  <2>4. CASE StartDeleting(i, p) /\ Is(i, Active)
    <3>1. rows'[i].status = "STOPPED"
      BY <1>1, <2>4 DEF StartDeleting, WithStatus, Is, RowSet
    <3> QED BY <1>1, <1>4, <2>4, <3>1 DEF StartDeleting, WithStatus, Is, Active
  <2>5. CASE StartDeleting(i, p) /\ ~Is(i, Active)
    BY <1>1, <1>4, <2>5 DEF StartDeleting, Is, Exists
  <2> QED BY <1>6, <2>1, <2>2, <2>3, <2>4, <2>5 DEF RowStep
<1> QED BY <1>2, <1>3, <1>5, <1>6, RowActions

\* A snapshot is labelled with a generation somebody has read.
LEMMA LabelStep ==
  ASSUME LabelsAreOld, [Next]_vars
  PROVE  LabelsAreOld'
<1>1. CASE UNCHANGED <<generation, cache, reading>>
  BY <1>1 DEF LabelsAreOld
<1>2. CASE Losses
  BY <1>2 DEF Losses, Lost, cached, LabelsAreOld
<1>3. ASSUME NEW i \in Instances, NEW p, HealthFails(i) \/ RowStep(i, p)
      PROVE  UNCHANGED <<generation, cache, reading>>
  BY <1>3 DEF HealthFails, RowStep, Check, Reserve, Save, BecomeRunning, Stop, StartDeleting,
              DeleteRow, Written, Quietly, cached
<1>4. ASSUME NEW p, NEW listing \in BOOLEAN, Announce(p, listing)
      PROVE  LabelsAreOld'
  BY <1>4 DEF Announce, LabelsAreOld
<1>5. CASE ReadGeneration
  BY <1>5 DEF ReadGeneration, LabelsAreOld
<1>6. CASE TakeSnapshot
  BY <1>6 DEF TakeSnapshot, LabelsAreOld
<1>7. CASE Expire
  BY <1>7 DEF Expire, LabelsAreOld
<1> QED BY <1>1, <1>2, <1>3, <1>4, <1>5, <1>6, <1>7, RoutingActions DEF routing

\* A write that is not announced leaves the rows that serve an alias alone.
LEMMA QuietWrite ==
  ASSUME RowsOK, LockedIsInactive, NEW i \in Instances, NEW p, RowStep(i, p),
         announcing' = {}
  PROVE  /\ \A a : Serving(a)' = Serving(a) /\ \A j \in Serving(a) : rows'[j] = rows[j]
         /\ UNCHANGED <<announcing, unsaid, generation, cached>>
<1>1. DOMAIN rows = Instances
  BY DEF RowsOK
<1>2. ASSUME UNCHANGED rows
      PROVE  \A a : Serving(a)' = Serving(a) /\ \A j \in Serving(a) : rows'[j] = rows[j]
  BY <1>2 DEF Serving, Is, Exists
<1>3. ASSUME \A j \in Instances \ {i} : rows'[j] = rows[j],
             ~Is(i, {"RUNNING"}), ~Is(i, {"RUNNING"})'
      PROVE  \A a : Serving(a)' = Serving(a) /\ \A j \in Serving(a) : rows'[j] = rows[j]
  BY <1>3 DEF Serving, Is, Exists
<1>4. CASE \E todo \in {"launch", "edit"} : Check(i, p, todo)
  BY <1>2, <1>4 DEF Check, Quietly
<1>5. CASE Reserve(i, p)
  <2>1. ~Is(i, {"RUNNING"})
    BY <1>5 DEF Reserve, HeldBy, LockedIsInactive, Is, Active
  <2>2. rows'[i].status = "LOADING" /\ \A j \in Instances \ {i} : rows'[j] = rows[j]
    BY <1>1, <1>5 DEF Reserve, Row
  <2>3. ~Is(i, {"RUNNING"})'
    BY <2>2 DEF Is
  <2> QED BY <1>3, <1>5, <2>1, <2>2, <2>3 DEF Reserve, Quietly
<1>6. CASE DeleteRow(i, p)
  <2>1. ~Is(i, {"RUNNING"})
    BY <1>6 DEF DeleteRow, HeldBy, LockedIsInactive, Is, Active
  <2>2. rows'[i] = None /\ \A j \in Instances \ {i} : rows'[j] = rows[j]
    BY <1>1, <1>6 DEF DeleteRow
  <2>3. ~Is(i, {"RUNNING"})'
    BY <2>2 DEF Is, Exists
  <2> QED BY <1>3, <1>6, <2>1, <2>2, <2>3 DEF DeleteRow, Quietly
<1>7. CASE StartDeleting(i, p)
  BY <1>2, <1>7 DEF StartDeleting, Written, Quietly
<1>8. ~Save(i, p) /\ ~BecomeRunning(i, p) /\ ~Stop(i, p)
  BY DEF Save, BecomeRunning, Stop, Written
<1> QED BY <1>4, <1>5, <1>6, <1>7, <1>8 DEF RowStep

\* What a snapshot reads is current when it is taken.
LEMMA SnapshotReads ==
  ASSUME RowsOK, NEW a \in AllAliases
  PROVE  IF Serving(a) = {} THEN Snapshot[a] = None
         ELSE /\ Snapshot[a] \in Serving(a)
              /\ \A i \in Serving(a) : rows[i].created <= rows[Snapshot[a]].created
<1>1. Serving(a) \in SUBSET RowIds
  BY DEF Serving, RowIds, Is
<1> QED BY <1>1, NewestOfRows DEF Snapshot

\* A write is followed by an announcement, which outdates every snapshot that
\* was taken before it, whether it read the write or not.
LEMMA CurrentStep ==
  ASSUME RowsOK, LockedIsInactive, LabelsAreOld, SnapshotIsCurrent, [Next]_vars
  PROVE  SnapshotIsCurrent'
<1> DEFINE Right(t, a) ==
             IF Serving(a) = {} THEN t = None
             ELSE /\ t \in Serving(a)
                  /\ \A i \in Serving(a) : rows[i].created <= rows[t].created
           Fresh == cache # None /\ cache.generation = generation /\ announcing = {} /\ ~unsaid
<1>1. Fresh => \A a \in AllAliases : Right(cache.running[a], a)
  BY DEF SnapshotIsCurrent
<1> SUFFICES ASSUME Fresh', NEW a \in AllAliases
             PROVE  Right(cache.running[a], a)'
  BY DEF SnapshotIsCurrent
<1>2. ASSUME UNCHANGED cache, Fresh,
             Serving(a)' = Serving(a) /\ \A j \in Serving(a) : rows'[j] = rows[j]
      PROVE  Right(cache.running[a], a)'
  BY <1>1, <1>2
<1>3. ASSUME UNCHANGED rows
      PROVE  Serving(a)' = Serving(a) /\ \A j \in Serving(a) : rows'[j] = rows[j]
  BY <1>3 DEF Serving, Is, Exists
<1>4. CASE UNCHANGED routing
  BY <1>2, <1>3, <1>4 DEF routing
<1>5. CASE Losses
  <2>1. UNCHANGED <<rows, cache, generation>> /\ announcing = {} /\ ~unsaid
    BY <1>5 DEF Losses, Lost, cached
  <2> QED BY <1>2, <1>3, <2>1
<1>6. ASSUME NEW i \in Instances, HealthFails(i)
      PROVE  FALSE
  BY <1>6 DEF HealthFails
<1>7. ASSUME NEW i \in Instances, NEW p, RowStep(i, p)
      PROVE  Right(cache.running[a], a)'
  BY <1>2, <1>7, QuietWrite DEF cached
<1>8. ASSUME NEW p, NEW listing \in BOOLEAN, Announce(p, listing)
      PROVE  FALSE
  BY <1>8 DEF Announce, LabelsAreOld
<1>9. CASE ReadGeneration
  BY <1>2, <1>3, <1>9 DEF ReadGeneration
<1>10. CASE TakeSnapshot
  <2>1. UNCHANGED <<rows, announcing, unsaid, generation>>
    BY <1>10 DEF TakeSnapshot
  <2>2. CASE UNCHANGED cache
    BY <1>2, <1>3, <2>1, <2>2
  <2>3. CASE cache'.running = Snapshot
    <3>1. Right(Snapshot[a], a)
      BY SnapshotReads
    <3>2. Right(Snapshot[a], a) <=> Right(cache.running[a], a)'
      BY <1>3, <2>1, <2>3
    <3> QED BY <3>1, <3>2
  <2> QED BY <1>10, <2>2, <2>3 DEF TakeSnapshot
<1>11. CASE Expire
  BY <1>11 DEF Expire
<1> QED BY <1>4, <1>5, <1>6, <1>7, <1>8, <1>9, <1>10, <1>11, RoutingActions

-----------------------------------------------------------------------------
(* The benchmarks. *)

\* What a step does to the benchmark and its process, by its kind.
LEMMA BenchActions ==
  ASSUME [Next]_vars
  PROVE  \/ UNCHANGED <<stack, run, bench, runner>>
         \/ Losses
         \/ /\ UNCHANGED stack
            /\ \/ \E p \in Running("ui") : StartBenchmark(p)
               \/ DeleteRuns \/ Bench \/ RemoveRuns
               \/ \E r \in Runs : FailOrphan(r, Up(runner))
<1>1. CASE UNCHANGED vars
  BY <1>1 DEF vars, store, benchmarks, subject
<1>2. CASE StackStep \/ Fault \/ StartStack
  BY <1>2 DEF StackStep, Fault, StartStack
<1>3. CASE AskOfModel
  BY <1>3 DEF AskOfModel, StartDownload, StartDeletion, benchmarks, subject
<1>4. CASE AskOfInstance \/ GatewayWork \/ Announcing \/ Listing
  BY <1>4 DEF AskOfInstance, GatewayWork, Announcing, Listing, store, benchmarks, subject
<1>5. CASE InstanceWork
  BY <1>5 DEF InstanceWork, Unlink, store, benchmarks, subject
<1>6. CASE Downloading
  BY <1>6 DEF Downloading, Fetch, EndDownload, benchmarks, subject
<1>7. CASE Benchmarking
  BY <1>7 DEF Benchmarking
<1>8. CASE Deleting
  BY <1>8 DEF Deleting, Delete, StartInstance, EndInstance, FailInstance, InstancesGone, RemoveFolder,
              Unlink, store, benchmarks, subject
<1>9. CASE Watchdog
  BY <1>9 DEF Watchdog, ReadUnended, subject
<1> QED BY <1>1, <1>2, <1>3, <1>4, <1>5, <1>6, <1>7, <1>8, <1>9 DEF Next

\* The runs keep their type, the thread of a benchmark its process, and its row
\* until the thread itself ends it.
LEMMA BenchStep ==
  ASSUME BenchInv, [Next]_vars
  PROVE  BenchInv'
<1>1. RunsOK /\ RunnerIsUp /\ LiveRunKeepsItsRow
  BY DEF BenchInv
<1> USE DEF BenchInv, RunsOK, RunnerIsUp, LiveRunKeepsItsRow
<1>2. CASE UNCHANGED <<stack, run, bench, runner>>
  BY <1>1, <1>2 DEF stack, Up
<1>3. CASE Losses
  <2>1. /\ UNCHANGED <<run, runner>> /\ bench' = IF bench \in Ended THEN None ELSE bench
    BY <1>3 DEF Losses, StoreLoses, subject
  <2>2. bench' # None => bench' = bench /\ bench \notin Ended
    BY <2>1
  <2>3. bench' # None => Up(bench)'
    BY <1>1, <2>2 DEF Ended, Up
  <2> QED BY <1>1, <2>1, <2>2, <2>3
<1>4. ASSUME UNCHANGED stack, NEW p \in Running("ui"), StartBenchmark(p)
      PROVE  BenchInv'
  <2>1. p \in Processes /\ Up(p)
    BY <1>4 DEF Running
  <2>2. Up(p)'
    BY <1>4, <2>1 DEF stack, Up
  <2> QED BY <1>1, <1>4, <2>1, <2>2 DEF StartBenchmark, SetRun, Runs, RunStatuses, Unfinished
<1>5. CASE UNCHANGED stack /\ DeleteRuns
  BY <1>1, <1>5 DEF DeleteRuns, NoRuns, RunStatuses, Unfinished
<1>6. CASE UNCHANGED stack /\ RemoveRuns
  <2>1. UNCHANGED <<bench, runner>> /\ (run' = run \/ run' = NoRuns)
    BY <1>6 DEF RemoveRuns
  <2>2. run' # run => bench = None
    BY <1>1, <1>6 DEF RemoveRuns
  <2> QED BY <1>1, <1>6, <2>1, <2>2 DEF NoRuns, RunStatuses, stack, Up
<1>7. ASSUME UNCHANGED stack, NEW r \in Runs, FailOrphan(r, Up(runner))
      PROVE  BenchInv'
  <2>1. UNCHANGED <<bench, runner>>
    BY <1>7 DEF FailOrphan, subject
  <2>2. run' # run => bench = None /\ run' = [run EXCEPT ![r] = "FAILED"]
    BY <1>1, <1>7 DEF FailOrphan, SetRun
  <2> QED BY <1>1, <1>7, <2>1, <2>2 DEF RunStatuses, stack, Up
<1>8. ASSUME UNCHANGED stack, Bench
      PROVE  BenchInv'
  <2>1. UNCHANGED runner /\ (bench' = None \/ UNCHANGED bench)
    BY <1>8 DEF Bench, EndParent, BeginRun, CreateChild, EndChild, subject
  <2>2. RunnerIsUp'
    BY <1>1, <1>8, <2>1 DEF stack, Up
  <2>3. CASE EndParent
    BY <1>1, <2>2, <2>3 DEF EndParent, SetRun, PerfOutcome, QualityOutcome, Runs, RunStatuses
  <2>4. ASSUME NEW r \in Runs, BeginRun(r)
        PROVE  BenchInv'
    BY <1>1, <2>2, <2>4 DEF BeginRun, SetRun, Runs, RunStatuses, Unfinished
  <2>5. ASSUME NEW r \in Children, EndChild(r)
        PROVE  BenchInv'
    <3>1. PICK status \in PerfOutcome \cup QualityOutcome : run' = [run EXCEPT ![r] = status]
      BY <2>5 DEF EndChild, SetRun
    <3>2. status \in RunStatuses /\ r \in Runs /\ r # "parent" /\ UNCHANGED bench
      BY <2>5 DEF EndChild, PerfOutcome, QualityOutcome, RunStatuses, Runs, Children
    <3> QED BY <1>1, <2>2, <3>1, <3>2 DEF Runs, Unfinished
  <2>6. CASE CreateChild
    <3>1. NextChild \in Runs /\ NextChild # "parent"
      BY DEF NextChild, Runs, Children
    <3> QED BY <1>1, <2>2, <2>6, <3>1 DEF CreateChild, SetRun, RunStatuses, Runs, Unfinished
  <2> QED BY <1>8, <2>3, <2>4, <2>5, <2>6 DEF Bench, Runs, Children
<1> QED BY <1>2, <1>3, <1>4, <1>5, <1>6, <1>7, <1>8, BenchActions

-----------------------------------------------------------------------------
\* It holds of the rows, stacks and runs the service finds.
LEMMA InitInv == Init => Inv
<1> SUFFICES ASSUME Init
             PROVE  Inv
  OBVIOUS
<1>1. PICK s \in Scenarios : RoutingInit(s.rows)
  BY DEF Init
<1>2. RowsOK
  <2>1. \A aliases \in AliasSets : aliases \subseteq AllAliases
    BY DEF AllAliases
  <2>2. [aliases : AliasSets, status : Statuses, created : Nat] \subseteq RowSet
    BY <2>1 DEF RowSet
  <2>3. s.rows \in [Instances ->
                      [aliases : AliasSets, status : Statuses, created : Nat] \cup {None}]
    BY OperationsAssumption
  <2> QED BY <1>1, <2>2, <2>3 DEF RowsOK, RoutingInit
<1>3. SlotsOK /\ LockedIsInactive /\ LabelsAreOld /\ SnapshotIsCurrent
  BY <1>1 DEF RoutingInit, SlotsOK, LockedIsInactive, LabelsAreOld, SnapshotIsCurrent
<1>4. BenchInv
  BY DEF Init, StoreInit, BenchInv, RunsOK, RunnerIsUp, LiveRunKeepsItsRow, NoRuns, RunStatuses
<1> QED BY <1>2, <1>3, <1>4 DEF Inv, RoutingInv

\* Each operation of the routing, the models, the benchmarks and the stacks keeps it.
LEMMA NextInv == Inv /\ [Next]_vars => Inv'
<1> SUFFICES ASSUME Inv, [Next]_vars
             PROVE  Inv'
  OBVIOUS
<1>1. RowsOK /\ SlotsOK /\ LockedIsInactive /\ LabelsAreOld /\ SnapshotIsCurrent /\ BenchInv
  BY DEF Inv, RoutingInv
<1>2. RowsOK' /\ SlotsOK'
  BY <1>1, RowTypeStep
<1>3. LockedIsInactive' /\ LabelsAreOld' /\ SnapshotIsCurrent'
  BY <1>1, LockStep, LabelStep, CurrentStep
<1>4. BenchInv'
  BY <1>1, BenchStep
<1> QED BY <1>2, <1>3, <1>4 DEF Inv, RoutingInv

\* Every state is within the invariant.
LEMMA Invariant == Spec => []Inv
BY InitInv, NextInv, PTL DEF Spec

\* Once every write is announced, a snapshot of the current generation gives
\* each alias the newest row that serves it (get_route_snapshot), for any
\* number of processes that write, announce and die.
THEOREM RoutesCurrent == Spec => []SnapshotIsCurrent
<1>1. Inv => SnapshotIsCurrent
  BY DEF Inv, RoutingInv
<1> QED BY <1>1, Invariant, PTL

\* While an instance is edited, launched or deleted under its slot, its row is
\* not active: what need not be announced never concerns a row that is routed to.
THEOREM LocksKeepRows == Spec => []LockedIsInactive
<1>1. Inv => LockedIsInactive
  BY DEF Inv, RoutingInv
<1> QED BY <1>1, Invariant, PTL

\* Neither the watchdog nor the deletion of the model takes a benchmark away
\* from the thread that runs it (fail_orphaned_benchmark_runs,
\* delete_benchmark_runs_for_model).
THEOREM LiveRunsKept == Spec => []LiveRunKeepsItsRow
<1>1. Inv => LiveRunKeepsItsRow
  BY DEF Inv, BenchInv
<1> QED BY <1>1, Invariant, PTL
=============================================================================
