---------------------------- MODULE FleetProofs ----------------------------
(***************************************************************************)
(* Theorems about Fleet for any number of instances and requests, any      *)
(* memory and any sizes of models.  The argument: a load holds the slot of *)
(* its instance, which is LOADING meanwhile, and the slot of the victim it *)
(* is stopping (LoadHolds); its victims were RUNNING when it chose them    *)
(* and are pairwise different (VictimsChosen); a request with a heartbeat  *)
(* keeps the stamp of its instance young (BusyIsYoung); the slots taken    *)
(* are within the scheduler's limits (Limited), and the plan counts as many *)
(* sequences as the least of the limits it knows (ParallelIs).             *)
(***************************************************************************)
EXTENDS Fleet, FiniteSetTheorems, SequenceTheorems, WellFoundedInduction, NaturalsInduction, TLAPS

Statuses == {"RUNNING", "STOPPED", "LOADING", "FAILED"}
Phases == {"none", "plan", "evict", "stopping", "wait"}
Places == {"idle", "resolving", "found", "locked", "observing", "loading", "queue",
           "open", "opened", "stream", "beating", "body", "cut", "done"}

RowOK ==
  /\ status \in [Instances -> Statuses]
  /\ slot \in [Instances -> Instances \cup {None, "idle"}]
  /\ resident \subseteq Instances
LoadOK ==
  /\ phase \in [Instances -> Phases] /\ home \in [Instances -> Processes]
  /\ victims \in [Instances -> Seq(OnDemand)] /\ reserved \in [Processes -> SUBSET OnDemand]
StampOK == stamp \in [OnDemand -> 1..Latest] /\ old \in 0..Latest
CallOK ==
  /\ st \in [Sessions -> Places]
  /\ served \subseteq Sessions /\ waiting \subseteq Sessions /\ wasted \subseteq Sessions
WakeOK ==
  /\ waking \in [Instances -> Sessions \cup {None}]
  /\ idle \in OnDemand \cup {None}
TypeOK == RowOK /\ LoadOK /\ StampOK /\ CallOK /\ WakeOK

\* A load holds its slot, and its row says so; a stop holds the victim's.
LoadHolds(i) ==
  /\ phase[i] # "none" => slot[i] = i /\ status[i] = "LOADING"
  /\ phase[i] = "stopping" => victims[i] # <<>> /\ slot[Head(victims[i])] = i
LoadsHold == \A i \in Instances : LoadHolds(i)

\* Only a load that evicts has victims, each once, and never itself.
VictimsChosen(i) ==
  /\ phase[i] \notin {"evict", "stopping"} => victims[i] = <<>>
  /\ IsInjective(victims[i]) /\ i \notin Pending(i)
VictimsAreChosen == \A i \in Instances : VictimsChosen(i)

\* The stamp of an instance whose request has a heartbeat is within the grace.
BusyIsYoung == \A i \in Instances : IsOld(i) => Beating(i) = {}

Inv ==
  /\ TypeOK /\ LoadsHold /\ VictimsAreChosen /\ BusyIsYoung
  /\ ReservationsAreHeld /\ EvictionsAreAcyclic /\ HoldersAreCalls

-----------------------------------------------------------------------------
\* The stamps are ranks among a finite number of instances.
LEMMA LatestType == Latest \in Nat
BY FleetAssumption, FS_CardinalityType DEF Latest

\* Dropping the first of a sequence of different elements drops it alone.
LEMMA TailFacts ==
  ASSUME NEW S, NEW s \in Seq(S), s # <<>>, IsInjective(s)
  PROVE  /\ Head(s) \in S /\ Head(s) \in Range(s)
         /\ Tail(s) \in Seq(S) /\ IsInjective(Tail(s))
         /\ Range(Tail(s)) = Range(s) \ {Head(s)}
<1> DEFINE t == Tail(s)
           n == Len(s)
<1>1. n \in Nat \ {0} /\ DOMAIN s = 1..n /\ Head(s) = s[1] /\ \A m \in 1..n : s[m] \in S
  BY EmptySeq, LenProperties, ElementOfSeq
<1>2. t \in Seq(S) /\ DOMAIN t = 1..(n - 1) /\ \A m \in 1..(n - 1) : t[m] = s[m + 1]
  BY HeadTailProperties, LenProperties
<1> HIDE DEF t, n
<1>3. \A k, m \in 1..n : s[k] = s[m] => k = m
  BY <1>1 DEF IsInjective
<1>4. IsInjective(t)
  BY <1>1, <1>2, <1>3 DEF IsInjective
<1>5. Range(t) \subseteq Range(s) \ {Head(s)}
  <2> SUFFICES ASSUME NEW m \in 1..(n - 1)
               PROVE  t[m] \in Range(s) \ {Head(s)}
    BY <1>2 DEF Range
  <2>1. m + 1 \in 1..n /\ m + 1 # 1 /\ 1 \in 1..n
    BY <1>1
  <2> QED BY <1>1, <1>2, <1>3, <2>1 DEF Range
<1>6. Range(s) \ {Head(s)} \subseteq Range(t)
  <2> SUFFICES ASSUME NEW m \in 1..n, m # 1
               PROVE  s[m] \in Range(t)
    BY <1>1 DEF Range
  <2>1. m - 1 \in 1..(n - 1) /\ (m - 1) + 1 = m
    BY <1>1
  <2>2. t[m - 1] = s[m]
    BY <1>2, <2>1
  <2> QED BY <1>2, <2>1, <2>2 DEF Range
<1>7. Head(s) \in Range(s)
  BY <1>1 DEF Range
<1> QED BY <1>1, <1>2, <1>4, <1>5, <1>6, <1>7 DEF t

\* The empty sequence is one of different elements, and has none.
LEMMA EmptyFacts ==
  ASSUME NEW S
  PROVE  <<>> \in Seq(S) /\ IsInjective(<<>>) /\ Range(<<>>) = {}
BY EmptySeq DEF IsInjective, Range

\* A plan names candidates only, each of them once.
LEMMA PlanFacts ==
  ASSUME NEW i \in Instances, NEW plan \in BoundedSeq(Candidates(i), MaxEvictions),
         IsPlan(i, plan), StampOK
  PROVE  /\ plan \in Seq(OnDemand) /\ IsInjective(plan)
         /\ Range(plan) \subseteq Candidates(i)
<1>1. PICK n \in 0..MaxEvictions : plan \in [1..n -> Candidates(i)]
  BY DEF BoundedSeq, SeqOf
<1>2. n \in Nat /\ Candidates(i) \subseteq OnDemand
  BY DEF MaxEvictions, Candidates
<1>3. plan \in Seq(OnDemand)
  <2>1. plan \in [1..n -> OnDemand]
    BY <1>1, <1>2
  <2> QED BY <1>2, <2>1, SeqDef
<1>4. \A k, m \in 1..n : k < m => stamp[plan[k]] < stamp[plan[m]]
  BY <1>1 DEF IsPlan
<1>5. \A k \in 1..n : stamp[plan[k]] \in Int
  BY <1>1, <1>2, LatestType DEF StampOK
<1>6. ASSUME NEW k \in 1..n, NEW m \in 1..n, plan[k] = plan[m]
      PROVE  k = m
  <2>1. ~(k < m) /\ ~(m < k)
    BY <1>4, <1>5, <1>6
  <2> QED BY <2>1, <1>2
<1> QED BY <1>1, <1>3, <1>6 DEF IsInjective, Range

\* A touch makes its instance the youngest, and ages no other beyond the grace.
LEMMA TouchFacts ==
  ASSUME NEW i, StampOK, Touch(i)
  PROVE  /\ StampOK'
         /\ i \in OnDemand => ~IsOld(i)'
         /\ \A j : IsOld(j)' => IsOld(j)
<1>1. CASE i \notin OnDemand
  BY <1>1 DEF Touch, activity, StampOK, IsOld
<1>2. CASE i \in OnDemand
  <2>1. /\ Latest \in Nat /\ old \in 0..Latest
        /\ \A j \in OnDemand : stamp[j] \in 1..Latest
    BY LatestType DEF StampOK
  <2>2. /\ DOMAIN stamp' = OnDemand /\ stamp' = [j \in OnDemand |-> stamp'[j]]
        /\ \A j \in OnDemand :
             stamp'[j] = IF j = i THEN Latest
                         ELSE IF stamp[j] > stamp[i] THEN stamp[j] - 1 ELSE stamp[j]
        /\ old' = IF stamp[i] <= old THEN old - 1 ELSE old
    BY <1>2 DEF Touch, IsOld
  <2>3. \A j \in OnDemand : stamp'[j] \in 1..Latest
    BY <1>2, <2>1, <2>2
  <2>4. old' \in 0..Latest /\ ~(stamp'[i] <= old')
    BY <1>2, <2>1, <2>2
  <2>5. \A j \in OnDemand : stamp'[j] <= old' => stamp[j] <= old
    BY <1>2, <2>1, <2>2
  <2>6. Latest' = Latest /\ stamp' \in [OnDemand -> 1..Latest]
    BY <2>2, <2>3 DEF Latest
  <2> QED BY <2>4, <2>5, <2>6 DEF StampOK, IsOld
<1> QED BY <1>1, <1>2

-----------------------------------------------------------------------------
(* The steps that change a row, a slot or a load. *)

Base == TypeOK /\ LoadsHold /\ VictimsAreChosen

\* A load begins, started by a user or by a request.
Begun(i) == \E p \in Processes : StartLoad(i, p)

\* A load ends, ready or failed.
Over(i) ==
  /\ phase[i] \in {"plan", "wait"} /\ FreeSlot(i) /\ Finish(i)
  /\ \E to \in Statuses : status' = [status EXCEPT ![i] = to]
  /\ resident' \subseteq resident /\ UNCHANGED <<victims, reserved>>

IdleTake ==
  /\ idle # None /\ slot[idle] = None /\ slot' = [slot EXCEPT ![idle] = "idle"]
  /\ UNCHANGED <<status, resident, loads>>

\* Every other step of a call, of the watcher's look or of time.
CallStep(s) ==
  \/ Ask(s) \/ Resolve(s) \/ WakeAnswer(s) \/ WakeObserve(s)
  \/ Enter(s) \/ Served(s) \/ Leave(s) \/ Answer(s) \/ Opened(s) \/ OpenFails(s)
  \/ Disconnect(s) \/ Begin(s) \/ Beat(s) \/ EndStream(s) \/ EndBody(s)

\* What a step does to the rows, the slots and the loads, by its kind.
LEMMA LoadActions ==
  ASSUME [Next]_vars
  PROVE  \/ UNCHANGED <<row, loads>>
         \/ \E i \in Instances :
              \/ Begun(i) \/ UserStop(i) \/ Plan(i) \/ EvictBegin(i) \/ EvictSkip(i)
              \/ EvictEnd(i) \/ Spawn(i) \/ Over(i)
         \/ IdleTake \/ IdleEnd
<1>1. CASE UNCHANGED vars
  BY <1>1 DEF vars
<1>2. CASE Age
  BY <1>2 DEF Age
<1>3. CASE IdleStop
  BY <1>3 DEF IdleStop, IdleTake, row
<1>4. ASSUME NEW i \in Instances, IdleCheck(i)
      PROVE  UNCHANGED <<row, loads>>
  BY <1>4 DEF IdleCheck
<1>5. ASSUME NEW i \in Instances, UserStart(i)
      PROVE  Begun(i)
  BY <1>5 DEF UserStart, Begun, Processes
<1>6. ASSUME NEW i \in Instances, LoadReady(i)
      PROVE  Over(i)
  BY <1>6 DEF LoadReady, Over, Statuses
<1>7. ASSUME NEW i \in Instances, LoadEnds(i)
      PROVE  Over(i)
  BY <1>7 DEF LoadEnds, Over, Stopped, Statuses
<1>8. ASSUME NEW s \in Sessions, WakeLoad(s)
      PROVE  InstanceOf[s] \in Instances /\ Begun(InstanceOf[s])
  BY <1>8, FleetAssumption DEF WakeLoad, Begun, Processes
<1>9. ASSUME NEW s \in Sessions, CallStep(s)
      PROVE  UNCHANGED <<row, loads>>
  BY <1>9 DEF CallStep, Ask, Resolve, WakeAnswer, WakeObserve, Enter, Served, Leave, Answer,
              Opened, OpenFails, Disconnect, Begin, Beat, EndStream, EndBody
<1> QED
  BY <1>1, <1>2, <1>3, <1>4, <1>5, <1>6, <1>7, <1>8, <1>9
  DEF Next, IdleStep, LoadStep, CallStep

\* The first victim of a load, and those that are left after it.
LEMMA FirstVictim ==
  ASSUME Base, NEW i \in Instances, victims[i] # <<>>
  PROVE  /\ Head(victims[i]) \in OnDemand /\ Head(victims[i]) \in Instances \ {i}
         /\ Head(victims[i]) \in Pending(i)
         /\ Tail(victims[i]) \in Seq(OnDemand) /\ IsInjective(Tail(victims[i]))
         /\ Range(Tail(victims[i])) = Pending(i) \ {Head(victims[i])}
<1>1. victims[i] \in Seq(OnDemand) /\ IsInjective(victims[i]) /\ i \notin Pending(i)
  BY DEF Base, TypeOK, LoadOK, VictimsAreChosen, VictimsChosen
<1>2. /\ Head(victims[i]) \in OnDemand /\ Head(victims[i]) \in Pending(i)
      /\ Tail(victims[i]) \in Seq(OnDemand) /\ IsInjective(Tail(victims[i]))
      /\ Range(Tail(victims[i])) = Pending(i) \ {Head(victims[i])}
  BY <1>1, TailFacts DEF Pending
<1> QED BY <1>1, <1>2, FleetAssumption

\* A load is evicting the first of its victims, or about to.
LEMMA StoppingFacts ==
  ASSUME Base, NEW i \in Instances, phase[i] = "stopping"
  PROVE  victims[i] # <<>> /\ slot[Head(victims[i])] = i /\ slot[i] = i
BY DEF Base, LoadsHold, LoadHolds

-----------------------------------------------------------------------------
\* The rows, the slots and the loads keep their types.
LEMMA RowStep ==
  ASSUME Base, [Next]_vars
  PROVE  RowOK' /\ LoadOK'
<1> USE FleetAssumption
<1>1. /\ RowOK /\ LoadOK /\ StampOK /\ idle \in OnDemand \cup {None}
  BY DEF Base, TypeOK, WakeOK
<1>2. CASE UNCHANGED <<row, loads>>
  BY <1>1, <1>2 DEF row, loads, RowOK, LoadOK
<1>3. ASSUME NEW i \in Instances, Begun(i)
      PROVE  RowOK' /\ LoadOK'
  BY <1>1, <1>3 DEF Begun, StartLoad, RowOK, LoadOK, Statuses, Phases
<1>4. ASSUME NEW i \in Instances, UserStop(i)
      PROVE  RowOK' /\ LoadOK'
  BY <1>1, <1>4 DEF UserStop, loads, RowOK, LoadOK, Statuses
<1>5. ASSUME NEW i \in Instances, Plan(i)
      PROVE  RowOK' /\ LoadOK'
  <2>1. CASE i \in resident
    BY <1>1, <1>5, <2>1 DEF Plan, RowOK, LoadOK
  <2>2. CASE i \notin resident
    <3>1. PICK plan \in BoundedSeq(Candidates(i), MaxEvictions) :
            /\ IsPlan(i, plan)
            /\ victims' = [victims EXCEPT ![i] = plan]
            /\ reserved' = [reserved EXCEPT ![home[i]] = @ \cup Range(plan)]
      BY <1>5, <2>2 DEF Plan
    <3>2. plan \in Seq(OnDemand) /\ Range(plan) \subseteq OnDemand
      BY <1>1, <3>1, PlanFacts DEF Candidates
    <3>3. home[i] \in Processes /\ reserved[home[i]] \cup Range(plan) \in SUBSET OnDemand
      BY <1>1, <3>2 DEF LoadOK
    <3>4. phase' = [phase EXCEPT ![i] = "evict"] /\ UNCHANGED <<home, row>>
      BY <1>5, <2>2 DEF Plan, row
    <3> QED BY <1>1, <3>1, <3>2, <3>3, <3>4 DEF RowOK, LoadOK, Phases, row
  <2> QED BY <2>1, <2>2
<1>6. ASSUME NEW i \in Instances, EvictBegin(i)
      PROVE  RowOK' /\ LoadOK'
  BY <1>1, <1>6 DEF EvictBegin, RowOK, LoadOK, Phases
<1>7. ASSUME NEW i \in Instances, victims[i] # <<>>, Unreserve(i)
      PROVE  /\ victims' \in [Instances -> Seq(OnDemand)]
             /\ home' \in [Instances -> Processes]
             /\ reserved' \in [Processes -> SUBSET OnDemand]
  <2>1. Tail(victims[i]) \in Seq(OnDemand) /\ home[i] \in Processes
    BY <1>1, <1>7, FirstVictim DEF LoadOK
  <2> QED BY <1>1, <1>7, <2>1 DEF Unreserve, LoadOK
<1>8. ASSUME NEW i \in Instances, EvictSkip(i)
      PROVE  RowOK' /\ LoadOK'
  BY <1>1, <1>7, <1>8 DEF EvictSkip, RowOK, LoadOK, row
<1>9. ASSUME NEW i \in Instances, EvictEnd(i)
      PROVE  RowOK' /\ LoadOK'
  <2>1. victims[i] # <<>>
    BY <1>9, StoppingFacts DEF EvictEnd
  <2>2. LoadOK'
    BY <1>1, <1>7, <1>9, <2>1 DEF EvictEnd, LoadOK, Phases
  <2>3. RowOK'
    BY <1>1, <1>9 DEF EvictEnd, Stopped, FreeSlot, RowOK, Statuses
  <2> QED BY <2>2, <2>3
<1>10. ASSUME NEW i \in Instances, Spawn(i)
       PROVE  RowOK' /\ LoadOK'
  BY <1>1, <1>10 DEF Spawn, RowOK, LoadOK, Phases
<1>11. ASSUME NEW i \in Instances, Over(i)
       PROVE  RowOK' /\ LoadOK'
  BY <1>1, <1>11 DEF Over, FreeSlot, Finish, RowOK, LoadOK, Phases, Processes
<1>12. CASE IdleTake
  BY <1>1, <1>12 DEF IdleTake, loads, RowOK, LoadOK
<1>13. CASE IdleEnd
  BY <1>1, <1>13 DEF IdleEnd, Stopped, FreeSlot, loads, RowOK, LoadOK, Statuses
<1> QED
  BY <1>2, <1>3, <1>4, <1>5, <1>6, <1>8, <1>9, <1>10, <1>11, <1>12, <1>13, LoadActions

\* A load has its slot and its row for as long as it lasts, and a victim's
\* while it stops it: nobody frees a slot that somebody else took.
LEMMA HoldStep ==
  ASSUME Base, [Next]_vars
  PROVE  LoadsHold'
<1> USE FleetAssumption
<1>1. /\ RowOK /\ LoadOK /\ idle \in OnDemand \cup {None}
      /\ \A j \in Instances : LoadHolds(j)
  BY DEF Base, TypeOK, WakeOK, LoadsHold
<1>2. \A j \in Instances : phase[j] = "stopping" => Head(victims[j]) \in Instances \ {j}
  BY FirstVictim, StoppingFacts
<1>3. CASE UNCHANGED <<row, loads>>
  BY <1>1, <1>3 DEF row, loads, LoadsHold, LoadHolds
<1>4. ASSUME NEW i \in Instances, Begun(i)
      PROVE  LoadsHold'
  BY <1>1, <1>2, <1>4 DEF Begun, StartLoad, RowOK, LoadOK, LoadsHold, LoadHolds
<1>5. ASSUME NEW i \in Instances, UserStop(i)
      PROVE  LoadsHold'
  BY <1>1, <1>2, <1>5 DEF UserStop, loads, RowOK, LoadOK, LoadsHold, LoadHolds
<1>6. ASSUME NEW i \in Instances, Plan(i)
      PROVE  LoadsHold'
  BY <1>1, <1>6 DEF Plan, RowOK, LoadOK, LoadsHold, LoadHolds
<1>7. ASSUME NEW i \in Instances, EvictBegin(i)
      PROVE  LoadsHold'
  <2>1. Head(victims[i]) \in Instances
    BY <1>7, FirstVictim DEF EvictBegin
  <2> QED BY <1>1, <1>2, <1>7, <2>1 DEF EvictBegin, RowOK, LoadOK, LoadsHold, LoadHolds
<1>8. ASSUME NEW i \in Instances, EvictSkip(i)
      PROVE  LoadsHold'
  BY <1>1, <1>8 DEF EvictSkip, Unreserve, row, RowOK, LoadOK, LoadsHold, LoadHolds
<1>9. ASSUME NEW i \in Instances, EvictEnd(i)
      PROVE  LoadsHold'
  <2>1. Head(victims[i]) \in Instances \ {i} /\ slot[Head(victims[i])] = i
    BY <1>2, <1>9, StoppingFacts DEF EvictEnd
  <2>2. /\ \A j \in Instances \ {Head(victims[i])} : slot'[j] = slot[j] /\ status'[j] = status[j]
        /\ \A j \in Instances \ {i} : phase'[j] = phase[j] /\ victims'[j] = victims[j]
        /\ phase'[i] = "evict"
    BY <1>1, <1>9, <2>1 DEF EvictEnd, Unreserve, Stopped, FreeSlot, RowOK, LoadOK
  <2>3. \A j \in Instances : phase'[j] # "none" =>
                               j # Head(victims[i]) /\ slot[j] = j /\ status[j] = "LOADING"
    BY <1>1, <1>9, <2>1, <2>2 DEF LoadHolds, EvictEnd
  <2>4. \A j \in Instances \ {i} : phase[j] = "stopping" =>
          /\ Head(victims[j]) \in Instances \ {Head(victims[i])} /\ victims[j] # <<>>
          /\ slot[Head(victims[j])] = j
    BY <1>1, <1>2, <2>1 DEF LoadHolds
  <2> QED BY <2>1, <2>2, <2>3, <2>4 DEF LoadsHold, LoadHolds
<1>10. ASSUME NEW i \in Instances, Spawn(i)
       PROVE  LoadsHold'
  BY <1>1, <1>10 DEF Spawn, RowOK, LoadOK, LoadsHold, LoadHolds
<1>11. ASSUME NEW i \in Instances, Over(i)
       PROVE  LoadsHold'
  BY <1>1, <1>2, <1>11 DEF Over, FreeSlot, Finish, RowOK, LoadOK, LoadsHold, LoadHolds
<1>12. CASE IdleTake
  BY <1>1, <1>2, <1>12 DEF IdleTake, loads, RowOK, LoadOK, LoadsHold, LoadHolds
<1>13. CASE IdleEnd
  BY <1>1, <1>2, <1>13
  DEF IdleEnd, Stopped, FreeSlot, loads, RowOK, LoadOK, LoadsHold, LoadHolds
<1> QED
  BY <1>3, <1>4, <1>5, <1>6, <1>7, <1>8, <1>9, <1>10, <1>11, <1>12, <1>13, LoadActions

-----------------------------------------------------------------------------
\* What a plan gives a load: victims that no load of its process has, that no
\* load is about, and whose stamps are beyond the grace.
LEMMA PlanChooses ==
  ASSUME Base, NEW i \in Instances, Plan(i), i \notin resident
  PROVE  \E plan \in Seq(OnDemand) :
           /\ IsInjective(plan) /\ i \notin Range(plan)
           /\ \A j \in Range(plan) :
                j \notin reserved[home[i]] /\ phase[j] = "none" /\ IsOld(j)
           /\ victims' = [victims EXCEPT ![i] = plan]
           /\ reserved' = [reserved EXCEPT ![home[i]] = @ \cup Range(plan)]
           /\ phase' = [phase EXCEPT ![i] = "evict"] /\ UNCHANGED <<home, idle, activity>>
<1>1. PICK plan \in BoundedSeq(Candidates(i), MaxEvictions) :
        /\ IsPlan(i, plan)
        /\ victims' = [victims EXCEPT ![i] = plan]
        /\ reserved' = [reserved EXCEPT ![home[i]] = @ \cup Range(plan)]
  BY DEF Plan
<1>2. plan \in Seq(OnDemand) /\ IsInjective(plan) /\ Range(plan) \subseteq Candidates(i)
  BY <1>1, PlanFacts DEF Base, TypeOK
<1>3. ASSUME NEW j \in Candidates(i)
      PROVE  j # i /\ j \notin reserved[home[i]] /\ phase[j] = "none" /\ IsOld(j)
  <2>1. j \in Instances \ {i} /\ status[j] = "RUNNING" /\ ~Spared(home[i], j) /\ IsOld(j)
    BY FleetAssumption DEF Candidates, Evictable
  <2>2. phase[j] = "none"
    BY <2>1 DEF Base, LoadsHold, LoadHolds
  <2> QED BY <2>1, <2>2 DEF Spared
<1>4. phase' = [phase EXCEPT ![i] = "evict"] /\ UNCHANGED <<home, idle, activity>>
  BY DEF Plan
<1> QED BY <1>1, <1>2, <1>3, <1>4

\* A load that has not planned yet, and one that has dealt with its victims,
\* has none.
LEMMA NoVictims ==
  ASSUME Base, NEW i \in Instances, phase[i] \in {"none", "plan", "wait"}
  PROVE  victims[i] = <<>> /\ Pending(i) = {}
BY EmptyFacts DEF Base, VictimsAreChosen, VictimsChosen, Pending

\* The slot of an instance that is being loaded is taken.
LEMMA BegunIsNew ==
  ASSUME Base, NEW i \in Instances, Begun(i)
  PROVE  phase[i] = "none" /\ victims[i] = <<>> /\ Pending(i) = {}
<1>1. phase[i] = "none"
  BY FleetAssumption DEF Begun, StartLoad, Base, LoadsHold, LoadHolds
<1> QED BY <1>1, NoVictims

\* A load has victims only while it evicts, each once and never itself.
LEMMA VictimStep ==
  ASSUME Base, [Next]_vars
  PROVE  VictimsAreChosen'
<1>1. LoadOK /\ \A j \in Instances : VictimsChosen(j)
  BY DEF Base, TypeOK, VictimsAreChosen
<1>2. CASE UNCHANGED loads
  BY <1>1, <1>2 DEF loads, VictimsAreChosen, VictimsChosen, Pending
<1>3. ASSUME NEW i \in Instances, Begun(i)
      PROVE  VictimsAreChosen'
  BY <1>1, <1>3, BegunIsNew
  DEF Begun, StartLoad, LoadOK, VictimsAreChosen, VictimsChosen, Pending
<1>4. ASSUME NEW i \in Instances, Plan(i)
      PROVE  VictimsAreChosen'
  <2>1. CASE i \in resident
    BY <1>1, <1>4, <2>1 DEF Plan, VictimsAreChosen, VictimsChosen, Pending
  <2>2. CASE i \notin resident
    <3>1. PICK plan : /\ IsInjective(plan) /\ i \notin Range(plan)
                      /\ victims' = [victims EXCEPT ![i] = plan]
                      /\ phase' = [phase EXCEPT ![i] = "evict"]
      BY <1>4, <2>2, PlanChooses
    <3> QED BY <1>1, <3>1 DEF LoadOK, VictimsAreChosen, VictimsChosen, Pending
  <2> QED BY <2>1, <2>2
<1>5. ASSUME NEW i \in Instances, EvictBegin(i)
      PROVE  VictimsAreChosen'
  BY <1>1, <1>5 DEF EvictBegin, LoadOK, VictimsAreChosen, VictimsChosen, Pending
<1>6. ASSUME NEW i \in Instances, victims[i] # <<>>, phase'[i] = "evict",
             \A j \in Instances \ {i} : phase'[j] = phase[j], Unreserve(i)
      PROVE  VictimsAreChosen'
  <2>1. /\ IsInjective(Tail(victims[i])) /\ i \notin Range(Tail(victims[i]))
        /\ victims'[i] = Tail(victims[i])
        /\ \A j \in Instances \ {i} : victims'[j] = victims[j]
    BY <1>1, <1>6, FirstVictim DEF Unreserve, LoadOK, VictimsChosen
  <2> QED BY <1>1, <1>6, <2>1 DEF VictimsAreChosen, VictimsChosen, Pending
<1>7. ASSUME NEW i \in Instances, EvictSkip(i)
      PROVE  VictimsAreChosen'
  BY <1>6, <1>7 DEF EvictSkip
<1>8. ASSUME NEW i \in Instances, EvictEnd(i)
      PROVE  VictimsAreChosen'
  BY <1>1, <1>6, <1>8, StoppingFacts DEF EvictEnd, LoadOK
<1>9. ASSUME NEW i \in Instances, Spawn(i)
      PROVE  VictimsAreChosen'
  BY <1>1, <1>9 DEF Spawn, LoadOK, VictimsAreChosen, VictimsChosen, Pending
<1>10. ASSUME NEW i \in Instances, Over(i)
       PROVE  VictimsAreChosen'
  BY <1>1, <1>10, NoVictims
  DEF Over, Finish, LoadOK, VictimsAreChosen, VictimsChosen, Pending
<1> QED
  BY <1>2, <1>3, <1>4, <1>5, <1>7, <1>8, <1>9, <1>10, LoadActions DEF UserStop, IdleTake, IdleEnd

-----------------------------------------------------------------------------
\* The reservations of a process in terms of single victims.
Reserved ==
  /\ \A p \in Processes : \A j :
       j \in reserved[p] <=> \E i \in Instances : home[i] = p /\ j \in Pending(i)
  /\ \A i, k \in Instances :
       i # k /\ home[i] = home[k] => Pending(i) \cap Pending(k) = {}

\* It says the same as the property.
LEMMA ReservedIsHeld ==
  ASSUME LoadOK
  PROVE  ReservationsAreHeld <=> Reserved
<1>1. home \in [Instances -> Processes]
  BY DEF LoadOK
<1>2. ASSUME ReservationsAreHeld
      PROVE  Reserved
  BY <1>1, <1>2 DEF ReservationsAreHeld, Reserved
<1>3. ASSUME Reserved
      PROVE  ReservationsAreHeld
  <2> SUFFICES ASSUME NEW p \in Processes
               PROVE  reserved[p] = UNION {Pending(i) : i \in {k \in Instances : home[k] = p}}
    BY <1>3 DEF ReservationsAreHeld, Reserved
  <2> QED BY <1>3 DEF Reserved
<1> QED BY <1>2, <1>3

\* A load reserves its victims when it plans and gives up each of them once.
LEMMA ReservedStep ==
  ASSUME Base, Reserved, [Next]_vars
  PROVE  Reserved'
<1>1. LoadOK
  BY DEF Base, TypeOK
<1>2. CASE UNCHANGED <<home, victims, reserved>>
  BY <1>2 DEF Reserved, Pending
<1>3. ASSUME NEW i \in Instances, Pending(i) = {}, UNCHANGED <<victims, reserved>>,
             \A k \in Instances \ {i} : home'[k] = home[k]
      PROVE  Reserved'
  BY <1>3 DEF Reserved, Pending
<1>4. ASSUME NEW i \in Instances, Begun(i)
      PROVE  Reserved'
  BY <1>1, <1>3, <1>4, BegunIsNew DEF Begun, StartLoad, LoadOK
<1>5. ASSUME NEW i \in Instances, Over(i)
      PROVE  Reserved'
  BY <1>1, <1>3, <1>5, NoVictims DEF Over, Finish, LoadOK
<1>6. ASSUME NEW i \in Instances, Plan(i)
      PROVE  Reserved'
  <2>1. CASE i \in resident
    BY <1>2, <1>6, <2>1 DEF Plan
  <2>2. CASE i \notin resident
    <3>1. PICK plan :
            /\ \A j \in Range(plan) : j \notin reserved[home[i]]
            /\ victims' = [victims EXCEPT ![i] = plan]
            /\ reserved' = [reserved EXCEPT ![home[i]] = @ \cup Range(plan)]
            /\ UNCHANGED home
      BY <1>6, <2>2, PlanChooses
    <3>2. Pending(i) = {}
      BY <1>6, NoVictims DEF Plan
    <3>3. Pending(i)' = Range(plan) /\ \A k \in Instances \ {i} : Pending(k)' = Pending(k)
      BY <1>1, <3>1 DEF LoadOK, Pending
    <3>4. /\ home[i] \in Processes /\ reserved'[home[i]] = reserved[home[i]] \cup Range(plan)
          /\ \A p \in Processes \ {home[i]} : reserved'[p] = reserved[p]
      BY <1>1, <3>1 DEF LoadOK
    <3>5. \A p \in Processes : \A j :
            j \in reserved'[p] <=> \E k \in Instances : home'[k] = p /\ j \in Pending(k)'
      BY <3>1, <3>2, <3>3, <3>4 DEF Reserved
    <3>6. ASSUME NEW k \in Instances \ {i}, home'[k] = home'[i]
          PROVE  Pending(k)' \cap Pending(i)' = {}
      BY <1>1, <3>1, <3>3, <3>4, <3>6 DEF Reserved
    <3> HIDE <1>6
    <3> QED BY <3>1, <3>3, <3>5, <3>6 DEF Reserved
  <2> QED BY <2>1, <2>2
<1>7. ASSUME NEW i \in Instances, victims[i] # <<>>, Unreserve(i)
      PROVE  Reserved'
  <2> DEFINE v == Head(victims[i])
  <2>1. v \in Pending(i) /\ Range(Tail(victims[i])) = Pending(i) \ {v}
    BY <1>7, FirstVictim
  <2>2. Pending(i)' = Pending(i) \ {v} /\ \A k \in Instances \ {i} : Pending(k)' = Pending(k)
    BY <1>1, <1>7, <2>1 DEF LoadOK, Pending, Unreserve
  <2>3. /\ home[i] \in Processes /\ reserved'[home[i]] = reserved[home[i]] \ {v}
        /\ \A p \in Processes \ {home[i]} : reserved'[p] = reserved[p]
        /\ UNCHANGED home
    BY <1>1, <1>7 DEF LoadOK, Unreserve
  <2> HIDE DEF v
  <2>4. \A k \in Instances \ {i} : home[k] = home[i] => v \notin Pending(k)
    BY <2>1 DEF Reserved
  <2>5. \A p \in Processes : \A j :
          j \in reserved'[p] <=> \E k \in Instances : home'[k] = p /\ j \in Pending(k)'
    BY <2>1, <2>2, <2>3, <2>4 DEF Reserved
  <2>6. \A k, l \in Instances :
          k # l /\ home'[k] = home'[l] => Pending(k)' \cap Pending(l)' = {}
    BY <2>2, <2>3 DEF Reserved
  <2> QED BY <2>5, <2>6 DEF Reserved
<1>8. ASSUME NEW i \in Instances, EvictSkip(i) \/ EvictEnd(i)
      PROVE  Reserved'
  BY <1>7, <1>8, StoppingFacts DEF EvictSkip, EvictEnd
<1> QED
  BY <1>2, <1>4, <1>5, <1>6, <1>8, LoadActions
  DEF loads, UserStop, EvictBegin, Spawn, IdleTake, IdleEnd

-----------------------------------------------------------------------------
\* A load that begins has no victim, one that plans picks instances that no
\* load is about, and the other steps only take loads and victims away.
LEMMA AcyclicStep ==
  ASSUME Base, EvictionsAreAcyclic, [Next]_vars
  PROVE  EvictionsAreAcyclic'
<1> DEFINE Active == {i \in Instances : phase[i] # "none"}
<1>1. LoadOK
  BY DEF Base, TypeOK
<1>2. ASSUME Active' \subseteq Active, \A j \in Instances : Pending(j)' \subseteq Pending(j)
      PROVE  EvictionsAreAcyclic'
  BY <1>2 DEF EvictionsAreAcyclic
<1>3. ASSUME NEW i \in Instances, Active' \subseteq Active \cup {i},
             \A j \in Instances \ {i} : Pending(j)' = Pending(j),
             \A j \in Pending(i)' : j # i /\ j \notin Active
      PROVE  EvictionsAreAcyclic'
  <2> SUFFICES ASSUME NEW S \in SUBSET Active', S # {}
               PROVE  \E j \in S : Pending(j)' \cap S = {}
    BY DEF EvictionsAreAcyclic
  <2>1. CASE i \in S
    BY <1>3, <2>1
  <2>2. CASE i \notin S
    BY <1>3, <2>2 DEF EvictionsAreAcyclic
  <2> QED BY <2>1, <2>2
<1>4. CASE UNCHANGED loads
  BY <1>2, <1>4 DEF loads, Pending
<1>5. ASSUME NEW i \in Instances, Begun(i)
      PROVE  EvictionsAreAcyclic'
  <2>1. /\ Active' \subseteq Active \cup {i} /\ Pending(i)' = {}
        /\ \A j \in Instances \ {i} : Pending(j)' = Pending(j)
    BY <1>1, <1>5, BegunIsNew DEF Begun, StartLoad, LoadOK, Pending
  <2> QED BY <1>3, <2>1
<1>6. ASSUME NEW i \in Instances, Plan(i)
      PROVE  EvictionsAreAcyclic'
  <2>1. CASE i \in resident
    BY <1>4, <1>6, <2>1 DEF Plan, loads
  <2>2. CASE i \notin resident
    <3>1. PICK plan : /\ i \notin Range(plan) /\ \A j \in Range(plan) : phase[j] = "none"
                      /\ victims' = [victims EXCEPT ![i] = plan]
                      /\ phase' = [phase EXCEPT ![i] = "evict"]
      BY <1>6, <2>2, PlanChooses
    <3>2. /\ Active' \subseteq Active \cup {i} /\ Pending(i)' = Range(plan)
          /\ \A j \in Instances \ {i} : Pending(j)' = Pending(j)
      BY <1>1, <3>1 DEF LoadOK, Pending
    <3> QED BY <1>3, <3>1, <3>2
  <2> QED BY <2>1, <2>2
<1>7. ASSUME NEW i \in Instances, EvictBegin(i) \/ Spawn(i) \/ Over(i)
      PROVE  EvictionsAreAcyclic'
  BY <1>1, <1>2, <1>7 DEF EvictBegin, Spawn, Over, Finish, LoadOK, Pending
<1>8. ASSUME NEW i \in Instances, EvictSkip(i) \/ EvictEnd(i)
      PROVE  EvictionsAreAcyclic'
  <2>1. victims[i] # <<>> /\ Unreserve(i) /\ Active' \subseteq Active
    BY <1>1, <1>8, StoppingFacts DEF EvictSkip, EvictEnd, LoadOK
  <2>2. \A j \in Instances : Pending(j)' \subseteq Pending(j)
    BY <1>1, <2>1, FirstVictim DEF Unreserve, LoadOK, Pending
  <2> QED BY <1>2, <2>1, <2>2
<1> QED
  BY <1>4, <1>5, <1>6, <1>7, <1>8, LoadActions DEF UserStop, IdleTake, IdleEnd

-----------------------------------------------------------------------------
(* The requests. *)

\* What a step does to the requests and the pool, by its kind.
LEMMA CallActions ==
  ASSUME [Next]_vars
  PROVE  \/ UNCHANGED <<st, pool>>
         \/ UNCHANGED pool /\ \E i \in Instances, to \in {"found", "done"} : AnswerWaker(i, to)
         \/ UNCHANGED pool /\ \E s \in Sessions : WakeLoad(s)
         \/ \E s \in Sessions : CallStep(s)
<1>1. CASE UNCHANGED vars
  BY <1>1 DEF vars
<1>2. CASE Age \/ IdleStep
  BY <1>2 DEF Age, IdleStep, IdleStop, IdleEnd
<1>3. ASSUME NEW i \in Instances, UserStart(i) \/ UserStop(i) \/ IdleCheck(i)
      PROVE  UNCHANGED <<st, pool>>
  BY <1>3 DEF UserStart, UserStop, IdleCheck
<1>4. ASSUME NEW i \in Instances, LoadStep(i)
      PROVE  \/ UNCHANGED <<st, pool>>
             \/ UNCHANGED pool /\ \E to \in {"found", "done"} : AnswerWaker(i, to)
  BY <1>4 DEF LoadStep, Plan, EvictBegin, EvictSkip, EvictEnd, Spawn, LoadReady, LoadEnds
<1>5. ASSUME NEW s \in Sessions, WakeLoad(s)
      PROVE  UNCHANGED pool
  BY <1>5 DEF WakeLoad
<1> QED BY <1>1, <1>2, <1>3, <1>4, <1>5 DEF Next, CallStep

\* The places of the requests and the sets of the pool keep their types.
LEMMA CallStepType ==
  ASSUME TypeOK, [Next]_vars
  PROVE  CallOK'
<1>1. CallOK
  BY DEF TypeOK
<1>2. CASE UNCHANGED <<st, pool>>
  BY <1>1, <1>2 DEF CallOK, pool
<1>3. ASSUME UNCHANGED pool, NEW i \in Instances, NEW to \in {"found", "done"},
             AnswerWaker(i, to)
      PROVE  CallOK'
  BY <1>1, <1>3 DEF CallOK, AnswerWaker, Places, pool
<1>4. ASSUME UNCHANGED pool, NEW s \in Sessions, WakeLoad(s)
      PROVE  CallOK'
  BY <1>1, <1>4 DEF CallOK, WakeLoad, Move, Places, pool
<1>5. ASSUME NEW s \in Sessions, CallStep(s)
      PROVE  CallOK'
  <2>1. CASE UNCHANGED pool
    BY <1>1, <1>5, <2>1
    DEF CallStep, CallOK, Move, Places, pool, Ask, Resolve, WakeAnswer, WakeObserve, Opened,
        Disconnect, Begin, Beat, EndBody, Enter, Served, Leave, Answer, OpenFails, EndStream
  <2>2. CASE Enter(s)
    BY <1>1, <2>2 DEF Enter, Pool!Enter, CallOK, Move, Places
  <2>3. CASE Served(s) \/ Leave(s)
    BY <1>1, <2>3 DEF Served, Leave, Pool!Serve, Pool!GiveUp, Pool!Waste, CallOK, Move, Places
  <2>4. CASE Answer(s) \/ OpenFails(s) \/ EndStream(s)
    BY <1>1, <2>4 DEF Answer, OpenFails, EndStream, Pool!GiveBack, CallOK, Move, Places
  <2> QED
    BY <1>5, <2>1, <2>2, <2>3, <2>4
    DEF CallStep, Ask, Resolve, WakeAnswer, WakeObserve, Opened, Disconnect, Begin, Beat, EndBody
<1> QED BY <1>2, <1>3, <1>4, <1>5, CallActions

\* A wake lock belongs to a request, and the watcher looks at on_demand
\* instances.
LEMMA WakeStep ==
  ASSUME TypeOK, [Next]_vars
  PROVE  WakeOK'
<1> USE FleetAssumption
<1>1. WakeOK
  BY DEF TypeOK
<1>2. CASE UNCHANGED <<waking, idle>>
  BY <1>1, <1>2 DEF WakeOK
<1>3. CASE IdleStep
  BY <1>1, <1>3 DEF IdleStep, IdleStop, IdleEnd, WakeOK
<1>4. ASSUME NEW i \in Instances, IdleCheck(i)
      PROVE  WakeOK'
  BY <1>1, <1>4 DEF IdleCheck, WakeOK
<1>5. ASSUME NEW i \in Instances, LoadReady(i) \/ LoadEnds(i)
      PROVE  WakeOK'
  BY <1>1, <1>5 DEF LoadReady, LoadEnds, AnswerWaker, WakeOK
<1>6. ASSUME NEW s \in Sessions, Resolve(s) \/ WakeAnswer(s)
      PROVE  WakeOK'
  BY <1>1, <1>6 DEF Resolve, WakeAnswer, Unlock, WakeOK
<1> QED
  BY <1>2, <1>3, <1>4, <1>5, <1>6
  DEF Next, LoadStep, vars, Age, UserStart, UserStop, Plan, EvictBegin, EvictSkip, EvictEnd,
      Spawn, Ask, WakeObserve, WakeLoad, Enter, Served, Leave, Answer, Opened, OpenFails,
      Disconnect, Begin, Beat, EndStream, EndBody

-----------------------------------------------------------------------------
\* What the pool says of one request.
CallHolds(s) ==
  /\ s \in waiting <=> st[s] = "queue"
  /\ st[s] \in {"open", "opened", "stream", "beating"} => s \in served
  /\ s \in served => \/ st[s] \in {"open", "opened", "stream", "beating"}
                     \/ KindOf[s] = "sse" /\ st[s] = "cut"
  /\ s \in wasted => st[s] = "cut"

\* It says the same as the property.
LEMMA HoldersOneByOne ==
  ASSUME CallOK
  PROVE  HoldersAreCalls <=> \A s \in Sessions : CallHolds(s)
BY DEF CallOK, HoldersAreCalls, CallHolds

\* A call moves between its places and the pool in one step.
LEMMA HolderStep ==
  ASSUME CallOK, HoldersAreCalls, CallOK', [Next]_vars
  PROVE  HoldersAreCalls'
<1> SUFFICES ASSUME NEW r \in Sessions
             PROVE  CallHolds(r)'
  BY DEF CallOK, HoldersAreCalls, CallHolds
<1>1. CallOK /\ CallHolds(r) /\ \A s \in Sessions : CallHolds(s)
  BY HoldersOneByOne
<1>2. CASE UNCHANGED <<st, pool>>
  BY <1>1, <1>2 DEF CallHolds, pool
<1>3. ASSUME UNCHANGED pool, NEW i \in Instances, NEW to \in {"found", "done"},
             AnswerWaker(i, to)
      PROVE  CallHolds(r)'
  BY <1>1, <1>3 DEF CallOK, AnswerWaker, Waker, CallHolds, pool
<1>4. ASSUME UNCHANGED pool, NEW s \in Sessions, WakeLoad(s)
      PROVE  CallHolds(r)'
  BY <1>1, <1>4 DEF CallOK, WakeLoad, Move, CallHolds, pool
<1>5. ASSUME NEW s \in Sessions, Ask(s) \/ Resolve(s) \/ WakeAnswer(s) \/ WakeObserve(s)
      PROVE  CallHolds(r)'
  BY <1>1, <1>5 DEF CallOK, Move, CallHolds, pool, Ask, Resolve, WakeAnswer, WakeObserve
<1>6. ASSUME NEW s \in Sessions, Opened(s) \/ Disconnect(s) \/ Begin(s) \/ Beat(s) \/ EndBody(s)
      PROVE  CallHolds(r)'
  BY <1>1, <1>6 DEF CallOK, Move, CallHolds, pool, Opened, Disconnect, Begin, Beat, EndBody
<1>7. ASSUME NEW s \in Sessions, Enter(s)
      PROVE  CallHolds(r)'
  BY <1>1, <1>7 DEF CallOK, Move, CallHolds, Enter, Pool!Enter
<1>8. ASSUME NEW s \in Sessions, Served(s) \/ Leave(s)
      PROVE  CallHolds(r)'
  BY <1>1, <1>8
  DEF CallOK, Move, CallHolds, Served, Leave, Pool!Serve, Pool!Turn, Pool!GiveUp, Pool!Waste
<1>9. ASSUME NEW s \in Sessions, Answer(s) \/ OpenFails(s) \/ EndStream(s)
      PROVE  CallHolds(r)'
  BY <1>1, <1>9 DEF CallOK, Move, CallHolds, Answer, OpenFails, EndStream, Pool!GiveBack
<1> QED
  BY <1>2, <1>3, <1>4, <1>5, <1>6, <1>7, <1>8, <1>9, CallActions DEF CallStep

-----------------------------------------------------------------------------
\* The requests with a heartbeat stay so until they end; only a call that comes
\* in and a beat make one more.
LEMMA BeatingShrinks ==
  ASSUME CallOK, HoldersAreCalls, [Next]_vars,
         \A s \in Sessions : ~Enter(s) /\ ~Beat(s), NEW j \in Instances
  PROVE  Beating(j)' \subseteq Beating(j)
<1>1. CallOK /\ \A s \in Sessions : CallHolds(s)
  BY HoldersOneByOne
<1>2. CASE UNCHANGED <<st, pool>>
  BY <1>2 DEF Beating
<1>3. ASSUME NEW i \in Instances, NEW to \in {"found", "done"}, AnswerWaker(i, to)
      PROVE  Beating(j)' \subseteq Beating(j)
  BY <1>1, <1>3 DEF AnswerWaker, Beating, CallOK
<1>4. ASSUME NEW s \in Sessions, WakeLoad(s)
      PROVE  Beating(j)' \subseteq Beating(j)
  BY <1>1, <1>4 DEF WakeLoad, Move, Beating, CallOK
<1>5. ASSUME NEW s \in Sessions, CallStep(s)
      PROVE  Beating(j)' \subseteq Beating(j)
  <2>1. CASE Served(s) \/ Leave(s)
    BY <1>1, <2>1
    DEF Served, Leave, Pool!Serve, Pool!Turn, Move, Beating, CallOK, CallHolds
  <2>2. CASE ~(Served(s) \/ Leave(s))
    BY <1>1, <1>5, <2>2
    DEF CallStep, Ask, Resolve, WakeAnswer, WakeObserve, Answer, Opened, OpenFails, Disconnect,
        Begin, EndStream, EndBody, Move, Beating, CallOK
  <2> QED BY <2>1, <2>2
<1> QED BY <1>2, <1>3, <1>4, <1>5, CallActions

\* The stamps move by touches, and time by Age.
LEMMA ActivityMoves ==
  ASSUME [Next]_vars
  PROVE  UNCHANGED activity \/ Age \/ \E i \in Instances : Touch(i)
<1>1. ASSUME NEW i \in Instances, LoadReady(i)
      PROVE  Touch(i)
  BY <1>1 DEF LoadReady
<1>2. ASSUME NEW i \in Instances,
             UserStart(i) \/ UserStop(i) \/ Plan(i) \/ EvictBegin(i) \/ EvictSkip(i)
             \/ EvictEnd(i) \/ Spawn(i) \/ LoadEnds(i) \/ IdleCheck(i)
      PROVE  UNCHANGED activity
  BY <1>2 DEF UserStart, UserStop, Plan, EvictBegin, EvictSkip, EvictEnd, Spawn, LoadEnds, IdleCheck
<1>3. ASSUME NEW s \in Sessions, WakeLoad(s) \/ CallStep(s)
      PROVE  UNCHANGED activity \/ Touch(InstanceOf[s])
  BY <1>3 DEF CallStep, WakeLoad, Ask, Resolve, WakeAnswer, WakeObserve, Enter, Served, Leave,
              Answer, Opened, OpenFails, Disconnect, Begin, Beat, EndStream, EndBody
<1>4. \A s \in Sessions : InstanceOf[s] \in Instances
  BY FleetAssumption
<1> QED
  BY <1>1, <1>2, <1>3, <1>4
  DEF Next, LoadStep, CallStep, vars, IdleStep, IdleStop, IdleEnd

\* The grace passes only over instances without a heartbeat, and a request
\* touches its instance when its heartbeat starts.
LEMMA ActivityStep ==
  ASSUME TypeOK, BusyIsYoung, HoldersAreCalls, [Next]_vars
  PROVE  StampOK' /\ BusyIsYoung'
<1>1. StampOK /\ CallOK /\ \A s \in Sessions : InstanceOf[s] \in Instances
  BY FleetAssumption DEF TypeOK
<1>2. CASE Age
  <2>1. /\ Latest \in Nat /\ old \in 0..Latest /\ old < Latest /\ old' = old + 1
        /\ UNCHANGED <<stamp, st>> /\ Latest' = Latest
        /\ \A i \in OnDemand : stamp[i] = old + 1 => Beating(i) = {}
    BY <1>1, <1>2, LatestType DEF Age, StampOK, Latest
  <2>2. StampOK' /\ \A i \in Instances : Beating(i)' = Beating(i)
    BY <1>1, <2>1 DEF StampOK, Beating
  <2>3. ASSUME NEW i \in OnDemand, stamp[i] <= old + 1
        PROVE  stamp[i] <= old \/ stamp[i] = old + 1
    BY <1>1, <2>1, <2>3 DEF StampOK
  <2> QED BY <2>1, <2>2, <2>3 DEF BusyIsYoung, IsOld
<1>3. ASSUME UNCHANGED activity \/ \E i \in Instances : Touch(i)
      PROVE  StampOK' /\ \A j : IsOld(j)' => IsOld(j)
  <2>1. CASE UNCHANGED activity
    BY <1>1, <2>1 DEF StampOK, IsOld, activity, Latest
  <2> QED BY <1>1, <1>3, <2>1, TouchFacts
<1>4. ASSUME NEW s \in Sessions, Enter(s) \/ Beat(s)
      PROVE  StampOK' /\ BusyIsYoung'
  <2> DEFINE i == InstanceOf[s]
  <2>1. i \in Instances /\ Touch(i)
    BY <1>1, <1>4 DEF Enter, Beat
  <2>2. ~IsOld(i)'
    BY <1>1, <2>1, TouchFacts DEF IsOld
  <2>3. ASSUME NEW j \in Instances, j # i
        PROVE  Beating(j)' \subseteq Beating(j)
    BY <1>1, <1>4, <2>3 DEF Enter, Beat, Move, Beating, CallOK
  <2> QED BY <1>3, <2>1, <2>2, <2>3 DEF BusyIsYoung
<1>5. CASE (\A s \in Sessions : ~Enter(s) /\ ~Beat(s)) /\ ~Age
  <2>1. \A j \in Instances : Beating(j)' \subseteq Beating(j)
    BY <1>1, <1>5, BeatingShrinks
  <2> QED BY <1>3, <1>5, <2>1, ActivityMoves DEF BusyIsYoung
<1> QED BY <1>2, <1>4, <1>5

-----------------------------------------------------------------------------
\* The gateways start idle: no slot, reservation or call.
LEMMA InitInv == Init => Inv
<1> SUFFICES ASSUME Init
             PROVE  Inv
  OBVIOUS
<1> USE FleetAssumption DEF Init
<1>1. RowOK
  BY DEF RowOK, Statuses
<1>2. LoadOK
  <2>1. <<>> \in Seq(OnDemand)
    BY EmptySeq
  <2> QED BY <2>1 DEF LoadOK, Phases, Processes
<1>3. StampOK
  BY LatestType DEF StampOK, Bijection, Injection
<1>4. CallOK /\ WakeOK
  BY DEF CallOK, WakeOK, Places, Pool!Init
<1>5. LoadsHold /\ VictimsAreChosen
  BY EmptyFacts DEF LoadsHold, LoadHolds, VictimsAreChosen, VictimsChosen, Pending
<1>6. BusyIsYoung
  BY DEF BusyIsYoung, Beating
<1>7. ReservationsAreHeld
  <2>1. \A i \in Instances : Pending(i) = {}
    BY EmptyFacts DEF Pending
  <2> QED BY <1>2, <2>1, ReservedIsHeld DEF Reserved
<1>8. EvictionsAreAcyclic /\ HoldersAreCalls
  BY DEF EvictionsAreAcyclic, HoldersAreCalls, Pool!Init
<1> QED BY <1>1, <1>2, <1>3, <1>4, <1>5, <1>6, <1>7, <1>8 DEF Inv, TypeOK

\* Each operation of a load, a call, the watcher or a dying process keeps the invariant.
LEMMA NextInv == Inv /\ [Next]_vars => Inv'
<1> SUFFICES ASSUME Inv, [Next]_vars
             PROVE  Inv'
  OBVIOUS
<1>1. Base /\ TypeOK /\ LoadOK /\ CallOK
  BY DEF Inv, Base, TypeOK
<1>2. RowOK' /\ LoadOK'
  BY <1>1, RowStep
<1>3. StampOK' /\ BusyIsYoung'
  BY <1>1, ActivityStep DEF Inv
<1>4. CallOK' /\ WakeOK'
  BY <1>1, CallStepType, WakeStep
<1>5. LoadsHold' /\ VictimsAreChosen'
  BY <1>1, HoldStep, VictimStep
<1>6. Reserved
  BY <1>1, ReservedIsHeld DEF Inv
<1>7. Reserved'
  BY <1>1, <1>6, ReservedStep
<1>8. ReservationsAreHeld'
  <2>1. LoadOK' => (Reserved' => ReservationsAreHeld')
    BY ReservedIsHeld, PTL
  <2> QED BY <1>2, <1>7, <2>1
<1>9. EvictionsAreAcyclic' /\ HoldersAreCalls'
  BY <1>1, <1>4, AcyclicStep, HolderStep DEF Inv
<1> QED BY <1>2, <1>3, <1>4, <1>5, <1>8, <1>9 DEF Inv, TypeOK

\* Every state is within the invariant.
LEMMA Invariant == Spec => []Inv
BY InitInv, NextInv, PTL DEF Spec

\* The rows, the slot locks, the loads and their victims, the stamps and the
\* requests keep their types, whatever loads, stops and calls interleave.
THEOREM TypeCorrect == Spec => []TypeOK
<1>1. Inv => TypeOK
  BY DEF Inv
<1> QED BY <1>1, Invariant, PTL

\* A load has the slot of its instance until it ends, and the slot of the
\* victim it is stopping: no eviction, user or watcher frees a slot that
\* somebody else took, or touches the row of an instance that is loading.
THEOREM SlotsAreHeld == Spec => []LoadsHold
<1>1. Inv => LoadsHold
  BY DEF Inv
<1> QED BY <1>1, Invariant, PTL

\* The reservations of a process are exactly the victims its loads have yet to
\* deal with, each of one load (_reserved_victim_ids).
THEOREM ReservationsHeld == Spec => []ReservationsAreHeld
<1>1. Inv => ReservationsAreHeld
  BY DEF Inv
<1> QED BY <1>1, Invariant, PTL

\* No number of loads of any number of processes waits in a circle for each
\* other's instance: a victim is never an instance that is loading.
THEOREM EvictionsAcyclic == Spec => []EvictionsAreAcyclic
<1>1. Inv => EvictionsAreAcyclic
  BY DEF Inv
<1> QED BY <1>1, Invariant, PTL

\* However calls end, a slot of the scheduler is held by a call in its slot
\* phases, by a stream that was cut off before its body, and by nobody else.
THEOREM HoldersCalls == Spec => []HoldersAreCalls
<1>1. Inv => HoldersAreCalls
  BY DEF Inv
<1> QED BY <1>1, Invariant, PTL

\* A step that chooses an instance, for an idle stop or for an eviction, finds
\* its stamp beyond the grace, so that none of its requests has a heartbeat.
THEOREM BusyNotChosen == Spec => BusyIsNotChosen
<1>1. ASSUME Inv, [Next]_vars, NEW j \in Instances, idle' = j, idle # j
      PROVE  IsOld(j)
  <2>1. idle' # idle /\ idle' # None
    BY <1>1, FleetAssumption
  <2>2. IdleCheck(j)
    BY <1>1, <2>1
    DEF Next, LoadStep, vars, Age, IdleStep, IdleStop, IdleEnd, UserStart, UserStop, Plan,
        EvictBegin, EvictSkip, EvictEnd, Spawn, LoadReady, LoadEnds, IdleCheck, Ask, Resolve,
        WakeAnswer, WakeObserve, WakeLoad, Enter, Served, Leave, Answer, Opened, OpenFails,
        Disconnect, Begin, Beat, EndStream, EndBody
  <2> QED BY <2>2 DEF IdleCheck
<1>2. ASSUME Inv, [Next]_vars, NEW j \in Instances, NEW i \in Instances,
             j \in Range(victims'[i]), j \notin Pending(i)
      PROVE  IsOld(j)
  <2>1. Base /\ LoadOK
    BY <1>2 DEF Inv, Base, TypeOK
  <2>2. victims'[i] # victims[i]
    BY <1>2 DEF Pending
  <2>3. ASSUME NEW k \in Instances, victims[k] # <<>>, Unreserve(k)
        PROVE  FALSE
    <3>1. Range(Tail(victims[k])) \subseteq Pending(k)
      BY <2>1, <2>3, FirstVictim
    <3>2. \A l \in Instances : Range(victims'[l]) \subseteq Pending(l)
      BY <2>1, <2>3, <3>1 DEF Unreserve, LoadOK, Pending
    <3> QED BY <1>2, <3>2
  <2>4. \A k \in Instances : ~EvictSkip(k) /\ ~EvictEnd(k)
    BY <2>1, <2>3, StoppingFacts DEF EvictSkip, EvictEnd
  <2>5. PICK k \in Instances : Plan(k) /\ k \notin resident
    BY <1>2, <2>2, <2>4, LoadActions
    DEF loads, UserStop, IdleTake, IdleEnd, Begun, StartLoad, EvictBegin, Spawn, Over, Plan
  <2>6. PICK plan : /\ \A l \in Range(plan) : IsOld(l)
                    /\ victims' = [victims EXCEPT ![k] = plan]
    BY <2>1, <2>5, PlanChooses
  <2>7. k = i /\ j \in Range(plan)
    BY <1>2, <2>1, <2>2, <2>6 DEF LoadOK
  <2> QED BY <2>6, <2>7
<1>3. Inv /\ [Next]_vars =>
        [\A j \in Instances :
           (\/ idle' = j /\ idle # j
            \/ \E i \in Instances : j \in Range(victims'[i]) /\ j \notin Pending(i))
           => Beating(j) = {}]_vars
  BY <1>1, <1>2 DEF Inv, BusyIsYoung
<1> QED BY <1>3, Invariant, PTL DEF Spec, BusyIsNotChosen
-----------------------------------------------------------------------------
(* The estimates.                                                           *)

\* A set of numbers that is not empty has a least element.
LEMMA LeastOf ==
  ASSUME NEW S \in SUBSET Nat, S # {}
  PROVE  Min(S) \in S /\ \A x \in S : Min(S) <= x
<1> DEFINE R == {p \in Nat \X Nat : p[1] < p[2]}
<1>1. IsWellFoundedOn(R, Nat)
  BY NatLessThanWellFounded DEF OpToRel
<1>2. PICK m \in S : \A n \in S : ~(<<n, m>> \in R)
  BY <1>1, WFMin
<1>3. \A n \in S : m <= n
  <2>1. \A n \in S : ~(n < m)
    BY <1>2
  <2> QED BY <2>1
<1> QED BY <1>3 DEF Min

\* So has a pair of integers.
LEMMA LeastOfTwo ==
  ASSUME NEW a, NEW b, NEW S \in SUBSET Int, S \subseteq {a, b}, S # {}
  PROVE  Min(S) \in S /\ \A x \in S : Min(S) <= x
<1> SUFFICES \E m \in S : \A x \in S : m <= x
  BY DEF Min
<1>1. PICK y \in S : y = a \/ y = b
  OBVIOUS
<1>2. \A x \in S : x \in Int /\ (x = a \/ x = b)
  OBVIOUS
<1>3. CASE \A x \in S : y <= x
  BY <1>3
<1>4. CASE \E x \in S : ~(y <= x)
  <2>1. PICK z \in S : ~(y <= z)
    BY <1>4
  <2>2. y \in Int /\ z \in Int /\ z <= y /\ y # z
    BY <1>2, <2>1
  <2>3. \A x \in S : x = y \/ x = z
    BY <1>1, <1>2, <2>2
  <2>4. \A x \in S : z <= x
    BY <2>2, <2>3
  <2> QED BY <2>4
<1> QED BY <1>3, <1>4

\* What holds of 0 and goes on to the next number holds of all.
LEMMA NumbersInduction ==
  ASSUME NEW S, 0 \in S, \A n \in Nat : n \in S => n + 1 \in S
  PROVE  \A n \in Nat : n \in S
<1> SUFFICES ASSUME NEW n \in Nat, n \notin S
             PROVE  FALSE
  OBVIOUS
<1> DEFINE T == {m \in Nat : m \notin S}
           m == Min(T)
<1>1. m \in T /\ \A x \in T : m <= x
  BY LeastOf
<1> HIDE DEF m
<1>2. m \in Nat /\ m # 0 /\ m - 1 \in Nat /\ (m - 1) + 1 = m
  BY <1>1
<1>3. m - 1 \in S
  BY <1>1, <1>2
<1> QED BY <1>1, <1>2, <1>3

\* Products and eighths of numbers are numbers.
LEMMA Products ==
  ASSUME NEW a \in Nat, NEW b \in Nat
  PROVE  a * b \in Nat /\ a \div 8 \in Nat /\ (a + 1) * b = a * b + b
OBVIOUS

\* The elements of s that are of a kind.
Of(kind, s, k) == {n \in s : kind[n] = k}

\* The sum over s of what each kind weighs.
Weighed(kind, w, s) ==
  Cardinality(Of(kind, s, "full")) * w["full"]
  + Cardinality(Of(kind, s, "sliding")) * w["sliding"]
  + Cardinality(Of(kind, s, "linear")) * w["linear"]

\* Each element adds what its kind weighs.
LEMMA WeighedOne ==
  ASSUME NEW kind, NEW w \in [Kinds -> Nat], NEW s, IsFiniteSet(s), NEW n \in s,
         kind[n] \in Kinds
  PROVE  Weighed(kind, w, s) = w[kind[n]] + Weighed(kind, w, s \ {n})
<1> DEFINE c(k) == Cardinality(Of(kind, s, k))
           d(k) == Cardinality(Of(kind, s \ {n}, k))
<1>1. ASSUME NEW k
      PROVE  /\ c(k) \in Nat /\ d(k) \in Nat
             /\ kind[n] = k => c(k) = d(k) + 1
             /\ kind[n] # k => c(k) = d(k)
  <2>1. IsFiniteSet(Of(kind, s, k)) /\ IsFiniteSet(Of(kind, s \ {n}, k))
    BY FS_Subset DEF Of
  <2>2. c(k) \in Nat /\ d(k) \in Nat
    BY <2>1, FS_CardinalityType
  <2>3. CASE kind[n] = k
    <3>1. /\ n \notin Of(kind, s \ {n}, k)
          /\ Of(kind, s, k) = Of(kind, s \ {n}, k) \cup {n}
      BY <2>3 DEF Of
    <3>2. Cardinality(Of(kind, s, k)) = Cardinality(Of(kind, s \ {n}, k)) + 1
      BY <2>1, <3>1, FS_AddElement
    <3> QED BY <2>2, <2>3, <3>2
  <2>4. CASE kind[n] # k
    <3>1. Of(kind, s, k) = Of(kind, s \ {n}, k)
      BY <2>4 DEF Of
    <3> QED BY <2>2, <2>4, <3>1
  <2> QED BY <2>3, <2>4
<1>2. /\ w["full"] \in Nat /\ w["sliding"] \in Nat /\ w["linear"] \in Nat
      /\ kind[n] \in {"full", "sliding", "linear"}
  BY DEF Kinds
<1>3. /\ Weighed(kind, w, s) = c("full") * w["full"] + c("sliding") * w["sliding"]
                                + c("linear") * w["linear"]
      /\ Weighed(kind, w, s \ {n}) = d("full") * w["full"] + d("sliding") * w["sliding"]
                                     + d("linear") * w["linear"]
  BY DEF Weighed
<1> HIDE DEF c, d
<1>4. \A k \in {"full", "sliding", "linear"} :
        /\ c(k) \in Nat /\ d(k) \in Nat /\ c(k) * w[k] \in Nat /\ d(k) * w[k] \in Nat
        /\ kind[n] = k => c(k) * w[k] = d(k) * w[k] + w[k]
        /\ kind[n] # k => c(k) * w[k] = d(k) * w[k]
  BY <1>1, <1>2, Products
<1>5. CASE kind[n] = "full"
  BY <1>2, <1>3, <1>4, <1>5
<1>6. CASE kind[n] = "sliding"
  BY <1>2, <1>3, <1>4, <1>6
<1>7. CASE kind[n] = "linear"
  BY <1>2, <1>3, <1>4, <1>7
<1> QED BY <1>2, <1>5, <1>6, <1>7

\* The sum of nothing.
LEMMA WeighedNone ==
  ASSUME NEW kind, NEW w \in [Kinds -> Nat]
  PROVE  Weighed(kind, w, {}) = 0
<1>1. \A k : Of(kind, {}, k) = {}
  BY DEF Of
<1>2. w["full"] \in Nat /\ w["sliding"] \in Nat /\ w["linear"] \in Nat
  BY DEF Kinds
<1>3. \A a \in Nat : 0 * a = 0
  OBVIOUS
<1>4. \A k \in Kinds : Cardinality(Of(kind, {}, k)) * w[k] = 0
  BY <1>1, <1>2, <1>3, FS_EmptySet DEF Kinds
<1> QED BY <1>4 DEF Weighed, Kinds

\* It is a number.
LEMMA WeighedType ==
  ASSUME NEW kind, NEW w \in [Kinds -> Nat], NEW s, IsFiniteSet(s)
  PROVE  Weighed(kind, w, s) \in Nat
<1>1. \A k : Cardinality(Of(kind, s, k)) \in Nat
  BY FS_Subset, FS_CardinalityType DEF Of
<1>2. w["full"] \in Nat /\ w["sliding"] \in Nat /\ w["linear"] \in Nat
  BY DEF Kinds
<1>3. \A k \in Kinds : Cardinality(Of(kind, s, k)) * w[k] \in Nat
  BY <1>1, <1>2, Products DEF Kinds
<1> QED BY <1>3 DEF Weighed, Kinds

\* The function that the sum over the layers S is defined with.
Pick(s) == CHOOSE x \in s : TRUE
SumStep(shape, tokens, bits, g, s) ==
  IF s = {} THEN 0 ELSE LayerBytes(shape, Pick(s), tokens, bits) + g[s \ {Pick(s)}]
Sums(shape, tokens, bits, g, S) ==
  g = [s \in SUBSET S |-> SumStep(shape, tokens, bits, g, s)]

\* The bytes of the layers S.
LayersSum(shape, tokens, bits, S) ==
  MapThenSumSet(LAMBDA n : LayerBytes(shape, n, tokens, bits), S)

\* Layers that weigh what their kind weighs.
LEMMA SumOfKinds ==
  ASSUME NEW shape, NEW tokens, NEW bits, NEW S, IsFiniteSet(S), NEW kind,
         NEW w \in [Kinds -> Nat],
         \A n \in S : kind[n] \in Kinds /\ LayerBytes(shape, n, tokens, bits) = w[kind[n]]
  PROVE  LayersSum(shape, tokens, bits, S) = Weighed(kind, w, S)
<1> DEFINE f == CHOOSE g : Sums(shape, tokens, bits, g, S)
           v == [s \in SUBSET S |-> Weighed(kind, w, s)]
<1>1. LayersSum(shape, tokens, bits, S) = f[S]
  BY DEF LayersSum, MapThenSumSet, MapThenFoldSet, Sums, SumStep, Pick
<1>2. ASSUME NEW s \in SUBSET S, s # {}
      PROVE  /\ Pick(s) \in s /\ s \ {Pick(s)} \in SUBSET S /\ IsFiniteSet(s)
             /\ LayerBytes(shape, Pick(s), tokens, bits) = w[kind[Pick(s)]]
             /\ Weighed(kind, w, s) = w[kind[Pick(s)]] + Weighed(kind, w, s \ {Pick(s)})
  <2>1. Pick(s) \in s
    BY <1>2 DEF Pick
  <2>2. IsFiniteSet(s)
    BY FS_Subset
  <2>3. kind[Pick(s)] \in Kinds /\ LayerBytes(shape, Pick(s), tokens, bits) = w[kind[Pick(s)]]
    BY <2>1
  <2>4. Weighed(kind, w, s) = w[kind[Pick(s)]] + Weighed(kind, w, s \ {Pick(s)})
    BY <2>1, <2>2, <2>3, WeighedOne
  <2> QED BY <2>1, <2>2, <2>3, <2>4
<1>3. Sums(shape, tokens, bits, v, S)
  <2>1. ASSUME NEW s \in SUBSET S
        PROVE  Weighed(kind, w, s) = SumStep(shape, tokens, bits, v, s)
    <3>1. CASE s = {}
      BY <3>1, WeighedNone DEF SumStep
    <3>2. CASE s # {}
      <4>1. v[s \ {Pick(s)}] = Weighed(kind, w, s \ {Pick(s)})
        BY <1>2, <3>2
      <4> HIDE DEF v
      <4> QED BY <1>2, <3>2, <4>1 DEF SumStep
    <3> QED BY <3>1, <3>2
  <2>2. v = [s \in SUBSET S |-> SumStep(shape, tokens, bits, v, s)]
    BY <2>1
  <2> HIDE DEF v
  <2> QED BY <2>2 DEF Sums
<1>4. Sums(shape, tokens, bits, f, S)
  <2> HIDE DEF v
  <2> QED BY <1>3
<1> HIDE DEF f, v
<1>5. \A s \in SUBSET S : f[s] = SumStep(shape, tokens, bits, f, s)
  <2>1. f = [s \in SUBSET S |-> SumStep(shape, tokens, bits, f, s)]
    BY <1>4 DEF Sums
  <2> QED BY <2>1
<1> DEFINE T == {m \in Nat : \A s \in SUBSET S : Cardinality(s) = m => f[s] = Weighed(kind, w, s)}
<1>6. 0 \in T
  <2>1. ASSUME NEW s \in SUBSET S, Cardinality(s) = 0
        PROVE  f[s] = Weighed(kind, w, s)
    <3>1. s = {}
      BY <2>1, FS_Subset, FS_EmptySet
    <3> QED BY <1>5, <3>1, WeighedNone DEF SumStep
  <2> QED BY <2>1
<1>7. ASSUME NEW m \in Nat, m \in T
      PROVE  m + 1 \in T
  <2>1. ASSUME NEW s \in SUBSET S, Cardinality(s) = m + 1
        PROVE  f[s] = Weighed(kind, w, s)
    <3>1. s # {}
      BY <2>1, FS_EmptySet
    <3> DEFINE r == s \ {Pick(s)}
    <3>2. Cardinality(r) = m
      <4>1. IsFiniteSet(s) /\ Pick(s) \in s
        BY <1>2, <3>1
      <4>2. Cardinality(r) = Cardinality(s) - 1
        BY <4>1, FS_RemoveElement
      <4> QED BY <2>1, <4>2
    <3>3. f[r] = Weighed(kind, w, r)
      BY <1>2, <1>7, <3>1, <3>2
    <3>4. f[s] = LayerBytes(shape, Pick(s), tokens, bits) + f[r]
      BY <1>5, <3>1 DEF SumStep
    <3> QED BY <1>2, <3>1, <3>3, <3>4
  <2> QED BY <2>1
<1>8. \A m \in Nat : m \in T
  <2> HIDE DEF T
  <2> QED BY <1>6, <1>7, NumbersInduction
<1>9. Cardinality(S) \in T
  BY <1>8, FS_CardinalityType
<1> QED BY <1>1, <1>9

\* What is read of a file makes a shape of numbers.
ShapeOK(shape) ==
  /\ shape.layers \in Nat /\ shape.shared \in Nat /\ shape.shared <= shape.layers
  /\ shape.kvHeads \in Nat /\ shape.headDim \in Nat /\ shape.window \in Read
  /\ shape.types \in Seq(Kinds) /\ shape.linear \in LinearFile \cup {None}
  /\ shape.maxPos \in Read

\* A shape, if there is one, is made of the first config that has it all.
LEMMA ShapeType ==
  ASSUME NEW files \in Seq(ConfigFile), ShapeOf(files) # None
  PROVE  ShapeOK(ShapeOf(files))
<1> DEFINE usable == {k \in DOMAIN files : HasShape(files[k])}
           c == files[Min(usable)]
           shape == FlatShape(c)
<1>1. ShapeOf(files) = IF usable = {} THEN None ELSE shape
  BY DEF ShapeOf
<1>2. usable # {}
  <2> HIDE DEF usable, shape
  <2> QED BY <1>1
<1>3. Min(usable) \in usable
  <2>1. usable \subseteq Nat
    OBVIOUS
  <2> HIDE DEF usable
  <2> QED BY <1>2, <2>1, LeastOf
<1>4. c \in ConfigFile /\ HasShape(c)
  <2>1. Min(usable) \in DOMAIN files /\ HasShape(files[Min(usable)])
    BY <1>3
  <2>2. \A k \in DOMAIN files : files[k] \in ConfigFile
    OBVIOUS
  <2> HIDE DEF usable
  <2> QED BY <2>1, <2>2
<1> HIDE DEF c, usable
<1>5. /\ c.layers \in Nat \ {0} /\ c.kvHeads \in Read /\ c.heads \in Read /\ c.headDim \in Read
      /\ c.hidden \in Read /\ c.types \in Seq(Kinds) /\ c.shared \in Read /\ c.window \in Read
      /\ c.linear \in LinearFile \cup {None} /\ c.maxPos \in Read
  BY <1>4 DEF ConfigFile, HasShape, Read
<1>6. /\ shape.layers = c.layers /\ shape.kvHeads = Else(c.kvHeads, c.heads)
      /\ shape.headDim = HeadSize(c) /\ shape.shared = Least(Else(c.shared, 0), c.layers)
      /\ shape.types = SubSeq(c.types, 1, Least(Len(c.types), c.layers))
      /\ shape.window = c.window /\ shape.linear = c.linear /\ shape.maxPos = c.maxPos
  BY <1>4 DEF FlatShape, ConfigFile
<1> HIDE DEF shape
<1>7. shape.kvHeads \in Nat
  BY <1>4, <1>5, <1>6 DEF HasShape, Else, Read
<1>8. shape.headDim \in Nat
  <2>1. \A a \in Nat, b \in Nat \ {0} : a \div b \in Nat
    OBVIOUS
  <2>2. HeadSize(c) # None
    BY <1>4 DEF HasShape
  <2>3. CASE c.headDim # None
    BY <1>5, <1>6, <2>3 DEF HeadSize, Read
  <2>4. CASE c.headDim = None
    <3>1. c.heads # None /\ c.hidden # None
      BY <2>2, <2>4 DEF HeadSize
    <3>2. c.heads \in Nat \ {0} /\ c.hidden \in Nat
      BY <1>5, <3>1 DEF Read
    <3>3. HeadSize(c) = c.hidden \div c.heads
      BY <2>4, <3>1 DEF HeadSize
    <3> QED BY <1>6, <2>1, <3>2, <3>3
  <2> QED BY <2>3, <2>4
<1>9. shape.shared \in Nat /\ shape.shared <= shape.layers
  BY <1>5, <1>6 DEF Least, Else, Read
<1>10. shape.types \in Seq(Kinds)
  <2> DEFINE l == Least(Len(c.types), c.layers)
  <2>1. l \in Nat /\ l <= Len(c.types)
    BY <1>5 DEF Least
  <2> HIDE DEF l
  <2>2. \A k \in 1..l : c.types[k] \in Kinds
    BY <1>5, <2>1
  <2>3. SubSeq(c.types, 1, l) \in Seq(Kinds)
    BY <1>5, <2>1, SubSeqProperties
  <2> QED BY <1>6, <2>3 DEF l
<1>11. ShapeOK(shape)
  BY <1>5, <1>6, <1>7, <1>8, <1>9, <1>10 DEF ShapeOK
<1> QED BY <1>1, <1>2, <1>11

\* What a layer of each kind keeps of so many tokens.
WeightOf(shape, tokens, bits) ==
  [k \in Kinds |->
     IF k = "linear" THEN LinearState(shape.linear)
     ELSE ((IF k = "full" /\ shape.kEqV THEN 1 ELSE 2) * shape.kvHeads * shape.headDim
             * LayerTokens(shape, k, tokens) * bits) \div 8]

\* It is a number of bytes.
LEMMA WeightType ==
  ASSUME NEW shape, ShapeOK(shape), NEW tokens \in Nat, NEW bits \in Nat \ {0}
  PROVE  WeightOf(shape, tokens, bits) \in [Kinds -> Nat]
<1>1. LinearState(shape.linear) \in Nat
  <2>1. CASE shape.linear = None
    BY <2>1 DEF LinearState
  <2>2. CASE shape.linear # None
    <3> DEFINE l == shape.linear
               a == l.valueHeads * l.valueDim
               b == a * l.keyDim
               d == 2 * l.keyHeads * l.keyDim + a
               m == Most(0, l.conv - 1)
    <3>1. /\ l.valueHeads \in Nat /\ l.valueDim \in Nat /\ l.keyDim \in Nat
          /\ l.keyHeads \in Nat /\ l.conv \in Nat
      BY <2>2 DEF ShapeOK, LinearFile
    <3>2. LinearState(l) = b * 4 + m * d * 2
      BY <2>2 DEF LinearState
    <3> HIDE DEF l
    <3>3. a \in Nat /\ 2 * l.keyHeads \in Nat
      BY <3>1, Products
    <3> HIDE DEF a
    <3>4. b \in Nat /\ 2 * l.keyHeads * l.keyDim \in Nat /\ m \in Nat
      BY <3>1, <3>3, Products DEF Most
    <3> HIDE DEF b, m
    <3>5. d \in Nat
      BY <3>3, <3>4
    <3> HIDE DEF d
    <3>6. m * d \in Nat
      BY <3>4, <3>5, Products
    <3> DEFINE e == m * d
    <3>7. e \in Nat
      BY <3>6
    <3> HIDE DEF e
    <3>8. b * 4 + e * 2 \in Nat
      BY <3>4, <3>7
    <3> QED BY <3>2, <3>8 DEF e, l
  <2> QED BY <2>1, <2>2
<1>2. ASSUME NEW k \in Kinds, NEW t \in {1, 2}
      PROVE  (t * shape.kvHeads * shape.headDim * LayerTokens(shape, k, tokens) * bits) \div 8
               \in Nat
  <2> DEFINE h == shape.kvHeads
             s == shape.headDim
             n == LayerTokens(shape, k, tokens)
             x == t * h
             y == x * s
             z == y * n
  <2>1. h \in Nat /\ s \in Nat /\ t \in Nat
    BY DEF ShapeOK
  <2>2. n \in Nat
    BY DEF ShapeOK, LayerTokens, Least, Read
  <2> HIDE DEF h, s, n
  <2>3. x \in Nat
    BY <2>1, Products
  <2> HIDE DEF x
  <2>4. y \in Nat
    BY <2>1, <2>3, Products
  <2> HIDE DEF y
  <2>5. z \in Nat
    BY <2>2, <2>4, Products
  <2> HIDE DEF z
  <2>6. z * bits \in Nat
    BY <2>5, Products
  <2>7. (z * bits) \div 8 \in Nat
    BY <2>6, Products
  <2> QED BY <2>7 DEF z, y, x, n, s, h
<1>3. ASSUME NEW k \in Kinds
      PROVE  WeightOf(shape, tokens, bits)[k] \in Nat
  <2> DEFINE t == IF k = "full" /\ shape.kEqV THEN 1 ELSE 2
  <2>1. t \in {1, 2}
    OBVIOUS
  <2> HIDE DEF t
  <2>2. WeightOf(shape, tokens, bits)[k] =
          IF k = "linear" THEN LinearState(shape.linear)
          ELSE (t * shape.kvHeads * shape.headDim * LayerTokens(shape, k, tokens) * bits)
                 \div 8
    BY DEF WeightOf, t
  <2> QED BY <1>1, <1>2, <2>1, <2>2
<1> QED BY <1>3 DEF WeightOf

\* Each layer weighs what its kind does.
LEMMA LayerIs ==
  ASSUME NEW shape, ShapeOK(shape), NEW tokens, NEW n,
         NEW bits \in Nat \ {0}
  PROVE  /\ LayerKind(shape, n) \in Kinds
         /\ LayerBytes(shape, n, tokens, bits)
              = WeightOf(shape, tokens, bits)[LayerKind(shape, n)]
<1> DEFINE k == LayerKind(shape, n)
<1>1. k \in Kinds
  BY DEF LayerKind, ShapeOK, Kinds
<1>2. LayerBytes(shape, n, tokens, bits) =
        IF k = "linear" THEN LinearState(shape.linear)
        ELSE ((IF k = "full" /\ shape.kEqV THEN 1 ELSE 2) * shape.kvHeads * shape.headDim
                * LayerTokens(shape, k, tokens) * bits) \div 8
  <2>1. Most(bits, 1) = bits
    BY DEF Most
  <2> QED BY <2>1 DEF LayerBytes
<1> HIDE DEF k
<1>3. WeightOf(shape, tokens, bits)[k] =
        IF k = "linear" THEN LinearState(shape.linear)
        ELSE ((IF k = "full" /\ shape.kEqV THEN 1 ELSE 2) * shape.kvHeads * shape.headDim
                * LayerTokens(shape, k, tokens) * bits) \div 8
  BY <1>1 DEF WeightOf
<1> QED BY <1>1, <1>2, <1>3 DEF k

\* The layers with a cache of their own, and their kinds.
Own(shape) == 1..(shape.layers - shape.shared)
KindOfLayer(shape) == [n \in Own(shape) |-> LayerKind(shape, n)]

\* A sequence keeps, of so many tokens, what its layers weigh by their kinds.
LEMMA KvIs ==
  ASSUME NEW shape, ShapeOK(shape), shape # None, NEW tokens \in Nat, NEW bits \in Nat \ {0}
  PROVE  /\ KvBytes(shape, tokens, bits) \in Nat
         /\ tokens # 0 => KvBytes(shape, tokens, bits)
                            = Weighed(KindOfLayer(shape), WeightOf(shape, tokens, bits), Own(shape))
<1> DEFINE S == Own(shape)
           kind == KindOfLayer(shape)
           w == WeightOf(shape, tokens, bits)
           sum == LayersSum(shape, tokens, bits, S)
<1>1. IsFiniteSet(S)
  <2>1. shape.layers - shape.shared \in Int
    BY DEF ShapeOK
  <2> QED BY <2>1, FS_Interval DEF Own
<1>2. w \in [Kinds -> Nat]
  BY WeightType
<1>3. \A n \in S : kind[n] \in Kinds /\ LayerBytes(shape, n, tokens, bits) = w[kind[n]]
  <2>1. \A n \in S : kind[n] = LayerKind(shape, n)
    BY DEF KindOfLayer
  <2> HIDE DEF S, kind, w
  <2>2. \A n \in S : LayerKind(shape, n) \in Kinds
                     /\ LayerBytes(shape, n, tokens, bits) = w[LayerKind(shape, n)]
    BY LayerIs DEF w
  <2> QED BY <2>1, <2>2
<1>4. KvBytes(shape, tokens, bits)
        = IF tokens = 0 /\ shape.types = <<>> THEN 0 ELSE sum
  BY DEF KvBytes, Own, LayersSum
<1>5. sum = Weighed(kind, w, S)
  <2> HIDE DEF S, kind, w
  <2> QED BY <1>1, <1>2, <1>3, SumOfKinds
<1>6. Weighed(kind, w, S) \in Nat
  <2> HIDE DEF S, kind, w
  <2> QED BY <1>1, <1>2, WeighedType
<1> HIDE DEF sum, S, kind, w
<1>7. /\ KvBytes(shape, tokens, bits) \in Nat
      /\ tokens # 0 => KvBytes(shape, tokens, bits) = Weighed(kind, w, S)
  BY <1>4, <1>5, <1>6
<1> QED BY <1>7 DEF S, kind, w

\* The layers of each kind, counted and weighed.
LEMMA KvCounted ==
  ASSUME NEW shape, ShapeOK(shape), shape # None, NEW tokens \in Nat \ {0},
         NEW bits \in Nat \ {0}
  PROVE  LET count(kind) == Cardinality({n \in Own(shape) : LayerKind(shape, n) = kind})
             bytes(tensors, t) == (tensors * shape.kvHeads * shape.headDim * t * bits) \div 8
         IN  KvBytes(shape, tokens, bits)
               = count("full") * bytes(IF shape.kEqV THEN 1 ELSE 2, tokens)
                 + count("sliding") * bytes(2, Least(tokens, Else(shape.window, tokens)))
                 + count("linear") * LinearState(shape.linear)
<1> DEFINE count(kind) == Cardinality({n \in Own(shape) : LayerKind(shape, n) = kind})
           bytes(tensors, t) == (tensors * shape.kvHeads * shape.headDim * t * bits) \div 8
           w == WeightOf(shape, tokens, bits)
<1>1. tokens \in Nat /\ tokens # 0
  OBVIOUS
<1>2. KvBytes(shape, tokens, bits) = Weighed(KindOfLayer(shape), w, Own(shape))
  BY <1>1, KvIs
<1>3. ASSUME NEW k
      PROVE  Cardinality(Of(KindOfLayer(shape), Own(shape), k)) = count(k)
  <2>1. Of(KindOfLayer(shape), Own(shape), k) = {n \in Own(shape) : LayerKind(shape, n) = k}
    BY DEF Of, KindOfLayer
  <2> QED BY <2>1
<1>4. w["linear"] = LinearState(shape.linear)
  BY DEF WeightOf, Kinds
<1>5. w["full"] = bytes(IF shape.kEqV THEN 1 ELSE 2, tokens)
  <2>1. LayerTokens(shape, "full", tokens) = tokens
    BY DEF LayerTokens
  <2> QED BY <2>1 DEF WeightOf, Kinds
<1>6. w["sliding"] = bytes(2, Least(tokens, Else(shape.window, tokens)))
  <2>1. LayerTokens(shape, "sliding", tokens) = Least(tokens, Else(shape.window, tokens))
    BY <1>1 DEF LayerTokens, Least, Else
  <2> QED BY <2>1 DEF WeightOf, Kinds
<1> HIDE DEF w, bytes, count
<1>7. KvBytes(shape, tokens, bits)
        = count("full") * w["full"] + count("sliding") * w["sliding"]
          + count("linear") * w["linear"]
  BY <1>2, <1>3 DEF Weighed
<1>8. KvBytes(shape, tokens, bits)
        = count("full") * bytes(IF shape.kEqV THEN 1 ELSE 2, tokens)
          + count("sliding") * bytes(2, Least(tokens, Else(shape.window, tokens)))
          + count("linear") * LinearState(shape.linear)
  BY <1>4, <1>5, <1>6, <1>7
<1> QED BY <1>8 DEF count, bytes

\* A sequence keeps what the layers of each kind do.
Sequence(shape, tokens, bits) ==
  LET count(kind) == Cardinality({n \in Own(shape) : LayerKind(shape, n) = kind})
      bytes(tensors, t) == (tensors * shape.kvHeads * shape.headDim * t * bits) \div 8
  IN  count("full") * bytes(IF shape.kEqV THEN 1 ELSE 2, tokens)
      + count("sliding") * bytes(2, Least(tokens, Else(shape.window, tokens)))
      + count("linear") * LinearState(shape.linear)

\* The prompt cache that is planned for is a number of bytes.
LEMMA CacheType ==
  ASSUME NEW shape, ShapeOK(shape), shape # None, NEW config \in ServerConfig, NEW mode,
         NEW prefix \in Nat, NEW bits \in Nat \ {0}
  PROVE  PromptCache(config, shape, mode, prefix, bits) \in Nat
<1> DEFINE b == KvBytes(shape, prefix, bits)
           c == Least(Most(0, Else(config.cacheEntries, CacheSize)), PlanningEntries)
<1>1. b \in Nat
  BY KvIs
<1>2. config.cacheEntries \in Setting /\ config.cacheBytes \in Setting
  BY DEF ServerConfig
<1>3. c \in Nat
  BY <1>2, FootprintAssumption DEF Least, Most, Else, Setting
<1>4. c * b \in Nat
  BY <1>1, <1>3, Products
<1>5. config.cacheBytes # None => Most(0, config.cacheBytes) \in Nat
  BY <1>2 DEF Most, Setting
<1>6. PromptCache(config, shape, mode, prefix, bits)
        = IF mode # "TEXT" THEN 0
          ELSE IF config.cacheBytes # None THEN Most(0, config.cacheBytes)
          ELSE IF prefix = 0 THEN 0 ELSE c * b
  BY DEF PromptCache
<1> HIDE DEF b, c
<1> QED BY <1>4, <1>5, <1>6

\* The planned context is some tokens, and so are the bits of each value.
LEMMA PlanNumbers ==
  ASSUME NEW shape, ShapeOK(shape), shape # None, NEW config \in ServerConfig
  PROVE  Context(config, shape) \in Nat \ {0} /\ KvBits(config) \in Nat \ {0}
<1>1. config.maxKv \in Setting /\ config.kvBits \in Setting /\ shape.maxPos \in Read
  BY DEF ServerConfig, ShapeOK
<1> DEFINE asked == IF config.maxKv = None THEN PlanningContext
                    ELSE Least(PlanningContext, Most(MinContext, config.maxKv))
<1>2. asked \in Nat \ {0}
  BY <1>1, FootprintAssumption DEF Least, Most, Setting
<1>3. Context(config, shape) = IF shape.maxPos = None THEN asked ELSE Least(asked, shape.maxPos)
  BY DEF Context
<1> HIDE DEF asked
<1>4. Context(config, shape) \in Nat \ {0}
  BY <1>1, <1>2, <1>3 DEF Least, Read
<1>5. KvBits(config) \in Nat \ {0}
  BY <1>1 DEF KvBits, DefaultBits, Setting
<1> QED BY <1>4, <1>5

\* The plan counts as many sequences as each of its caps lets run, or as the
\* least of them.
LEMMA ParallelIs ==
  ASSUME NEW config \in ServerConfig
  PROVE  /\ Parallel(config) \in Nat \ {0}
         /\ \A x \in Nat :
              /\ x <= PlanningParallel
              /\ \A n \in {config.decode, config.upstream, DefaultLimit, GlobalCap} :
                   Positive(n) # None => x <= n
              => x <= Parallel(config)
<1> DEFINE caps == {config.decode, config.upstream, DefaultLimit, GlobalCap}
           S == {PlanningParallel} \cup Given({Positive(n) : n \in caps})
<1>1. \A n \in caps : n \in Setting
  BY FootprintAssumption DEF ServerConfig, Setting
<1>2. \A n \in Setting : Positive(n) # None => Positive(n) = n /\ n \in Nat \ {0}
  BY DEF Positive, Setting
<1>3. Parallel(config) = Most(1, Min(S))
  BY DEF Parallel
<1> HIDE DEF caps
<1>4. S \subseteq Nat \ {0} /\ S # {}
  BY <1>1, <1>2, FootprintAssumption DEF Given
<1>5. \A y \in S : y = PlanningParallel \/ \E n \in caps : Positive(n) # None /\ y = Positive(n)
  BY DEF Given
<1> HIDE DEF S
<1>6. Min(S) \in S
  BY <1>4, LeastOf
<1>7. Parallel(config) = Min(S) /\ Parallel(config) \in Nat \ {0}
  <2> DEFINE m == Min(S)
  <2>1. m \in Nat \ {0} /\ Parallel(config) = Most(1, m)
    BY <1>3, <1>4, <1>6
  <2> HIDE DEF m
  <2>2. Most(1, m) = m
    BY <2>1 DEF Most
  <2> QED BY <2>1, <2>2 DEF m
<1>8. ASSUME NEW x \in Nat, x <= PlanningParallel,
             \A n \in caps : Positive(n) # None => x <= n
      PROVE  x <= Min(S)
  <2>1. CASE Min(S) = PlanningParallel
    BY <1>8, <2>1
  <2>2. ASSUME NEW n \in caps, Positive(n) # None, Min(S) = Positive(n)
        PROVE  x <= Min(S)
    BY <1>1, <1>2, <1>8, <2>2
  <2> QED BY <1>5, <1>6, <2>1, <2>2
<1> QED BY <1>7, <1>8 DEF caps

\* The plan is no less than the weights and the state of as many sequences as it
\* counts.
LEMMA PlanIs ==
  ASSUME NEW i \in Instances, ModeOf[i] \in {"TEXT", "MULTIMODAL"}, ShapeOf(Files[i]) # None
  PROVE  LET shape == ShapeOf(Files[i])
             config == ConfigOf[i]
             kv == Sequence(shape, Context(config, shape), KvBits(config))
         IN  /\ kv \in Nat /\ Parallel(config) \in Nat /\ NeedOf[i] \in Int
             /\ NeedOf[i] >= Weights(DiskOf[i]) + kv * Parallel(config)
<1> DEFINE shape == ShapeOf(Files[i])
           config == ConfigOf[i]
           context == Context(config, shape)
           bits == KvBits(config)
           prefix == Least(context, PlanningPrefix)
           kv == KvBytes(shape, context, bits)
           cache == PromptCache(config, shape, ModeOf[i], prefix, bits)
           weights == Weights(DiskOf[i])
           n == Parallel(config)
<1>1. ShapeOK(shape) /\ shape # None /\ config \in ServerConfig /\ DiskOf[i] \in Nat
  <2>1. Files[i] \in Seq(ConfigFile)
    BY SizesAssumption
  <2> QED BY <2>1, ShapeType, SizesAssumption
<1>2. NeedOf[i] = Most(MinFootprint, weights + kv * n + cache)
  BY DEF NeedOf, Estimate
<1> HIDE DEF shape, config
<1>3. context \in Nat \ {0} /\ bits \in Nat \ {0}
  BY <1>1, PlanNumbers
<1>4. weights \in Nat
  BY <1>1, FootprintAssumption DEF Weights, Most
<1> HIDE DEF context, bits, weights
<1>5. prefix \in Nat
  BY <1>3, FootprintAssumption DEF Least
<1> HIDE DEF prefix
<1>6. cache \in Nat
  BY <1>1, <1>3, <1>5, CacheType
<1>7. kv \in Nat /\ kv = Sequence(shape, context, bits)
  BY <1>1, <1>3, KvIs, KvCounted DEF Sequence
<1>8. n \in Nat /\ n # 0
  BY <1>1, ParallelIs
<1> HIDE DEF cache, kv, n
<1> DEFINE x == kv * n
<1>9. x \in Nat
  BY <1>7, <1>8, Products
<1> HIDE DEF x
<1>10. /\ Most(MinFootprint, weights + x + cache) >= weights + x
       /\ Most(MinFootprint, weights + x + cache) \in Int
  BY <1>4, <1>6, <1>9, FootprintAssumption DEF Most
<1> QED BY <1>2, <1>7, <1>8, <1>10 DEF x, kv, n, context, bits, weights, shape, config

-----------------------------------------------------------------------------
(* The requests that are served at once.                                    *)

\* The slots that are taken are within the limits of the pool.
Limited ==
  /\ IsFiniteSet(Pool!Charged)
  /\ Positive(GlobalCap) # None => Cardinality(Pool!Charged) <= GlobalCap
  /\ \A i \in Instances :
       LET limit == SlotLimit(ConfigOf[i], ModeOf[i])
       IN  limit # None => Cardinality(Pool!ChargedTo(i)) <= Most(0, limit)

\* The set of the slots grows by one for which there is room, or shrinks.
LEMMA ChargedStep ==
  ASSUME [Next]_vars
  PROVE  \/ (Pool!Charged)' \subseteq Pool!Charged
         \/ \E r \in Sessions : Pool!Room(r) /\ (Pool!Charged)' = Pool!Charged \cup {r}
<1>1. CASE UNCHANGED pool
  BY <1>1 DEF pool, Pool!Charged
<1>2. ASSUME NEW s \in Sessions, CallStep(s)
      PROVE  \/ (Pool!Charged)' \subseteq Pool!Charged
             \/ \E r \in Sessions : Pool!Room(r) /\ (Pool!Charged)' = Pool!Charged \cup {r}
  <2>1. CASE Enter(s)
    <3>1. Pool!Enter(s)
      BY <2>1 DEF Enter
    <3> QED BY <3>1 DEF Pool!Enter, Pool!Charged
  <2>2. CASE Served(s) \/ Leave(s)
    <3>1. Pool!Serve(s) \/ Pool!GiveUp(s) \/ Pool!Waste(s)
      BY <2>2 DEF Served, Leave
    <3> QED BY <3>1 DEF Pool!Serve, Pool!GiveUp, Pool!Waste, Pool!Turn, Pool!Charged
  <2>3. CASE Answer(s) \/ OpenFails(s) \/ EndStream(s)
    <3>1. Pool!GiveBack(s)
      BY <2>3 DEF Answer, OpenFails, EndStream
    <3> QED BY <3>1 DEF Pool!GiveBack, Pool!Charged
  <2> QED
    BY <1>1, <1>2, <2>1, <2>2, <2>3
    DEF CallStep, Ask, Resolve, WakeAnswer, WakeObserve, Opened, Disconnect, Begin, Beat, EndBody
<1> QED BY <1>1, <1>2, CallActions DEF pool

\* A limit is a number.
LEMMA LimitType ==
  ASSUME NEW i \in Instances
  PROVE  SlotLimit(ConfigOf[i], ModeOf[i]) \in Setting
<1> DEFINE config == ConfigOf[i]
           a == ConfiguredLimit(config)
           b == Decodes(config, ModeOf[i])
<1>1. config.upstream \in Setting /\ config.decode \in Setting
  BY SizesAssumption DEF ServerConfig
<1>2. a \in Setting /\ b \in Setting
  BY <1>1, FootprintAssumption DEF ConfiguredLimit, Decodes, Positive, Setting
<1>3. SlotLimit(config, ModeOf[i]) = IF Given({a, b}) = {} THEN None ELSE Min(Given({a, b}))
  BY DEF SlotLimit
<1> HIDE DEF a, b
<1>4. ASSUME Given({a, b}) # {}
      PROVE  Min(Given({a, b})) \in Given({a, b})
  <2> DEFINE S == Given({a, b})
  <2>1. S \in SUBSET Int /\ S \subseteq {a, b} /\ S # {}
    BY <1>2, <1>4 DEF Given, Setting
  <2> HIDE DEF S
  <2>2. Min(S) \in S
    BY <2>1, LeastOfTwo
  <2> QED BY <2>2 DEF S
<1> QED BY <1>2, <1>3, <1>4 DEF Given, Setting

\* A set with one more element.
LEMMA OneMore ==
  ASSUME NEW S, IsFiniteSet(S), NEW r
  PROVE  /\ IsFiniteSet(S \cup {r})
         /\ Cardinality(S) \in Nat /\ Cardinality(S \cup {r}) \in Nat
         /\ Cardinality(S \cup {r}) <= Cardinality(S) + 1
<1>1. /\ IsFiniteSet(S \cup {r})
      /\ r \in S => Cardinality(S \cup {r}) = Cardinality(S)
      /\ r \notin S => Cardinality(S \cup {r}) = Cardinality(S) + 1
  BY FS_AddElement
<1>2. Cardinality(S) \in Nat
  BY FS_CardinalityType
<1> QED BY <1>1, <1>2

LEMMA LimitedStep ==
  ASSUME Limited, [Next]_vars
  PROVE  Limited'
<1> DEFINE C == Pool!Charged
           D == (Pool!Charged)'
           To(S, i) == {s \in S : InstanceOf[s] = i}
<1>1. /\ IsFiniteSet(C)
      /\ Positive(GlobalCap) # None => Cardinality(C) <= GlobalCap
      /\ \A i \in Instances :
           LET limit == SlotLimit(ConfigOf[i], ModeOf[i])
           IN  limit # None => Cardinality(To(C, i)) <= Most(0, limit)
  BY DEF Limited, Pool!ChargedTo
<1>2. SUFFICES
        /\ IsFiniteSet(D)
        /\ Positive(GlobalCap) # None => Cardinality(D) <= GlobalCap
        /\ \A i \in Instances :
             LET limit == SlotLimit(ConfigOf[i], ModeOf[i])
             IN  limit # None => Cardinality(To(D, i)) <= Most(0, limit)
  BY DEF Limited, Pool!ChargedTo
<1>3. Positive(GlobalCap) # None => GlobalCap \in Nat /\ Positive(GlobalCap) = GlobalCap
  BY FootprintAssumption DEF Positive
<1>4. \A i \in Instances :
        LET limit == SlotLimit(ConfigOf[i], ModeOf[i])
        IN  limit # None => Most(0, limit) \in Nat /\ limit \in Int
  BY LimitType DEF Most, Setting
<1>5. ASSUME NEW r \in Sessions, Pool!Room(r)
      PROVE  /\ Positive(GlobalCap) # None => Cardinality(C) < Positive(GlobalCap)
             /\ SlotLimit(ConfigOf[InstanceOf[r]], ModeOf[InstanceOf[r]]) # None =>
                  Cardinality(To(C, InstanceOf[r]))
                    < SlotLimit(ConfigOf[InstanceOf[r]], ModeOf[InstanceOf[r]])
  <2> DEFINE L == [i \in Instances |-> SlotLimit(ConfigOf[i], ModeOf[i])]
  <2>1. InstanceOf[r] \in Instances
    BY FleetAssumption
  <2>2. L[InstanceOf[r]] = SlotLimit(ConfigOf[InstanceOf[r]], ModeOf[InstanceOf[r]])
    BY <2>1
  <2>3. To(C, InstanceOf[r]) = Pool!ChargedTo(InstanceOf[r])
    BY DEF Pool!ChargedTo
  <2>4. /\ Positive(GlobalCap) # None => Cardinality(C) < Positive(GlobalCap)
        /\ L[InstanceOf[r]] # None =>
             Cardinality(Pool!ChargedTo(InstanceOf[r])) < L[InstanceOf[r]]
    BY <1>5 DEF Pool!Room, Pool!Cardinality, Cardinality
  <2> HIDE DEF L, To, C
  <2> QED BY <2>2, <2>3, <2>4
<1> HIDE DEF C, D
<1>6. \A i : IsFiniteSet(To(C, i)) /\ To(C, i) \subseteq C
  BY <1>1, FS_Subset
<1>7. CASE D \subseteq C
  <2>1. IsFiniteSet(D) /\ Cardinality(D) <= Cardinality(C)
    BY <1>1, <1>7, FS_Subset
  <2>2. \A i : Cardinality(To(D, i)) <= Cardinality(To(C, i)) /\ IsFiniteSet(To(D, i))
    <3> TAKE i
    <3>1. To(D, i) \subseteq To(C, i)
      BY <1>7
    <3> QED BY <1>6, <3>1, FS_Subset
  <2>3. /\ Cardinality(C) \in Nat /\ Cardinality(D) \in Nat
        /\ \A i : Cardinality(To(C, i)) \in Nat /\ Cardinality(To(D, i)) \in Nat
    BY <1>1, <1>6, <2>1, <2>2, FS_CardinalityType
  <2> HIDE DEF To
  <2> QED BY <1>1, <1>3, <1>4, <2>1, <2>2, <2>3
<1>8. ASSUME NEW r \in Sessions, Pool!Room(r), D = C \cup {r}
      PROVE  /\ IsFiniteSet(D)
             /\ Positive(GlobalCap) # None => Cardinality(D) <= GlobalCap
             /\ \A i \in Instances :
                  LET limit == SlotLimit(ConfigOf[i], ModeOf[i])
                  IN  limit # None => Cardinality(To(D, i)) <= Most(0, limit)
  <2>1. IsFiniteSet(D) /\ Cardinality(D) \in Nat /\ Cardinality(C) \in Nat
        /\ Cardinality(D) <= Cardinality(C) + 1
    BY <1>1, <1>8, OneMore
  <2>2. Positive(GlobalCap) # None => Cardinality(C) < GlobalCap
    BY <1>3, <1>8, <1>5
  <2>3. Positive(GlobalCap) # None => Cardinality(D) <= GlobalCap
    BY <1>3, <2>1, <2>2
  <2>4. ASSUME NEW i \in Instances, SlotLimit(ConfigOf[i], ModeOf[i]) # None
        PROVE  Cardinality(To(D, i)) <= Most(0, SlotLimit(ConfigOf[i], ModeOf[i]))
    <3> DEFINE limit == SlotLimit(ConfigOf[i], ModeOf[i])
    <3>1. limit \in Int /\ Cardinality(To(C, i)) <= Most(0, limit)
      BY <1>1, <1>4, <2>4
    <3>2. CASE InstanceOf[r] # i
      <4>1. To(D, i) = To(C, i)
        BY <1>8, <3>2
      <4> QED BY <3>1, <4>1
    <3>3. CASE InstanceOf[r] = i
      <4>1. To(D, i) = To(C, i) \cup {r}
        BY <1>8, <3>3
      <4>2. Cardinality(To(C, i)) \in Nat /\ Cardinality(To(D, i)) \in Nat
            /\ Cardinality(To(D, i)) <= Cardinality(To(C, i)) + 1
        BY <1>6, <4>1, OneMore
      <4>3. Cardinality(To(C, i)) < limit
        BY <1>8, <1>5, <2>4, <3>3
      <4> HIDE DEF To, limit
      <4> QED BY <3>1, <4>2, <4>3 DEF Most, limit
    <3> QED BY <3>2, <3>3
  <2> QED BY <2>1, <2>3, <2>4
<1> QED BY <1>7, <1>8, ChargedStep DEF C, D

LEMMA InitLimited == Init => Limited
<1> SUFFICES ASSUME Init
             PROVE  Limited
  OBVIOUS
<1>1. Pool!Charged = {} /\ \A i : Pool!ChargedTo(i) = {}
  BY DEF Init, Pool!Init, Pool!Charged, Pool!ChargedTo
<1>2. IsFiniteSet({}) /\ Cardinality({}) = 0
  BY FS_EmptySet
<1>3. Positive(GlobalCap) # None => GlobalCap \in Nat
  BY FootprintAssumption DEF Positive
<1>4. \A i \in Instances :
        LET limit == SlotLimit(ConfigOf[i], ModeOf[i])
        IN  limit # None => 0 <= Most(0, limit)
  BY LimitType DEF Most, Setting
<1> QED BY <1>1, <1>2, <1>3, <1>4 DEF Limited

\* What runs is within every cap that the plan counts with.
LEMMA RunningIsCounted ==
  ASSUME Limited, NEW i \in Instances,
         LET config == ConfigOf[i]
             running == Cardinality({s \in served : InstanceOf[s] = i})
         IN  /\ running <= PlanningParallel
             /\ Positive(DefaultLimit) # None /\ config.upstream # None =>
                  config.upstream # 0 /\ config.upstream <= DefaultLimit
             /\ Decodes(config, ModeOf[i]) = config.decode
  PROVE  /\ Cardinality({s \in served : InstanceOf[s] = i}) \in Nat
         /\ Cardinality({s \in served : InstanceOf[s] = i}) <= Parallel(ConfigOf[i])
<1> DEFINE R == {s \in served : InstanceOf[s] = i}
           n == Cardinality(R)
           config == ConfigOf[i]
           limit == SlotLimit(config, ModeOf[i])
           a == ConfiguredLimit(config)
<1>1. /\ R \subseteq Pool!ChargedTo(i) /\ R \subseteq Pool!Charged
      /\ Pool!ChargedTo(i) \subseteq Pool!Charged
  BY DEF Pool!ChargedTo, Pool!Charged
<1>2. IsFiniteSet(Pool!Charged) /\ IsFiniteSet(Pool!ChargedTo(i)) /\ IsFiniteSet(R)
  BY <1>1, FS_Subset DEF Limited
<1> HIDE DEF R
<1>3. /\ n \in Nat /\ n <= Cardinality(Pool!ChargedTo(i)) /\ n <= Cardinality(Pool!Charged)
      /\ Cardinality(Pool!ChargedTo(i)) \in Nat /\ Cardinality(Pool!Charged) \in Nat
  BY <1>1, <1>2, FS_Subset, FS_CardinalityType
<1>4. config \in ServerConfig /\ config.upstream \in Setting /\ config.decode \in Setting
  BY SizesAssumption DEF ServerConfig
<1>5. /\ n <= PlanningParallel
      /\ Positive(DefaultLimit) # None /\ config.upstream # None =>
           config.upstream # 0 /\ config.upstream <= DefaultLimit
      /\ Decodes(config, ModeOf[i]) = config.decode
  BY DEF R
<1>6. limit # None => n <= Most(0, limit)
  <2>1. limit # None => Cardinality(Pool!ChargedTo(i)) <= Most(0, limit)
    BY DEF Limited
  <2>2. limit # None => Most(0, limit) \in Nat
    BY LimitType DEF Most, Setting
  <2> HIDE DEF limit, n
  <2> QED BY <1>3, <2>1, <2>2
<1>7. Positive(GlobalCap) # None => n <= GlobalCap
  <2>1. Positive(GlobalCap) # None => GlobalCap \in Nat /\ Cardinality(Pool!Charged) <= GlobalCap
    BY FootprintAssumption DEF Limited, Positive
  <2> HIDE DEF n
  <2> QED BY <1>3, <2>1
<1> HIDE DEF config
<1>8. limit = IF Given({a, config.decode}) = {} THEN None ELSE Min(Given({a, config.decode}))
  BY <1>5 DEF SlotLimit
<1>9. a \in Setting
  BY <1>4, FootprintAssumption DEF ConfiguredLimit, Positive, Setting
<1> HIDE DEF a, limit, n
<1>10. \A x \in {a, config.decode} : x # None => n <= Most(0, x)
  <2> TAKE x \in {a, config.decode}
  <2> HAVE x # None
  <2> DEFINE S == Given({a, config.decode})
  <2>1. S \in SUBSET Int /\ S \subseteq {a, config.decode} /\ x \in S
    BY <1>4, <1>9 DEF Given, Setting
  <2>2. limit = Min(S)
    BY <1>8, <2>1
  <2> HIDE DEF S
  <2>3. Min(S) \in S /\ Min(S) <= x
    BY <2>1, LeastOfTwo
  <2>4. limit \in Int /\ limit <= x /\ limit # None /\ x \in Int
    BY <2>1, <2>2, <2>3, FootprintAssumption
  <2> QED BY <1>3, <1>6, <2>4 DEF Most
<1>11. Positive(config.decode) # None => n <= config.decode
  BY <1>3, <1>4, <1>10 DEF Most, Positive, Setting
<1>12. Positive(config.upstream) # None => n <= config.upstream
  <2> HAVE Positive(config.upstream) # None
  <2>1. config.upstream \in Nat \ {0} /\ config.upstream # None
    BY <1>4 DEF Positive, Setting
  <2>2. a = config.upstream
    BY <2>1 DEF a, ConfiguredLimit
  <2> QED BY <1>3, <1>10, <2>1, <2>2 DEF Most
<1>13. Positive(DefaultLimit) # None => n <= DefaultLimit
  <2> HAVE Positive(DefaultLimit) # None
  <2>1. DefaultLimit \in Nat \ {0} /\ Positive(DefaultLimit) = DefaultLimit /\ DefaultLimit # None
    BY FootprintAssumption DEF Positive
  <2>2. CASE config.upstream = None
    <3>1. a = DefaultLimit
      BY <2>1, <2>2 DEF a, ConfiguredLimit
    <3> QED BY <1>3, <1>10, <2>1, <3>1 DEF Most
  <2>3. CASE config.upstream # None
    <3>1. config.upstream \in Int /\ config.upstream # 0 /\ config.upstream <= DefaultLimit
      BY <1>4, <1>5, <2>3 DEF Setting
    <3>2. a = config.upstream
      BY <2>3, <3>1 DEF a, ConfiguredLimit
    <3> QED BY <1>3, <1>10, <2>1, <2>3, <3>1, <3>2 DEF Most
  <2> QED BY <2>2, <2>3
<1>14. \A m \in {config.decode, config.upstream, DefaultLimit, GlobalCap} :
         Positive(m) # None => n <= m
  BY <1>7, <1>11, <1>12, <1>13
<1>15. n <= Parallel(config)
  BY <1>3, <1>4, <1>5, <1>14, ParallelIs
<1> QED BY <1>3, <1>15 DEF n, R, config

\* What eviction plans for a model (memory_pressure.py) covers its weights and
\* the state of every request that the upstream scheduler serves at once, for a
\* model of any number of layers of any sizes, any limits and any number of
\* requests: waits, grants lost on cancelled waiters and streams that keep their
\* slot never let in more than the plan counted, within what it says it assumes.
THEOREM PlanCovers == Spec => []PlanCoversRequests
<1>1. Limited => PlanCoversRequests
  <2> SUFFICES ASSUME Limited, NEW i \in Instances,
                      ModeOf[i] \in {"TEXT", "MULTIMODAL"}, ShapeOf(Files[i]) # None,
                      LET config == ConfigOf[i]
                          running == Cardinality({s \in served : InstanceOf[s] = i})
                      IN  /\ running <= PlanningParallel
                          /\ Positive(DefaultLimit) # None /\ config.upstream # None =>
                               config.upstream # 0 /\ config.upstream <= DefaultLimit
                          /\ Decodes(config, ModeOf[i]) = config.decode
               PROVE  LET shape == ShapeOf(Files[i])
                          config == ConfigOf[i]
                      IN  NeedOf[i] >= Weights(DiskOf[i])
                            + Cardinality({s \in served : InstanceOf[s] = i})
                                * Sequence(shape, Context(config, shape), KvBits(config))
    BY DEF PlanCoversRequests, Sequence, Own
  <2> DEFINE n == Cardinality({s \in served : InstanceOf[s] = i})
             shape == ShapeOf(Files[i])
             config == ConfigOf[i]
             kv == Sequence(shape, Context(config, shape), KvBits(config))
             p == Parallel(config)
             w == Weights(DiskOf[i])
  <2>1. n \in Nat /\ n <= p
    BY RunningIsCounted
  <2>2. kv \in Nat /\ p \in Nat /\ NeedOf[i] >= w + kv * p
    BY PlanIs
  <2>3. w \in Nat /\ NeedOf[i] \in Int
    <3>1. DiskOf[i] \in Nat
      BY SizesAssumption
    <3>2. w \in Nat
      BY <3>1, FootprintAssumption DEF Weights, Most
    <3> QED BY <3>2, PlanIs
  <2> HIDE DEF n, kv, p, w
  <2>4. n * kv <= kv * p /\ n * kv \in Nat /\ kv * p \in Nat
    <3>1. \A a, b, c \in Nat : a <= b => a * c <= c * b
      OBVIOUS
    <3> QED BY <2>1, <2>2, <3>1, Products
  <2> DEFINE x == n * kv
             y == kv * p
  <2>5. x <= y /\ x \in Nat /\ y \in Nat /\ NeedOf[i] >= w + y
    BY <2>2, <2>4
  <2> HIDE DEF x, y
  <2>6. NeedOf[i] >= w + x
    BY <2>3, <2>5
  <2> QED BY <2>6 DEF x, n, kv, w, shape, config
<1>2. Spec => []Limited
  BY InitLimited, LimitedStep, PTL DEF Spec
<1> QED BY <1>1, <1>2, PTL
=============================================================================
