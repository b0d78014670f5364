-------------------------------- MODULE Fleet --------------------------------
(***************************************************************************)
(* Several instances share one memory: a load that lacks room evicts       *)
(* on_demand instances that nobody used lately (instance_eviction.py), the *)
(* idle watcher stops them too, and the proxy keeps those alive that serve *)
(* a request (http_proxy.py, mode_proxy.py), with a wake before it         *)
(* (lifecycle_services.py) and a slot of the upstream scheduler around it. *)
(*                                                                         *)
(* A slot lock is held from the start of a load to its end, so a load is   *)
(* known by its instance.  Activity is the rank of the last_used_at stamp  *)
(* of each on_demand instance, oldest first; nobody reads it for the       *)
(* others.  The first `old` are beyond the grace.                          *)
(* The grace is at least two heartbeats, so the stamp of an instance whose *)
(* request has a heartbeat never gets that old; the idle deadline, five    *)
(* minutes at least, is taken to be beyond the grace.                      *)
(***************************************************************************)
EXTENDS Footprint

CONSTANTS
  Instances, Sessions, InstanceOf,
  KindOf,             \* "json", "sse", "form" (multipart) or "binary"
  OnDemand, Pinned,
  Files,              \* the nested configs of each model's config.json
  ConfigOf, ModeOf, DiskOf,
  Capacity,           \* the host's memory
  MaxStarts, MaxAsks  \* bounds: loads that a user starts, requests

ASSUME FleetAssumption ==
  /\ None \notin Instances \cup Sessions \cup {"idle"} /\ "idle" \notin Instances
  /\ InstanceOf \in [Sessions -> Instances]
  /\ OnDemand \subseteq Instances /\ IsFiniteSet(OnDemand)

ASSUME SizesAssumption ==
  /\ Files \in [Instances -> Seq(ConfigFile)] /\ DiskOf \in [Instances -> Nat]
  /\ ConfigOf \in [Instances -> ServerConfig]
  /\ Capacity \in Nat

VARIABLES
  status, slot,       \* the rows and the slot locks
  resident,           \* the launchers that hold their weights
  phase, home, victims,   \* of the load of each instance
  reserved,           \* _reserved_victim_ids, of each process
  waking,             \* _WAKE_LOCKS of the gateway
  idle,               \* the instance the idle watcher is about to stop
  stamp, old, starts,
  st,                 \* how far each request is
  served, waiting, wasted

Pool == INSTANCE CapacityPool WITH
          Requests <- Sessions, Batch <- {}, BatchLimit <- None,
          GlobalLimit <- Positive(GlobalCap),
          InstanceLimit <- [i \in Instances |-> SlotLimit(ConfigOf[i], ModeOf[i])]

row == <<status, slot, resident>>
loads == <<phase, home, victims, reserved>>
activity == <<stamp, old>>
pool == <<served, waiting, wasted>>
vars == <<row, loads, waking, idle, activity, starts, st, pool>>

Processes == {"ui", "gateway"}
MaxEvictions == 3
Latest == Cardinality(OnDemand)

\* Some of the always_on and manual instances run already.
Init ==
  /\ resident \in SUBSET (Instances \ OnDemand)
  /\ status = [i \in Instances |-> IF i \in resident THEN "RUNNING" ELSE "STOPPED"]
  /\ slot = [i \in Instances |-> None]
  /\ phase = [i \in Instances |-> "none"] /\ home = [i \in Instances |-> "ui"]
  /\ victims = [i \in Instances |-> <<>>]
  /\ reserved = [p \in Processes |-> {}]
  /\ waking = [i \in Instances |-> None] /\ idle = None
  /\ stamp \in Bijection(OnDemand, 1..Latest) /\ old = Latest /\ starts = 0
  /\ st = [s \in Sessions |-> "idle"]
  /\ Pool!Init

-----------------------------------------------------------------------------
(* Activity. *)

IsOld(i) == i \in OnDemand /\ stamp[i] <= old

\* touch_instance_last_used_at
Touch(i) ==
  IF i \notin OnDemand THEN UNCHANGED activity
  ELSE /\ stamp' = [j \in OnDemand |->
                      IF j = i THEN Latest
                      ELSE IF stamp[j] > stamp[i] THEN stamp[j] - 1 ELSE stamp[j]]
       /\ old' = IF IsOld(i) THEN old - 1 ELSE old

\* The requests that have a heartbeat: a JSON call for as long as it lasts,
\* the wait for its slot included, a stream from its first beat on.
Beating(i) ==
  {s \in Sessions : /\ InstanceOf[s] = i
                    /\ \/ st[s] = "beating"
                       \/ KindOf[s] = "json" /\ st[s] \in {"queue", "open"}}

Age ==
  /\ old < Latest /\ \A i \in OnDemand : stamp[i] = old + 1 => Beating(i) = {}
  /\ old' = old + 1
  /\ UNCHANGED <<row, loads, waking, idle, stamp, starts, st, pool>>

-----------------------------------------------------------------------------
(* Which instances may go. *)

NeedOf == [i \in Instances |->
             Estimate(DiskOf[i], ConfigOf[i], ShapeOf(Files[i]), ModeOf[i])]
Total(S) == MapThenSumSet(LAMBDA i : NeedOf[i], S)
Available == Capacity - Total(resident)

StopInProgress(i) == slot[i] \notin {None, i}

\* A process sees its own wake locks and reservations only.
Spared(p, i) ==
  \/ i \in reserved[p] \/ i \notin OnDemand \/ i \in Pinned
  \/ p = "gateway" /\ waking[i] # None
  \/ StopInProgress(i)

\* Mutation: the rows are not filtered by status.
EvictableAnyway(p, i) == ~Spared(p, i) /\ IsOld(i)

Evictable(p, i) == status[i] = "RUNNING" /\ ~Spared(p, i) /\ IsOld(i)

Candidates(i) == {j \in OnDemand \ {i} : Evictable(home[i], j)}
Enough(i, S) == Available + Total(S) >= NeedOf[i]

\* Oldest first, as many as the load needs, three at most.
IsPlan(i, plan) ==
  /\ \A m, n \in DOMAIN plan : m < n => stamp[plan[m]] < stamp[plan[n]]
  /\ \A j \in Candidates(i) \ Range(plan), k \in Range(plan) : stamp[k] < stamp[j]
  /\ plan # <<>> => ~Enough(i, Range(Front(plan)))
  /\ Enough(i, Range(plan)) \/ Len(plan) = MaxEvictions \/ Range(plan) = Candidates(i)

-----------------------------------------------------------------------------
(* A load holds the slot of its instance, and the slot of the victim it is  *)
(* stopping.                                                                *)

StartLoad(i, p) ==
  /\ slot[i] = None /\ status[i] # "RUNNING"
  /\ slot' = [slot EXCEPT ![i] = i] /\ status' = [status EXCEPT ![i] = "LOADING"]
  /\ phase' = [phase EXCEPT ![i] = "plan"] /\ home' = [home EXCEPT ![i] = p]
  /\ UNCHANGED <<resident, victims, reserved>>

UserStart(i) ==
  /\ starts < MaxStarts /\ starts' = starts + 1
  /\ StartLoad(i, "ui")
  /\ UNCHANGED <<waking, idle, activity, st, pool>>

UserStop(i) ==
  /\ slot[i] = None /\ status[i] = "RUNNING"
  /\ status' = [status EXCEPT ![i] = "STOPPED"] /\ resident' = resident \ {i}
  /\ UNCHANGED <<slot, loads, waking, idle, activity, starts, st, pool>>

\* The launchers a failed stop left behind are killed before the memory is
\* looked at; under the eviction lock of the process.
Plan(i) ==
  /\ phase[i] = "plan"
  /\ IF i \in resident
       THEN resident' = resident \ {i} /\ UNCHANGED <<phase, victims, reserved>>
       ELSE /\ phase' = [phase EXCEPT ![i] = "evict"]
            /\ \E plan \in BoundedSeq(Candidates(i), MaxEvictions) :
                 /\ IsPlan(i, plan)
                 /\ victims' = [victims EXCEPT ![i] = plan]
                 /\ reserved' = [reserved EXCEPT ![home[i]] = @ \cup Range(plan)]
            /\ UNCHANGED resident
  /\ UNCHANGED <<status, slot, home, waking, idle, activity, starts, st, pool>>

\* Mutation: the reservation of a victim that is busy is kept.
UnreserveStopped(i) ==
  /\ victims' = [victims EXCEPT ![i] = Tail(@)]
  /\ reserved' = IF phase[i] = "stopping"
                   THEN [reserved EXCEPT ![home[i]] = @ \ {Head(victims[i])}] ELSE reserved
  /\ UNCHANGED home

\* _release_victim_reservation, in the finally of each victim
Unreserve(i) ==
  /\ victims' = [victims EXCEPT ![i] = Tail(@)]
  /\ reserved' = [reserved EXCEPT ![home[i]] = @ \ {Head(victims[i])}]
  /\ UNCHANGED home

\* The slot is taken without waiting for it.
EvictBegin(i) ==
  /\ phase[i] = "evict" /\ victims[i] # <<>> /\ slot[Head(victims[i])] = None
  /\ slot' = [slot EXCEPT ![Head(victims[i])] = i]
  /\ phase' = [phase EXCEPT ![i] = "stopping"]
  /\ UNCHANGED <<status, resident, home, victims, reserved, waking, idle, activity, starts, st, pool>>

EvictSkip(i) ==
  /\ phase[i] = "evict" /\ victims[i] # <<>> /\ slot[Head(victims[i])] # None
  /\ Unreserve(i)
  /\ UNCHANGED <<row, phase, waking, idle, activity, starts, st, pool>>

\* _stop_instance_locked: stopped, or FAILED with a launcher that survives.
Stopped(i) ==
  \/ status' = [status EXCEPT ![i] = "STOPPED"] /\ resident' = resident \ {i}
  \/ status' = [status EXCEPT ![i] = "FAILED"] /\ UNCHANGED resident

\* Mutation: the slot of a victim that could not be stopped is kept.
FreeSlotIfStopped(i) == slot' = IF status'[i] = "FAILED" THEN slot ELSE [slot EXCEPT ![i] = None]

FreeSlot(i) == slot' = [slot EXCEPT ![i] = None]

EvictEnd(i) ==
  /\ phase[i] = "stopping"
  /\ Stopped(Head(victims[i])) /\ FreeSlot(Head(victims[i]))
  /\ phase' = [phase EXCEPT ![i] = "evict"]
  /\ Unreserve(i)
  /\ UNCHANGED <<waking, idle, activity, starts, st, pool>>

\* Whether or not the memory suffices now.
Spawn(i) ==
  /\ phase[i] = "evict" /\ victims[i] = <<>>
  /\ resident' = resident \cup {i} /\ phase' = [phase EXCEPT ![i] = "wait"]
  /\ UNCHANGED <<status, slot, home, victims, reserved, waking, idle, activity, starts, st, pool>>

\* The request that waited for the load, if a request did.
Waker(i) == {s \in Sessions : InstanceOf[s] = i /\ st[s] = "loading"}

AnswerWaker(i, to) ==
  /\ st' = [s \in Sessions |-> IF s \in Waker(i) THEN to ELSE st[s]]
  /\ waking' = IF Waker(i) = {} THEN waking ELSE [waking EXCEPT ![i] = None]

Finish(i) == phase' = [phase EXCEPT ![i] = "none"] /\ home' = [home EXCEPT ![i] = "ui"]

LoadReady(i) ==
  /\ phase[i] = "wait"
  /\ status' = [status EXCEPT ![i] = "RUNNING"] /\ Touch(i)
  /\ FreeSlot(i) /\ Finish(i)
  /\ AnswerWaker(i, "found")
  /\ UNCHANGED <<resident, victims, reserved, idle, starts, pool>>

\* It fails, or finds the stop a user asked for.
LoadEnds(i) ==
  /\ phase[i] \in {"plan", "wait"}
  /\ \/ Stopped(i)
     \/ status' = [status EXCEPT ![i] = "FAILED"] /\ resident' = resident \ {i}
  /\ FreeSlot(i) /\ Finish(i)
  /\ AnswerWaker(i, "done")
  /\ UNCHANGED <<victims, reserved, idle, activity, starts, pool>>

-----------------------------------------------------------------------------
(* The idle watcher, in the gateway. *)

IdleCheck(i) ==
  /\ idle = None /\ status[i] = "RUNNING" /\ i \in OnDemand
  /\ waking[i] = None /\ ~StopInProgress(i) /\ IsOld(i)
  /\ idle' = i
  /\ UNCHANGED <<row, loads, waking, activity, starts, st, pool>>

IdleStop ==
  /\ idle # None /\ slot[idle] # "idle"
  /\ IF slot[idle] = None THEN slot' = [slot EXCEPT ![idle] = "idle"] /\ UNCHANGED idle
                          ELSE idle' = None /\ UNCHANGED slot
  /\ UNCHANGED <<status, resident, loads, waking, activity, starts, st, pool>>

IdleEnd ==
  /\ idle # None /\ slot[idle] = "idle"
  /\ Stopped(idle) /\ FreeSlot(idle) /\ idle' = None
  /\ UNCHANGED <<loads, waking, activity, starts, st, pool>>

-----------------------------------------------------------------------------
(* A request finds its instance (ensure_instance_ready).                    *)

Move(s, to) == st' = [st EXCEPT ![s] = to]
Unlock(s) == waking' = [waking EXCEPT ![InstanceOf[s]] = None]

Ask(s) ==
  /\ st[s] = "idle" /\ Cardinality({r \in Sessions : st[r] # "idle"}) < MaxAsks
  /\ Move(s, "resolving")
  /\ UNCHANGED <<row, loads, waking, idle, activity, starts, pool>>

Resolve(s) ==
  /\ st[s] = "resolving"
  /\ \/ status[InstanceOf[s]] = "RUNNING" /\ Move(s, "found") /\ UNCHANGED waking
     \/ /\ waking[InstanceOf[s]] = None
        /\ waking' = [waking EXCEPT ![InstanceOf[s]] = s] /\ Move(s, "locked")
  /\ UNCHANGED <<row, loads, idle, activity, starts, pool>>

\* Ready, or not to be woken, or the slot does not come free in time.
WakeAnswer(s) ==
  /\ st[s] \in {"locked", "observing"}
  /\ \/ status[InstanceOf[s]] = "RUNNING" /\ Move(s, "found")
     \/ status[InstanceOf[s]] # "RUNNING" /\ Move(s, "done")
  /\ Unlock(s)
  /\ UNCHANGED <<row, loads, idle, activity, starts, pool>>

WakeObserve(s) ==
  /\ st[s] = "locked" /\ status[InstanceOf[s]] = "LOADING" /\ Move(s, "observing")
  /\ UNCHANGED <<row, loads, waking, idle, activity, starts, pool>>

WakeLoad(s) ==
  /\ st[s] = "locked" /\ InstanceOf[s] \in OnDemand
  /\ StartLoad(InstanceOf[s], "gateway") /\ Move(s, "loading")
  /\ UNCHANGED <<waking, idle, activity, starts, pool>>

-----------------------------------------------------------------------------
(* The call upstream, in a slot of the scheduler.                           *)

\* Mutation: a call is not activity until it ends.
EnterUntouched(s) ==
  /\ st[s] = "found" /\ Pool!Enter(s)
  /\ Move(s, IF s \in served' THEN "open" ELSE "queue")
  /\ UNCHANGED <<row, loads, waking, idle, activity, starts>>

\* resolve_target_from_model touches the instance, then the call waits.
Enter(s) ==
  /\ st[s] = "found" /\ Pool!Enter(s) /\ Touch(InstanceOf[s])
  /\ Move(s, IF s \in served' THEN "open" ELSE "queue")
  /\ UNCHANGED <<row, loads, waking, idle, starts>>

Served(s) ==
  /\ Pool!Serve(s) /\ Move(s, "open")
  /\ UNCHANGED <<row, loads, waking, idle, activity, starts>>

Leave(s) ==
  /\ \/ Pool!GiveUp(s) /\ Move(s, "done")
     \/ Pool!Waste(s) /\ Move(s, "cut")
  /\ UNCHANGED <<row, loads, waking, idle, activity, starts>>

\* The server answers, or it cannot be reached, times out or refuses; or the
\* client goes away, which only loses the slot of a stream.
Answer(s) ==
  /\ st[s] = "open" /\ KindOf[s] # "sse" /\ Pool!GiveBack(s)
  /\ \/ /\ status[InstanceOf[s]] = "RUNNING"
        /\ Move(s, IF KindOf[s] = "binary" THEN "body" ELSE "done")
        /\ IF KindOf[s] = "json" THEN Touch(InstanceOf[s]) ELSE UNCHANGED activity
     \/ Move(s, "done") /\ UNCHANGED activity
  /\ UNCHANGED <<row, loads, waking, idle, starts>>

\* _open_upstream_sse_session
Opened(s) ==
  /\ st[s] = "open" /\ KindOf[s] = "sse"
  /\ status[InstanceOf[s]] = "RUNNING" /\ Move(s, "opened")
  /\ UNCHANGED <<row, loads, waking, idle, activity, starts, pool>>

\* Mutation: the slot of a stream that could not be opened is kept.
OpenFailsKeepingSlot(s) ==
  /\ st[s] = "open" /\ KindOf[s] = "sse" /\ Move(s, "done")
  /\ UNCHANGED <<row, loads, waking, idle, activity, starts, pool>>

OpenFails(s) ==
  /\ st[s] = "open" /\ KindOf[s] = "sse" /\ Pool!GiveBack(s) /\ Move(s, "done")
  /\ UNCHANGED <<row, loads, waking, idle, activity, starts>>

\* Cancelled while it opens, or before its body is read: nobody closes it.
Disconnect(s) ==
  /\ KindOf[s] = "sse" /\ st[s] \in {"open", "opened"} /\ Move(s, "cut")
  /\ UNCHANGED <<row, loads, waking, idle, activity, starts, pool>>

Begin(s) ==
  /\ st[s] = "opened" /\ Move(s, "stream")
  /\ UNCHANGED <<row, loads, waking, idle, activity, starts, pool>>

\* _activity_heartbeat_loop sleeps first.
Beat(s) ==
  /\ st[s] = "stream" \/ s \in Beating(InstanceOf[s])
  /\ Touch(InstanceOf[s])
  /\ IF st[s] = "stream" THEN Move(s, "beating") ELSE UNCHANGED st
  /\ UNCHANGED <<row, loads, waking, idle, starts, pool>>

\* The stream is over, breaks, or its client goes away.
EndStream(s) ==
  /\ st[s] \in {"stream", "beating"} /\ Pool!GiveBack(s)
  /\ Touch(InstanceOf[s]) /\ Move(s, "done")
  /\ UNCHANGED <<row, loads, waking, idle, starts>>

\* A body that is passed on without a slot and without a heartbeat.
EndBody(s) ==
  /\ st[s] = "body" /\ Move(s, "done")
  /\ UNCHANGED <<row, loads, waking, idle, activity, starts, pool>>

-----------------------------------------------------------------------------
LoadStep(i) ==
  \/ Plan(i) \/ EvictBegin(i) \/ EvictSkip(i) \/ EvictEnd(i)
  \/ Spawn(i) \/ LoadReady(i) \/ LoadEnds(i)

IdleStep == IdleStop \/ IdleEnd

Next ==
  \/ Age \/ IdleStep
  \/ \E i \in Instances : UserStart(i) \/ UserStop(i) \/ LoadStep(i) \/ IdleCheck(i)
  \/ \E s \in Sessions :
       \/ Ask(s) \/ Resolve(s) \/ WakeAnswer(s) \/ WakeObserve(s) \/ WakeLoad(s)
       \/ Enter(s) \/ Served(s) \/ Leave(s) \/ Answer(s) \/ Opened(s) \/ OpenFails(s)
       \/ Disconnect(s) \/ Begin(s) \/ Beat(s) \/ EndStream(s) \/ EndBody(s)

Spec == Init /\ [][Next]_vars

\* Threads run: as long as some load or idle stop can go on, one does.
Work == IdleStep \/ \E i \in Instances : LoadStep(i)
FairSpec == Spec /\ WF_vars(Work)

-----------------------------------------------------------------------------
Pending(i) == Range(victims[i])

\* An instance that serves a request with a heartbeat is chosen neither by a
\* load that needs its memory nor by the idle watcher, though they look at the
\* stamps only.  (A request that begins after the choice is not spared:
\* nobody looks again before the stop.)
BusyIsNotChosen ==
  [][\A j \in Instances :
       (\/ idle' = j /\ idle # j
        \/ \E i \in Instances : j \in Range(victims'[i]) /\ j \notin Pending(i))
       => Beating(j) = {}]_vars

\* The reservations of a process are those of the victims its loads have yet
\* to deal with, each of one load: none is left behind by a stop that failed
\* or was skipped, none is taken twice.
ReservationsAreHeld ==
  \A p \in Processes :
    LET mine == {i \in Instances : home[i] = p}
    IN /\ reserved[p] = UNION {Pending(i) : i \in mine}
       /\ \A i, j \in mine : i # j => Pending(i) \cap Pending(j) = {}

\* Loads never wait in a circle for each other's instance, whichever process
\* they run in: among any loads there is one whose victims are none of them.
\* This is why blocking on a victim's slot could not deadlock them.
EvictionsAreAcyclic ==
  \A S \in SUBSET {i \in Instances : phase[i] # "none"} :
    S # {} => \E i \in S : Pending(i) \cap S = {}

\* A slot of the scheduler is held by a call in its slot phases and by nobody
\* else, whatever way calls end; only streams cut off before their body and
\* grants lost on cancelled waiters keep one.
HoldersAreCalls ==
  /\ waiting = {s \in Sessions : st[s] = "queue"}
  /\ {s \in Sessions : st[s] \in {"open", "opened", "stream", "beating"}} \subseteq served
  /\ \A s \in served : \/ st[s] \in {"open", "opened", "stream", "beating"}
                       \/ KindOf[s] = "sse" /\ st[s] = "cut"
  /\ \A s \in wasted : st[s] = "cut"

\* Whoever takes the slot of an instance, its own load, the eviction by another
\* load or the idle watcher, gives it back: no slot stays taken.
SlotsComeBack == []<>(\A i \in Instances : slot[i] = None)

\* What eviction plans for a model covers the weights and every request the
\* scheduler lets it serve at once, each layer counted by what its kind keeps of
\* the planned context: a layer that shares a cache owns none, a sliding one
\* keeps no more than its window, a linear one the same at any length.  The
\* plan stops at the sequences it is told to assume, and it takes the gateway's
\* limit for the instance's own where that is larger or lifted.
PlanCoversRequests ==
  \A i \in Instances :
    LET shape == ShapeOf(Files[i])
        config == ConfigOf[i]
        tokens == Context(config, shape)
        own == 1..(shape.layers - shape.shared)
        count(kind) == Cardinality({n \in own : LayerKind(shape, n) = kind})
        bytes(tensors, kept) ==
          (tensors * shape.kvHeads * shape.headDim * kept * KvBits(config)) \div 8
        sequence ==
          count("full") * bytes(IF shape.kEqV THEN 1 ELSE 2, tokens)
          + count("sliding") * bytes(2, Least(tokens, Else(shape.window, tokens)))
          + count("linear") * LinearState(shape.linear)
        running == Cardinality({s \in served : InstanceOf[s] = i})
        assumed ==
          /\ running <= PlanningParallel
          /\ Positive(DefaultLimit) # None /\ config.upstream # None =>
               config.upstream # 0 /\ config.upstream <= DefaultLimit
          /\ Decodes(config, ModeOf[i]) = config.decode
    IN ModeOf[i] \in {"TEXT", "MULTIMODAL"} /\ shape # None /\ assumed =>
         NeedOf[i] >= Weights(DiskOf[i]) + running * sequence
=============================================================================
