-------------------------- MODULE UpstreamScheduler --------------------------
(***************************************************************************)
(* The gateway's upstream scheduler (gateway/gpu_scheduler.py, class       *)
(* GatewayUpstreamScheduler, used by gateway/upstream_concurrency.py): one *)
(* event loop, any number of requests, capacity per instance and for the   *)
(* whole gateway, interactive requests before batch.                       *)
(*                                                                         *)
(* Code between two awaits is atomic, except that the loop of              *)
(* _grant_waiters is one step per grant: while `granting` no other request *)
(* runs.  A waiter whose task is cancelled (queue timeout, client gone)    *)
(* has a cancelled future at once but leaves the queue only when its task  *)
(* runs again.                                                             *)
(***************************************************************************)
EXTENDS Integers, Sequences, FiniteSets, SequencesExt

CONSTANTS
  Requests, Instances,
  InstanceOf,     \* target instance of a request
  Batch,          \* the requests of the batch class
  None,           \* an absent limit
  GlobalLimit,    \* NADIR_GATEWAY_MAX_CONCURRENT_GLOBAL
  InstanceLimit,  \* resolve_max_concurrent_upstream, per instance
  ShareNum, ShareDen  \* NADIR_GATEWAY_BATCH_MAX_SHARE as a fraction

ASSUME SchedulerAssumption ==
  /\ IsFiniteSet(Requests) /\ Batch \subseteq Requests
  /\ InstanceOf \in [Requests -> Instances]
  /\ None \notin Nat
  /\ GlobalLimit \in (Nat \ {0}) \cup {None}
  /\ InstanceLimit \in [Instances -> (Nat \ {0}) \cup {None}]
  /\ ShareNum \in Nat /\ ShareDen \in Nat \ {0} /\ ShareNum <= ShareDen

VARIABLES
  globalInUse, globalBatchInUse, instanceInUse,
  interactive, batch,  \* the two queues of waiters
  st,                  \* where each request is
  granting,            \* _grant_waiters is running
  lost                 \* history: requests whose grant hit a cancelled waiter

vars == <<globalInUse, globalBatchInUse, instanceInUse, interactive, batch,
          st, granting, lost>>
usage == <<globalInUse, globalBatchInUse, instanceInUse>>
queues == <<interactive, batch>>

States == {"idle", "queued", "cancelled", "granted", "grantedCancelled", "holding",
           "gone"}

Init ==
  /\ globalInUse = 0 /\ globalBatchInUse = 0
  /\ instanceInUse = [i \in Instances |-> 0]
  /\ interactive = <<>> /\ batch = <<>>
  /\ st = [r \in Requests |-> "idle"]
  /\ granting = FALSE
  /\ lost = {}

-----------------------------------------------------------------------------
(* Capacity. *)

AtLeastOne(n) == IF n < 1 THEN 1 ELSE n

GlobalBatchCapacity ==
  IF GlobalLimit = None \/ ShareNum = 0 THEN 0
  ELSE AtLeastOne((GlobalLimit * ShareNum) \div ShareDen)

\* Mutation: a full pool still has room for one.
GlobalHasRoomForOneMore(r) ==
  \/ GlobalLimit = None
  \/ /\ globalInUse <= GlobalLimit
     /\ r \in Batch => globalBatchInUse < GlobalBatchCapacity

GlobalHasRoom(r) ==
  \/ GlobalLimit = None
  \/ /\ globalInUse < GlobalLimit
     /\ r \in Batch => globalBatchInUse < GlobalBatchCapacity

\* Mutation: one request too many per instance.
InstanceHasRoomForOneMore(r) ==
  \/ InstanceLimit[InstanceOf[r]] = None
  \/ instanceInUse[InstanceOf[r]] <= InstanceLimit[InstanceOf[r]]

InstanceHasRoom(r) ==
  \/ InstanceLimit[InstanceOf[r]] = None
  \/ instanceInUse[InstanceOf[r]] < InstanceLimit[InstanceOf[r]]

CanGrant(r) == GlobalHasRoom(r) /\ InstanceHasRoom(r)

\* What _grant adds to the counters, and _release takes back.
GlobalCharge(r) == IF GlobalLimit # None THEN 1 ELSE 0
BatchCharge(r) == IF GlobalLimit # None /\ r \in Batch THEN 1 ELSE 0
InstanceCharge(r) == IF InstanceLimit[InstanceOf[r]] # None THEN 1 ELSE 0
Less(n, k) == IF n - k < 0 THEN 0 ELSE n - k

Grant(r) ==
  /\ globalInUse' = globalInUse + GlobalCharge(r)
  /\ globalBatchInUse' = globalBatchInUse + BatchCharge(r)
  /\ instanceInUse' = [instanceInUse EXCEPT ![InstanceOf[r]] = @ + InstanceCharge(r)]

GiveBack(r) ==
  /\ globalInUse' = Less(globalInUse, GlobalCharge(r))
  /\ globalBatchInUse' = Less(globalBatchInUse, BatchCharge(r))
  /\ instanceInUse' =
       [instanceInUse EXCEPT ![InstanceOf[r]] = Less(@, InstanceCharge(r))]

-----------------------------------------------------------------------------
(* Requests. *)

Become(r, s) == st' = [st EXCEPT ![r] = s]
Waiting == {r \in Requests : st[r] \in {"queued", "cancelled"}}
Places(q, r) == {i \in DOMAIN q : q[i] = r}

Acquire(r) ==
  /\ ~granting /\ st[r] = "idle"
  /\ \/ CanGrant(r) /\ Grant(r) /\ Become(r, "holding") /\ UNCHANGED queues
     \/ /\ ~CanGrant(r) /\ Become(r, "queued")
        /\ interactive' = IF r \in Batch THEN interactive ELSE Append(interactive, r)
        /\ batch' = IF r \in Batch THEN Append(batch, r) ELSE batch
        /\ UNCHANGED usage
  /\ UNCHANGED <<granting, lost>>

\* The queue timeout or a disconnected client cancels the waiting task: the
\* future is cancelled, or, when it already has its result, the task is.
Cancel(r) ==
  /\ ~granting
  /\ \/ st[r] = "queued" /\ Become(r, "cancelled")
     \/ st[r] = "granted" /\ Become(r, "grantedCancelled")
  /\ UNCHANGED <<usage, queues, granting, lost>>

\* The task runs again with its slot ...
Resume(r) ==
  /\ ~granting /\ st[r] = "granted"
  /\ Become(r, "holding")
  /\ UNCHANGED <<usage, queues, granting, lost>>

\* Mutation: only the interactive queue is searched.
LeaveInteractiveOnly(r) ==
  /\ ~granting /\ st[r] = "cancelled"
  /\ Become(r, "gone")
  /\ \/ \E i \in Places(interactive, r) : interactive' = RemoveAt(interactive, i)
     \/ Places(interactive, r) = {} /\ UNCHANGED interactive
  /\ UNCHANGED <<usage, batch, granting, lost>>

\* ... or with the cancellation, before it was granted (_remove_waiter; the
\* waiter is in no queue when a grant was lost on it) ...
Leave(r) ==
  /\ ~granting /\ st[r] = "cancelled"
  /\ Become(r, "gone")
  /\ \/ \E i \in Places(interactive, r) :
          interactive' = RemoveAt(interactive, i) /\ UNCHANGED batch
     \/ /\ Places(interactive, r) = {} /\ UNCHANGED interactive
        /\ \/ \E i \in Places(batch, r) : batch' = RemoveAt(batch, i)
           \/ Places(batch, r) = {} /\ UNCHANGED batch
  /\ UNCHANGED <<usage, granting, lost>>

\* Mutation: a cancelled task forgets the slot it was just granted.
LeaveKeepingSlot(r) ==
  /\ ~granting /\ st[r] = "grantedCancelled"
  /\ Become(r, "gone")
  /\ UNCHANGED <<usage, queues, granting, lost>>

\* ... or after it: the slot goes back and is offered to the others.
LeaveGranted(r) ==
  /\ ~granting /\ st[r] = "grantedCancelled"
  /\ GiveBack(r) /\ granting' = TRUE
  /\ Become(r, "gone")
  /\ UNCHANGED <<queues, lost>>

\* Mutation: a release offers its slot to nobody.
ReleaseQuietly(r) ==
  /\ ~granting /\ st[r] = "holding"
  /\ GiveBack(r)
  /\ Become(r, "gone")
  /\ UNCHANGED <<queues, granting, lost>>

Release(r) ==
  /\ ~granting /\ st[r] = "holding"
  /\ GiveBack(r) /\ granting' = TRUE
  /\ Become(r, "gone")
  /\ UNCHANGED <<queues, lost>>

\* The next request of the same client.
Again(r) ==
  /\ ~granting /\ st[r] = "gone" /\ r \notin lost
  /\ Become(r, "idle")
  /\ UNCHANGED <<usage, queues, granting, lost>>

-----------------------------------------------------------------------------
(* _grant_waiters. *)

\* The first waiter of a queue that fits, at position i.
FirstFit(q, i) ==
  /\ i \in DOMAIN q /\ CanGrant(q[i])
  /\ \A j \in 1..(i - 1) : ~CanGrant(q[j])

Grantable(q) == {i \in DOMAIN q : CanGrant(q[i])}

\* future.set_result on a waiter; it raises on a cancelled one, after the
\* counters were charged, and ends the loop and the release that ran it.
Wake(r) ==
  /\ Grant(r)
  /\ IF st[r] = "cancelled"
     THEN granting' = FALSE /\ lost' = lost \cup {r} /\ UNCHANGED st
     ELSE Become(r, "granted") /\ UNCHANGED <<granting, lost>>

GrantInteractive ==
  /\ granting
  /\ \E i \in DOMAIN interactive :
       /\ FirstFit(interactive, i)
       /\ interactive' = RemoveAt(interactive, i)
       /\ Wake(interactive[i])
  /\ UNCHANGED batch

\* Mutation: batch waiters are looked at although interactive ones fit.
GrantBatchAnyway ==
  /\ granting
  /\ \E i \in DOMAIN batch :
       /\ FirstFit(batch, i)
       /\ batch' = RemoveAt(batch, i)
       /\ Wake(batch[i])
  /\ UNCHANGED interactive

GrantBatch ==
  /\ granting /\ Grantable(interactive) = {}
  /\ \E i \in DOMAIN batch :
       /\ FirstFit(batch, i)
       /\ batch' = RemoveAt(batch, i)
       /\ Wake(batch[i])
  /\ UNCHANGED interactive

\* Mutation: the loop looks at the first waiter of each queue only.
GrantDoneEarly ==
  /\ granting
  /\ interactive # <<>> => ~CanGrant(Head(interactive))
  /\ batch # <<>> => ~CanGrant(Head(batch))
  /\ granting' = FALSE
  /\ UNCHANGED <<usage, queues, st, lost>>

GrantDone ==
  /\ granting /\ Grantable(interactive) = {} /\ Grantable(batch) = {}
  /\ granting' = FALSE
  /\ UNCHANGED <<usage, queues, st, lost>>

GrantStep == GrantInteractive \/ GrantBatch \/ GrantDone

-----------------------------------------------------------------------------
\* The task of a request gets its turn.
Run(r) == Resume(r) \/ Leave(r) \/ LeaveGranted(r) \/ Release(r)

Next ==
  \/ GrantStep
  \/ \E r \in Requests :
       Acquire(r) \/ Cancel(r) \/ Run(r) \/ Again(r)

\* The event loop runs every ready task in turn, whatever runs in between
\* (strong fairness: a running grant loop disables the others for a while), and
\* an upstream call ends (the proxy has a timeout).  Nothing is assumed of
\* arrivals and cancellations.
Fairness ==
  /\ WF_vars(GrantStep)
  /\ \A r \in Requests : SF_vars(Run(r))

Spec == Init /\ [][Next]_vars
FairSpec == Spec /\ Fairness

-----------------------------------------------------------------------------
(* Properties. *)

Owners == {r \in Requests : st[r] \in {"granted", "grantedCancelled", "holding"}}
OwnersOf(i) == {r \in Owners : InstanceOf[r] = i}

TypeOK ==
  /\ globalInUse \in 0..(IF GlobalLimit = None THEN 0 ELSE GlobalLimit)
  /\ globalBatchInUse \in 0..GlobalBatchCapacity
  /\ instanceInUse \in [Instances -> Nat]
  /\ interactive \in Seq(Requests) /\ batch \in Seq(Requests)
  /\ st \in [Requests -> States]
  /\ granting \in BOOLEAN /\ lost \subseteq Requests

\* The slots in use never exceed a limit, whatever the order of timeouts,
\* cancellations and releases: not the gateway's, not an instance's, and batch
\* requests stay within their share.
NeverOversubscribed ==
  /\ GlobalLimit # None =>
       /\ Cardinality(Owners) <= GlobalLimit
       /\ Cardinality(Owners \cap Batch) <= GlobalBatchCapacity
  /\ \A i \in Instances :
       InstanceLimit[i] # None => Cardinality(OwnersOf(i)) <= InstanceLimit[i]

\* The counters are the slots in use plus the grants lost on cancelled waiters:
\* there is no other way to lose or to invent capacity.
ChargedExactly ==
  /\ GlobalLimit # None =>
       /\ globalInUse = Cardinality(Owners \cup lost)
       /\ globalBatchInUse = Cardinality((Owners \cup lost) \cap Batch)
  /\ \A i \in Instances : InstanceLimit[i] # None =>
       instanceInUse[i] = Cardinality({r \in Owners \cup lost : InstanceOf[r] = i})

\* A waiter is in exactly one queue, that of its class, until it is granted.
QueuesHoldWaiters ==
  /\ IsInjective(interactive) /\ IsInjective(batch)
  /\ ToSet(interactive) \cup ToSet(batch) = Waiting \ lost
  /\ ToSet(interactive) \cap Batch = {} /\ ToSet(batch) \subseteq Batch

\* No capacity idles while a waiter could use it: between two steps of the loop
\* nobody in the queues fits.
NoWaiterFits ==
  ~granting /\ lost = {} =>
    \A r \in ToSet(interactive) \cup ToSet(batch) : ~CanGrant(r)

\* A batch request never gets a slot an interactive waiter could have taken.
InteractiveFirst ==
  [][\A b \in Batch :
       lost = {} /\ b \notin Owners /\ b \in Owners' => Grantable(interactive) = {}]_vars

\* An interactive request does not wait for ever behind later ones.
InteractiveServed ==
  <>(lost # {}) \/ \A r \in Requests \ Batch : st[r] = "queued" ~> st[r] # "queued"

\* The class docstring: capacity is reserved for one upstream request, and
\* waiters do not hold global slots.  Nor should those that gave up waiting.
WaitersHoldNoSlots ==
  GlobalLimit # None => globalInUse = Cardinality(Owners)

\* What the scheduler promises: every step of it is a step of a pool of slots
\* that counts the requests themselves, serves waiters when there is room, takes
\* interactive ones first and gets each slot back once; only a grant to a
\* cancelled waiter wastes one.
Pool == INSTANCE CapacityPool WITH
          served <- Owners,
          waiting <- ToSet(interactive) \cup ToSet(batch),
          wasted <- lost,
          BatchLimit <- GlobalBatchCapacity
ImplementsPool == Pool!Spec
=============================================================================
