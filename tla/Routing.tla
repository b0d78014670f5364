------------------------------- MODULE Routing -------------------------------
(***************************************************************************)
(* The rows of the instances as the gateway lists them: their aliases and  *)
(* status (gateway_aliases.py, selectors.py), and the snapshot the gateway *)
(* keeps of those that run (running_targets of route_cache.py).  Any process writes the rows, under the *)
(* lock of the row's slot, and announces the write by bumping a generation *)
(* file.  Which row is newer is told by the time it was created.           *)
(***************************************************************************)
EXTENDS Integers, FiniteSets

CONSTANTS
  Instances, AliasSets, Processes,
  None

ASSUME RoutingAssumption == IsFiniteSet(Instances) /\ None \notin Processes

VARIABLES
  rows,         \* of each instance: None, or [aliases, status, created]
  slot,         \* of each instance: None, or who holds its lock, to do what
  announcing,   \* the processes that have written and not yet announced
  unsaid,       \* a write was left unannounced since the last announcement
  generation,
  cache,        \* None, or the snapshot and the generation it is labelled with
  reading       \* generations read by requests that now take the cache's lock

cached == <<cache, reading>>
routing == <<rows, slot, announcing, unsaid, generation, cache, reading>>

RoutingInit(rs) ==
  /\ rows = rs /\ slot = [i \in Instances |-> None]
  /\ announcing = {} /\ unsaid = FALSE /\ generation = 0
  /\ cache = None /\ reading = {}

Row(aliases, status, created) == [aliases |-> aliases, status |-> status, created |-> created]
Exists(i) == rows[i] # None
RowIds == {i \in Instances : Exists(i)}
Is(i, statuses) == Exists(i) /\ rows[i].status \in statuses
WithStatus(i, status) == [rows EXCEPT ![i].status = status]
Newest(S) == CHOOSE i \in S : \A j \in S : rows[j].created <= rows[i].created
Later == IF RowIds = {} THEN 1 ELSE rows[Newest(RowIds)].created + 1

Active == {"LOADING", "RUNNING"}
Statuses == Active \cup {"STOPPED", "FAILED"}

-----------------------------------------------------------------------------
(* The snapshot. *)

AllAliases == UNION AliasSets

Serving(a) == {i \in Instances : Is(i, {"RUNNING"}) /\ a \in rows[i].aliases}

\* running_targets of build_route_snapshot_from_db: rows are visited newest
\* first, and an alias keeps the first target it is given.
Snapshot ==
  [a \in AllAliases |-> IF Serving(a) = {} THEN None ELSE Newest(Serving(a))]

\* validate_instance_gateway_aliases reads the other rows without their locks.
Unique(i, aliases) ==
  \A j \in RowIds \ {i} : rows[j].aliases \cap aliases = {}

-----------------------------------------------------------------------------
(* Writes of process p, and clear_gateway_route_cache after them.           *)

Written(p) == announcing' = announcing \cup {p} /\ UNCHANGED <<unsaid, generation, cached>>
Quietly == UNCHANGED <<announcing, unsaid, generation, cached>>
MayWrite(i, p) == slot[i] = None /\ p \notin announcing

\* prepare_instance_launch, update_stopped_instance: the aliases are checked
\* under the lock of the row's own slot only.
Check(i, p, todo) ==
  /\ MayWrite(i, p) /\ ~Is(i, Active)
  /\ todo = "edit" => Exists(i)
  /\ \E aliases \in AliasSets :
       /\ Unique(i, aliases)
       /\ slot' = [slot EXCEPT ![i] = [by |-> p, todo |-> todo, aliases |-> aliases]]
  /\ UNCHANGED rows /\ Quietly

HeldBy(i, p, todo) == slot[i] # None /\ slot[i].by = p /\ slot[i].todo = todo
Free(i) == slot' = [slot EXCEPT ![i] = None]

\* _get_or_create_instance announces nothing: the row is not routed to yet.
Reserve(i, p) ==
  /\ HeldBy(i, p, "launch") /\ Free(i)
  /\ rows' = [rows EXCEPT ![i] = Row(slot[i].aliases, "LOADING",
                                     IF Exists(i) THEN rows[i].created ELSE Later)]
  /\ Quietly

\* _update_stopped_instance_locked
Save(i, p) ==
  /\ HeldBy(i, p, "edit") /\ Free(i)
  /\ rows' = [rows EXCEPT ![i].aliases = slot[i].aliases]
  /\ Written(p)

\* Mutation: the routes are not cleared when an instance is running.
BecomeRunningQuietly(i, p) ==
  /\ MayWrite(i, p) /\ Is(i, {"LOADING"}) /\ rows' = WithStatus(i, "RUNNING")
  /\ UNCHANGED slot /\ Quietly

\* _mark_instance_running
BecomeRunning(i, p) ==
  /\ MayWrite(i, p) /\ Is(i, {"LOADING"}) /\ rows' = WithStatus(i, "RUNNING")
  /\ UNCHANGED slot /\ Written(p)

\* _persist_stop_outcome, _mark_process_gone
Stop(i, p) ==
  /\ MayWrite(i, p) /\ Is(i, Active)
  /\ \E status \in {"STOPPED", "FAILED"} : rows' = WithStatus(i, status)
  /\ UNCHANGED slot /\ Written(p)

\* refresh_instance_health: the process died after its status was checked.
HealthFails(i) ==
  /\ slot[i] = None /\ Is(i, Active) /\ rows' = WithStatus(i, "FAILED")
  /\ unsaid' = TRUE
  /\ UNCHANGED <<slot, announcing, generation, cached>>

\* delete_instance: stop, if need be, and then remove the row.
StartDeleting(i, p) ==
  /\ MayWrite(i, p) /\ Exists(i)
  /\ slot' = [slot EXCEPT ![i] = [by |-> p, todo |-> "delete", aliases |-> {}]]
  /\ IF Is(i, Active) THEN rows' = WithStatus(i, "STOPPED") /\ Written(p)
     ELSE UNCHANGED rows /\ Quietly

DeleteRow(i, p) ==
  /\ HeldBy(i, p, "delete") /\ p \notin announcing /\ Free(i)
  /\ rows' = [rows EXCEPT ![i] = None] /\ Quietly

\* clear_gateway_route_cache: the writer's own snapshot, then the file.
Announce(p, listing) ==
  /\ p \in announcing /\ announcing' = announcing \ {p}
  /\ unsaid' = FALSE /\ generation' = generation + 1
  /\ cache' = IF listing THEN None ELSE cache
  /\ UNCHANGED <<rows, slot, reading>>

\* Processes end: their locks are free and their writes stay unannounced.
Lost(ps) ==
  /\ announcing' = announcing \ ps
  /\ unsaid' = (unsaid \/ announcing \cap ps # {})
  /\ slot' = [i \in Instances |->
                IF slot[i] # None /\ slot[i].by \in ps THEN None ELSE slot[i]]
  /\ UNCHANGED <<rows, generation>>

-----------------------------------------------------------------------------
(* Requests for what runs (get_route_snapshot).                             *)

ReadGeneration ==
  /\ reading' = reading \cup {generation}
  /\ UNCHANGED <<rows, slot, announcing, unsaid, generation, cache>>

\* The label is the generation read before the lock was taken.
TakeSnapshot ==
  /\ \E g \in reading :
       /\ reading' = reading \ {g}
       /\ cache' = IF cache # None /\ cache.generation = g THEN cache
                   ELSE [generation |-> g, running |-> Snapshot]
  /\ UNCHANGED <<rows, slot, announcing, unsaid, generation>>

\* The time to live.
Expire ==
  /\ cache # None /\ cache' = None
  /\ UNCHANGED <<rows, slot, announcing, unsaid, generation, reading>>

-----------------------------------------------------------------------------
\* The gateway's snapshot names what runs as the rows say: whichever process
\* wrote last, once every write is announced a snapshot of the current generation
\* gives each alias the newest row that serves it.  Rows of which a failure was
\* not announced, or whose writer died before it announced, wait for the snapshot
\* to expire.
SnapshotIsCurrent ==
  cache # None /\ cache.generation = generation /\ announcing = {} /\ ~unsaid
    => \A a \in AllAliases :
         LET target == cache.running[a]
         IN IF Serving(a) = {} THEN target = None
            ELSE /\ target \in Serving(a)
                 /\ \A i \in Serving(a) : rows[i].created <= rows[target].created
=============================================================================
