----------------------------- MODULE Operations -----------------------------
(***************************************************************************)
(* The processes of the stack at work on one model: the UI starts, edits   *)
(* and deletes its instances, downloads, benchmarks and deletes it; the    *)
(* gateway lists what runs and watches over the rest.  A process that ends *)
(* takes its threads, its locks and its unsaid announcements with it.      *)
(***************************************************************************)
EXTENDS ServeStack, ModelStore

CONSTANTS
  Scenarios     \* the rows an earlier run left, and the bounds of this one:
                \* how often each kind of event may come

VARIABLE left   \* what is left of its budget

vars == <<stack, routing, store, left>>

ASSUME OperationsAssumption ==
  /\ \A s \in Scenarios :
       /\ s.rows \in [Instances ->
                       [aliases : AliasSets, status : Statuses, created : Nat] \cup {None}]
       /\ s.budget \in [{"serves", "faults", "instances", "models", "lists"} -> Nat]
  /\ {"gateway", "ui"} \subseteq Services
  /\ Processes = Serves \X Services

Up(p) == child[p[1]][p[2]] = "up"
Running(v) == {p \in Processes : p[2] = v /\ Up(p)}

\* should_skip_watchdog under the supervisor's NADIR_BACKGROUND_OWNER: of the
\* children only the gateway runs the background loops.
Owners == {p \in Processes : Up(p) /\ p[2] = "gateway"}

\* The database and the disk as an earlier run left them.
Init ==
  /\ StackInit
  /\ \E s \in Scenarios :
       /\ RoutingInit(s.rows) /\ StoreInit(IF RowIds = {} THEN "absent" ELSE "whole")
       /\ left = s.budget

Spend(kind) == left[kind] > 0 /\ left' = [left EXCEPT ![kind] = @ - 1]

-----------------------------------------------------------------------------
(* Processes. *)

\* The processes that end in this step.
Ended == {p \in Processes : Up(p) /\ child'[p[1]][p[2]] # "up"}

Losses ==
  /\ Lost(Ended)
  /\ StoreLoses(Ended, Running("gateway") \cap Ended # {})
  /\ IF Running("gateway") \cap Ended # {}
       THEN cache' = None /\ reading' = {} ELSE UNCHANGED cached

StackSteps ==
  \E n \in Serves :
    \/ Reclaim(n, {}) \/ StartChildren(n) \/ Notice(n) \/ StopChildren(n, {})
    \/ \E v \in Services : Bind(n, v) \/ WatchParent(n, v)

StackStep == StackSteps /\ Losses /\ UNCHANGED left

Fault ==
  /\ Spend("faults")
  /\ \E n \in Serves :
       \/ StopRequested(n) \/ SupervisorKilled(n)
       \/ \E v \in Services : ChildDies(n, v)
       \/ \E silent \in Serves \X Services \X {"command", "parent"} :
            Reclaim(n, {silent}) \/ StopChildren(n, {silent})
  /\ Losses

StartStack == Spend("serves") /\ (\E n \in Serves : Serve(n)) /\ Losses

-----------------------------------------------------------------------------
(* What the user asks the UI, and what goes on in the processes. *)

AskOfModel ==
  /\ Spend("models") /\ UNCHANGED <<stack, routing>>
  /\ \E p \in Running("ui") :
       StartDownload(p) \/ StartBenchmark(p) \/ StartDeletion(p) \/ DeleteRuns

AskOfInstance ==
  /\ Spend("instances") /\ UNCHANGED <<stack, store>>
  /\ \E p \in Running("ui"), i \in Instances :
       \/ folder = "whole" /\ Check(i, p, "launch")
       \/ Check(i, p, "edit") \/ Stop(i, p) \/ StartDeleting(i, p)

InstanceWork ==
  /\ \E p \in Running("ui"), i \in Instances :
       \/ (Reserve(i, p) \/ Save(i, p) \/ BecomeRunning(i, p)) /\ UNCHANGED store
       \/ /\ DeleteRow(i, p) /\ ~Deletes(i, p) /\ Unlink(i)
          /\ UNCHANGED <<folder, downloads, run, bench, orphans, deletion>>
  /\ UNCHANGED <<stack, left>>

\* The watchdog, the eviction and the idle watcher stop instances too.
GatewayWork ==
  /\ \E p \in Owners, i \in Instances : Stop(i, p) \/ HealthFails(i)
  /\ Spend("faults") /\ UNCHANGED <<stack, store>>

Announcing ==
  /\ \E p \in announcing : Announce(p, p[2] = "gateway")
  /\ UNCHANGED <<stack, store, left>>

Listing ==
  /\ Running("gateway") # {} /\ UNCHANGED <<stack, store>>
  /\ \/ Spend("lists") /\ ReadGeneration
     \/ (TakeSnapshot \/ Expire) /\ UNCHANGED left

Downloading == (Fetch \/ EndDownload) /\ UNCHANGED <<stack, routing, left>>
Benchmarking == Bench /\ UNCHANGED <<stack, routing, left>>
Deleting == Delete /\ UNCHANGED <<stack, left>>

Watchdog ==
  /\ Owners # {}
  /\ ReadUnended \/ \E r \in Runs : FailOrphan(r, Up(runner))
  /\ UNCHANGED <<stack, routing, left>>

Next ==
  \/ StackStep \/ Fault \/ StartStack
  \/ AskOfModel \/ AskOfInstance \/ InstanceWork \/ GatewayWork \/ Announcing \/ Listing
  \/ Downloading \/ Benchmarking \/ Deleting \/ Watchdog

Spec == Init /\ [][Next]_vars

\* A process that is up goes on with its threads, and the watchdog's loop comes
\* round.  Nothing makes a user ask, a process fail or a serve begin.
FairSpec ==
  /\ Spec
  /\ WF_vars(StackStep) /\ WF_vars(Benchmarking) /\ WF_vars(Watchdog)

-----------------------------------------------------------------------------
\* The thread of a complete benchmark died of the deletion of its instance, in
\* a process that lives on: only its end lets the watchdog fail the run.
Stranded == /\ complete /\ run["parent"] = "RUNNING" /\ target.lost
            /\ bench = None /\ Up(runner)

\* No benchmark stays RUNNING for ever: its thread ends it, or the watchdog of
\* this gateway or of the next one does, as long as there is one, whether its
\* process, its instance or its model goes first.
RunsEnd == []<>(Unended = {} \/ Stranded \/ Running("gateway") = {})
=============================================================================
