---------------------------- MODULE InstanceSlot ----------------------------
(***************************************************************************)
(* The life of one inference instance: one database row, one TCP port, the *)
(* launcher processes that may run on it, and every thread of the UI and   *)
(* gateway processes that starts, stops, restarts, observes or repairs it  *)
(* (orchestrator/server_manager.py and its callers).                       *)
(*                                                                         *)
(* A thread runs one handler at a time.  pc says where in the handler it   *)
(* is, op on whose behalf it holds the port's slot lock, inst is its       *)
(* in-memory copy of the row, which goes stale while other threads save.   *)
(* Each action is the code between two points where another thread, the    *)
(* launcher or a crash can intervene.                                      *)
(***************************************************************************)
EXTENDS Integers, FiniteSets

CONSTANTS
  Users,         \* UI/MCP request threads: Start, Stop, Restart
  Viewers,       \* UI threads rendering the Servers page (a health pass each)
  Wakers,        \* gateway threads waking the instance for a request
  IdleWatchers,  \* the idle-offload thread
  Watchdogs,     \* the watchdog thread
  Reconcilers,   \* the startup-reconcile thread
  Pids, NoPid,   \* launcher process ids; the row's NULL pid
  NoActor,       \* nobody holds a lock
  Mode,          \* lifecycle_mode of the instance
  AutoRestart,   \* ops.auto_restart
  MaxRetries,    \* ops.auto_restart_max_retries
  MaxOps,        \* bound: user, page and wake operations
  MaxExits,      \* bound: exits of a launcher nobody asked for
  MaxCrashes     \* bound: crashes of the UI or the gateway process

UIThreads == Users \cup Viewers
GatewayThreads == Wakers \cup IdleWatchers \cup Watchdogs \cup Reconcilers
Actors == UIThreads \cup GatewayThreads

\* A thread has one role, and a gateway runs one watchdog thread.
ASSUME SlotAssumption ==
  /\ NoActor \notin Actors /\ NoPid \notin Pids
  /\ UIThreads \cap GatewayThreads = {} /\ Users \cap Viewers = {}
  /\ Wakers \cap IdleWatchers = {} /\ Watchdogs \cap Reconcilers = {}
  /\ (Wakers \cup IdleWatchers) \cap (Watchdogs \cup Reconcilers) = {}
  /\ \A a, b \in Watchdogs : a = b
  /\ Mode \in {"always_on", "on_demand", "manual"}
  /\ AutoRestart \in BOOLEAN
  /\ {MaxRetries, MaxOps, MaxExits, MaxCrashes} \subseteq Nat

VARIABLES
  row,       \* the InferenceInstance row: status, desired, pid, stopping
  slot,      \* holder of the port's flock
  wakeLock,  \* holder of the gateway's wake lock for the alias
  proc,      \* launcher processes on the port
  pc, op, inst,
  attempts,  \* ops.restart_attempts
  ops, exits, crashes

vars == <<row, slot, wakeLock, proc, pc, op, inst, attempts, ops, exits, crashes>>

Status == {"LOADING", "RUNNING", "STOPPED", "FAILED"}
Row == [status : Status, desired : {"running", "stopped"},
        pid : Pids \cup {NoPid}, stopping : {"none", "fresh", "stale"}]

\* Places in a handler where the thread holds the slot lock.
Critical == {"restart", "prepare", "check", "terminate", "spawn", "savePid",
             "wait", "warm", "mark", "stopBegin", "kill", "stopped",
             "stopFailed", "abortPersist", "release"}

Labels == Critical \cup
  {"idle", "done", "stopWait", "gap", "wakeDecide", "wakeAcquire", "observe",
   "idleStop", "probe", "healthCheck", "gone", "settle", "settleRun",
   "settleFail", "evaluate", "writeDown", "converge", "convergeStop",
   "candidates", "autoAcquire", "autoDone", "restore"}

Purposes == {"none", "start", "restart", "auto", "wake", "stop", "cancel",
             "abort", "settle", "settleFailed"}

Blank == [status |-> "STOPPED", desired |-> "running", pid |-> NoPid,
          stopping |-> "none"]

Init ==
  /\ row \in [status : {"STOPPED", "FAILED"}, desired : {"running", "stopped"},
              pid : {NoPid}, stopping : {"none"}]
  /\ slot = NoActor /\ wakeLock = NoActor
  /\ proc = [p \in Pids |-> "free"]
  /\ pc = [a \in Actors |-> "idle"]
  /\ op = [a \in Actors |-> "none"]
  /\ inst = [a \in Actors |-> Blank]
  /\ attempts = 0 /\ ops = 0 /\ exits = 0 /\ crashes = 0

-----------------------------------------------------------------------------
(* What the code reads of a row, of the processes and of the lock. *)

Active(r) == r.status \in {"LOADING", "RUNNING"}
StopInProgress(r) == r.stopping = "fresh"
Launchers == {p \in Pids : proc[p] # "free"}
IsInstanceProcess(pid) == pid \in Launchers
Listening == \E p \in Pids : proc[p] = "serving"
SlotFree == slot = NoActor
Ready == row.status = "RUNNING" /\ Listening
LoadingElsewhere ==
  row.status = "LOADING" /\ (~SlotFree \/ IsInstanceProcess(row.pid))
Reusable ==
  \/ row.status \in {"STOPPED", "FAILED"}
  \/ row.status = "LOADING" /\ ~IsInstanceProcess(row.pid)

(* Moves of a thread and writes of the row. *)

At(a, l) == pc[a] = l
Go(a, l) == pc' = [pc EXCEPT ![a] = l]
For(a, o) == op' = [op EXCEPT ![a] = o]
Take(a) == SlotFree /\ slot' = a
CountOp == ops < MaxOps /\ ops' = ops + 1
PersistStopOutcome(s) ==
  row' = [row EXCEPT !.status = s, !.pid = NoPid, !.stopping = "none"]
AfterHealth(a) ==
  CASE a \in Watchdogs -> "converge"
    [] a \in Reconcilers -> "restore"
    [] OTHER -> "idle"

counters == <<attempts, ops, exits, crashes>>

-----------------------------------------------------------------------------
(* Users: the UI and MCP operations. *)

\* start_instance_in_background: the slot is handed to a worker thread.
Start(a) ==
  /\ At(a, "idle") /\ CountOp
  /\ Take(a) /\ Go(a, "prepare") /\ For(a, "start")
  /\ UNCHANGED <<row, wakeLock, proc, inst, attempts, exits, crashes>>

\* restart_instance_in_background, MCP start of a row that is not RUNNING.
Restart(a) ==
  /\ At(a, "idle") /\ CountOp
  /\ Take(a) /\ Go(a, "restart") /\ For(a, "restart")
  /\ UNCHANGED <<row, wakeLock, proc, inst, attempts, exits, crashes>>

\* request_instance_stop: the intent is saved first, without the lock.
RequestStop(a) ==
  /\ At(a, "idle") /\ CountOp
  /\ row' = [row EXCEPT !.desired = "stopped"]
  /\ Go(a, "stopWait")
  /\ UNCHANGED <<slot, wakeLock, proc, op, inst, attempts, exits, crashes>>

\* Mutation: the stop does not wait for the slot.
StopNowUnlocked(a) ==
  /\ At(a, "stopWait")
  /\ slot' = a /\ Go(a, "stopBegin") /\ For(a, "stop")
  /\ UNCHANGED <<row, wakeLock, proc, inst, counters>>

StopNow(a) ==
  /\ At(a, "stopWait")
  /\ Take(a) /\ Go(a, "stopBegin") /\ For(a, "stop")
  /\ UNCHANGED <<row, wakeLock, proc, inst, counters>>

\* InstanceSlotBusy after USER_ACTION_SLOT_WAIT_SECONDS: "Stop queued".
StopQueued(a) ==
  /\ At(a, "stopWait") /\ ~SlotFree
  /\ Go(a, "idle")
  /\ UNCHANGED <<row, slot, wakeLock, proc, op, inst, counters>>

-----------------------------------------------------------------------------
(* Wakers: ensure_instance_ready on behalf of a gateway request. *)

Wake(a) ==
  /\ At(a, "idle") /\ CountOp
  /\ ~Ready /\ wakeLock = NoActor /\ wakeLock' = a
  /\ Go(a, "wakeDecide")
  /\ UNCHANGED <<row, slot, proc, op, inst, attempts, exits, crashes>>

WakeDecide(a) ==
  /\ At(a, "wakeDecide")
  /\ IF ~Ready /\ ~LoadingElsewhere /\ row.status # "RUNNING" /\ Mode = "on_demand"
     THEN Go(a, "wakeAcquire")
     ELSE Go(a, "observe")
  /\ UNCHANGED <<row, slot, wakeLock, proc, op, inst, counters>>

\* prepare_instance_launch takes the slot for the row, and gives it back.
WakeAcquire(a) ==
  /\ At(a, "wakeAcquire")
  /\ Take(a) /\ Go(a, "prepare") /\ For(a, "wake")
  /\ UNCHANGED <<row, wakeLock, proc, inst, counters>>

\* launch_prepared_instance takes it a second time.
WakeRelaunch(a) ==
  /\ At(a, "gap")
  /\ Take(a) /\ Go(a, "check") /\ For(a, "wake")
  /\ UNCHANGED <<row, wakeLock, proc, inst, counters>>

\* The wait for the slot times out; the request is answered 503.
WakeTimeout(a) ==
  /\ pc[a] \in {"wakeAcquire", "gap"} /\ ~SlotFree
  /\ Go(a, "observe")
  /\ UNCHANGED <<row, slot, wakeLock, proc, op, inst, counters>>

\* _wait_until_ready only reads; it ends on READY, FAILED, STOPPED or timeout.
WakeEnd(a) ==
  /\ At(a, "observe")
  /\ wakeLock' = NoActor /\ Go(a, "idle")
  /\ UNCHANGED <<row, slot, proc, op, inst, counters>>

-----------------------------------------------------------------------------
(* The launch: prepare_instance_launch, then launch_prepared_instance. *)

\* restart_instance, under the lock: the automatic caller re-reads the intent.
RestartBegin(a) ==
  /\ At(a, "restart")
  /\ Go(a, IF op[a] = "auto" /\ row.desired # "running" THEN "release"
           ELSE IF Active(row) THEN "stopBegin" ELSE "prepare")
  /\ UNCHANGED <<row, slot, wakeLock, proc, op, inst, counters>>

\* Mutation: an automatic restart records the intent like a user's.
PrepareMarksRunning(a) ==
  /\ At(a, "prepare")
  /\ IF ~Reusable
     THEN /\ Go(a, "release") /\ UNCHANGED <<row, slot>>
     ELSE /\ row' = [Blank EXCEPT !.status = "LOADING"]
          /\ IF op[a] = "wake"
             THEN slot' = NoActor /\ Go(a, "gap")
             ELSE slot' = slot /\ Go(a, "check")
  /\ UNCHANGED <<wakeLock, proc, op, inst, counters>>

\* Reserve the row.  Nothing to reserve when its process is already up, and
\* the alias check refuses a second row when a RUNNING row lost its process.
Prepare(a) ==
  /\ At(a, "prepare")
  /\ IF ~Reusable
     THEN /\ Go(a, "release") /\ UNCHANGED <<row, slot>>
     ELSE /\ row' = [status   |-> "LOADING",
                     desired  |-> IF op[a] = "auto" THEN row.desired ELSE "running",
                     pid      |-> NoPid,
                     stopping |-> "none"]
          /\ IF op[a] = "wake"
             THEN slot' = NoActor /\ Go(a, "gap")
             ELSE slot' = slot /\ Go(a, "check")
  /\ UNCHANGED <<wakeLock, proc, op, inst, counters>>

LaunchCheck(a) ==
  /\ At(a, "check")
  /\ \/ /\ Active(row) /\ IsInstanceProcess(row.pid)
        /\ Go(a, "release") /\ UNCHANGED row
     \/ /\ ~(Active(row) /\ IsInstanceProcess(row.pid)) /\ row.desired = "stopped"
        /\ PersistStopOutcome("STOPPED") /\ Go(a, "release")
     \/ /\ ~(Active(row) /\ IsInstanceProcess(row.pid)) /\ row.desired = "running"
        /\ Go(a, "terminate") /\ UNCHANGED row
  /\ UNCHANGED <<slot, wakeLock, proc, op, inst, counters>>

\* Mutation: the launch goes on although something still holds the port.
TerminateUnchecked(a) ==
  /\ At(a, "terminate")
  /\ \E S \in SUBSET {p \in Pids : proc[p] = "serving"} :
       proc' = [p \in Pids |-> IF p \in S THEN "serving" ELSE "free"]
  /\ Go(a, "spawn")
  /\ UNCHANGED <<row, slot, wakeLock, op, inst, counters>>

\* _terminate_launchers_on_port: every launcher that does not hold the port is
\* gone; a serving one may outlive the signals, or a foreign program may listen.
Terminate(a) ==
  /\ At(a, "terminate")
  /\ \E S \in SUBSET {p \in Pids : proc[p] = "serving"} :
       proc' = [p \in Pids |-> IF p \in S THEN "serving" ELSE "free"]
  /\ \/ /\ \A p \in Pids : proc'[p] = "free"
        /\ Go(a, "spawn") /\ UNCHANGED row
     \/ PersistStopOutcome("FAILED") /\ Go(a, "release")
  /\ UNCHANGED <<slot, wakeLock, op, inst, counters>>

\* subprocess.Popen.  The kernel does not hand out a pid some thread or the
\* row still remembers.
Spawn(a) ==
  /\ At(a, "spawn")
  /\ \E p \in Pids :
       /\ proc[p] = "free" /\ row.pid # p /\ \A b \in Actors : inst[b].pid # p
       /\ proc' = [proc EXCEPT ![p] = "loading"]
       /\ inst' = [inst EXCEPT ![a].pid = p]
  /\ Go(a, "savePid")
  /\ UNCHANGED <<row, slot, wakeLock, op, counters>>

\* The command cannot be built, or Popen raised: _abort_failed_launch has no
\* process to kill.
SpawnFails(a) ==
  /\ At(a, "spawn")
  /\ Go(a, "abortPersist")
  /\ UNCHANGED <<row, slot, wakeLock, proc, op, inst, counters>>

\* Mutation: only the status is saved.
SaveStatusOnly(a) ==
  /\ At(a, "savePid")
  /\ row' = [row EXCEPT !.status = "LOADING"]
  /\ inst' = [inst EXCEPT ![a] = Blank]
  /\ Go(a, "wait")
  /\ UNCHANGED <<slot, wakeLock, proc, op, counters>>

SavePid(a) ==
  /\ At(a, "savePid")
  /\ row' = [row EXCEPT !.pid = inst[a].pid, !.status = "LOADING"]
  /\ inst' = [inst EXCEPT ![a] = Blank]
  /\ Go(a, "wait")
  /\ UNCHANGED <<slot, wakeLock, proc, op, counters>>

\* Mutation: no deadline, the wait only ends when the launcher exits.
LaunchFailsOnExit(a) ==
  /\ At(a, "wait") /\ Launchers = {}
  /\ Go(a, "stopBegin") /\ For(a, "abort")
  /\ UNCHANGED <<row, slot, wakeLock, proc, inst, counters>>

\* _wait_until_healthy: a failure in the log, an exit, or the deadline.
LaunchFails(a) ==
  /\ At(a, "wait")
  /\ Go(a, "stopBegin") /\ For(a, "abort")
  /\ UNCHANGED <<row, slot, wakeLock, proc, inst, counters>>

\* ... or a stop was requested, there or after the warmup.
LaunchCancelled(a) ==
  /\ pc[a] \in {"wait", "warm"} /\ row.desired = "stopped"
  /\ Go(a, "stopBegin") /\ For(a, "cancel")
  /\ UNCHANGED <<row, slot, wakeLock, proc, inst, counters>>

LaunchHealthy(a) ==
  /\ At(a, "wait") /\ row.desired = "running" /\ Listening
  /\ Go(a, "warm")
  /\ UNCHANGED <<row, slot, wakeLock, proc, op, inst, counters>>

LaunchWarm(a) ==
  /\ At(a, "warm") /\ row.desired = "running"
  /\ Go(a, "mark")
  /\ UNCHANGED <<row, slot, wakeLock, proc, op, inst, counters>>

MarkRunning(a) ==
  /\ At(a, "mark")
  /\ row' = [row EXCEPT !.status = "RUNNING"]
  /\ Go(a, "release")
  /\ UNCHANGED <<slot, wakeLock, proc, op, inst, counters>>

\* The last save of _abort_failed_launch.
AbortPersist(a) ==
  /\ At(a, "abortPersist")
  /\ PersistStopOutcome("FAILED") /\ Go(a, "release")
  /\ UNCHANGED <<slot, wakeLock, proc, op, inst, counters>>

-----------------------------------------------------------------------------
(* The stop: _stop_instance_locked. *)

StopBegin(a) ==
  /\ At(a, "stopBegin")
  /\ row' = [row EXCEPT !.stopping = "fresh",
                        !.desired = IF op[a] = "stop" THEN "stopped" ELSE @]
  /\ Go(a, "kill")
  /\ UNCHANGED <<slot, wakeLock, proc, op, inst, counters>>

Kill(a) ==
  /\ At(a, "kill")
  /\ \E S \in SUBSET {p \in Pids : proc[p] = "serving"} :
       /\ proc' = [p \in Pids |-> IF p \in S THEN "serving" ELSE "free"]
       /\ Go(a, IF S = {} THEN "stopped" ELSE "stopFailed")
  /\ UNCHANGED <<row, slot, wakeLock, op, inst, counters>>

PersistStopped(a) ==
  /\ At(a, "stopped")
  /\ PersistStopOutcome("STOPPED")
  /\ Go(a, IF op[a] \in {"restart", "auto"} THEN "prepare"
           ELSE IF op[a] = "abort" THEN "abortPersist" ELSE "release")
  /\ UNCHANGED <<slot, wakeLock, proc, op, inst, counters>>

PersistStopFailed(a) ==
  /\ At(a, "stopFailed")
  /\ PersistStopOutcome("FAILED")
  /\ Go(a, IF op[a] = "abort" THEN "abortPersist" ELSE "release")
  /\ For(a, IF op[a] = "settle" THEN "settleFailed" ELSE op[a])
  /\ UNCHANGED <<slot, wakeLock, proc, inst, counters>>

\* Leaving the with-block (or SlotLockHandoff.release), back in the caller.
Resume(a) ==
  IF op[a] = "settle" THEN "settleFail"
  ELSE IF op[a] = "settleFailed" THEN "evaluate"
  ELSE CASE a \in Wakers -> "observe"
         [] a \in Reconcilers -> "done"
         [] a \in Watchdogs -> IF op[a] = "stop" THEN "candidates" ELSE "autoDone"
         [] OTHER -> "idle"

Release(a) ==
  /\ At(a, "release")
  /\ slot' = NoActor /\ Go(a, Resume(a)) /\ For(a, "none")
  /\ UNCHANGED <<row, wakeLock, proc, inst, counters>>

-----------------------------------------------------------------------------
(* The health pass: refresh_instance_health and check_instance_status. *)

\* The queryset is read once; the row may be examined much later.
HealthFetch(a) ==
  /\ At(a, "idle")
  /\ a \in Viewers => ops < MaxOps
  /\ ops' = IF a \in Viewers THEN ops + 1 ELSE ops
  /\ inst' = [inst EXCEPT ![a] = row]
  /\ Go(a, "probe")
  /\ UNCHANGED <<row, slot, wakeLock, proc, op, attempts, exits, crashes>>

HealthProbe(a) ==
  /\ At(a, "probe")
  /\ IF StopInProgress(inst[a]) \/ ~SlotFree
     THEN Go(a, AfterHealth(a)) /\ inst' = [inst EXCEPT ![a] = Blank]
     ELSE Go(a, "healthCheck") /\ UNCHANGED inst
  /\ UNCHANGED <<row, slot, wakeLock, proc, op, counters>>

\* check_instance_status up to its decision.
HealthCheck(a) ==
  /\ At(a, "healthCheck")
  /\ LET r == inst[a]
         next == IF ~Active(r) \/ ~SlotFree THEN "evaluate"
                 ELSE IF ~IsInstanceProcess(r.pid) THEN "gone"
                 ELSE IF r.status = "LOADING" THEN "settle"
                 ELSE "evaluate"
     IN /\ Go(a, next)
        /\ inst' = [inst EXCEPT ![a] = IF next = "gone" THEN @ ELSE Blank]
  /\ UNCHANGED <<row, slot, wakeLock, proc, op, counters>>

\* _mark_process_gone saves status and intent from the copy in memory.
MarkGone(a) ==
  /\ At(a, "gone")
  /\ \E failed \in BOOLEAN :
       LET r == inst[a]
           down == failed \/ (r.desired = "running" /\ Mode = "always_on")
       IN row' = [row EXCEPT !.status = IF down THEN "FAILED" ELSE "STOPPED",
                             !.desired = IF down THEN r.desired ELSE "stopped",
                             !.pid = NoPid]
  /\ inst' = [inst EXCEPT ![a] = Blank]
  /\ Go(a, "evaluate")
  /\ UNCHANGED <<slot, wakeLock, proc, op, counters>>

\* _settle_orphan_loading: stop on a failure in the log, finish when healthy.
SettleStop(a) ==
  /\ At(a, "settle")
  /\ Take(a) /\ Go(a, "stopBegin") /\ For(a, "settle")
  /\ UNCHANGED <<row, wakeLock, proc, inst, counters>>

\* Mutation: an orphan that answers /health is left LOADING.
SettleIgnored(a) ==
  /\ At(a, "settle")
  /\ Go(a, "evaluate")
  /\ UNCHANGED <<row, slot, wakeLock, proc, op, inst, counters>>

SettleProbe(a) ==
  /\ At(a, "settle")
  /\ Go(a, IF Listening THEN "settleRun" ELSE "evaluate")
  /\ UNCHANGED <<row, slot, wakeLock, proc, op, inst, counters>>

SettleRun(a) ==
  /\ At(a, "settleRun")
  /\ row' = [row EXCEPT !.status = "RUNNING"] /\ Go(a, "evaluate")
  /\ UNCHANGED <<slot, wakeLock, proc, op, inst, counters>>

SettleFail(a) ==
  /\ At(a, "settleFail")
  /\ PersistStopOutcome("FAILED") /\ Go(a, "evaluate")
  /\ UNCHANGED <<slot, wakeLock, proc, op, inst, counters>>

\* refresh_from_db and evaluate_instance_health: is the row to be saved FAILED?
Evaluate(a) ==
  /\ At(a, "evaluate")
  /\ LET down == Active(row) /\ ~IsInstanceProcess(row.pid)
                 /\ (row.status = "LOADING" \/ ~Listening)
     IN IF down \/ row.status = "FAILED"
        THEN /\ Go(a, "writeDown")
             /\ inst' = [inst EXCEPT ![a].pid = IF down THEN NoPid ELSE row.pid]
        ELSE Go(a, AfterHealth(a)) /\ UNCHANGED inst
  /\ UNCHANGED <<row, slot, wakeLock, proc, op, counters>>

WriteDown(a) ==
  /\ At(a, "writeDown")
  /\ row' = [row EXCEPT !.status = "FAILED", !.pid = inst[a].pid]
  /\ inst' = [inst EXCEPT ![a] = Blank]
  /\ Go(a, AfterHealth(a))
  /\ UNCHANGED <<slot, wakeLock, proc, op, counters>>

-----------------------------------------------------------------------------
(* The rest of a watchdog cycle, startup reconcile, the idle watcher. *)

\* Mutation: only RUNNING rows are converged.
ConvergeRunning(a) ==
  /\ At(a, "converge")
  /\ Go(a, IF row.status = "RUNNING" /\ row.desired = "stopped" /\ ~StopInProgress(row)
           THEN "convergeStop" ELSE "candidates")
  /\ UNCHANGED <<row, slot, wakeLock, proc, op, inst, counters>>

\* Stop an active row whose intent is stopped ...
Converge(a) ==
  /\ At(a, "converge")
  /\ Go(a, IF Active(row) /\ row.desired = "stopped" /\ ~StopInProgress(row)
           THEN "convergeStop" ELSE "candidates")
  /\ UNCHANGED <<row, slot, wakeLock, proc, op, inst, counters>>

\* ... without waiting for the slot.
ConvergeStop(a) ==
  /\ At(a, "convergeStop")
  /\ IF SlotFree THEN Take(a) /\ Go(a, "stopBegin") /\ For(a, "stop")
                 ELSE Go(a, "candidates") /\ UNCHANGED <<slot, op>>
  /\ UNCHANGED <<row, wakeLock, proc, inst, counters>>

\* Mutation: the retry budget is not looked at.
AutoCandidateUnbounded ==
  /\ row.status = "FAILED" /\ row.desired = "running" /\ ~StopInProgress(row)
  /\ Mode # "manual" /\ AutoRestart

AutoCandidate ==
  /\ row.status = "FAILED" /\ row.desired = "running" /\ ~StopInProgress(row)
  /\ Mode # "manual" /\ AutoRestart /\ attempts < MaxRetries

\* _is_restart_frozen only delays an attempt, so it is a choice here.
Candidates(a) ==
  /\ At(a, "candidates")
  /\ \/ AutoCandidate /\ Go(a, "autoAcquire")
     \/ Go(a, "idle")
  /\ UNCHANGED <<row, slot, wakeLock, proc, op, inst, counters>>

\* restart_instance(automatic=True, wait_for_slot=False)
AutoAcquire(a) ==
  /\ At(a, "autoAcquire")
  /\ IF SlotFree THEN Take(a) /\ Go(a, "restart") /\ For(a, "auto")
     ELSE /\ Go(a, IF a \in Reconcilers THEN "done" ELSE "idle")
          /\ UNCHANGED <<slot, op>>
  /\ UNCHANGED <<row, wakeLock, proc, inst, counters>>

AutoDone(a) ==
  /\ At(a, "autoDone")
  /\ attempts' = attempts + 1
  /\ Go(a, "idle")
  /\ UNCHANGED <<row, slot, wakeLock, proc, op, inst, ops, exits, crashes>>

Restore(a) ==
  /\ At(a, "restore")
  /\ Go(a, IF /\ Mode = "always_on" /\ row.desired = "running"
              /\ row.status \in {"FAILED", "STOPPED"} /\ ~StopInProgress(row)
           THEN "autoAcquire" ELSE "done")
  /\ UNCHANGED <<row, slot, wakeLock, proc, op, inst, counters>>

\* When the deadline has passed is a matter of time, hence a choice.
IdleCheck(a) ==
  /\ At(a, "idle")
  /\ Mode = "on_demand" /\ row.status = "RUNNING"
  /\ ~StopInProgress(row) /\ wakeLock = NoActor
  /\ Go(a, "idleStop")
  /\ UNCHANGED <<row, slot, wakeLock, proc, op, inst, counters>>

IdleStop(a) ==
  /\ At(a, "idleStop")
  /\ IF SlotFree THEN Take(a) /\ Go(a, "stopBegin") /\ For(a, "stop")
                 ELSE Go(a, "idle") /\ UNCHANGED <<slot, op>>
  /\ UNCHANGED <<row, wakeLock, proc, inst, counters>>

-----------------------------------------------------------------------------
(* The environment: launchers, crashes, time. *)

LauncherServes(p) ==
  /\ proc[p] = "loading" /\ proc' = [proc EXCEPT ![p] = "serving"]
  /\ UNCHANGED <<row, slot, wakeLock, pc, op, inst, counters>>

LauncherExits(p) ==
  /\ proc[p] # "free" /\ exits < MaxExits /\ exits' = exits + 1
  /\ proc' = [proc EXCEPT ![p] = "free"]
  /\ UNCHANGED <<row, slot, wakeLock, pc, op, inst, attempts, ops, crashes>>

\* The kernel frees the flocks of a dead process; launchers have a session of
\* their own and survive it.
ProcessCrash(threads) ==
  /\ crashes < MaxCrashes /\ crashes' = crashes + 1
  /\ pc' = [a \in Actors |-> IF a \in threads THEN "idle" ELSE pc[a]]
  /\ op' = [a \in Actors |-> IF a \in threads THEN "none" ELSE op[a]]
  /\ inst' = [a \in Actors |-> IF a \in threads THEN Blank ELSE inst[a]]
  /\ slot' = IF slot \in threads THEN NoActor ELSE slot
  /\ wakeLock' = IF wakeLock \in threads THEN NoActor ELSE wakeLock
  /\ UNCHANGED <<row, proc, attempts, ops, exits>>

\* stopping_since older than _STOP_IN_PROGRESS_STALE_SECONDS: longer than any
\* live stop takes.
StopExpires ==
  /\ row.stopping = "fresh"
  /\ \A a \in Actors : pc[a] \notin {"kill", "stopped", "stopFailed"}
  /\ row' = [row EXCEPT !.stopping = "stale"]
  /\ UNCHANGED <<slot, wakeLock, proc, pc, op, inst, counters>>

-----------------------------------------------------------------------------
\* Steps of a thread that holds the slot.
SlotStep(a) ==
  \/ RestartBegin(a) \/ Prepare(a) \/ LaunchCheck(a) \/ Terminate(a)
  \/ Spawn(a) \/ SpawnFails(a) \/ SavePid(a)
  \/ LaunchFails(a) \/ LaunchCancelled(a) \/ LaunchHealthy(a) \/ LaunchWarm(a)
  \/ MarkRunning(a) \/ AbortPersist(a)
  \/ StopBegin(a) \/ Kill(a) \/ PersistStopped(a) \/ PersistStopFailed(a)
  \/ Release(a)

\* Steps of a thread in the middle of a handler that does not hold it.
OpenStep(a) ==
  \/ StopNow(a) \/ StopQueued(a)
  \/ WakeDecide(a) \/ WakeAcquire(a) \/ WakeRelaunch(a) \/ WakeTimeout(a)
  \/ WakeEnd(a)
  \/ HealthProbe(a) \/ HealthCheck(a) \/ MarkGone(a) \/ SettleStop(a)
  \/ SettleProbe(a) \/ SettleRun(a) \/ SettleFail(a) \/ Evaluate(a)
  \/ WriteDown(a)
  \/ Converge(a) \/ ConvergeStop(a) \/ Candidates(a) \/ AutoAcquire(a)
  \/ AutoDone(a) \/ Restore(a) \/ IdleStop(a)

Continue(a) == SlotStep(a) \/ OpenStep(a)

Begin(a) ==
  \/ a \in Users /\ (Start(a) \/ Restart(a) \/ RequestStop(a))
  \/ a \in Wakers /\ Wake(a)
  \/ a \in Viewers \cup Watchdogs \cup Reconcilers /\ HealthFetch(a)
  \/ a \in IdleWatchers /\ IdleCheck(a)

Environment ==
  \/ \E p \in Pids : LauncherServes(p) \/ LauncherExits(p)
  \/ ProcessCrash(UIThreads) \/ ProcessCrash(GatewayThreads)
  \/ StopExpires

Next == (\E a \in Actors : Begin(a) \/ Continue(a)) \/ Environment

\* A thread in the middle of a handler goes on, the watchdog and reconcile
\* loops start their next pass, and time passes.  Nothing is assumed of users,
\* requests or launchers.
Fairness ==
  /\ \A a \in Actors : WF_vars(Continue(a))
  /\ \A a \in Watchdogs \cup Reconcilers : WF_vars(HealthFetch(a))
  /\ WF_vars(StopExpires)

Spec == Init /\ [][Next]_vars
FairSpec == Spec /\ Fairness

-----------------------------------------------------------------------------
(* Properties. *)

TypeOK ==
  /\ row \in Row
  /\ slot \in Actors \cup {NoActor} /\ wakeLock \in Wakers \cup {NoActor}
  /\ proc \in [Pids -> {"free", "loading", "serving"}]
  /\ pc \in [Actors -> Labels] /\ op \in [Actors -> Purposes]
  /\ inst \in [Actors -> Row]
  /\ attempts \in 0..MaxRetries /\ ops \in 0..MaxOps
  /\ exits \in 0..MaxExits /\ crashes \in 0..MaxCrashes

\* Never two launchers on the port, whatever the UI, the gateway, crashes and
\* half-finished stops do: a launch only spawns once every launcher it found
\* is gone, and nobody else spawns meanwhile.
AtMostOneLauncher ==
  \A p, q \in Launchers : p = q

\* Between transitions a RUNNING row knows the pid of whatever launcher is
\* alive, so that stops, health checks and idle offload act on that launcher.
\* (Without crashes of the starters and without the unlocked health pass.)
RunningRowOwnsLauncher ==
  SlotFree /\ row.status = "RUNNING" => Launchers \subseteq {row.pid}

\* While a launcher loads its weights its starter holds the slot: no stop, idle
\* offload or second start can hit a load, and RUNNING is never claimed for a
\* launcher that has not answered /health.
LoadHasStarter ==
  (\E p \in Pids : proc[p] = "loading") =>
    \E a \in Actors : slot = a /\ pc[a] \in {"savePid", "wait", "stopBegin", "kill"}
                    /\ op[a] # "stop"

\* What the watchdog and startup reconcile do while they hold the slot never
\* turns an operator's stop back into running, even one that arrives between
\* their check of the intent and their reservation of the row.
AutoRestartKeepsIntent ==
  [][\A a \in Watchdogs \cup Reconcilers :
       (pc[a] \in Critical /\ pc'[a] # pc[a])
       /\ row.desired = "stopped" => row'.desired = "stopped"]_vars

\* A recorded stop is the queue: the instance gets stopped, by the launch that
\* cancels itself or by the watchdog, unless somebody asks for it again.
QueuedStopConverges ==
  (row.desired = "stopped" /\ Active(row)) ~> (~Active(row) \/ row.desired = "running")

\* No thread keeps the slot for ever, even when a launcher never gets healthy.
SlotIsReleased == \A a \in Actors : slot = a ~> slot # a

\* A row does not stay LOADING, starters and gateways crashing included,
\* unless a launcher hangs for ever while it loads.
LoadingSettles ==
  <>[](\E p \in Pids : proc[p] = "loading")
  \/ (row.status = "LOADING" ~> row.status # "LOADING")

\* models.py: "watchdog and reconcile never override 'stopped'".
AutomaticNeverOverridesStop ==
  [][\A a \in Watchdogs \cup Reconcilers :
       /\ pc'[a] # pc[a] /\ row.desired = "stopped"
       => row'.desired = "stopped"]_vars

\* check_instance_status: "never touch a slot mid-transition".
HealthSparesTransitions ==
  [][\A a \in Viewers \cup Watchdogs \cup Reconcilers :
       pc'[a] # pc[a] /\ row' # row => slot \in {a, NoActor}]_vars
=============================================================================
