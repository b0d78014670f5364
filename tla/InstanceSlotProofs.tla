------------------------- MODULE InstanceSlotProofs -------------------------
(***************************************************************************)
(* Theorems about InstanceSlot for any number of threads, pids, retries,   *)
(* operations and crashes.  The argument: a thread in a critical section   *)
(* holds the port's slot (SlotHeld), so nobody else spawns or kills        *)
(* between the moment the port was cleared and the spawn (PortClear), so   *)
(* there is never a second launcher (AtMostOneLauncher).  What the         *)
(* watchdog does follows from the purpose with which it holds the slot     *)
(* (Purposeful) and from the handler a thread is in (Roles).  Without      *)
(* crashes and unlocked health passes a launcher belongs to the row that   *)
(* names its pid (Owned).                                                  *)
(***************************************************************************)
EXTENDS InstanceSlot, TLAPS

RetryOps == {"auto", "cancel", "abort"}
StopOps == {"stop", "settle", "settleFailed"}

\* Only the gateway's threads get into the gateway's handlers.
Roles ==
  \A a \in Actors :
    /\ pc[a] \in {"wakeDecide", "wakeAcquire", "gap", "observe"} \/ op[a] = "wake"
         => a \in Wakers
    /\ pc[a] \in {"converge", "convergeStop", "candidates", "autoDone"}
         => a \in Watchdogs
    /\ pc[a] = "restore" => a \in Reconcilers

\* A stop goes no further than the stop, a launch that gave up does not start
\* again, and the automatic threads hold the slot for automatic purposes.
Purposeful ==
  \A a \in Actors : pc[a] \in Critical =>
    /\ op[a] \in StopOps =>
         pc[a] \in {"stopBegin", "kill", "stopped", "stopFailed", "release"}
    /\ op[a] \in {"cancel", "abort"} => pc[a] \notin {"restart", "prepare"}
    /\ a \in Watchdogs \cup Reconcilers => op[a] \in StopOps \cup RetryOps

\* The watchdog is only on its way to a restart while the budget allows one.
RetryRoom ==
  \A a \in Watchdogs :
    \/ pc[a] \in {"autoAcquire", "autoDone"}
    \/ pc[a] \in Critical /\ op[a] \in RetryOps
    => attempts < MaxRetries

\* The critical section is exclusive.
SlotHeld == \A a \in Actors : pc[a] \in Critical => slot = a

\* Nothing runs on the port from its clearing to the spawn.
PortClear == \A a \in Actors : pc[a] = "spawn" => Launchers = {}

Inv ==
  /\ TypeOK /\ Roles /\ Purposeful /\ RetryRoom
  /\ SlotHeld /\ PortClear /\ AtMostOneLauncher

HealthLabels == {"probe", "healthCheck", "gone", "settle", "settleRun",
                 "settleFail", "evaluate", "writeDown"}

\* No thread that runs health passes, hence nobody in one.
NoHealthPass ==
  \A a \in Actors : /\ pc[a] \notin HealthLabels
                    /\ op[a] \notin {"settle", "settleFailed"}

\* A launch knows the launcher it started, from its copy of the row before the
\* row is saved and from the row afterwards.
LaunchOwnsIt ==
  \A a \in Actors :
    /\ pc[a] = "savePid" => Launchers \subseteq {inst[a].pid}
    /\ pc[a] \in {"wait", "warm", "mark"} => Launchers \subseteq {row.pid}

\* Only between a spawn and its save may a RUNNING row miss a launcher: a wake
\* that finds the row RUNNING with a dead process launches without clearing it.
RunningOwnsIt ==
  row.status = "RUNNING" /\ (\A a \in Actors : pc[a] # "savePid")
    => Launchers \subseteq {row.pid}

Owned == NoHealthPass /\ LaunchOwnsIt /\ RunningOwnsIt

\* What AutoRestartKeepsIntent says of one step.
KeepsIntent ==
  \A a \in Watchdogs \cup Reconcilers :
    (pc[a] \in Critical /\ pc'[a] # pc[a])
    /\ row.desired = "stopped" => row'.desired = "stopped"

-----------------------------------------------------------------------------
\* Each variable keeps its type; the retry counter stays within the budget.
LEMMA TypeStep ==
  ASSUME TypeOK, Roles, RetryRoom, [Next]_vars
  PROVE  TypeOK'
<1> USE SlotAssumption DEF TypeOK, Row, Status, Labels, Critical, Purposes, At, Go,
        For, Take, counters, PersistStopOutcome
<1>1. ASSUME NEW a \in Actors, SlotStep(a)
      PROVE  TypeOK'
  <2>1. CASE RestartBegin(a)
    BY <2>1 DEF RestartBegin
  <2>2. CASE Prepare(a)
    BY <2>2 DEF Prepare
  <2>3. CASE LaunchCheck(a)
    <3>1. row' \in Row
      BY <2>3, ZenonT(40) DEF LaunchCheck
    <3>2. pc' \in [Actors -> Labels]
      BY <2>3, ZenonT(40) DEF LaunchCheck
    <3> QED BY <2>3, <3>1, <3>2 DEF LaunchCheck
  <2>4. CASE Terminate(a)
    <3>1. proc' \in [Pids -> {"free", "loading", "serving"}]
      BY <2>4 DEF Terminate
    <3>2. CASE Go(a, "spawn") /\ UNCHANGED row
      BY <2>4, <3>1, <3>2 DEF Terminate
    <3>3. CASE PersistStopOutcome("FAILED") /\ Go(a, "release")
      BY <2>4, <3>1, <3>3 DEF Terminate
    <3> QED BY <2>4, <3>2, <3>3 DEF Terminate
  <2>5. CASE Spawn(a)
    BY <2>5 DEF Spawn
  <2>6. CASE SpawnFails(a)
    BY <2>6 DEF SpawnFails
  <2>7. CASE SavePid(a)
    BY <2>7 DEF SavePid, Blank
  <2>8. CASE LaunchFails(a)
    BY <2>8 DEF LaunchFails
  <2>9. CASE LaunchCancelled(a)
    BY <2>9 DEF LaunchCancelled
  <2>10. CASE LaunchHealthy(a)
    BY <2>10 DEF LaunchHealthy
  <2>11. CASE LaunchWarm(a)
    BY <2>11 DEF LaunchWarm
  <2>12. CASE MarkRunning(a)
    BY <2>12 DEF MarkRunning
  <2>13. CASE AbortPersist(a)
    BY <2>13 DEF AbortPersist
  <2>14. CASE StopBegin(a)
    BY <2>14 DEF StopBegin
  <2>15. CASE Kill(a)
    BY <2>15 DEF Kill
  <2>16. CASE PersistStopped(a)
    BY <2>16 DEF PersistStopped
  <2>17. CASE PersistStopFailed(a)
    BY <2>17 DEF PersistStopFailed
  <2>18. CASE Release(a)
    BY <2>18 DEF Release, Resume
  <2> QED BY <1>1, <2>1, <2>2, <2>3, <2>4, <2>5, <2>6, <2>7, <2>8, <2>9,
         <2>10, <2>11, <2>12, <2>13, <2>14, <2>15, <2>16, <2>17, <2>18 DEF
         SlotStep
<1>2. ASSUME NEW a \in Actors, OpenStep(a)
      PROVE  TypeOK'
  <2>1. CASE StopNow(a)
    BY <2>1 DEF StopNow
  <2>2. CASE StopQueued(a)
    BY <2>2 DEF StopQueued
  <2>3. CASE WakeDecide(a)
    BY <2>3 DEF WakeDecide
  <2>4. CASE WakeAcquire(a)
    BY <2>4 DEF WakeAcquire
  <2>5. CASE WakeRelaunch(a)
    BY <2>5 DEF WakeRelaunch
  <2>6. CASE WakeTimeout(a)
    BY <2>6 DEF WakeTimeout
  <2>7. CASE WakeEnd(a)
    BY <2>7 DEF WakeEnd
  <2>8. CASE HealthProbe(a)
    <3>1. CASE StopInProgress(inst[a]) \/ ~SlotFree
      <4>1. pc' = [pc EXCEPT ![a] = AfterHealth(a)] /\ inst' = [inst EXCEPT ![a] = Blank]
        BY <2>8, <3>1 DEF HealthProbe
      <4>2. AfterHealth(a) \in {"converge", "restore", "idle"}
        BY DEF AfterHealth
      <4>3. pc' \in [Actors -> Labels]
        BY <4>1, <4>2
      <4>4. inst' \in [Actors -> Row]
        BY <4>1 DEF Blank
      <4> QED BY <2>8, <4>3, <4>4 DEF HealthProbe
    <3>2. CASE ~(StopInProgress(inst[a]) \/ ~SlotFree)
      BY <2>8, <3>2 DEF HealthProbe
    <3> QED BY <3>1, <3>2
  <2>9. CASE HealthCheck(a)
    BY <2>9 DEF HealthCheck, Blank
  <2>10. CASE MarkGone(a)
    <3>1. row' \in Row
      <4>1. \/ row' = [row EXCEPT !.status = "FAILED", !.desired = inst[a].desired,
                                 !.pid = NoPid]
            \/ row' = [row EXCEPT !.status = "STOPPED", !.desired = "stopped",
                                 !.pid = NoPid]
        BY <2>10 DEF MarkGone
      <4>2. inst[a].desired \in {"running", "stopped"}
        OBVIOUS
      <4>3. CASE row' = [row EXCEPT !.status = "FAILED", !.desired = inst[a].desired,
                                    !.pid = NoPid]
        BY <4>2, <4>3
      <4>4. CASE row' = [row EXCEPT !.status = "STOPPED", !.desired = "stopped",
                                    !.pid = NoPid]
        BY <4>4
      <4> QED BY <4>1, <4>3, <4>4
    <3>2. inst' \in [Actors -> Row]
      BY <2>10 DEF MarkGone, Blank
    <3> QED BY <2>10, <3>1, <3>2 DEF MarkGone
  <2>11. CASE SettleStop(a)
    BY <2>11 DEF SettleStop
  <2>12. CASE SettleProbe(a)
    BY <2>12 DEF SettleProbe
  <2>13. CASE SettleRun(a)
    BY <2>13 DEF SettleRun
  <2>14. CASE SettleFail(a)
    BY <2>14 DEF SettleFail
  <2>15. CASE Evaluate(a)
    BY <2>15, SMTT(60) DEF Evaluate, AfterHealth
  <2>16. CASE WriteDown(a)
    BY <2>16 DEF WriteDown, Blank, AfterHealth
  <2>17. CASE Converge(a)
    BY <2>17 DEF Converge
  <2>18. CASE ConvergeStop(a)
    BY <2>18 DEF ConvergeStop
  <2>19. CASE Candidates(a)
    BY <2>19 DEF Candidates
  <2>20. CASE AutoAcquire(a)
    BY <2>20 DEF AutoAcquire, SlotFree
  <2>21. CASE AutoDone(a)
    BY <2>21 DEF AutoDone, Roles, RetryRoom
  <2>22. CASE Restore(a)
    BY <2>22 DEF Restore
  <2>23. CASE IdleStop(a)
    <3>1. CASE SlotFree
      BY <2>23, <3>1, SMTT(60) DEF IdleStop
    <3>2. CASE ~SlotFree
      BY <2>23, <3>2 DEF IdleStop
    <3> QED BY <3>1, <3>2
  <2> QED BY <1>2, <2>1, <2>2, <2>3, <2>4, <2>5, <2>6, <2>7, <2>8, <2>9,
         <2>10, <2>11, <2>12, <2>13, <2>14, <2>15, <2>16, <2>17, <2>18, <2>19,
         <2>20, <2>21, <2>22, <2>23 DEF OpenStep
<1>3. ASSUME NEW a \in Actors, Begin(a)
      PROVE  TypeOK'
  <2>1. CASE a \in Users /\ Start(a)
    BY <2>1 DEF Start, CountOp
  <2>2. CASE a \in Users /\ Restart(a)
    BY <2>2 DEF Restart, CountOp
  <2>3. CASE a \in Users /\ RequestStop(a)
    BY <2>3 DEF RequestStop, CountOp
  <2>4. CASE a \in Wakers /\ Wake(a)
    BY <2>4 DEF Wake, CountOp
  <2>5. CASE a \in Viewers \cup Watchdogs \cup Reconcilers /\ HealthFetch(a)
    BY <2>5 DEF HealthFetch, Actors, UIThreads, GatewayThreads
  <2>6. CASE a \in IdleWatchers /\ IdleCheck(a)
    BY <2>6 DEF IdleCheck
  <2> QED BY <1>3, <2>1, <2>2, <2>3, <2>4, <2>5, <2>6 DEF Begin
<1>4. ASSUME Environment
      PROVE  TypeOK'
  <2>1. ASSUME NEW p \in Pids, LauncherServes(p) \/ LauncherExits(p)
        PROVE  TypeOK'
    BY <2>1 DEF LauncherServes, LauncherExits
  <2>2. CASE ProcessCrash(UIThreads) \/ ProcessCrash(GatewayThreads)
    BY <2>2 DEF ProcessCrash, Blank
  <2>3. CASE StopExpires
    BY <2>3 DEF StopExpires
  <2> QED BY <1>4, <2>1, <2>2, <2>3 DEF Environment
<1>5. CASE UNCHANGED vars
  BY <1>5 DEF vars
<1> QED BY <1>1, <1>2, <1>3, <1>4, <1>5 DEF Next, Continue

\* Threads enter the gateway's handlers by their own actions only.
LEMMA RolesStep ==
  ASSUME TypeOK, Roles, [Next]_vars
  PROVE  Roles'
<1> USE SlotAssumption DEF TypeOK, Roles, Critical, At, Go, For, Take
<1>1. ASSUME NEW a \in Actors, SlotStep(a)
      PROVE  Roles'
  <2>1. CASE RestartBegin(a)
    BY <2>1 DEF RestartBegin
  <2>2. CASE Prepare(a)
    BY <2>2 DEF Prepare
  <2>3. CASE LaunchCheck(a)
    BY <2>3 DEF LaunchCheck
  <2>4. CASE Terminate(a)
    BY <2>4 DEF Terminate
  <2>5. CASE Spawn(a)
    BY <2>5 DEF Spawn
  <2>6. CASE SpawnFails(a)
    BY <2>6 DEF SpawnFails
  <2>7. CASE SavePid(a)
    BY <2>7 DEF SavePid
  <2>8. CASE LaunchFails(a)
    BY <2>8 DEF LaunchFails
  <2>9. CASE LaunchCancelled(a)
    BY <2>9 DEF LaunchCancelled
  <2>10. CASE LaunchHealthy(a)
    BY <2>10 DEF LaunchHealthy
  <2>11. CASE LaunchWarm(a)
    BY <2>11 DEF LaunchWarm
  <2>12. CASE MarkRunning(a)
    BY <2>12 DEF MarkRunning
  <2>13. CASE AbortPersist(a)
    BY <2>13 DEF AbortPersist
  <2>14. CASE StopBegin(a)
    BY <2>14 DEF StopBegin
  <2>15. CASE Kill(a)
    BY <2>15 DEF Kill
  <2>16. CASE PersistStopped(a)
    BY <2>16 DEF PersistStopped
  <2>17. CASE PersistStopFailed(a)
    BY <2>17 DEF PersistStopFailed
  <2>18. CASE Release(a)
    BY <2>18 DEF Release, Resume
  <2> QED BY <1>1, <2>1, <2>2, <2>3, <2>4, <2>5, <2>6, <2>7, <2>8, <2>9,
         <2>10, <2>11, <2>12, <2>13, <2>14, <2>15, <2>16, <2>17, <2>18 DEF
         SlotStep
<1>2. ASSUME NEW a \in Actors, OpenStep(a)
      PROVE  Roles'
  <2>1. CASE StopNow(a)
    BY <2>1 DEF StopNow
  <2>2. CASE StopQueued(a)
    BY <2>2 DEF StopQueued
  <2>3. CASE WakeDecide(a)
    BY <2>3 DEF WakeDecide
  <2>4. CASE WakeAcquire(a)
    BY <2>4 DEF WakeAcquire
  <2>5. CASE WakeRelaunch(a)
    BY <2>5 DEF WakeRelaunch
  <2>6. CASE WakeTimeout(a)
    BY <2>6 DEF WakeTimeout
  <2>7. CASE WakeEnd(a)
    BY <2>7 DEF WakeEnd
  <2>8. CASE HealthProbe(a)
    BY <2>8 DEF HealthProbe, AfterHealth
  <2>9. CASE HealthCheck(a)
    BY <2>9 DEF HealthCheck
  <2>10. CASE MarkGone(a)
    BY <2>10 DEF MarkGone
  <2>11. CASE SettleStop(a)
    BY <2>11 DEF SettleStop
  <2>12. CASE SettleProbe(a)
    BY <2>12 DEF SettleProbe
  <2>13. CASE SettleRun(a)
    BY <2>13 DEF SettleRun
  <2>14. CASE SettleFail(a)
    BY <2>14 DEF SettleFail
  <2>15. CASE Evaluate(a)
    BY <2>15 DEF Evaluate, AfterHealth
  <2>16. CASE WriteDown(a)
    BY <2>16 DEF WriteDown, AfterHealth
  <2>17. CASE Converge(a)
    BY <2>17 DEF Converge
  <2>18. CASE ConvergeStop(a)
    BY <2>18 DEF ConvergeStop
  <2>19. CASE Candidates(a)
    BY <2>19 DEF Candidates
  <2>20. CASE AutoAcquire(a)
    BY <2>20 DEF AutoAcquire
  <2>21. CASE AutoDone(a)
    BY <2>21 DEF AutoDone
  <2>22. CASE Restore(a)
    BY <2>22 DEF Restore
  <2>23. CASE IdleStop(a)
    BY <2>23 DEF IdleStop
  <2> QED BY <1>2, <2>1, <2>2, <2>3, <2>4, <2>5, <2>6, <2>7, <2>8, <2>9,
         <2>10, <2>11, <2>12, <2>13, <2>14, <2>15, <2>16, <2>17, <2>18, <2>19,
         <2>20, <2>21, <2>22, <2>23 DEF OpenStep
<1>3. ASSUME NEW a \in Actors, Begin(a)
      PROVE  Roles'
  <2>1. CASE a \in Users /\ Start(a)
    BY <2>1 DEF Start
  <2>2. CASE a \in Users /\ Restart(a)
    BY <2>2 DEF Restart
  <2>3. CASE a \in Users /\ RequestStop(a)
    BY <2>3 DEF RequestStop
  <2>4. CASE a \in Wakers /\ Wake(a)
    BY <2>4 DEF Wake
  <2>5. CASE a \in Viewers \cup Watchdogs \cup Reconcilers /\ HealthFetch(a)
    BY <2>5 DEF HealthFetch
  <2>6. CASE a \in IdleWatchers /\ IdleCheck(a)
    BY <2>6 DEF IdleCheck
  <2> QED BY <1>3, <2>1, <2>2, <2>3, <2>4, <2>5, <2>6 DEF Begin
<1>4. ASSUME Environment
      PROVE  Roles'
  <2>1. ASSUME NEW p \in Pids, LauncherServes(p) \/ LauncherExits(p)
        PROVE  Roles'
    BY <2>1 DEF LauncherServes, LauncherExits
  <2>2. CASE ProcessCrash(UIThreads) \/ ProcessCrash(GatewayThreads)
    BY <2>2 DEF ProcessCrash
  <2>3. CASE StopExpires
    BY <2>3 DEF StopExpires
  <2> QED BY <1>4, <2>1, <2>2, <2>3 DEF Environment
<1>5. CASE UNCHANGED vars
  BY <1>5 DEF vars
<1> QED BY <1>1, <1>2, <1>3, <1>4, <1>5 DEF Next, Continue

\* The purpose fits the place in the handler.
LEMMA PurposefulStep ==
  ASSUME TypeOK, Roles, Purposeful, [Next]_vars
  PROVE  Purposeful'
<1> USE SlotAssumption DEF TypeOK, Roles, Purposeful, StopOps, RetryOps, Critical,
        At, Go, For, Take, Actors, UIThreads, GatewayThreads
<1>1. ASSUME NEW a \in Actors, SlotStep(a)
      PROVE  Purposeful'
  <2>1. CASE RestartBegin(a)
    BY <2>1 DEF RestartBegin
  <2>2. CASE Prepare(a)
    BY <2>2 DEF Prepare
  <2>3. CASE LaunchCheck(a)
    BY <2>3 DEF LaunchCheck
  <2>4. CASE Terminate(a)
    BY <2>4 DEF Terminate
  <2>5. CASE Spawn(a)
    BY <2>5 DEF Spawn
  <2>6. CASE SpawnFails(a)
    BY <2>6 DEF SpawnFails
  <2>7. CASE SavePid(a)
    BY <2>7 DEF SavePid
  <2>8. CASE LaunchFails(a)
    BY <2>8 DEF LaunchFails
  <2>9. CASE LaunchCancelled(a)
    BY <2>9 DEF LaunchCancelled
  <2>10. CASE LaunchHealthy(a)
    BY <2>10 DEF LaunchHealthy
  <2>11. CASE LaunchWarm(a)
    BY <2>11 DEF LaunchWarm
  <2>12. CASE MarkRunning(a)
    BY <2>12 DEF MarkRunning
  <2>13. CASE AbortPersist(a)
    BY <2>13 DEF AbortPersist
  <2>14. CASE StopBegin(a)
    BY <2>14 DEF StopBegin
  <2>15. CASE Kill(a)
    BY <2>15 DEF Kill
  <2>16. CASE PersistStopped(a)
    BY <2>16 DEF PersistStopped
  <2>17. CASE PersistStopFailed(a)
    BY <2>17 DEF PersistStopFailed
  <2>18. CASE Release(a)
    BY <2>18 DEF Release, Resume
  <2> QED BY <1>1, <2>1, <2>2, <2>3, <2>4, <2>5, <2>6, <2>7, <2>8, <2>9,
         <2>10, <2>11, <2>12, <2>13, <2>14, <2>15, <2>16, <2>17, <2>18 DEF
         SlotStep
<1>2. ASSUME NEW a \in Actors, OpenStep(a)
      PROVE  Purposeful'
  <2>1. CASE StopNow(a)
    BY <2>1 DEF StopNow
  <2>2. CASE StopQueued(a)
    BY <2>2 DEF StopQueued
  <2>3. CASE WakeDecide(a)
    BY <2>3 DEF WakeDecide
  <2>4. CASE WakeAcquire(a)
    BY <2>4 DEF WakeAcquire
  <2>5. CASE WakeRelaunch(a)
    BY <2>5 DEF WakeRelaunch
  <2>6. CASE WakeTimeout(a)
    BY <2>6 DEF WakeTimeout
  <2>7. CASE WakeEnd(a)
    BY <2>7 DEF WakeEnd
  <2>8. CASE HealthProbe(a)
    BY <2>8 DEF HealthProbe, AfterHealth
  <2>9. CASE HealthCheck(a)
    BY <2>9 DEF HealthCheck
  <2>10. CASE MarkGone(a)
    BY <2>10 DEF MarkGone
  <2>11. CASE SettleStop(a)
    BY <2>11 DEF SettleStop
  <2>12. CASE SettleProbe(a)
    BY <2>12 DEF SettleProbe
  <2>13. CASE SettleRun(a)
    BY <2>13 DEF SettleRun
  <2>14. CASE SettleFail(a)
    BY <2>14 DEF SettleFail
  <2>15. CASE Evaluate(a)
    BY <2>15 DEF Evaluate, AfterHealth
  <2>16. CASE WriteDown(a)
    BY <2>16 DEF WriteDown, AfterHealth
  <2>17. CASE Converge(a)
    BY <2>17 DEF Converge
  <2>18. CASE ConvergeStop(a)
    BY <2>18 DEF ConvergeStop
  <2>19. CASE Candidates(a)
    BY <2>19 DEF Candidates
  <2>20. CASE AutoAcquire(a)
    BY <2>20 DEF AutoAcquire
  <2>21. CASE AutoDone(a)
    BY <2>21 DEF AutoDone
  <2>22. CASE Restore(a)
    BY <2>22 DEF Restore
  <2>23. CASE IdleStop(a)
    BY <2>23 DEF IdleStop
  <2> QED BY <1>2, <2>1, <2>2, <2>3, <2>4, <2>5, <2>6, <2>7, <2>8, <2>9,
         <2>10, <2>11, <2>12, <2>13, <2>14, <2>15, <2>16, <2>17, <2>18, <2>19,
         <2>20, <2>21, <2>22, <2>23 DEF OpenStep
<1>3. ASSUME NEW a \in Actors, Begin(a)
      PROVE  Purposeful'
  <2>1. CASE a \in Users /\ Start(a)
    BY <2>1 DEF Start
  <2>2. CASE a \in Users /\ Restart(a)
    BY <2>2 DEF Restart
  <2>3. CASE a \in Users /\ RequestStop(a)
    BY <2>3 DEF RequestStop
  <2>4. CASE a \in Wakers /\ Wake(a)
    BY <2>4 DEF Wake
  <2>5. CASE a \in Viewers \cup Watchdogs \cup Reconcilers /\ HealthFetch(a)
    BY <2>5 DEF HealthFetch
  <2>6. CASE a \in IdleWatchers /\ IdleCheck(a)
    BY <2>6 DEF IdleCheck
  <2> QED BY <1>3, <2>1, <2>2, <2>3, <2>4, <2>5, <2>6 DEF Begin
<1>4. ASSUME Environment
      PROVE  Purposeful'
  <2>1. ASSUME NEW p \in Pids, LauncherServes(p) \/ LauncherExits(p)
        PROVE  Purposeful'
    BY <2>1 DEF LauncherServes, LauncherExits
  <2>2. CASE ProcessCrash(UIThreads) \/ ProcessCrash(GatewayThreads)
    BY <2>2 DEF ProcessCrash
  <2>3. CASE StopExpires
    BY <2>3 DEF StopExpires
  <2> QED BY <1>4, <2>1, <2>2, <2>3 DEF Environment
<1>5. CASE UNCHANGED vars
  BY <1>5 DEF vars
<1> QED BY <1>1, <1>2, <1>3, <1>4, <1>5 DEF Next, Continue

\* Only AutoDone spends the budget, and there is one watchdog.
LEMMA RetryRoomStep ==
  ASSUME TypeOK, Roles, Purposeful, RetryRoom, [Next]_vars
  PROVE  RetryRoom'
<1> USE SlotAssumption DEF TypeOK, Roles, Purposeful, RetryRoom, StopOps, RetryOps,
        Critical, At, Go, For, Take, Actors, UIThreads, GatewayThreads, counters
<1>1. ASSUME NEW a \in Actors, SlotStep(a)
      PROVE  RetryRoom'
  <2>1. CASE RestartBegin(a)
    BY <2>1 DEF RestartBegin
  <2>2. CASE Prepare(a)
    BY <2>2 DEF Prepare
  <2>3. CASE LaunchCheck(a)
    BY <2>3 DEF LaunchCheck
  <2>4. CASE Terminate(a)
    BY <2>4 DEF Terminate
  <2>5. CASE Spawn(a)
    BY <2>5 DEF Spawn
  <2>6. CASE SpawnFails(a)
    BY <2>6 DEF SpawnFails
  <2>7. CASE SavePid(a)
    BY <2>7 DEF SavePid
  <2>8. CASE LaunchFails(a)
    BY <2>8 DEF LaunchFails
  <2>9. CASE LaunchCancelled(a)
    BY <2>9 DEF LaunchCancelled
  <2>10. CASE LaunchHealthy(a)
    BY <2>10 DEF LaunchHealthy
  <2>11. CASE LaunchWarm(a)
    BY <2>11 DEF LaunchWarm
  <2>12. CASE MarkRunning(a)
    BY <2>12 DEF MarkRunning
  <2>13. CASE AbortPersist(a)
    BY <2>13 DEF AbortPersist
  <2>14. CASE StopBegin(a)
    BY <2>14 DEF StopBegin
  <2>15. CASE Kill(a)
    BY <2>15 DEF Kill
  <2>16. CASE PersistStopped(a)
    BY <2>16 DEF PersistStopped
  <2>17. CASE PersistStopFailed(a)
    BY <2>17 DEF PersistStopFailed
  <2>18. CASE Release(a)
    BY <2>18 DEF Release, Resume
  <2> QED BY <1>1, <2>1, <2>2, <2>3, <2>4, <2>5, <2>6, <2>7, <2>8, <2>9,
         <2>10, <2>11, <2>12, <2>13, <2>14, <2>15, <2>16, <2>17, <2>18 DEF
         SlotStep
<1>2. ASSUME NEW a \in Actors, OpenStep(a)
      PROVE  RetryRoom'
  <2>1. CASE StopNow(a)
    BY <2>1 DEF StopNow
  <2>2. CASE StopQueued(a)
    BY <2>2 DEF StopQueued
  <2>3. CASE WakeDecide(a)
    BY <2>3 DEF WakeDecide
  <2>4. CASE WakeAcquire(a)
    BY <2>4 DEF WakeAcquire
  <2>5. CASE WakeRelaunch(a)
    BY <2>5 DEF WakeRelaunch
  <2>6. CASE WakeTimeout(a)
    BY <2>6 DEF WakeTimeout
  <2>7. CASE WakeEnd(a)
    BY <2>7 DEF WakeEnd
  <2>8. CASE HealthProbe(a)
    BY <2>8 DEF HealthProbe, AfterHealth
  <2>9. CASE HealthCheck(a)
    BY <2>9 DEF HealthCheck
  <2>10. CASE MarkGone(a)
    BY <2>10 DEF MarkGone
  <2>11. CASE SettleStop(a)
    BY <2>11 DEF SettleStop
  <2>12. CASE SettleProbe(a)
    BY <2>12 DEF SettleProbe
  <2>13. CASE SettleRun(a)
    BY <2>13 DEF SettleRun
  <2>14. CASE SettleFail(a)
    BY <2>14 DEF SettleFail
  <2>15. CASE Evaluate(a)
    BY <2>15 DEF Evaluate, AfterHealth
  <2>16. CASE WriteDown(a)
    BY <2>16 DEF WriteDown, AfterHealth
  <2>17. CASE Converge(a)
    BY <2>17 DEF Converge
  <2>18. CASE ConvergeStop(a)
    BY <2>18 DEF ConvergeStop
  <2>19. CASE Candidates(a)
    BY <2>19 DEF Candidates, AutoCandidate
  <2>20. CASE AutoAcquire(a)
    BY <2>20 DEF AutoAcquire
  <2>21. CASE AutoDone(a)
    BY <2>21 DEF AutoDone
  <2>22. CASE Restore(a)
    BY <2>22 DEF Restore
  <2>23. CASE IdleStop(a)
    BY <2>23 DEF IdleStop
  <2> QED BY <1>2, <2>1, <2>2, <2>3, <2>4, <2>5, <2>6, <2>7, <2>8, <2>9,
         <2>10, <2>11, <2>12, <2>13, <2>14, <2>15, <2>16, <2>17, <2>18, <2>19,
         <2>20, <2>21, <2>22, <2>23 DEF OpenStep
<1>3. ASSUME NEW a \in Actors, Begin(a)
      PROVE  RetryRoom'
  <2>1. CASE a \in Users /\ Start(a)
    BY <2>1 DEF Start
  <2>2. CASE a \in Users /\ Restart(a)
    BY <2>2 DEF Restart
  <2>3. CASE a \in Users /\ RequestStop(a)
    BY <2>3 DEF RequestStop
  <2>4. CASE a \in Wakers /\ Wake(a)
    BY <2>4 DEF Wake
  <2>5. CASE a \in Viewers \cup Watchdogs \cup Reconcilers /\ HealthFetch(a)
    BY <2>5 DEF HealthFetch
  <2>6. CASE a \in IdleWatchers /\ IdleCheck(a)
    BY <2>6 DEF IdleCheck
  <2> QED BY <1>3, <2>1, <2>2, <2>3, <2>4, <2>5, <2>6 DEF Begin
<1>4. ASSUME Environment
      PROVE  RetryRoom'
  <2>1. ASSUME NEW p \in Pids, LauncherServes(p) \/ LauncherExits(p)
        PROVE  RetryRoom'
    BY <2>1 DEF LauncherServes, LauncherExits
  <2>2. CASE ProcessCrash(UIThreads) \/ ProcessCrash(GatewayThreads)
    BY <2>2 DEF ProcessCrash
  <2>3. CASE StopExpires
    BY <2>3 DEF StopExpires
  <2> QED BY <1>4, <2>1, <2>2, <2>3 DEF Environment
<1>5. CASE UNCHANGED vars
  BY <1>5 DEF vars
<1> QED BY <1>1, <1>2, <1>3, <1>4, <1>5 DEF Next, Continue

\* The slot is taken only when free and left with the critical section.
LEMMA SlotHeldStep ==
  ASSUME TypeOK, SlotHeld, [Next]_vars
  PROVE  SlotHeld'
<1> USE SlotAssumption DEF TypeOK, SlotHeld, Critical, At, Go, Take, SlotFree
<1>1. ASSUME NEW a \in Actors, SlotStep(a)
      PROVE  SlotHeld'
  <2>1. CASE RestartBegin(a)
    BY <2>1 DEF RestartBegin
  <2>2. CASE Prepare(a)
    BY <2>2 DEF Prepare
  <2>3. CASE LaunchCheck(a)
    BY <2>3 DEF LaunchCheck
  <2>4. CASE Terminate(a)
    BY <2>4 DEF Terminate
  <2>5. CASE Spawn(a)
    BY <2>5 DEF Spawn
  <2>6. CASE SpawnFails(a)
    BY <2>6 DEF SpawnFails
  <2>7. CASE SavePid(a)
    BY <2>7 DEF SavePid
  <2>8. CASE LaunchFails(a)
    BY <2>8 DEF LaunchFails
  <2>9. CASE LaunchCancelled(a)
    BY <2>9 DEF LaunchCancelled
  <2>10. CASE LaunchHealthy(a)
    BY <2>10 DEF LaunchHealthy
  <2>11. CASE LaunchWarm(a)
    BY <2>11 DEF LaunchWarm
  <2>12. CASE MarkRunning(a)
    BY <2>12 DEF MarkRunning
  <2>13. CASE AbortPersist(a)
    BY <2>13 DEF AbortPersist
  <2>14. CASE StopBegin(a)
    BY <2>14 DEF StopBegin
  <2>15. CASE Kill(a)
    BY <2>15 DEF Kill
  <2>16. CASE PersistStopped(a)
    BY <2>16 DEF PersistStopped
  <2>17. CASE PersistStopFailed(a)
    BY <2>17 DEF PersistStopFailed
  <2>18. CASE Release(a)
    BY <2>18 DEF Release, Resume
  <2> QED BY <1>1, <2>1, <2>2, <2>3, <2>4, <2>5, <2>6, <2>7, <2>8, <2>9,
         <2>10, <2>11, <2>12, <2>13, <2>14, <2>15, <2>16, <2>17, <2>18 DEF
         SlotStep
<1>2. ASSUME NEW a \in Actors, OpenStep(a)
      PROVE  SlotHeld'
  <2>1. CASE StopNow(a)
    BY <2>1 DEF StopNow
  <2>2. CASE StopQueued(a)
    BY <2>2 DEF StopQueued
  <2>3. CASE WakeDecide(a)
    BY <2>3 DEF WakeDecide
  <2>4. CASE WakeAcquire(a)
    BY <2>4 DEF WakeAcquire
  <2>5. CASE WakeRelaunch(a)
    BY <2>5 DEF WakeRelaunch
  <2>6. CASE WakeTimeout(a)
    BY <2>6 DEF WakeTimeout
  <2>7. CASE WakeEnd(a)
    BY <2>7 DEF WakeEnd
  <2>8. CASE HealthProbe(a)
    BY <2>8 DEF HealthProbe, AfterHealth
  <2>9. CASE HealthCheck(a)
    BY <2>9 DEF HealthCheck
  <2>10. CASE MarkGone(a)
    BY <2>10 DEF MarkGone
  <2>11. CASE SettleStop(a)
    BY <2>11 DEF SettleStop
  <2>12. CASE SettleProbe(a)
    BY <2>12 DEF SettleProbe
  <2>13. CASE SettleRun(a)
    BY <2>13 DEF SettleRun
  <2>14. CASE SettleFail(a)
    BY <2>14 DEF SettleFail
  <2>15. CASE Evaluate(a)
    BY <2>15 DEF Evaluate, AfterHealth
  <2>16. CASE WriteDown(a)
    BY <2>16 DEF WriteDown, AfterHealth
  <2>17. CASE Converge(a)
    BY <2>17 DEF Converge
  <2>18. CASE ConvergeStop(a)
    BY <2>18 DEF ConvergeStop
  <2>19. CASE Candidates(a)
    BY <2>19 DEF Candidates
  <2>20. CASE AutoAcquire(a)
    BY <2>20 DEF AutoAcquire
  <2>21. CASE AutoDone(a)
    BY <2>21 DEF AutoDone
  <2>22. CASE Restore(a)
    BY <2>22 DEF Restore
  <2>23. CASE IdleStop(a)
    BY <2>23 DEF IdleStop
  <2> QED BY <1>2, <2>1, <2>2, <2>3, <2>4, <2>5, <2>6, <2>7, <2>8, <2>9,
         <2>10, <2>11, <2>12, <2>13, <2>14, <2>15, <2>16, <2>17, <2>18, <2>19,
         <2>20, <2>21, <2>22, <2>23 DEF OpenStep
<1>3. ASSUME NEW a \in Actors, Begin(a)
      PROVE  SlotHeld'
  <2>1. CASE a \in Users /\ Start(a)
    BY <2>1 DEF Start
  <2>2. CASE a \in Users /\ Restart(a)
    BY <2>2 DEF Restart
  <2>3. CASE a \in Users /\ RequestStop(a)
    BY <2>3 DEF RequestStop
  <2>4. CASE a \in Wakers /\ Wake(a)
    BY <2>4 DEF Wake
  <2>5. CASE a \in Viewers \cup Watchdogs \cup Reconcilers /\ HealthFetch(a)
    BY <2>5 DEF HealthFetch
  <2>6. CASE a \in IdleWatchers /\ IdleCheck(a)
    BY <2>6 DEF IdleCheck
  <2> QED BY <1>3, <2>1, <2>2, <2>3, <2>4, <2>5, <2>6 DEF Begin
<1>4. ASSUME Environment
      PROVE  SlotHeld'
  <2>1. ASSUME NEW p \in Pids, LauncherServes(p) \/ LauncherExits(p)
        PROVE  SlotHeld'
    BY <2>1 DEF LauncherServes, LauncherExits
  <2>2. CASE ProcessCrash(UIThreads) \/ ProcessCrash(GatewayThreads)
    BY <2>2 DEF ProcessCrash
  <2>3. CASE StopExpires
    BY <2>3 DEF StopExpires
  <2> QED BY <1>4, <2>1, <2>2, <2>3 DEF Environment
<1>5. CASE UNCHANGED vars
  BY <1>5 DEF vars
<1> QED BY <1>1, <1>2, <1>3, <1>4, <1>5 DEF Next, Continue

\* Only the holder of the slot spawns.
LEMMA PortClearStep ==
  ASSUME TypeOK, SlotHeld, PortClear, [Next]_vars
  PROVE  PortClear'
<1> USE SlotAssumption DEF TypeOK, SlotHeld, PortClear, Launchers, Critical, At, Go
<1>1. ASSUME NEW a \in Actors, SlotStep(a)
      PROVE  PortClear'
  <2>1. CASE RestartBegin(a)
    BY <2>1 DEF RestartBegin
  <2>2. CASE Prepare(a)
    BY <2>2 DEF Prepare
  <2>3. CASE LaunchCheck(a)
    BY <2>3 DEF LaunchCheck
  <2>4. CASE Terminate(a)
    BY <2>4 DEF Terminate
  <2>5. CASE Spawn(a)
    BY <2>5 DEF Spawn
  <2>6. CASE SpawnFails(a)
    BY <2>6 DEF SpawnFails
  <2>7. CASE SavePid(a)
    BY <2>7 DEF SavePid
  <2>8. CASE LaunchFails(a)
    BY <2>8 DEF LaunchFails
  <2>9. CASE LaunchCancelled(a)
    BY <2>9 DEF LaunchCancelled
  <2>10. CASE LaunchHealthy(a)
    BY <2>10 DEF LaunchHealthy
  <2>11. CASE LaunchWarm(a)
    BY <2>11 DEF LaunchWarm
  <2>12. CASE MarkRunning(a)
    BY <2>12 DEF MarkRunning
  <2>13. CASE AbortPersist(a)
    BY <2>13 DEF AbortPersist
  <2>14. CASE StopBegin(a)
    BY <2>14 DEF StopBegin
  <2>15. CASE Kill(a)
    BY <2>15 DEF Kill
  <2>16. CASE PersistStopped(a)
    BY <2>16 DEF PersistStopped
  <2>17. CASE PersistStopFailed(a)
    BY <2>17 DEF PersistStopFailed
  <2>18. CASE Release(a)
    BY <2>18 DEF Release, Resume
  <2> QED BY <1>1, <2>1, <2>2, <2>3, <2>4, <2>5, <2>6, <2>7, <2>8, <2>9,
         <2>10, <2>11, <2>12, <2>13, <2>14, <2>15, <2>16, <2>17, <2>18 DEF
         SlotStep
<1>2. ASSUME NEW a \in Actors, OpenStep(a)
      PROVE  PortClear'
  <2>1. CASE StopNow(a)
    BY <2>1 DEF StopNow
  <2>2. CASE StopQueued(a)
    BY <2>2 DEF StopQueued
  <2>3. CASE WakeDecide(a)
    BY <2>3 DEF WakeDecide
  <2>4. CASE WakeAcquire(a)
    BY <2>4 DEF WakeAcquire
  <2>5. CASE WakeRelaunch(a)
    BY <2>5 DEF WakeRelaunch
  <2>6. CASE WakeTimeout(a)
    BY <2>6 DEF WakeTimeout
  <2>7. CASE WakeEnd(a)
    BY <2>7 DEF WakeEnd
  <2>8. CASE HealthProbe(a)
    BY <2>8 DEF HealthProbe, AfterHealth
  <2>9. CASE HealthCheck(a)
    BY <2>9 DEF HealthCheck
  <2>10. CASE MarkGone(a)
    BY <2>10 DEF MarkGone
  <2>11. CASE SettleStop(a)
    BY <2>11 DEF SettleStop
  <2>12. CASE SettleProbe(a)
    BY <2>12 DEF SettleProbe
  <2>13. CASE SettleRun(a)
    BY <2>13 DEF SettleRun
  <2>14. CASE SettleFail(a)
    BY <2>14 DEF SettleFail
  <2>15. CASE Evaluate(a)
    BY <2>15 DEF Evaluate, AfterHealth
  <2>16. CASE WriteDown(a)
    BY <2>16 DEF WriteDown, AfterHealth
  <2>17. CASE Converge(a)
    BY <2>17 DEF Converge
  <2>18. CASE ConvergeStop(a)
    BY <2>18 DEF ConvergeStop
  <2>19. CASE Candidates(a)
    BY <2>19 DEF Candidates
  <2>20. CASE AutoAcquire(a)
    BY <2>20 DEF AutoAcquire
  <2>21. CASE AutoDone(a)
    BY <2>21 DEF AutoDone
  <2>22. CASE Restore(a)
    BY <2>22 DEF Restore
  <2>23. CASE IdleStop(a)
    BY <2>23 DEF IdleStop
  <2> QED BY <1>2, <2>1, <2>2, <2>3, <2>4, <2>5, <2>6, <2>7, <2>8, <2>9,
         <2>10, <2>11, <2>12, <2>13, <2>14, <2>15, <2>16, <2>17, <2>18, <2>19,
         <2>20, <2>21, <2>22, <2>23 DEF OpenStep
<1>3. ASSUME NEW a \in Actors, Begin(a)
      PROVE  PortClear'
  <2>1. CASE a \in Users /\ Start(a)
    BY <2>1 DEF Start
  <2>2. CASE a \in Users /\ Restart(a)
    BY <2>2 DEF Restart
  <2>3. CASE a \in Users /\ RequestStop(a)
    BY <2>3 DEF RequestStop
  <2>4. CASE a \in Wakers /\ Wake(a)
    BY <2>4 DEF Wake
  <2>5. CASE a \in Viewers \cup Watchdogs \cup Reconcilers /\ HealthFetch(a)
    BY <2>5 DEF HealthFetch
  <2>6. CASE a \in IdleWatchers /\ IdleCheck(a)
    BY <2>6 DEF IdleCheck
  <2> QED BY <1>3, <2>1, <2>2, <2>3, <2>4, <2>5, <2>6 DEF Begin
<1>4. ASSUME Environment
      PROVE  PortClear'
  <2>1. ASSUME NEW p \in Pids, LauncherServes(p) \/ LauncherExits(p)
        PROVE  PortClear'
    BY <2>1 DEF LauncherServes, LauncherExits
  <2>2. CASE ProcessCrash(UIThreads) \/ ProcessCrash(GatewayThreads)
    BY <2>2 DEF ProcessCrash
  <2>3. CASE StopExpires
    BY <2>3 DEF StopExpires
  <2> QED BY <1>4, <2>1, <2>2, <2>3 DEF Environment
<1>5. CASE UNCHANGED vars
  BY <1>5 DEF vars
<1> QED BY <1>1, <1>2, <1>3, <1>4, <1>5 DEF Next, Continue

\* A spawn finds the port clear; every other step only removes launchers.
LEMMA LauncherStep ==
  ASSUME TypeOK, PortClear, AtMostOneLauncher, [Next]_vars
  PROVE  AtMostOneLauncher'
<1> USE SlotAssumption DEF TypeOK, PortClear, AtMostOneLauncher, Launchers, At
<1>1. ASSUME NEW a \in Actors, SlotStep(a)
      PROVE  AtMostOneLauncher'
  <2>1. CASE RestartBegin(a)
    BY <2>1 DEF RestartBegin
  <2>2. CASE Prepare(a)
    BY <2>2 DEF Prepare
  <2>3. CASE LaunchCheck(a)
    BY <2>3 DEF LaunchCheck
  <2>4. CASE Terminate(a)
    BY <2>4 DEF Terminate
  <2>5. CASE Spawn(a)
    BY <2>5 DEF Spawn
  <2>6. CASE SpawnFails(a)
    BY <2>6 DEF SpawnFails
  <2>7. CASE SavePid(a)
    BY <2>7 DEF SavePid
  <2>8. CASE LaunchFails(a)
    BY <2>8 DEF LaunchFails
  <2>9. CASE LaunchCancelled(a)
    BY <2>9 DEF LaunchCancelled
  <2>10. CASE LaunchHealthy(a)
    BY <2>10 DEF LaunchHealthy
  <2>11. CASE LaunchWarm(a)
    BY <2>11 DEF LaunchWarm
  <2>12. CASE MarkRunning(a)
    BY <2>12 DEF MarkRunning
  <2>13. CASE AbortPersist(a)
    BY <2>13 DEF AbortPersist
  <2>14. CASE StopBegin(a)
    BY <2>14 DEF StopBegin
  <2>15. CASE Kill(a)
    BY <2>15 DEF Kill
  <2>16. CASE PersistStopped(a)
    BY <2>16 DEF PersistStopped
  <2>17. CASE PersistStopFailed(a)
    BY <2>17 DEF PersistStopFailed
  <2>18. CASE Release(a)
    BY <2>18 DEF Release
  <2> QED BY <1>1, <2>1, <2>2, <2>3, <2>4, <2>5, <2>6, <2>7, <2>8, <2>9,
         <2>10, <2>11, <2>12, <2>13, <2>14, <2>15, <2>16, <2>17, <2>18 DEF
         SlotStep
<1>2. ASSUME NEW a \in Actors, OpenStep(a)
      PROVE  AtMostOneLauncher'
  <2>1. CASE StopNow(a)
    BY <2>1 DEF StopNow
  <2>2. CASE StopQueued(a)
    BY <2>2 DEF StopQueued
  <2>3. CASE WakeDecide(a)
    BY <2>3 DEF WakeDecide
  <2>4. CASE WakeAcquire(a)
    BY <2>4 DEF WakeAcquire
  <2>5. CASE WakeRelaunch(a)
    BY <2>5 DEF WakeRelaunch
  <2>6. CASE WakeTimeout(a)
    BY <2>6 DEF WakeTimeout
  <2>7. CASE WakeEnd(a)
    BY <2>7 DEF WakeEnd
  <2>8. CASE HealthProbe(a)
    BY <2>8 DEF HealthProbe
  <2>9. CASE HealthCheck(a)
    BY <2>9 DEF HealthCheck
  <2>10. CASE MarkGone(a)
    BY <2>10 DEF MarkGone
  <2>11. CASE SettleStop(a)
    BY <2>11 DEF SettleStop
  <2>12. CASE SettleProbe(a)
    BY <2>12 DEF SettleProbe
  <2>13. CASE SettleRun(a)
    BY <2>13 DEF SettleRun
  <2>14. CASE SettleFail(a)
    BY <2>14 DEF SettleFail
  <2>15. CASE Evaluate(a)
    BY <2>15 DEF Evaluate
  <2>16. CASE WriteDown(a)
    BY <2>16 DEF WriteDown
  <2>17. CASE Converge(a)
    BY <2>17 DEF Converge
  <2>18. CASE ConvergeStop(a)
    BY <2>18 DEF ConvergeStop
  <2>19. CASE Candidates(a)
    BY <2>19 DEF Candidates
  <2>20. CASE AutoAcquire(a)
    BY <2>20 DEF AutoAcquire
  <2>21. CASE AutoDone(a)
    BY <2>21 DEF AutoDone
  <2>22. CASE Restore(a)
    BY <2>22 DEF Restore
  <2>23. CASE IdleStop(a)
    BY <2>23 DEF IdleStop
  <2> QED BY <1>2, <2>1, <2>2, <2>3, <2>4, <2>5, <2>6, <2>7, <2>8, <2>9,
         <2>10, <2>11, <2>12, <2>13, <2>14, <2>15, <2>16, <2>17, <2>18, <2>19,
         <2>20, <2>21, <2>22, <2>23 DEF OpenStep
<1>3. ASSUME NEW a \in Actors, Begin(a)
      PROVE  AtMostOneLauncher'
  <2>1. CASE a \in Users /\ Start(a)
    BY <2>1 DEF Start
  <2>2. CASE a \in Users /\ Restart(a)
    BY <2>2 DEF Restart
  <2>3. CASE a \in Users /\ RequestStop(a)
    BY <2>3 DEF RequestStop
  <2>4. CASE a \in Wakers /\ Wake(a)
    BY <2>4 DEF Wake
  <2>5. CASE a \in Viewers \cup Watchdogs \cup Reconcilers /\ HealthFetch(a)
    BY <2>5 DEF HealthFetch
  <2>6. CASE a \in IdleWatchers /\ IdleCheck(a)
    BY <2>6 DEF IdleCheck
  <2> QED BY <1>3, <2>1, <2>2, <2>3, <2>4, <2>5, <2>6 DEF Begin
<1>4. ASSUME Environment
      PROVE  AtMostOneLauncher'
  <2>1. ASSUME NEW p \in Pids, LauncherServes(p) \/ LauncherExits(p)
        PROVE  AtMostOneLauncher'
    BY <2>1 DEF LauncherServes, LauncherExits
  <2>2. CASE ProcessCrash(UIThreads) \/ ProcessCrash(GatewayThreads)
    BY <2>2 DEF ProcessCrash
  <2>3. CASE StopExpires
    BY <2>3 DEF StopExpires
  <2> QED BY <1>4, <2>1, <2>2, <2>3 DEF Environment
<1>5. CASE UNCHANGED vars
  BY <1>5 DEF vars
<1> QED BY <1>1, <1>2, <1>3, <1>4, <1>5 DEF Next, Continue

\* An automatic thread reserves the row with op = "auto", which keeps the intent.
LEMMA IntentStep ==
  ASSUME TypeOK, Roles, Purposeful, [Next]_vars
  PROVE  KeepsIntent
<1> USE SlotAssumption DEF TypeOK, Roles, Purposeful, KeepsIntent, StopOps, RetryOps,
        Row, Critical, At, Go, Actors
<1>1. ASSUME NEW a \in Actors, SlotStep(a)
      PROVE  KeepsIntent
  <2>1. CASE RestartBegin(a)
    BY <2>1 DEF RestartBegin
  <2>2. CASE Prepare(a)
    <3>1. op[a] # "auto" => a \notin Watchdogs \cup Reconcilers
      BY <2>2 DEF Prepare
    <3>2. \A c \in Actors : pc'[c] # pc[c] => c = a
      BY <2>2 DEF Prepare
    <3>3. op[a] = "auto" => row'.desired = row.desired
      BY <2>2 DEF Prepare
    <3> QED BY <3>1, <3>2, <3>3 DEF GatewayThreads
  <2>3. CASE LaunchCheck(a)
    <3>1. row'.desired = row.desired
      BY <2>3 DEF LaunchCheck, PersistStopOutcome
    <3> QED BY <3>1
  <2>4. CASE Terminate(a)
    BY <2>4, ZenonT(40) DEF Terminate, PersistStopOutcome
  <2>5. CASE Spawn(a)
    BY <2>5 DEF Spawn
  <2>6. CASE SpawnFails(a)
    BY <2>6 DEF SpawnFails
  <2>7. CASE SavePid(a)
    BY <2>7 DEF SavePid
  <2>8. CASE LaunchFails(a)
    BY <2>8 DEF LaunchFails
  <2>9. CASE LaunchCancelled(a)
    BY <2>9 DEF LaunchCancelled
  <2>10. CASE LaunchHealthy(a)
    BY <2>10 DEF LaunchHealthy
  <2>11. CASE LaunchWarm(a)
    BY <2>11 DEF LaunchWarm
  <2>12. CASE MarkRunning(a)
    BY <2>12 DEF MarkRunning
  <2>13. CASE AbortPersist(a)
    BY <2>13 DEF AbortPersist, PersistStopOutcome
  <2>14. CASE StopBegin(a)
    BY <2>14 DEF StopBegin
  <2>15. CASE Kill(a)
    BY <2>15 DEF Kill
  <2>16. CASE PersistStopped(a)
    BY <2>16 DEF PersistStopped, PersistStopOutcome
  <2>17. CASE PersistStopFailed(a)
    BY <2>17 DEF PersistStopFailed, PersistStopOutcome
  <2>18. CASE Release(a)
    BY <2>18 DEF Release
  <2> QED BY <1>1, <2>1, <2>2, <2>3, <2>4, <2>5, <2>6, <2>7, <2>8, <2>9,
         <2>10, <2>11, <2>12, <2>13, <2>14, <2>15, <2>16, <2>17, <2>18 DEF
         SlotStep
<1>2. ASSUME NEW a \in Actors, OpenStep(a)
      PROVE  KeepsIntent
  <2>1. CASE StopNow(a)
    BY <2>1 DEF StopNow
  <2>2. CASE StopQueued(a)
    BY <2>2 DEF StopQueued
  <2>3. CASE WakeDecide(a)
    BY <2>3 DEF WakeDecide
  <2>4. CASE WakeAcquire(a)
    BY <2>4 DEF WakeAcquire
  <2>5. CASE WakeRelaunch(a)
    BY <2>5 DEF WakeRelaunch
  <2>6. CASE WakeTimeout(a)
    BY <2>6 DEF WakeTimeout
  <2>7. CASE WakeEnd(a)
    BY <2>7 DEF WakeEnd
  <2>8. CASE HealthProbe(a)
    BY <2>8 DEF HealthProbe
  <2>9. CASE HealthCheck(a)
    BY <2>9 DEF HealthCheck
  <2>10. CASE MarkGone(a)
    BY <2>10 DEF MarkGone
  <2>11. CASE SettleStop(a)
    BY <2>11 DEF SettleStop
  <2>12. CASE SettleProbe(a)
    BY <2>12 DEF SettleProbe
  <2>13. CASE SettleRun(a)
    BY <2>13 DEF SettleRun
  <2>14. CASE SettleFail(a)
    BY <2>14 DEF SettleFail
  <2>15. CASE Evaluate(a)
    BY <2>15 DEF Evaluate
  <2>16. CASE WriteDown(a)
    BY <2>16 DEF WriteDown
  <2>17. CASE Converge(a)
    BY <2>17 DEF Converge
  <2>18. CASE ConvergeStop(a)
    BY <2>18 DEF ConvergeStop
  <2>19. CASE Candidates(a)
    BY <2>19 DEF Candidates
  <2>20. CASE AutoAcquire(a)
    BY <2>20 DEF AutoAcquire
  <2>21. CASE AutoDone(a)
    BY <2>21 DEF AutoDone
  <2>22. CASE Restore(a)
    BY <2>22 DEF Restore
  <2>23. CASE IdleStop(a)
    BY <2>23 DEF IdleStop
  <2> QED BY <1>2, <2>1, <2>2, <2>3, <2>4, <2>5, <2>6, <2>7, <2>8, <2>9,
         <2>10, <2>11, <2>12, <2>13, <2>14, <2>15, <2>16, <2>17, <2>18, <2>19,
         <2>20, <2>21, <2>22, <2>23 DEF OpenStep
<1>3. ASSUME NEW a \in Actors, Begin(a)
      PROVE  KeepsIntent
  <2>1. CASE a \in Users /\ Start(a)
    BY <2>1 DEF Start
  <2>2. CASE a \in Users /\ Restart(a)
    BY <2>2 DEF Restart
  <2>3. CASE a \in Users /\ RequestStop(a)
    BY <2>3 DEF RequestStop
  <2>4. CASE a \in Wakers /\ Wake(a)
    BY <2>4 DEF Wake
  <2>5. CASE a \in Viewers \cup Watchdogs \cup Reconcilers /\ HealthFetch(a)
    BY <2>5 DEF HealthFetch
  <2>6. CASE a \in IdleWatchers /\ IdleCheck(a)
    BY <2>6 DEF IdleCheck
  <2> QED BY <1>3, <2>1, <2>2, <2>3, <2>4, <2>5, <2>6 DEF Begin
<1>4. ASSUME Environment
      PROVE  KeepsIntent
  <2>1. ASSUME NEW p \in Pids, LauncherServes(p) \/ LauncherExits(p)
        PROVE  KeepsIntent
    BY <2>1 DEF LauncherServes, LauncherExits
  <2>2. CASE ProcessCrash(UIThreads) \/ ProcessCrash(GatewayThreads)
    BY <2>2 DEF ProcessCrash
  <2>3. CASE StopExpires
    BY <2>3 DEF StopExpires
  <2> QED BY <1>4, <2>1, <2>2, <2>3 DEF Environment
<1>5. CASE UNCHANGED vars
  BY <1>5 DEF vars
<1> QED BY <1>1, <1>2, <1>3, <1>4, <1>5 DEF Next, Continue

\* A launcher loads only between its spawn and the moment it serves, and all
\* that time its starter is in the critical section, crashes excepted.
LEMMA LoadStep ==
  ASSUME MaxCrashes = 0, Inv, LoadHasStarter, [Next]_vars
  PROVE  LoadHasStarter'
<1> USE SlotAssumption DEF Inv, TypeOK, Purposeful, StopOps, SlotHeld, AtMostOneLauncher,
        LoadHasStarter, Launchers, Listening, Critical, At, Go, For, Take, SlotFree
<1>1. ASSUME NEW a \in Actors, SlotStep(a)
      PROVE  LoadHasStarter'
  <2>1. CASE RestartBegin(a)
    BY <2>1 DEF RestartBegin
  <2>2. CASE Prepare(a)
    BY <2>2 DEF Prepare
  <2>3. CASE LaunchCheck(a)
    BY <2>3 DEF LaunchCheck
  <2>4. CASE Terminate(a)
    BY <2>4 DEF Terminate
  <2>5. CASE Spawn(a)
    BY <2>5 DEF Spawn
  <2>6. CASE SpawnFails(a)
    BY <2>6 DEF SpawnFails
  <2>7. CASE SavePid(a)
    BY <2>7 DEF SavePid
  <2>8. CASE LaunchFails(a)
    BY <2>8 DEF LaunchFails
  <2>9. CASE LaunchCancelled(a)
    BY <2>9 DEF LaunchCancelled
  <2>10. CASE LaunchHealthy(a)
    BY <2>10 DEF LaunchHealthy
  <2>11. CASE LaunchWarm(a)
    BY <2>11 DEF LaunchWarm
  <2>12. CASE MarkRunning(a)
    BY <2>12 DEF MarkRunning
  <2>13. CASE AbortPersist(a)
    BY <2>13 DEF AbortPersist
  <2>14. CASE StopBegin(a)
    BY <2>14 DEF StopBegin
  <2>15. CASE Kill(a)
    BY <2>15 DEF Kill
  <2>16. CASE PersistStopped(a)
    BY <2>16 DEF PersistStopped
  <2>17. CASE PersistStopFailed(a)
    BY <2>17 DEF PersistStopFailed
  <2>18. CASE Release(a)
    BY <2>18 DEF Release, Resume
  <2> QED BY <1>1, <2>1, <2>2, <2>3, <2>4, <2>5, <2>6, <2>7, <2>8, <2>9,
         <2>10, <2>11, <2>12, <2>13, <2>14, <2>15, <2>16, <2>17, <2>18 DEF
         SlotStep
<1>2. ASSUME NEW a \in Actors, OpenStep(a)
      PROVE  LoadHasStarter'
  <2>1. CASE StopNow(a)
    BY <2>1 DEF StopNow
  <2>2. CASE StopQueued(a)
    BY <2>2 DEF StopQueued
  <2>3. CASE WakeDecide(a)
    BY <2>3 DEF WakeDecide
  <2>4. CASE WakeAcquire(a)
    BY <2>4 DEF WakeAcquire
  <2>5. CASE WakeRelaunch(a)
    BY <2>5 DEF WakeRelaunch
  <2>6. CASE WakeTimeout(a)
    BY <2>6 DEF WakeTimeout
  <2>7. CASE WakeEnd(a)
    BY <2>7 DEF WakeEnd
  <2>8. CASE HealthProbe(a)
    BY <2>8 DEF HealthProbe
  <2>9. CASE HealthCheck(a)
    BY <2>9 DEF HealthCheck
  <2>10. CASE MarkGone(a)
    BY <2>10 DEF MarkGone
  <2>11. CASE SettleStop(a)
    BY <2>11 DEF SettleStop
  <2>12. CASE SettleProbe(a)
    BY <2>12 DEF SettleProbe
  <2>13. CASE SettleRun(a)
    BY <2>13 DEF SettleRun
  <2>14. CASE SettleFail(a)
    BY <2>14 DEF SettleFail
  <2>15. CASE Evaluate(a)
    BY <2>15 DEF Evaluate
  <2>16. CASE WriteDown(a)
    BY <2>16 DEF WriteDown
  <2>17. CASE Converge(a)
    BY <2>17 DEF Converge
  <2>18. CASE ConvergeStop(a)
    BY <2>18 DEF ConvergeStop
  <2>19. CASE Candidates(a)
    BY <2>19 DEF Candidates
  <2>20. CASE AutoAcquire(a)
    BY <2>20 DEF AutoAcquire
  <2>21. CASE AutoDone(a)
    BY <2>21 DEF AutoDone
  <2>22. CASE Restore(a)
    BY <2>22 DEF Restore
  <2>23. CASE IdleStop(a)
    BY <2>23 DEF IdleStop
  <2> QED BY <1>2, <2>1, <2>2, <2>3, <2>4, <2>5, <2>6, <2>7, <2>8, <2>9,
         <2>10, <2>11, <2>12, <2>13, <2>14, <2>15, <2>16, <2>17, <2>18, <2>19,
         <2>20, <2>21, <2>22, <2>23 DEF OpenStep
<1>3. ASSUME NEW a \in Actors, Begin(a)
      PROVE  LoadHasStarter'
  <2>1. CASE a \in Users /\ Start(a)
    BY <2>1 DEF Start
  <2>2. CASE a \in Users /\ Restart(a)
    BY <2>2 DEF Restart
  <2>3. CASE a \in Users /\ RequestStop(a)
    BY <2>3 DEF RequestStop
  <2>4. CASE a \in Wakers /\ Wake(a)
    BY <2>4 DEF Wake
  <2>5. CASE a \in Viewers \cup Watchdogs \cup Reconcilers /\ HealthFetch(a)
    BY <2>5 DEF HealthFetch
  <2>6. CASE a \in IdleWatchers /\ IdleCheck(a)
    BY <2>6 DEF IdleCheck
  <2> QED BY <1>3, <2>1, <2>2, <2>3, <2>4, <2>5, <2>6 DEF Begin
<1>4. ASSUME Environment
      PROVE  LoadHasStarter'
  <2>1. ASSUME NEW p \in Pids, LauncherServes(p) \/ LauncherExits(p)
        PROVE  LoadHasStarter'
    BY <2>1 DEF LauncherServes, LauncherExits
  <2>2. CASE ProcessCrash(UIThreads) \/ ProcessCrash(GatewayThreads)
    BY <2>2 DEF ProcessCrash
  <2>3. CASE StopExpires
    BY <2>3 DEF StopExpires
  <2> QED BY <1>4, <2>1, <2>2, <2>3 DEF Environment
<1>5. CASE UNCHANGED vars
  BY <1>5 DEF vars
<1> QED BY <1>1, <1>2, <1>3, <1>4, <1>5 DEF Next, Continue
\* Without viewers, watchdog and reconcile nobody begins a health pass.
LEMMA NoHealthStep ==
  ASSUME Viewers \cup Watchdogs \cup Reconcilers = {},
         TypeOK, Roles, NoHealthPass, [Next]_vars
  PROVE  NoHealthPass'
<1> USE SlotAssumption DEF TypeOK, Roles, NoHealthPass, HealthLabels, At, Go, For
<1>1. ASSUME NEW a \in Actors, SlotStep(a)
      PROVE  NoHealthPass'
  <2>1. CASE RestartBegin(a)
    BY <2>1 DEF RestartBegin
  <2>2. CASE Prepare(a)
    BY <2>2 DEF Prepare
  <2>3. CASE LaunchCheck(a)
    BY <2>3 DEF LaunchCheck
  <2>4. CASE Terminate(a)
    BY <2>4 DEF Terminate
  <2>5. CASE Spawn(a)
    BY <2>5 DEF Spawn
  <2>6. CASE SpawnFails(a)
    BY <2>6 DEF SpawnFails
  <2>7. CASE SavePid(a)
    BY <2>7 DEF SavePid
  <2>8. CASE LaunchFails(a)
    BY <2>8 DEF LaunchFails
  <2>9. CASE LaunchCancelled(a)
    BY <2>9 DEF LaunchCancelled
  <2>10. CASE LaunchHealthy(a)
    BY <2>10 DEF LaunchHealthy
  <2>11. CASE LaunchWarm(a)
    BY <2>11 DEF LaunchWarm
  <2>12. CASE MarkRunning(a)
    BY <2>12 DEF MarkRunning
  <2>13. CASE AbortPersist(a)
    BY <2>13 DEF AbortPersist
  <2>14. CASE StopBegin(a)
    BY <2>14 DEF StopBegin
  <2>15. CASE Kill(a)
    BY <2>15 DEF Kill
  <2>16. CASE PersistStopped(a)
    BY <2>16 DEF PersistStopped
  <2>17. CASE PersistStopFailed(a)
    BY <2>17 DEF PersistStopFailed
  <2>18. CASE Release(a)
    BY <2>18 DEF Release, Resume
  <2> QED BY <1>1, <2>1, <2>2, <2>3, <2>4, <2>5, <2>6, <2>7, <2>8, <2>9,
         <2>10, <2>11, <2>12, <2>13, <2>14, <2>15, <2>16, <2>17, <2>18 DEF
         SlotStep
<1>2. ASSUME NEW a \in Actors, OpenStep(a)
      PROVE  NoHealthPass'
  <2>1. CASE StopNow(a)
    BY <2>1 DEF StopNow
  <2>2. CASE StopQueued(a)
    BY <2>2 DEF StopQueued
  <2>3. CASE WakeDecide(a)
    BY <2>3 DEF WakeDecide
  <2>4. CASE WakeAcquire(a)
    BY <2>4 DEF WakeAcquire
  <2>5. CASE WakeRelaunch(a)
    BY <2>5 DEF WakeRelaunch
  <2>6. CASE WakeTimeout(a)
    BY <2>6 DEF WakeTimeout
  <2>7. CASE WakeEnd(a)
    BY <2>7 DEF WakeEnd
  <2>8. CASE HealthProbe(a)
    BY <2>8 DEF HealthProbe
  <2>9. CASE HealthCheck(a)
    BY <2>9 DEF HealthCheck
  <2>10. CASE MarkGone(a)
    BY <2>10 DEF MarkGone
  <2>11. CASE SettleStop(a)
    BY <2>11 DEF SettleStop
  <2>12. CASE SettleProbe(a)
    BY <2>12 DEF SettleProbe
  <2>13. CASE SettleRun(a)
    BY <2>13 DEF SettleRun
  <2>14. CASE SettleFail(a)
    BY <2>14 DEF SettleFail
  <2>15. CASE Evaluate(a)
    BY <2>15 DEF Evaluate
  <2>16. CASE WriteDown(a)
    BY <2>16 DEF WriteDown
  <2>17. CASE Converge(a)
    BY <2>17 DEF Converge
  <2>18. CASE ConvergeStop(a)
    BY <2>18 DEF ConvergeStop
  <2>19. CASE Candidates(a)
    BY <2>19 DEF Candidates
  <2>20. CASE AutoAcquire(a)
    BY <2>20 DEF AutoAcquire
  <2>21. CASE AutoDone(a)
    BY <2>21 DEF AutoDone
  <2>22. CASE Restore(a)
    BY <2>22 DEF Restore
  <2>23. CASE IdleStop(a)
    BY <2>23 DEF IdleStop
  <2> QED BY <1>2, <2>1, <2>2, <2>3, <2>4, <2>5, <2>6, <2>7, <2>8, <2>9,
         <2>10, <2>11, <2>12, <2>13, <2>14, <2>15, <2>16, <2>17, <2>18, <2>19,
         <2>20, <2>21, <2>22, <2>23 DEF OpenStep
<1>3. ASSUME NEW a \in Actors, Begin(a)
      PROVE  NoHealthPass'
  <2>1. CASE a \in Users /\ Start(a)
    BY <2>1 DEF Start
  <2>2. CASE a \in Users /\ Restart(a)
    BY <2>2 DEF Restart
  <2>3. CASE a \in Users /\ RequestStop(a)
    BY <2>3 DEF RequestStop
  <2>4. CASE a \in Wakers /\ Wake(a)
    BY <2>4 DEF Wake
  <2>5. CASE a \in Viewers \cup Watchdogs \cup Reconcilers /\ HealthFetch(a)
    BY <2>5 DEF HealthFetch
  <2>6. CASE a \in IdleWatchers /\ IdleCheck(a)
    BY <2>6 DEF IdleCheck
  <2> QED BY <1>3, <2>1, <2>2, <2>3, <2>4, <2>5, <2>6 DEF Begin
<1>4. ASSUME Environment
      PROVE  NoHealthPass'
  <2>1. ASSUME NEW p \in Pids, LauncherServes(p) \/ LauncherExits(p)
        PROVE  NoHealthPass'
    BY <2>1 DEF LauncherServes, LauncherExits
  <2>2. CASE ProcessCrash(UIThreads) \/ ProcessCrash(GatewayThreads)
    BY <2>2 DEF ProcessCrash
  <2>3. CASE StopExpires
    BY <2>3 DEF StopExpires
  <2> QED BY <1>4, <2>1, <2>2, <2>3 DEF Environment
<1>5. CASE UNCHANGED vars
  BY <1>5 DEF vars
<1> QED BY <1>1, <1>2, <1>3, <1>4, <1>5 DEF Next, Continue

\* The launcher on the port is the one its launch knows, and the one a RUNNING
\* row names: who writes the row holds the slot, and saves the pid it spawned
\* before anybody else can see the slot free.
LEMMA OwnedStep ==
  ASSUME MaxCrashes = 0, Viewers \cup Watchdogs \cup Reconcilers = {},
         Inv, NoHealthPass, LaunchOwnsIt, RunningOwnsIt, [Next]_vars
  PROVE  LaunchOwnsIt' /\ RunningOwnsIt'
<1> USE SlotAssumption DEF Inv, TypeOK, Row, SlotHeld, PortClear, NoHealthPass,
        HealthLabels, LaunchOwnsIt, RunningOwnsIt, Launchers, Critical, At, Go,
        For, Take, SlotFree, PersistStopOutcome
<1>1. ASSUME NEW a \in Actors, SlotStep(a)
      PROVE  LaunchOwnsIt' /\ RunningOwnsIt'
  <2>1. CASE RestartBegin(a)
    BY <2>1 DEF RestartBegin
  <2>2. CASE Prepare(a)
    BY <2>2 DEF Prepare
  <2>3. CASE LaunchCheck(a)
    <3>1. /\ \/ pc' = [pc EXCEPT ![a] = "release"]
             \/ pc' = [pc EXCEPT ![a] = "terminate"]
          /\ UNCHANGED <<proc, inst>>
      BY <2>3 DEF LaunchCheck
    <3>2. UNCHANGED row \/ row'.status = "STOPPED"
      BY <2>3 DEF LaunchCheck
    <3>3. \A b \in Actors : b # a =>
            pc[b] \notin {"spawn", "savePid", "wait", "warm", "mark"}
      BY <2>3 DEF LaunchCheck
    <3>4. pc[a] = "check" /\ Launchers' = Launchers
      BY <2>3, <3>1 DEF LaunchCheck
    <3>5. /\ pc'[a] \in {"release", "terminate"}
          /\ \A b \in Actors : b # a => pc'[b] = pc[b]
      BY <3>1
    <3>6. LaunchOwnsIt'
      BY <3>1, <3>3, <3>4, <3>5
    <3>7. RunningOwnsIt'
      BY <3>2, <3>3, <3>4, <3>5
    <3> QED BY <3>6, <3>7
  <2>4. CASE Terminate(a)
    <3>1. /\ \/ pc' = [pc EXCEPT ![a] = "release"]
             \/ pc' = [pc EXCEPT ![a] = "spawn"]
          /\ UNCHANGED inst
      BY <2>4 DEF Terminate
    <3>2. UNCHANGED row \/ row'.status = "FAILED"
      BY <2>4 DEF Terminate
    <3>3. \A b \in Actors : b # a =>
            pc[b] \notin {"spawn", "savePid", "wait", "warm", "mark"}
      BY <2>4 DEF Terminate
    <3>4. Launchers' \subseteq Launchers
      BY <2>4 DEF Terminate
    <3>5. pc[a] = "terminate"
      BY <2>4 DEF Terminate
    <3> QED BY <3>1, <3>2, <3>3, <3>4, <3>5
  <2>5. CASE Spawn(a)
    BY <2>5 DEF Spawn
  <2>6. CASE SpawnFails(a)
    BY <2>6 DEF SpawnFails
  <2>7. CASE SavePid(a)
    BY <2>7 DEF SavePid
  <2>8. CASE LaunchFails(a)
    BY <2>8 DEF LaunchFails
  <2>9. CASE LaunchCancelled(a)
    BY <2>9 DEF LaunchCancelled
  <2>10. CASE LaunchHealthy(a)
    BY <2>10 DEF LaunchHealthy
  <2>11. CASE LaunchWarm(a)
    BY <2>11 DEF LaunchWarm
  <2>12. CASE MarkRunning(a)
    BY <2>12 DEF MarkRunning
  <2>13. CASE AbortPersist(a)
    BY <2>13 DEF AbortPersist
  <2>14. CASE StopBegin(a)
    BY <2>14 DEF StopBegin
  <2>15. CASE Kill(a)
    BY <2>15 DEF Kill
  <2>16. CASE PersistStopped(a)
    BY <2>16 DEF PersistStopped
  <2>17. CASE PersistStopFailed(a)
    BY <2>17 DEF PersistStopFailed
  <2>18. CASE Release(a)
    BY <2>18 DEF Release, Resume
  <2> QED BY <1>1, <2>1, <2>2, <2>3, <2>4, <2>5, <2>6, <2>7, <2>8, <2>9,
         <2>10, <2>11, <2>12, <2>13, <2>14, <2>15, <2>16, <2>17, <2>18 DEF
         SlotStep
<1>2. ASSUME NEW a \in Actors, OpenStep(a)
      PROVE  LaunchOwnsIt' /\ RunningOwnsIt'
  <2>1. CASE StopNow(a)
    BY <2>1 DEF StopNow
  <2>2. CASE StopQueued(a)
    BY <2>2 DEF StopQueued
  <2>3. CASE WakeDecide(a)
    BY <2>3 DEF WakeDecide
  <2>4. CASE WakeAcquire(a)
    BY <2>4 DEF WakeAcquire
  <2>5. CASE WakeRelaunch(a)
    BY <2>5 DEF WakeRelaunch
  <2>6. CASE WakeTimeout(a)
    BY <2>6 DEF WakeTimeout
  <2>7. CASE WakeEnd(a)
    BY <2>7 DEF WakeEnd
  <2>8. CASE HealthProbe(a)
    BY <2>8 DEF HealthProbe
  <2>9. CASE HealthCheck(a)
    BY <2>9 DEF HealthCheck
  <2>10. CASE MarkGone(a)
    BY <2>10 DEF MarkGone
  <2>11. CASE SettleStop(a)
    BY <2>11 DEF SettleStop
  <2>12. CASE SettleProbe(a)
    BY <2>12 DEF SettleProbe
  <2>13. CASE SettleRun(a)
    BY <2>13 DEF SettleRun
  <2>14. CASE SettleFail(a)
    BY <2>14 DEF SettleFail
  <2>15. CASE Evaluate(a)
    BY <2>15 DEF Evaluate
  <2>16. CASE WriteDown(a)
    BY <2>16 DEF WriteDown
  <2>17. CASE Converge(a)
    BY <2>17 DEF Converge
  <2>18. CASE ConvergeStop(a)
    BY <2>18 DEF ConvergeStop
  <2>19. CASE Candidates(a)
    BY <2>19 DEF Candidates
  <2>20. CASE AutoAcquire(a)
    BY <2>20 DEF AutoAcquire
  <2>21. CASE AutoDone(a)
    BY <2>21 DEF AutoDone
  <2>22. CASE Restore(a)
    BY <2>22 DEF Restore
  <2>23. CASE IdleStop(a)
    BY <2>23 DEF IdleStop
  <2> QED BY <1>2, <2>1, <2>2, <2>3, <2>4, <2>5, <2>6, <2>7, <2>8, <2>9,
         <2>10, <2>11, <2>12, <2>13, <2>14, <2>15, <2>16, <2>17, <2>18, <2>19,
         <2>20, <2>21, <2>22, <2>23 DEF OpenStep
<1>3. ASSUME NEW a \in Actors, Begin(a)
      PROVE  LaunchOwnsIt' /\ RunningOwnsIt'
  <2>1. CASE a \in Users /\ Start(a)
    BY <2>1 DEF Start
  <2>2. CASE a \in Users /\ Restart(a)
    BY <2>2 DEF Restart
  <2>3. CASE a \in Users /\ RequestStop(a)
    BY <2>3 DEF RequestStop
  <2>4. CASE a \in Wakers /\ Wake(a)
    BY <2>4 DEF Wake
  <2>5. CASE a \in Viewers \cup Watchdogs \cup Reconcilers /\ HealthFetch(a)
    BY <2>5 DEF HealthFetch
  <2>6. CASE a \in IdleWatchers /\ IdleCheck(a)
    BY <2>6 DEF IdleCheck
  <2> QED BY <1>3, <2>1, <2>2, <2>3, <2>4, <2>5, <2>6 DEF Begin
<1>4. ASSUME Environment
      PROVE  LaunchOwnsIt' /\ RunningOwnsIt'
  <2>1. ASSUME NEW p \in Pids, LauncherServes(p) \/ LauncherExits(p)
        PROVE  LaunchOwnsIt' /\ RunningOwnsIt'
    BY <2>1 DEF LauncherServes, LauncherExits
  <2>2. CASE ProcessCrash(UIThreads) \/ ProcessCrash(GatewayThreads)
    BY <2>2 DEF ProcessCrash
  <2>3. CASE StopExpires
    BY <2>3 DEF StopExpires
  <2> QED BY <1>4, <2>1, <2>2, <2>3 DEF Environment
<1>5. CASE UNCHANGED vars
  BY <1>5 DEF vars
<1> QED BY <1>1, <1>2, <1>3, <1>4, <1>5 DEF Next, Continue
-----------------------------------------------------------------------------
\* The invariant that carries the theorems.
LEMMA Invariant == Spec => []Inv
<1>1. Init => Inv
  <2> SUFFICES ASSUME Init
               PROVE  Inv
    OBVIOUS
  <2>1. TypeOK
    BY SlotAssumption DEF Init, TypeOK, Row, Status, Labels, Purposes, Blank
  <2>2. Roles /\ Purposeful /\ RetryRoom /\ SlotHeld /\ PortClear
    BY DEF Init, Roles, Purposeful, RetryRoom, SlotHeld, PortClear, Critical,
           Actors, GatewayThreads
  <2>3. AtMostOneLauncher
    BY DEF Init, AtMostOneLauncher, Launchers
  <2> QED BY <2>1, <2>2, <2>3 DEF Inv
<1>2. Inv /\ [Next]_vars => Inv'
  BY TypeStep, RolesStep, PurposefulStep, RetryRoomStep, SlotHeldStep,
     PortClearStep, LauncherStep
  DEF Inv
<1> QED BY <1>1, <1>2, PTL DEF Spec

\* Type correctness, the retry budget included: every thread of the UI and the
\* gateway keeps the row, the locks and its own state in range.
THEOREM TypeCorrect == Spec => []TypeOK
<1>1. Inv => TypeOK
  BY DEF Inv
<1> QED BY <1>1, Invariant, PTL

\* The slot lock of instance_locks.py is enough: whatever starts, stops, wakes,
\* repairs and crashes, the port never has two launchers.
THEOREM OneLauncher == Spec => []AtMostOneLauncher
<1>1. Inv => AtMostOneLauncher
  BY DEF Inv
<1> QED BY <1>1, Invariant, PTL

\* Under the slot, restart_instance(automatic=True) never turns a stop back.
THEOREM IntentKept == Spec => AutoRestartKeepsIntent
<1>1. Inv /\ [Next]_vars => [KeepsIntent]_vars
  BY IntentStep DEF Inv
<1> QED BY <1>1, Invariant, PTL DEF Spec, AutoRestartKeepsIntent, KeepsIntent

\* Unless a process that starts instances crashes, a launcher that loads its
\* weights has its starter beside it with the slot.
THEOREM LoadsHaveStarters ==
  ASSUME MaxCrashes = 0
  PROVE  Spec => []LoadHasStarter
<1>1. Init => LoadHasStarter
  BY DEF Init, LoadHasStarter
<1>2. Inv /\ LoadHasStarter /\ [Next]_vars => LoadHasStarter'
  BY LoadStep, MaxCrashes = 0
<1> QED BY <1>1, <1>2, Invariant, PTL DEF Spec
\* The port's pid and the row agree between transitions: with starters, stops,
\* wakes and idle offload in any order, a RUNNING row whose slot is free names
\* the only launcher there is, so that the next stop or restart acts on it.
\* The hypotheses are those of the run slot_actors: a starter's crash may leave
\* a launcher no row names, and the health pass writes rows without the slot.
THEOREM RowOwnsLauncher ==
  ASSUME MaxCrashes = 0, Viewers \cup Watchdogs \cup Reconcilers = {}
  PROVE  Spec => []RunningRowOwnsLauncher
<1>1. Init => Owned
  BY DEF Init, Owned, NoHealthPass, HealthLabels, LaunchOwnsIt, RunningOwnsIt
<1>2. Inv /\ Owned /\ [Next]_vars => Owned'
  BY NoHealthStep, OwnedStep, MaxCrashes = 0,
     Viewers \cup Watchdogs \cup Reconcilers = {} DEF Inv, Owned
<1>3. Inv /\ Owned => RunningRowOwnsLauncher
  BY SlotAssumption DEF Inv, TypeOK, SlotHeld, Critical, Owned, RunningOwnsIt,
     RunningRowOwnsLauncher, SlotFree
<1> QED BY <1>1, <1>2, <1>3, Invariant, PTL DEF Spec
=============================================================================
