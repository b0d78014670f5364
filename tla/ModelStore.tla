----------------------------- MODULE ModelStore -----------------------------
(***************************************************************************)
(* A model on disk and what refers to it: its download (downloader.py), a  *)
(* benchmark of it (benchmark_service.py, quality_benchmark_service.py),   *)
(* the rows of its instances, and its deletion (model_lifecycle.py).       *)
(* Downloads, benchmarks and deletions run in threads of the process that  *)
(* was asked for them and end with it; the gateway's watchdog fails the    *)
(* benchmarks whose process is dead.  One benchmark exists at a time, of   *)
(* one phase or complete, in which case it has two child runs.             *)
(***************************************************************************)
EXTENDS Routing

VARIABLES
  folder,     \* "absent", "partial", "whole"
  download,   \* status of the download's row, or "none"
  fetching,   \* the threads that download: the process of each, and whether
              \* its row is still there
  run,        \* status of each benchmark row, or "none"
  complete,   \* the benchmark is a complete one
  bench,      \* None, or the process of the benchmark's thread
  runner,     \* the process recorded in its rows
  target,     \* None, or [instance, named, lost]: the instance its rows refer
              \* to, whether their model_id is the name of the model's folder, and
              \* whether the instance was deleted after the thread had read it
  orphans,    \* rows the watchdog has read and not yet looked at
  deletion    \* None, or [by, at, rows, holds, folder] of the deletion in progress

downloads == <<download, fetching>>
subject == <<complete, runner, target>>
benchmarks == <<run, bench, subject, orphans>>
store == <<folder, downloads, benchmarks, deletion>>

Children == {"perf", "quality"}
Runs == Children \cup {"parent"}
Unfinished == {"PENDING", "RUNNING"}
Unended == {r \in Runs : run[r] \in Unfinished}
NoRuns == [r \in Runs |-> "none"]

StoreInit(f) ==
  /\ folder = f /\ download = "none" /\ fetching = {}
  /\ run = NoRuns /\ complete = FALSE /\ bench = None /\ runner = None /\ target = None
  /\ orphans = {} /\ deletion = None

-----------------------------------------------------------------------------
(* Downloads. *)

\* start_model_download: a row that is DOWNLOADING is returned as it is.
StartDownload(p) ==
  /\ folder # "whole" => download # "DOWNLOADING"
  /\ IF folder = "whole"
       THEN download' = "COMPLETED" /\ UNCHANGED fetching
       ELSE download' = "DOWNLOADING" /\ fetching' = fetching \cup {[by |-> p, saves |-> TRUE]}
  /\ UNCHANGED <<folder, benchmarks, deletion>>

\* snapshot_download (external)
Fetch ==
  /\ fetching # {}
  /\ \/ folder = "absent" /\ folder' = "partial"
     \/ folder = "partial" /\ folder' = "whole"
  /\ UNCHANGED <<downloads, benchmarks, deletion>>

\* _download_thread ends, whether snapshot_download returned or raised.  Of a
\* row that was deleted meanwhile nothing can be saved.
EndDownload ==
  /\ \E t \in fetching :
       /\ fetching' = fetching \ {t}
       /\ download' = IF ~t.saves THEN download
                      ELSE IF folder = "whole" THEN "COMPLETED" ELSE "FAILED"
  /\ UNCHANGED <<folder, benchmarks, deletion>>

-----------------------------------------------------------------------------
(* Benchmarks. *)

SetRun(r, status) == run' = [run EXCEPT ![r] = status]

\* _resolve_target of an instance, and resolve_benchmark_model_id: an alias of
\* the instance, or what the user typed.
Targets ==
  [instance : {i \in Instances : Is(i, {"RUNNING"})}, named : BOOLEAN, lost : {FALSE}]

\* The rows that are found by the model.
Linked == target # None /\ (target.named \/ target.instance # None)

\* start_benchmark
StartBenchmark(p) ==
  /\ run = NoRuns /\ bench = None /\ target' \in Targets
  /\ SetRun("parent", "PENDING") /\ complete' \in BOOLEAN
  /\ bench' = p /\ runner' = p
  /\ UNCHANGED <<folder, downloads, orphans, deletion>>

\* _complete_thread, or the only phase, sets its run RUNNING.
BeginRun(r) ==
  /\ bench # None /\ run[r] = "PENDING" /\ SetRun(r, "RUNNING")
  /\ UNCHANGED <<folder, downloads, bench, subject, orphans, deletion>>

NextChild == IF run["perf"] = "none" THEN "perf" ELSE "quality"

\* _create_child_run, which raises when the instance was deleted since the thread
\* read its row; nobody catches it, and the thread is gone.
CreateChild ==
  /\ bench # None /\ complete /\ run["parent"] = "RUNNING" /\ run[NextChild] = "none"
  /\ NextChild = "quality" => run["perf"] = "COMPLETED"
  /\ IF target.lost THEN bench' = None /\ UNCHANGED run
     ELSE SetRun(NextChild, "PENDING") /\ UNCHANGED bench
  /\ UNCHANGED <<folder, downloads, subject, orphans, deletion>>

\* execute_perf_benchmark: its scenarios ran and their results are on disk, or
\* something raised.
PerfOutcome == {"COMPLETED", "FAILED"}

\* execute_quality_benchmark: either of the two suites may fail, but not both,
\* and the results must be on disk.
QualityOutcome ==
  {IF (industry \/ platform) /\ written THEN "COMPLETED" ELSE "FAILED" :
     industry, platform, written \in BOOLEAN}

EndChild(r) ==
  /\ bench # None /\ run[r] = "RUNNING"
  /\ \E status \in IF r = "perf" THEN PerfOutcome ELSE QualityOutcome : SetRun(r, status)
  /\ UNCHANGED <<folder, downloads, bench, subject, orphans, deletion>>

EndParent ==
  /\ bench # None /\ run["parent"] = "RUNNING"
  /\ \/ ~complete /\ \E status \in PerfOutcome \cup QualityOutcome : SetRun("parent", status)
     \/ complete /\ (\E r \in Children : run[r] = "FAILED") /\ SetRun("parent", "FAILED")
     \/ complete /\ run["quality"] = "COMPLETED" /\ SetRun("parent", "COMPLETED")
  /\ bench' = None
  /\ UNCHANGED <<folder, downloads, subject, orphans, deletion>>

Bench ==
  \/ EndParent
  \/ BeginRun("parent")
  \/ CreateChild
  \/ \E r \in Children : BeginRun(r) \/ EndChild(r)

\* Mutation: a run that never began is not looked for.
ReadBegun ==
  /\ orphans = {} /\ orphans' = {r \in Runs : run[r] = "RUNNING"} /\ orphans' # {}
  /\ UNCHANGED <<folder, downloads, run, bench, subject, deletion>>

\* fail_orphaned_benchmark_runs reads the unfinished rows,
ReadUnended ==
  /\ orphans = {} /\ Unended # {} /\ orphans' = Unended
  /\ UNCHANGED <<folder, downloads, run, bench, subject, deletion>>

\* and fails those whose runner is dead, as they were read: a run that ended in
\* between is failed all the same, and one that was deleted ends the cycle.
FailOrphan(r, alive) ==
  /\ r \in orphans
  /\ \/ alive /\ orphans' = orphans \ {r} /\ UNCHANGED run
     \/ ~alive /\ run[r] = "none" /\ orphans' = {} /\ UNCHANGED run
     \/ ~alive /\ run[r] # "none" /\ orphans' = orphans \ {r} /\ SetRun(r, "FAILED")
  /\ UNCHANGED <<folder, downloads, bench, subject, deletion>>

\* delete_benchmark_run
DeleteRuns ==
  /\ run["parent"] \notin Unfinished \cup {"none"} /\ run' = NoRuns /\ target' = None
  /\ UNCHANGED <<folder, downloads, bench, complete, runner, orphans, deletion>>

-----------------------------------------------------------------------------
(* delete_installed_model. *)

\* Its checks, and the rows and the folder it goes on with.
StartDeletion(p) ==
  /\ deletion = None /\ download # "DOWNLOADING" /\ (Linked => Unended = {})
  /\ folder # "absent" \/ RowIds # {} \/ download # "none" \/ Linked
  /\ deletion' = [by |-> p, at |-> "instances", rows |-> RowIds, holds |-> None,
                  folder |-> folder # "absent"]
  /\ UNCHANGED <<folder, downloads, benchmarks>>

At(step) == deletion # None /\ deletion.at = step
GoTo(step) == deletion' = [deletion EXCEPT !.at = step]

\* SET_NULL of BenchmarkRun.instance, when its row is deleted.
Unlink(i) ==
  /\ target' = IF target # None /\ target.instance = i
               THEN [target EXCEPT !.instance = None, !.lost = run["parent"] # "PENDING"]
               ELSE target
  /\ UNCHANGED <<complete, runner>>

\* delete_instance of each row that was read, one after the other.
StartInstance(i) ==
  /\ At("instances") /\ deletion.holds = None /\ i \in deletion.rows
  /\ StartDeleting(i, deletion.by) /\ deletion' = [deletion EXCEPT !.holds = i]
  /\ UNCHANGED <<folder, downloads, benchmarks>>

Deletes(i, p) == deletion # None /\ deletion.by = p /\ deletion.holds = i

EndInstance(i) ==
  /\ At("instances") /\ Deletes(i, deletion.by) /\ DeleteRow(i, deletion.by) /\ Unlink(i)
  /\ deletion' = [deletion EXCEPT !.rows = @ \ {i}, !.holds = None]
  /\ UNCHANGED <<folder, downloads, run, bench, orphans>>

\* It raises, and the deletion of the model ends there, when the instance does not
\* stop and its row is left FAILED, when its slot stays busy, and when somebody
\* else has deleted it meanwhile.
FailInstance(i) ==
  /\ At("instances") /\ deletion.holds = None /\ i \in deletion.rows
  /\ \/ Stop(i, deletion.by) /\ rows'[i].status = "FAILED"
     \/ (slot[i] # None \/ ~Exists(i)) /\ UNCHANGED routing
  /\ deletion' = None /\ UNCHANGED <<folder, downloads, benchmarks>>

InstancesGone ==
  /\ At("instances") /\ deletion.rows = {} /\ GoTo("runs")
  /\ UNCHANGED <<folder, downloads, benchmarks>>

\* The thread of a download goes on without its row.
ForgetDownload ==
  download' = "none" /\ fetching' = {[t EXCEPT !.saves = FALSE] : t \in fetching}

\* Mutation: a run that began since the check is deleted too.
RemoveAllRuns ==
  /\ At("runs") /\ run' = NoRuns /\ target' = None /\ GoTo("folder") /\ ForgetDownload
  /\ UNCHANGED <<folder, complete, bench, runner, orphans>>

\* delete_benchmark_runs_for_model, which raises on a run that began since the
\* check and leaves the rest; then the rows of the download.  The instances are
\* gone by now: a run is found by its model_id only, and stays if that is an
\* alias other than the folder's name.
RemoveRuns ==
  /\ At("runs")
  /\ IF Linked /\ run["parent"] \in Unfinished
       THEN deletion' = None /\ UNCHANGED <<run, target, downloads>>
       ELSE /\ GoTo("folder") /\ ForgetDownload
            /\ IF Linked THEN run' = NoRuns /\ target' = None ELSE UNCHANGED <<run, target>>
  /\ UNCHANGED <<folder, complete, bench, runner, orphans>>

RemoveFolder ==
  /\ At("folder") /\ deletion' = None
  /\ folder' = IF deletion.folder THEN "absent" ELSE folder
  /\ UNCHANGED <<downloads, benchmarks>>

Delete ==
  \/ \E i \in Instances : StartInstance(i) \/ EndInstance(i) \/ FailInstance(i)
  \/ InstancesGone /\ UNCHANGED routing
  \/ RemoveRuns /\ UNCHANGED routing
  \/ RemoveFolder /\ UNCHANGED routing

\* Processes end, and their threads with them.
StoreLoses(ps, watchdog) ==
  /\ fetching' = {t \in fetching : t.by \notin ps}
  /\ bench' = IF bench \in ps THEN None ELSE bench
  /\ deletion' = IF deletion # None /\ deletion.by \in ps THEN None ELSE deletion
  /\ orphans' = IF watchdog THEN {} ELSE orphans
  /\ UNCHANGED <<folder, download, run, subject>>

-----------------------------------------------------------------------------
\* Nobody takes a benchmark away from the thread that is running it: while the
\* thread lives, its row is neither failed by the watchdog, which reads the rows
\* first and looks for their process later, nor deleted with the model, whose
\* deletion checked before the benchmark began.
LiveRunKeepsItsRow == bench # None => run["parent"] \in Unfinished
=============================================================================
