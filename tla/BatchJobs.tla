----------------------------- MODULE BatchJobs -----------------------------
(***************************************************************************)
(* The gateway's Files + Batches API (batch_services.py) and the workers   *)
(* that drain it: the thread in the gateway process                        *)
(* (gateway_batch_worker.py) and the process_gateway_batches command.      *)
(*                                                                         *)
(* One step is one database statement or one file operation: a request     *)
(* handler (`client`) and a worker (`pc`) interleave between any two.      *)
(* Blobs count their lines; a line's result is "ok" or "bad".  Time is     *)
(* abstract: any terminal job may have outlived its retention.             *)
(***************************************************************************)
EXTENDS Integers, Sequences, FiniteSets

CONSTANTS
  Gateway,    \* the gateway process
  Commands,   \* shells that run process_gateway_batches
  Clients,    \* request handlers of the gateway
  Uploads,    \* files a client may upload
  SideFiles,  \* ids for the output and error files of jobs
  Lines,      \* requests in an upload, 0 when it does not parse
  None,
  NumJobs, MaxRequests, MaxRuns, MaxMishaps  \* bounds

Workers == Commands \cup {Gateway}
Files == Uploads \cup SideFiles
Jobs == 1 .. NumJobs  \* in order of creation

ASSUME BatchAssumption ==
  /\ Gateway \notin Commands
  /\ None \notin Workers \cup Files \cup Jobs
  /\ Uploads \cap SideFiles = {}
  /\ Lines \in [Uploads -> Nat]
  /\ {NumJobs, MaxRequests, MaxRuns, MaxMishaps} \subseteq Nat

VARIABLES
  status,  \* of the GatewayBatchJob rows
  job,     \* the rest of those rows
  record,  \* GatewayBatchFile rows
  blob,    \* files present in the store
  size,    \* lines of each blob
  fresh,   \* ids no file has had yet
  lock,    \* holder of gateway-batch-worker.lock
  pc,      \* where each worker is
  stale,   \* the worker has still to look for stale jobs
  purging, \* files of the job it has deleted
  run,     \* the job it runs: its counters and the line being stored
  client,  \* where each request handler is
  used,    \* requests, command runs, and crashes and faults so far
  erased,  \* history: files a client's delete has unlinked
  spoiled  \* history: jobs that had such a file as output or errors

jobs == <<status, job>>
store == <<record, blob, size, fresh>>
work == <<stale, purging, run>>
machine == <<lock, pc, work>>
history == <<erased, spoiled>>
vars == <<jobs, store, machine, client, used, history>>

Live == {"validating", "in_progress", "cancelling"}
Running == {"in_progress", "cancelling"}
Terminal == {"completed", "failed", "cancelled"}

NoJob == [input |-> None, output |-> None, error |-> None,
          total |-> 0, ok |-> 0, bad |-> 0, by |-> None]
NoRun == [job |-> None, left |-> 0, ok |-> 0, bad |-> 0, result |-> "ok", side |-> None]
Free == [pc |-> "idle", file |-> None, job |-> None]

Init ==
  /\ status = [j \in Jobs |-> "none"] /\ job = [j \in Jobs |-> NoJob]
  /\ record = {} /\ blob = {} /\ size = [f \in Files |-> 0] /\ fresh = Files
  /\ lock = None
  /\ pc = [w \in Workers |-> "off"] /\ stale = [w \in Workers |-> FALSE]
  /\ purging = [w \in Workers |-> <<>>] /\ run = [w \in Workers |-> NoRun]
  /\ client = [c \in Clients |-> Free]
  /\ used = [requests |-> 0, runs |-> 0, mishaps |-> 0]
  /\ erased = {} /\ spoiled = {}

-----------------------------------------------------------------------------
(* The store. *)

WithStatus(s) == {j \in Jobs : status[j] \in s}
Exists(j) == status[j] \notin {"none", "deleted"}
InputOf(f) == {j \in Jobs : Exists(j) /\ job[j].input = f}
SideOf(f) == {j \in Jobs : Exists(j) /\ f \in {job[j].output, job[j].error}}

\* input_file is PROTECT: deleting a file some job reads raises ProtectedError.
Protected(f) == InputOf(f) # {}
StillReferenced(f) == InputOf(f) \cup SideOf(f) # {}

\* output_file and error_file are SET_NULL.
DeleteRow(f) ==
  /\ record' = record \ {f}
  /\ job' = [j \in Jobs |-> [job[j] EXCEPT !.output = IF @ = f THEN None ELSE @,
                                           !.error = IF @ = f THEN None ELSE @]]

Unlink(f) ==
  /\ blob' = blob \ {f}
  /\ size' = [size EXCEPT ![f] = 0]

SetStatus(j, s) == status' = [status EXCEPT ![j] = s]
Count(what) == used' = [used EXCEPT ![what] = @ + 1]

-----------------------------------------------------------------------------
(* Request handlers.  They run in the gateway process and end with it. *)

Up == pc[Gateway] # "off"
Request(c) ==
  /\ Up /\ client[c].pc = "idle"
  /\ used.requests < MaxRequests /\ Count("requests")

Answer(c) == client' = [client EXCEPT ![c] = Free]
Go(c, label) == client' = [client EXCEPT ![c].pc = label]
Hold(c, label, f, j) ==
  client' = [client EXCEPT ![c] = [pc |-> label, file |-> f, job |-> j]]

\* The blob is written first, but nobody can name it before its record exists.
Upload(c, f) ==
  /\ Up /\ client[c].pc = "idle" /\ f \in fresh
  /\ record' = record \cup {f} /\ blob' = blob \cup {f}
  /\ size' = [size EXCEPT ![f] = Lines[f]]
  /\ fresh' = fresh \ {f}
  /\ UNCHANGED <<jobs, machine, client, used, history>>

\* create_batch_job reads the file's row, then inserts the job.
Creating == {c \in Clients : client[c].pc = "create"}

CreateBegin(c, f) ==
  /\ Request(c) /\ f \in record
  /\ Cardinality(Creating) < Cardinality(WithStatus({"none"}))  \* bound
  /\ Hold(c, "create", f, None)
  /\ UNCHANGED <<jobs, store, machine, history>>

NextJob(j) == \A k \in Jobs : status[k] = "none" <=> k >= j

\* The foreign key refuses the row when the file has gone.
CreateEnd(c) ==
  /\ client[c].pc = "create" /\ Answer(c)
  /\ IF client[c].file \in record
       THEN \E j \in Jobs :
              /\ NextJob(j) /\ SetStatus(j, "validating")
              /\ job' = [job EXCEPT ![j] = [NoJob EXCEPT !.input = client[c].file]]
       ELSE UNCHANGED jobs
  /\ UNCHANGED <<store, machine, used, history>>

\* delete_batch_file looks for jobs that read the file, unlinks the blob, then
\* deletes the row.
DeleteBegin(c, f) ==
  /\ Request(c) /\ f \in record /\ ~Protected(f)
  /\ Hold(c, "unlink", f, None)
  /\ UNCHANGED <<jobs, store, machine, history>>

DeleteBlob(c) ==
  /\ client[c].pc = "unlink"
  /\ Unlink(client[c].file) /\ Go(c, "delete")
  /\ erased' = erased \cup {client[c].file}
  /\ spoiled' = spoiled \cup SideOf(client[c].file)
  /\ UNCHANGED <<jobs, record, fresh, machine, used>>

DeleteRecord(c) ==
  /\ client[c].pc = "delete" /\ Answer(c)
  /\ IF Protected(client[c].file) THEN UNCHANGED <<job, record>>
     ELSE DeleteRow(client[c].file)
  /\ UNCHANGED <<status, blob, size, fresh, machine, used, history>>

\* cancel_batch_job: read the row, then two compare-and-set updates.
CancelBegin(c, j) ==
  /\ Request(c) /\ status[j] \in {"validating", "in_progress"}
  /\ Hold(c, "cancelQueued", None, j)
  /\ UNCHANGED <<jobs, store, machine, history>>

CancelQueued(c) ==
  /\ client[c].pc = "cancelQueued"
  /\ IF status[client[c].job] = "validating"
       THEN SetStatus(client[c].job, "cancelled") /\ Answer(c)
       ELSE UNCHANGED status /\ Go(c, "cancelRunning")
  /\ UNCHANGED <<job, store, machine, used, history>>

CancelRunning(c) ==
  /\ client[c].pc = "cancelRunning" /\ Answer(c)
  /\ IF status[client[c].job] = "in_progress"
       THEN SetStatus(client[c].job, "cancelling")
       ELSE UNCHANGED status
  /\ UNCHANGED <<job, store, machine, used, history>>

-----------------------------------------------------------------------------
(* Workers: one cycle under the worker lock. *)

At(w, label) == pc[w] = label
Goto(w, label) == pc' = [pc EXCEPT ![w] = label]

\* Mutation: a new gateway does not look for stale jobs.
StartTrusting(w) ==
  /\ At(w, "off") /\ Goto(w, "idle")
  /\ IF w = Gateway THEN stale' = [stale EXCEPT ![w] = FALSE] /\ UNCHANGED used
     ELSE /\ used.runs < MaxRuns /\ Count("runs")
          /\ \E s \in BOOLEAN : stale' = [stale EXCEPT ![w] = s]
  /\ UNCHANGED <<jobs, store, lock, purging, run, client, history>>

\* _reconcile_stale_pending is set in a new gateway; the command has an option.
Start(w) ==
  /\ At(w, "off") /\ Goto(w, "idle")
  /\ IF w = Gateway THEN stale' = [stale EXCEPT ![w] = TRUE] /\ UNCHANGED used
     ELSE /\ used.runs < MaxRuns /\ Count("runs")
          /\ \E s \in BOOLEAN : stale' = [stale EXCEPT ![w] = s]
  /\ UNCHANGED <<jobs, store, lock, purging, run, client, history>>

\* Only the gateway's cycle purges.
AfterReconcile(w) == IF w = Gateway THEN "purge" ELSE "pick"

\* Mutation: the cycle goes on without the lock.
TakeShared(w) ==
  /\ At(w, "idle")
  /\ lock' = w
  /\ Goto(w, IF stale[w] THEN "reconcile" ELSE AfterReconcile(w))
  /\ UNCHANGED <<jobs, store, work, client, used, history>>

Take(w) ==
  /\ At(w, "idle") /\ lock = None
  /\ lock' = w
  /\ Goto(w, IF stale[w] THEN "reconcile" ELSE AfterReconcile(w))
  /\ UNCHANGED <<jobs, store, work, client, used, history>>

\* BatchWorkerBusy: the command exits, the gateway waits for its next cycle.
Busy(w) ==
  /\ w # Gateway /\ At(w, "idle") /\ lock # None
  /\ Goto(w, "off")
  /\ UNCHANGED <<jobs, store, lock, work, client, used, history>>

Release(w) ==
  /\ At(w, "end")
  /\ lock' = None
  /\ Goto(w, IF w = Gateway THEN "idle" ELSE "off")
  /\ run' = [run EXCEPT ![w] = NoRun]
  /\ UNCHANGED <<jobs, store, stale, purging, client, used, history>>

Reconcile(w) ==
  /\ At(w, "reconcile") /\ Goto(w, AfterReconcile(w))
  /\ stale' = [stale EXCEPT ![w] = FALSE]
  /\ status' = [j \in Jobs |-> IF status[j] = "in_progress" THEN "failed" ELSE status[j]]
  /\ UNCHANGED <<job, store, lock, purging, run, client, used, history>>

-----------------------------------------------------------------------------
(* Retention. *)

PurgeJob(w, j) ==
  /\ At(w, "purge") /\ Goto(w, "purgeFile")
  /\ status[j] \in Terminal /\ SetStatus(j, "deleted")
  /\ purging' = [purging EXCEPT ![w] = <<job[j].input, job[j].output, job[j].error>>]
  /\ UNCHANGED <<job, store, lock, stale, run, client, used, history>>

PurgeDone(w) ==
  /\ At(w, "purge") /\ Goto(w, "pick")
  /\ UNCHANGED <<jobs, store, lock, work, client, used, history>>

NextFile(w) ==
  /\ purging' = [purging EXCEPT ![w] = Tail(@)]
  /\ Goto(w, IF Len(purging[w]) = 1 THEN "purge" ELSE "purgeFile")

PurgeFile(w) ==
  /\ At(w, "purgeFile")
  /\ IF Head(purging[w]) = None \/ StillReferenced(Head(purging[w]))
       THEN NextFile(w)
       ELSE Goto(w, "purgeRecord") /\ UNCHANGED purging
  /\ UNCHANGED <<jobs, store, lock, stale, run, client, used, history>>

GiveUp(w) == purging' = [purging EXCEPT ![w] = <<>>] /\ Goto(w, "purge")

\* Mutation: the blob goes before the row.
PurgeBlobFirst(w) ==
  /\ At(w, "purgeRecord") /\ Unlink(Head(purging[w]))
  /\ IF Protected(Head(purging[w]))
       THEN GiveUp(w) /\ UNCHANGED <<job, record>>
       ELSE DeleteRow(Head(purging[w])) /\ Goto(w, "purgeBlob") /\ UNCHANGED purging
  /\ UNCHANGED <<status, fresh, lock, stale, run, client, used, history>>

\* A job that took the file meanwhile protects it: the error ends this job's purge.
PurgeRecord(w) ==
  /\ At(w, "purgeRecord")
  /\ IF Protected(Head(purging[w]))
       THEN GiveUp(w) /\ UNCHANGED <<job, record>>
       ELSE DeleteRow(Head(purging[w])) /\ Goto(w, "purgeBlob") /\ UNCHANGED purging
  /\ UNCHANGED <<status, blob, size, fresh, lock, stale, run, client, used, history>>

PurgeBlob(w) ==
  /\ At(w, "purgeBlob")
  /\ Unlink(Head(purging[w])) /\ NextFile(w)
  /\ UNCHANGED <<jobs, record, fresh, lock, stale, run, client, used, history>>

-----------------------------------------------------------------------------
(* One job. *)

Queued == WithStatus({"validating"})
Oldest(js) == CHOOSE j \in js : \A k \in js : j <= k

\* After a job the command may go on to another one (--max-jobs).
AfterJob(w) == IF w = Gateway THEN {"end"} ELSE {"end", "pick"}

\* Mutation: the oldest job that has not ended.
PickUnended(w) ==
  /\ At(w, "pick")
  /\ IF WithStatus(Live) = {} THEN Goto(w, "end") /\ UNCHANGED run
     ELSE Goto(w, "claim") /\ run' = [run EXCEPT ![w].job = Oldest(WithStatus(Live))]
  /\ UNCHANGED <<jobs, store, lock, stale, purging, client, used, history>>

Pick(w) ==
  /\ At(w, "pick")
  /\ IF Queued = {} THEN Goto(w, "end") /\ UNCHANGED run
     ELSE Goto(w, "claim") /\ run' = [run EXCEPT ![w].job = Oldest(Queued)]
  /\ UNCHANGED <<jobs, store, lock, stale, purging, client, used, history>>

TakeOver(w, j) ==
  /\ SetStatus(j, "in_progress")
  /\ job' = [job EXCEPT ![j].by = w]
  /\ Goto(w, "load")

\* Mutation: the claim does not look at the status again.
ClaimAnyway(w) ==
  /\ At(w, "claim") /\ TakeOver(w, run[w].job)
  /\ UNCHANGED <<store, lock, work, client, used, history>>

Claim(w) ==
  /\ At(w, "claim")
  /\ IF status[run[w].job] = "validating" THEN TakeOver(w, run[w].job)
     ELSE UNCHANGED jobs /\ \E label \in {"pick", "end"} : Goto(w, label)
  /\ UNCHANGED <<store, lock, work, client, used, history>>

\* A job whose cancellation came in first is left as it is.
Load(w) ==
  /\ At(w, "load")
  /\ IF status[run[w].job] = "in_progress" THEN Goto(w, "read")
     ELSE \E label \in AfterJob(w) : Goto(w, label)
  /\ UNCHANGED <<jobs, store, lock, work, client, used, history>>

Read(w) ==
  /\ At(w, "read")
  /\ LET j == run[w].job
         f == job[j].input
     IN IF f \in blob /\ size[f] > 0
          THEN /\ Goto(w, "line")
               /\ run' = [run EXCEPT ![w].left = size[f], ![w].ok = 0, ![w].bad = 0]
               /\ job' = [job EXCEPT ![j].total = size[f]]
          ELSE Goto(w, "fail") /\ UNCHANGED <<run, job>>
  /\ UNCHANGED <<status, store, lock, stale, purging, client, used, history>>

\* The next line to finish, in whatever order: its counters are the worker's own.
Line(w) ==
  /\ At(w, "line") /\ Goto(w, "open")
  /\ \/ run' = [run EXCEPT ![w].result = "ok", ![w].left = @ - 1, ![w].ok = @ + 1]
     \/ run' = [run EXCEPT ![w].result = "bad", ![w].left = @ - 1, ![w].bad = @ + 1]
  /\ UNCHANGED <<jobs, store, lock, stale, purging, client, used, history>>

\* new_file_id: any id not yet given.
NewFile == CHOOSE f \in SideFiles : f \in fresh

\* The job's side file, created with an empty blob on its first line.
CreateSide(j, r, f) ==
  /\ SideFiles \cap fresh # {}  \* bound
  /\ record' = record \cup {f} /\ blob' = blob \cup {f} /\ fresh' = fresh \ {f}
  /\ job' = IF r = "ok" THEN [job EXCEPT ![j].output = f] ELSE [job EXCEPT ![j].error = f]
  /\ UNCHANGED size

SideFile(j, r) == IF r = "ok" THEN job[j].output ELSE job[j].error

\* Mutation: every line gets a file of its own.
OpenSideAnew(w) ==
  /\ At(w, "open") /\ Goto(w, "append")
  /\ CreateSide(run[w].job, run[w].result, NewFile)
  /\ run' = [run EXCEPT ![w].side = NewFile]
  /\ UNCHANGED <<status, lock, stale, purging, client, used, history>>

OpenSide(w) ==
  /\ At(w, "open") /\ Goto(w, "append")
  /\ LET f == SideFile(run[w].job, run[w].result) IN
       IF f # None
         THEN run' = [run EXCEPT ![w].side = f] /\ UNCHANGED <<job, store>>
         ELSE /\ CreateSide(run[w].job, run[w].result, NewFile)
              /\ run' = [run EXCEPT ![w].side = NewFile]
  /\ UNCHANGED <<status, lock, stale, purging, client, used, history>>

\* Opening to append creates a blob that has been unlinked.
AppendLine(w) ==
  /\ At(w, "append") /\ Goto(w, "count")
  /\ blob' = blob \cup {run[w].side}
  /\ size' = [size EXCEPT ![run[w].side] = @ + 1]
  /\ UNCHANGED <<jobs, record, fresh, lock, work, client, used, history>>

SaveCounts(w, j) == job' = [job EXCEPT ![j].ok = run[w].ok, ![j].bad = run[w].bad]

CountLine(w) ==
  /\ At(w, "count") /\ Goto(w, "check")
  /\ SaveCounts(w, run[w].job)
  /\ run' = [run EXCEPT ![w].side = None, ![w].result = "ok"]
  /\ UNCHANGED <<status, store, lock, stale, purging, client, used, history>>

\* Mutations: one line too many, and one too few.
CheckCancelLate(w) ==
  /\ At(w, "check")
  /\ Goto(w, IF status[run[w].job] = "cancelling" THEN "cancel"
             ELSE IF run[w].left < 0 THEN "complete" ELSE "line")
  /\ UNCHANGED <<jobs, store, lock, work, client, used, history>>

CheckCancelEarly(w) ==
  /\ At(w, "check")
  /\ Goto(w, IF status[run[w].job] = "cancelling" THEN "cancel"
             ELSE IF run[w].left <= 1 THEN "complete" ELSE "line")
  /\ UNCHANGED <<jobs, store, lock, work, client, used, history>>

CheckCancel(w) ==
  /\ At(w, "check")
  /\ Goto(w, IF status[run[w].job] = "cancelling" THEN "cancel"
             ELSE IF run[w].left = 0 THEN "complete" ELSE "line")
  /\ UNCHANGED <<jobs, store, lock, work, client, used, history>>

\* The last save of a run, whatever the row says by then.
Finish(w, s) ==
  /\ SetStatus(run[w].job, s)
  /\ \E label \in AfterJob(w) : Goto(w, label)
  /\ UNCHANGED <<store, lock, work, client, used, history>>

Complete(w) == At(w, "complete") /\ SaveCounts(w, run[w].job) /\ Finish(w, "completed")
Cancel(w) == At(w, "cancel") /\ SaveCounts(w, run[w].job) /\ Finish(w, "cancelled")
Fail(w) == At(w, "fail") /\ UNCHANGED job /\ Finish(w, "failed")

\* A disk or database error while a line is stored reaches the handler around
\* the run, which fails the job only if it still reads in_progress.
Raise(w) ==
  /\ pc[w] \in {"open", "append", "count"} /\ Goto(w, "raised")
  /\ used.mishaps < MaxMishaps /\ Count("mishaps")
  /\ UNCHANGED <<jobs, store, lock, work, client, history>>

Raised(w) ==
  /\ At(w, "raised")
  /\ IF status[run[w].job] = "in_progress" THEN Goto(w, "fail")
     ELSE \E label \in AfterJob(w) : Goto(w, label)
  /\ UNCHANGED <<jobs, store, lock, work, client, used, history>>

\* A process dies: the kernel drops its lock, the gateway takes its handlers along.
Crash(w) ==
  /\ ~At(w, "off") /\ Goto(w, "off")
  /\ used.mishaps < MaxMishaps /\ Count("mishaps")
  /\ stale' = [stale EXCEPT ![w] = FALSE]
  /\ purging' = [purging EXCEPT ![w] = <<>>]
  /\ run' = [run EXCEPT ![w] = NoRun]
  /\ lock' = IF lock = w THEN None ELSE lock
  /\ client' = IF w = Gateway THEN [c \in Clients |-> Free] ELSE client
  /\ UNCHANGED <<jobs, store, history>>

-----------------------------------------------------------------------------
Step(w) ==
  \/ Take(w) \/ Busy(w) \/ Release(w) \/ Reconcile(w)
  \/ (\E j \in Jobs : PurgeJob(w, j)) \/ PurgeDone(w)
  \/ PurgeFile(w) \/ PurgeRecord(w) \/ PurgeBlob(w)
  \/ Pick(w) \/ Claim(w) \/ Load(w) \/ Read(w)
  \/ Line(w) \/ OpenSide(w) \/ AppendLine(w) \/ CountLine(w) \/ CheckCancel(w)
  \/ Complete(w) \/ Cancel(w) \/ Fail(w) \/ Raised(w)

Handle(c) ==
  \/ CreateEnd(c) \/ DeleteBlob(c) \/ DeleteRecord(c)
  \/ CancelQueued(c) \/ CancelRunning(c)

Ask(c) ==
  \/ \E f \in Uploads : Upload(c, f)
  \/ \E f \in Files : CreateBegin(c, f) \/ DeleteBegin(c, f)
  \/ \E j \in Jobs : CancelBegin(c, j)

Next ==
  \/ \E w \in Workers : Start(w) \/ Step(w) \/ Raise(w) \/ Crash(w)
  \/ \E c \in Clients : Ask(c) \/ Handle(c)

Spec == Init /\ [][Next]_vars

\* A gateway's loop never stops, a running command goes on, every line ends
\* within its HTTP timeout.  Nothing restarts a gateway but its user.
FairSpec ==
  /\ Spec
  /\ \A w \in Workers : WF_vars(Step(w))

-----------------------------------------------------------------------------
(* Properties. *)

Statuses == {"none", "deleted"} \cup Live \cup Terminal
Row == [input : Files \cup {None}, output : SideFiles \cup {None},
        error : SideFiles \cup {None}, total : Nat, ok : Nat, bad : Nat,
        by : Workers \cup {None}]
WorkerPcs == {"off", "idle", "reconcile", "purge", "purgeFile", "purgeRecord", "purgeBlob",
              "pick", "claim", "load", "read", "line", "open", "append", "count", "check",
              "complete", "cancel", "fail", "raised", "end"}
Run == [job : Jobs \cup {None}, left : Nat, ok : Nat, bad : Nat, result : {"ok", "bad"},
        side : SideFiles \cup {None}]
HandlerPcs == {"idle", "create", "unlink", "delete", "cancelQueued", "cancelRunning"}
Handler == [pc : HandlerPcs, file : Files \cup {None}, job : Jobs \cup {None}]

\* Rows, workers and handlers have the shapes of the code's objects; a blob that
\* is not in the store has no lines.
TypeOK ==
  /\ status \in [Jobs -> Statuses] /\ job \in [Jobs -> Row]
  /\ record \subseteq Files /\ blob \subseteq Files /\ fresh \subseteq Files
  /\ size \in [Files -> Nat] /\ \A f \in Files \ blob : size[f] = 0
  /\ lock \in Workers \cup {None}
  /\ pc \in [Workers -> WorkerPcs] /\ stale \in [Workers -> BOOLEAN]
  /\ purging \in [Workers -> Seq(Files \cup {None})] /\ run \in [Workers -> Run]
  /\ client \in [Clients -> Handler]
  /\ used \in [{"requests", "runs", "mishaps"} -> Nat]
  /\ erased \subseteq Files /\ spoiled \subseteq Jobs

RunPcs == {"load", "read", "line", "open", "append", "count", "check", "complete",
           "cancel", "fail", "raised"}
Runs(w, j) == pc[w] \in RunPcs /\ run[w].job = j

\* A job that a worker is running is in_progress or cancelling and no other worker
\* has it, whatever cancellations, crashes and reconciliations went on meanwhile:
\* reconcile_stale_in_progress_jobs only ever fails jobs that have lost their worker.
RunnersOwnTheirJob ==
  \A w \in Workers : pc[w] \in RunPcs =>
    /\ run[w].job \in WithStatus(Running) /\ job[run[w].job].by = w
    /\ \A v \in Workers \ {w} : ~Runs(v, run[w].job)

\* Once a job is completed, failed or cancelled it stays so until retention deletes
\* it: no late save of a worker (_complete_job, _fail_job, _cancel_job are
\* unconditional) reopens or relabels it.
TerminalIsFinal ==
  [][\A j \in Jobs : status[j] \in Terminal =>
       status'[j] \in {status[j], "deleted"}]_vars

Stored(f) == IF f = None THEN 0 ELSE size[f]

\* request_counts never announces a line that cannot be downloaded: each counted
\* result is already in the output or error file, after a crash too.
CountsAreDownloadable ==
  \A j \in Jobs \ spoiled : Exists(j) =>
    job[j].ok <= Stored(job[j].output) /\ job[j].bad <= Stored(job[j].error)

\* A completed job has exactly one result for each line of its input, and its files
\* hold just those it counts.
CompletedIsWhole ==
  \A j \in WithStatus({"completed"}) :
    /\ job[j].ok + job[j].bad = job[j].total
    /\ j \notin spoiled =>
         job[j].ok = Stored(job[j].output) /\ job[j].bad = Stored(job[j].error)

\* Retention never takes a file a remaining job reads: its row stays, and its blob
\* too unless a client's delete unlinked it.
SharedInputsStay ==
  \A j \in Jobs : Exists(j) =>
    job[j].input \in record /\ job[j].input \in blob \cup erased

\* Every job created is eventually taken by a worker, or cancelled, unless the
\* gateway goes away.
QueueDrains ==
  \A j \in Jobs : status[j] = "validating" ~> status[j] # "validating" \/ At(Gateway, "off")

\* A job the gateway claimed does not stay in_progress: the worker ends it or, when
\* the gateway dies, the next one fails it, as long as there is one.
InProgressEnds ==
  \A j \in Jobs : status[j] = "in_progress" /\ job[j].by = Gateway
                    ~> status[j] # "in_progress" \/ At(Gateway, "off")

\* A job being cancelled does not stay so while a gateway runs: batch.md promises
\* `cancelling`, then `cancelled` once the lines in flight are done.
CancellingEnds ==
  \A j \in Jobs : status[j] = "cancelling"
                    ~> status[j] # "cancelling" \/ At(Gateway, "off")
=============================================================================
