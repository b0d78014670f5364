-------------------------- MODULE BatchJobsProofs --------------------------
(***************************************************************************)
(* Theorems about BatchJobs for any number of commands, handlers, files,   *)
(* jobs and mishaps.  The argument: whoever works holds the lock           *)
(* (LockHeld), so nobody fails or reopens a job under its runner (Owned);  *)
(* a file id is given once, so what retention deletes is never something   *)
(* new (Links, PurgesApart).                                               *)
(***************************************************************************)
EXTENDS BatchJobs, SequenceTheorems, WellFoundedInduction, TLAPS

PurgePcs == {"purgeFile", "purgeRecord", "purgeBlob"}

\* What a worker or a handler points at is there for the step it is about to take.
WorkerPoint(w) ==
  /\ pc[w] \in RunPcs \/ pc[w] = "claim" => run[w].job \in Jobs
  /\ pc[w] \in {"append", "count"} => run[w].side \in SideFiles
  /\ pc[w] = "line" => run[w].left > 0
  /\ pc[w] \in PurgePcs => purging[w] # <<>>
  /\ pc[w] \in {"purgeRecord", "purgeBlob"} => Head(purging[w]) \in Files
WorkerPoints == \A w \in Workers : WorkerPoint(w)
HandlerPoints ==
  \A c \in Clients :
    /\ client[c].pc \in {"create", "unlink", "delete"} => client[c].file \in Files
    /\ client[c].pc \in {"cancelQueued", "cancelRunning"} => client[c].job \in Jobs

\* A worker past the start of its cycle holds the lock.
LockHeld == \A w \in Workers : pc[w] \notin {"off", "idle"} => lock = w

\* The runner of a job has claimed it, and nothing has ended it.
Owned ==
  \A w \in Workers : pc[w] \in RunPcs =>
    status[run[w].job] \in Running /\ job[run[w].job].by = w

\* A job's files have their rows, a row its blob unless a client unlinked it.
Linked(j) ==
  Exists(j) => /\ job[j].input \in record
               /\ job[j].output \in record \cup {None}
               /\ job[j].error \in record \cup {None}
Links ==
  /\ \A j \in Jobs : Linked(j)
  /\ record \cap fresh = {}
  /\ record \subseteq blob \cup erased

\* A file being purged is not given out again; before its blob goes its row has gone.
WorkerPurge(w) ==
  /\ pc[w] \in PurgePcs => \A i \in DOMAIN purging[w] : purging[w][i] \notin fresh
  /\ pc[w] = "purgeBlob" => Head(purging[w]) \notin record
PurgesApart == \A w \in Workers : WorkerPurge(w)

-----------------------------------------------------------------------------
(* Which sets a label or a status is in, so that the proofs below need not *)
(* expand the sets. *)

\* The labels of workers.
LEMMA Labels ==
  /\ "off" \in WorkerPcs /\ "off" \notin RunPcs /\ "off" \notin PurgePcs
  /\ "idle" \in WorkerPcs /\ "idle" \notin RunPcs /\ "idle" \notin PurgePcs
  /\ "reconcile" \in WorkerPcs /\ "reconcile" \notin RunPcs /\ "reconcile" \notin PurgePcs
  /\ "purge" \in WorkerPcs /\ "purge" \notin RunPcs /\ "purge" \notin PurgePcs
  /\ "purgeFile" \in WorkerPcs /\ "purgeFile" \notin RunPcs /\ "purgeFile" \in PurgePcs
  /\ "purgeRecord" \in WorkerPcs /\ "purgeRecord" \notin RunPcs /\ "purgeRecord" \in PurgePcs
  /\ "purgeBlob" \in WorkerPcs /\ "purgeBlob" \notin RunPcs /\ "purgeBlob" \in PurgePcs
  /\ "pick" \in WorkerPcs /\ "pick" \notin RunPcs /\ "pick" \notin PurgePcs
  /\ "claim" \in WorkerPcs /\ "claim" \notin RunPcs /\ "claim" \notin PurgePcs
  /\ "load" \in WorkerPcs /\ "load" \in RunPcs /\ "load" \notin PurgePcs
  /\ "read" \in WorkerPcs /\ "read" \in RunPcs /\ "read" \notin PurgePcs
  /\ "line" \in WorkerPcs /\ "line" \in RunPcs /\ "line" \notin PurgePcs
  /\ "open" \in WorkerPcs /\ "open" \in RunPcs /\ "open" \notin PurgePcs
  /\ "append" \in WorkerPcs /\ "append" \in RunPcs /\ "append" \notin PurgePcs
  /\ "count" \in WorkerPcs /\ "count" \in RunPcs /\ "count" \notin PurgePcs
  /\ "check" \in WorkerPcs /\ "check" \in RunPcs /\ "check" \notin PurgePcs
  /\ "complete" \in WorkerPcs /\ "complete" \in RunPcs /\ "complete" \notin PurgePcs
  /\ "cancel" \in WorkerPcs /\ "cancel" \in RunPcs /\ "cancel" \notin PurgePcs
  /\ "fail" \in WorkerPcs /\ "fail" \in RunPcs /\ "fail" \notin PurgePcs
  /\ "raised" \in WorkerPcs /\ "raised" \in RunPcs /\ "raised" \notin PurgePcs
  /\ "end" \in WorkerPcs /\ "end" \notin RunPcs /\ "end" \notin PurgePcs
BY DEF WorkerPcs, RunPcs, PurgePcs

\* The labels of handlers, and what a status says of a row.
LEMMA States ==
  /\ "idle" \in HandlerPcs
  /\ "create" \in HandlerPcs
  /\ "unlink" \in HandlerPcs
  /\ "delete" \in HandlerPcs
  /\ "cancelQueued" \in HandlerPcs
  /\ "cancelRunning" \in HandlerPcs
  /\ "none" \in Statuses /\ "none" \notin Terminal /\ "none" \notin Running
  /\ "deleted" \in Statuses /\ "deleted" \notin Terminal /\ "deleted" \notin Running
  /\ "validating" \in Statuses /\ "validating" \notin Terminal /\ "validating" \notin Running
  /\ "in_progress" \in Statuses /\ "in_progress" \notin Terminal /\ "in_progress" \in Running
  /\ "cancelling" \in Statuses /\ "cancelling" \notin Terminal /\ "cancelling" \in Running
  /\ "completed" \in Statuses /\ "completed" \in Terminal /\ "completed" \notin Running
  /\ "failed" \in Statuses /\ "failed" \in Terminal /\ "failed" \notin Running
  /\ "cancelled" \in Statuses /\ "cancelled" \in Terminal /\ "cancelled" \notin Running
BY DEF HandlerPcs, Statuses, Live, Terminal, Running

-----------------------------------------------------------------------------
(* Who changes what. *)

\* A worker's step under the lock.
Worked(w) ==
  \/ Reconcile(w) \/ (\E j \in Jobs : PurgeJob(w, j)) \/ PurgeDone(w)
  \/ PurgeFile(w) \/ PurgeRecord(w) \/ PurgeBlob(w)
  \/ Pick(w) \/ Claim(w) \/ Load(w) \/ Read(w)
  \/ Line(w) \/ OpenSide(w) \/ AppendLine(w) \/ CountLine(w) \/ CheckCancel(w)
  \/ Complete(w) \/ Cancel(w) \/ Fail(w) \/ Raised(w) \/ Raise(w)

\* Getting to work and leaving it.
Came(w) == Start(w) \/ Take(w) \/ Busy(w) \/ Release(w) \/ Crash(w)

Asked(c) ==
  \/ \E f \in Uploads : Upload(c, f)
  \/ \E f \in Files : CreateBegin(c, f) \/ DeleteBegin(c, f)
  \/ \E j \in Jobs : CancelBegin(c, j)

\* Next, as the steps of one handler or of one worker.
LEMMA Steps ==
  ASSUME [Next]_vars
  PROVE  \/ \E w \in Workers : Worked(w)
         \/ \E w \in Workers : Came(w)
         \/ \E c \in Clients : Asked(c) \/ Handle(c)
         \/ UNCHANGED vars
BY DEF Next, Step, Ask, Worked, Came, Asked

\* Only the steps under the lock touch what the worker works on.
LEMMA CameFrame ==
  ASSUME NEW w \in Workers, Came(w)
  PROVE  UNCHANGED <<jobs, store, history>>
BY DEF Came, Start, Take, Busy, Release, Crash

\* A handler leaves the workers alone.
LEMMA HandlerFrame ==
  ASSUME NEW c \in Clients, Asked(c) \/ Handle(c)
  PROVE  UNCHANGED machine
BY DEF Asked, Handle, Upload, CreateBegin, CreateEnd, DeleteBegin, DeleteBlob,
   DeleteRecord, CancelBegin, CancelQueued, CancelRunning

\* A step under the lock keeps the lock, and leaves the handlers alone.
LEMMA WorkFrame ==
  ASSUME NEW w \in Workers, Worked(w)
  PROVE  UNCHANGED <<lock, client, history>>
BY DEF Worked, Reconcile, PurgeJob, PurgeDone, PurgeFile, PurgeRecord, PurgeBlob, Pick,
   Claim, Load, Read, Line, OpenSide, AppendLine, CountLine, CheckCancel, Complete,
   Cancel, Fail, Finish, Raised, Raise

\* Each of a worker's steps moves that worker.
LEMMA Moves ==
  ASSUME NEW w \in Workers, Worked(w) \/ Came(w)
  PROVE  \E l \in WorkerPcs : pc' = [pc EXCEPT ![w] = l]
<1>1. CASE Reconcile(w) \/ (\E j \in Jobs : PurgeJob(w, j)) \/ PurgeDone(w) \/ Pick(w)
           \/ Claim(w) \/ Load(w) \/ Read(w) \/ Line(w) \/ OpenSide(w) \/ AppendLine(w)
  BY <1>1, Labels DEF Reconcile, PurgeJob, PurgeDone, Pick, Claim, TakeOver, Load, Read,
     Line, OpenSide, AppendLine, Goto, AfterReconcile, AfterJob
<1>2. CASE PurgeFile(w) \/ PurgeRecord(w) \/ PurgeBlob(w)
  BY <1>2, Labels DEF PurgeFile, PurgeRecord, PurgeBlob, NextFile, GiveUp, Goto
<1>3. CASE CountLine(w) \/ CheckCancel(w) \/ Complete(w) \/ Cancel(w) \/ Fail(w)
           \/ Raised(w) \/ Raise(w)
  BY <1>3, Labels DEF CountLine, CheckCancel, Complete, Cancel, Fail, Finish, Raised,
     Raise, Goto, AfterJob
<1>4. CASE Came(w)
  BY <1>4, Labels DEF Came, Start, Take, Busy, Release, Crash, Goto, AfterReconcile
<1> QED BY <1>1, <1>2, <1>3, <1>4 DEF Worked

\* The worker that works holds the lock, so all others are off or idle.
LEMMA Alone ==
  ASSUME LockHeld, NEW w \in Workers, Worked(w)
  PROVE  pc[w] \notin {"off", "idle"} /\ lock = w
<1>1. pc[w] \notin {"off", "idle"}
  BY DEF Worked, Reconcile, PurgeJob, PurgeDone, PurgeFile, PurgeRecord, PurgeBlob, Pick,
     Claim, Load, Read, Line, OpenSide, AppendLine, CountLine, CheckCancel, Complete,
     Cancel, Fail, Raised, Raise, At
<1> QED BY <1>1 DEF LockHeld

\* Rows change in their job's runs, by creation, or by the deletion of a file.
LEMMA JobFrame ==
  ASSUME [Next]_vars
  PROVE  \/ UNCHANGED job
         \/ \E w \in Workers : PurgeRecord(w) \/ Claim(w) \/ Read(w) \/ OpenSide(w)
                               \/ CountLine(w) \/ Complete(w) \/ Cancel(w)
         \/ \E c \in Clients : CreateEnd(c) \/ DeleteRecord(c)
<1>1. ASSUME NEW w \in Workers, Worked(w)
      PROVE  UNCHANGED job \/ PurgeRecord(w) \/ Claim(w) \/ Read(w) \/ OpenSide(w)
             \/ CountLine(w) \/ Complete(w) \/ Cancel(w)
  BY <1>1 DEF Worked, Reconcile, PurgeJob, PurgeDone, PurgeFile, PurgeBlob, Pick, Load,
     Line, AppendLine, CheckCancel, Fail, Raised, Raise, jobs
<1>2. ASSUME NEW c \in Clients, Asked(c) \/ Handle(c)
      PROVE  UNCHANGED job \/ CreateEnd(c) \/ DeleteRecord(c)
  BY <1>2 DEF Asked, Handle, Upload, CreateBegin, DeleteBegin, DeleteBlob, CancelBegin,
     CancelQueued, CancelRunning, jobs
<1> QED BY <1>1, <1>2, Steps, CameFrame DEF vars, jobs

\* Statuses change by creation, cancellation, reconciliation, purge and runs.
LEMMA StatusFrame ==
  ASSUME [Next]_vars
  PROVE  \/ UNCHANGED status
         \/ \E w \in Workers : Reconcile(w) \/ (\E j \in Jobs : PurgeJob(w, j)) \/ Claim(w)
                               \/ Complete(w) \/ Cancel(w) \/ Fail(w)
         \/ \E c \in Clients : CreateEnd(c) \/ CancelQueued(c) \/ CancelRunning(c)
<1>1. ASSUME NEW w \in Workers, Worked(w)
      PROVE  UNCHANGED status \/ Reconcile(w) \/ (\E j \in Jobs : PurgeJob(w, j))
             \/ Claim(w) \/ Complete(w) \/ Cancel(w) \/ Fail(w)
  BY <1>1 DEF Worked, PurgeDone, PurgeFile, PurgeRecord, PurgeBlob, Pick, Load, Read,
     Line, OpenSide, AppendLine, CountLine, CheckCancel, Raised, Raise, jobs
<1>2. ASSUME NEW c \in Clients, Asked(c) \/ Handle(c)
      PROVE  UNCHANGED status \/ CreateEnd(c) \/ CancelQueued(c) \/ CancelRunning(c)
  BY <1>2 DEF Asked, Handle, Upload, CreateBegin, DeleteBegin, DeleteBlob, DeleteRecord,
     CancelBegin, jobs
<1> QED BY <1>1, <1>2, Steps, CameFrame DEF vars, jobs

\* Files change by uploads, deletions and the storing of a line.
LEMMA StoreFrame ==
  ASSUME [Next]_vars
  PROVE  \/ UNCHANGED store
         \/ \E w \in Workers : PurgeRecord(w) \/ PurgeBlob(w) \/ OpenSide(w) \/ AppendLine(w)
         \/ \E c \in Clients : (\E f \in Uploads : Upload(c, f)) \/ DeleteBlob(c)
                               \/ DeleteRecord(c)
<1>1. ASSUME NEW w \in Workers, Worked(w)
      PROVE  UNCHANGED store \/ PurgeRecord(w) \/ PurgeBlob(w) \/ OpenSide(w) \/ AppendLine(w)
  BY <1>1 DEF Worked, Reconcile, PurgeJob, PurgeDone, PurgeFile, Pick, Claim, Load, Read,
     Line, CountLine, CheckCancel, Complete, Cancel, Fail, Finish, Raised, Raise
<1>2. ASSUME NEW c \in Clients, Asked(c) \/ Handle(c)
      PROVE  UNCHANGED store \/ (\E f \in Uploads : Upload(c, f)) \/ DeleteBlob(c)
             \/ DeleteRecord(c)
  BY <1>2 DEF Asked, Handle, CreateBegin, CreateEnd, DeleteBegin, CancelBegin,
     CancelQueued, CancelRunning
<1> QED BY <1>1, <1>2, Steps, CameFrame DEF vars

\* What a worker runs changes with the lines it takes and stores.
LEMMA RunFrame ==
  ASSUME [Next]_vars
  PROVE  \/ UNCHANGED run
         \/ \E w \in Workers : Pick(w) \/ Read(w) \/ Line(w) \/ OpenSide(w) \/ CountLine(w)
                               \/ Release(w) \/ Crash(w)
<1>1. ASSUME NEW w \in Workers, Worked(w) \/ Came(w)
      PROVE  UNCHANGED run \/ Pick(w) \/ Read(w) \/ Line(w) \/ OpenSide(w) \/ CountLine(w)
             \/ Release(w) \/ Crash(w)
  BY <1>1 DEF Worked, Reconcile, PurgeJob, PurgeDone, PurgeFile, PurgeRecord, PurgeBlob,
     Claim, Load, AppendLine, CheckCancel, Complete, Cancel, Fail, Finish, Raised, Raise,
     Came, Start, Take, Busy, work
<1> QED BY <1>1, Steps, HandlerFrame DEF vars, machine, work

\* And what it purges, with the files it goes through.
LEMMA PurgingFrame ==
  ASSUME [Next]_vars
  PROVE  \/ UNCHANGED purging
         \/ \E w \in Workers : (\E j \in Jobs : PurgeJob(w, j)) \/ PurgeFile(w)
                               \/ PurgeRecord(w) \/ PurgeBlob(w) \/ Crash(w)
<1>1. ASSUME NEW w \in Workers, Worked(w) \/ Came(w)
      PROVE  UNCHANGED purging \/ (\E j \in Jobs : PurgeJob(w, j)) \/ PurgeFile(w)
             \/ PurgeRecord(w) \/ PurgeBlob(w) \/ Crash(w)
  BY <1>1 DEF Worked, Reconcile, PurgeDone, Pick, Claim, Load, Read, Line, OpenSide,
     AppendLine, CountLine, CheckCancel, Complete, Cancel, Fail, Finish, Raised, Raise,
     Came, Start, Take, Busy, Release, work
<1> QED BY <1>1, Steps, HandlerFrame DEF vars, machine, work

\* A queue that is not empty has an oldest job.
LEMMA LeastJob ==
  ASSUME NEW S \in SUBSET Nat, S # {}
  PROVE  \E j \in S : \A k \in S : j <= k
<1>1. PICK j \in S : \A k \in S : ~(<<k, j>> \in {ss \in Nat \X Nat : ss[1] < ss[2]})
  <2>1. IsWellFoundedOn({ss \in Nat \X Nat : ss[1] < ss[2]}, Nat)
    BY NatLessThanWellFounded DEF OpToRel
  <2> QED BY <2>1, WFMin
<1>2. ASSUME NEW k \in S PROVE j <= k
  <2>1. j \in Nat /\ k \in Nat
    OBVIOUS
  <2>2. ~(k < j)
    BY <1>1, <2>1
  <2> QED BY <2>1, <2>2
<1> QED BY <1>2

-----------------------------------------------------------------------------
(* Type correctness, one group of variables after the other. *)

Points == WorkerPoints /\ HandlerPoints

\* Setting one status keeps the statuses typed.
LEMMA SetStatusTyped ==
  ASSUME status \in [Jobs -> Statuses], NEW j \in Jobs, NEW s \in Statuses, SetStatus(j, s)
  PROVE  status' \in [Jobs -> Statuses]
BY DEF SetStatus

\* No step gives a job a status outside Statuses.
LEMMA StatusTyped ==
  ASSUME TypeOK, Points, [Next]_vars
  PROVE  status' \in [Jobs -> Statuses]
<1>t. status \in [Jobs -> Statuses]
  BY DEF TypeOK
<1>1. ASSUME NEW w \in Workers, Reconcile(w)
      PROVE  status' \in [Jobs -> Statuses]
  BY <1>1, <1>t, States DEF Reconcile
<1>2. ASSUME NEW w \in Workers, NEW j \in Jobs, PurgeJob(w, j)
      PROVE  status' \in [Jobs -> Statuses]
  BY <1>2, <1>t, States, SetStatusTyped DEF PurgeJob
<1>3. ASSUME NEW w \in Workers, pc[w] \in RunPcs \/ pc[w] = "claim"
      PROVE  run[w].job \in Jobs
  BY <1>3 DEF Points, WorkerPoints, WorkerPoint
<1>4. ASSUME NEW w \in Workers, Claim(w)
      PROVE  status' \in [Jobs -> Statuses]
  <2>1. run[w].job \in Jobs
    BY <1>3, <1>4 DEF Claim, At
  <2> QED BY <1>4, <2>1, <1>t, States, SetStatusTyped DEF Claim, TakeOver, jobs
<1>5. ASSUME NEW w \in Workers, Complete(w) \/ Cancel(w) \/ Fail(w)
      PROVE  status' \in [Jobs -> Statuses]
  <2>1. run[w].job \in Jobs
    BY <1>3, <1>5, Labels DEF Complete, Cancel, Fail, At
  <2> QED BY <1>5, <2>1, <1>t, States, SetStatusTyped DEF Complete, Cancel, Fail, Finish
<1>6. ASSUME NEW c \in Clients, CreateEnd(c)
      PROVE  status' \in [Jobs -> Statuses]
  BY <1>6, <1>t, States, SetStatusTyped DEF CreateEnd, jobs
<1>7. ASSUME NEW c \in Clients, CancelQueued(c) \/ CancelRunning(c)
      PROVE  status' \in [Jobs -> Statuses]
  <2>1. client[c].job \in Jobs
    BY <1>7 DEF Points, HandlerPoints, CancelQueued, CancelRunning
  <2> QED BY <1>7, <2>1, <1>t, States, SetStatusTyped DEF CancelQueued, CancelRunning
<1> QED BY <1>t, <1>1, <1>2, <1>4, <1>5, <1>6, <1>7, StatusFrame

\* The rows of jobs.
LEMMA JobTyped ==
  ASSUME TypeOK, Points, [Next]_vars
  PROVE  job' \in [Jobs -> Row]
<1>t. job \in [Jobs -> Row]
  BY DEF TypeOK
<1>r. ASSUME NEW w \in Workers, pc[w] \in RunPcs \/ pc[w] = "claim"
      PROVE  run[w].job \in Jobs
  BY <1>r DEF Points, WorkerPoints, WorkerPoint
<1>n. ASSUME NEW w \in Workers
      PROVE  run[w] \in Run /\ run[w].ok \in Nat /\ run[w].bad \in Nat
  <2>1. run[w] \in Run
    BY DEF TypeOK
  <2> QED BY <2>1 DEF Run
<1>d. ASSUME NEW f, DeleteRow(f)
      PROVE  job' \in [Jobs -> Row]
  <2>1. ASSUME NEW j \in Jobs
        PROVE  job'[j] \in Row
    <3>1. job'[j] = [job[j] EXCEPT !.output = IF @ = f THEN None ELSE @,
                                   !.error = IF @ = f THEN None ELSE @]
      BY <1>d DEF DeleteRow
    <3>2. job[j] \in Row
      BY <1>t
    <3> QED BY <3>1, <3>2 DEF Row
  <2>2. job' = [j \in Jobs |-> job'[j]]
    BY <1>d DEF DeleteRow
  <2> QED BY <2>1, <2>2
<1>s. ASSUME NEW w \in Workers, run[w].job \in Jobs, SaveCounts(w, run[w].job)
      PROVE  job' \in [Jobs -> Row]
  <2>1. run[w].ok \in Nat /\ run[w].bad \in Nat
    BY <1>n
  <2> QED BY <1>t, <1>s, <2>1 DEF SaveCounts, Row
<1>1. ASSUME NEW w \in Workers, PurgeRecord(w)
      PROVE  job' \in [Jobs -> Row]
  BY <1>1, <1>t, <1>d DEF PurgeRecord
<1>2. ASSUME NEW w \in Workers, Claim(w)
      PROVE  job' \in [Jobs -> Row]
  <2>1. run[w].job \in Jobs
    BY <1>r, <1>2 DEF Claim, At
  <2>2. CASE UNCHANGED job
    BY <2>2, <1>t
  <2>3. CASE job' = [job EXCEPT ![run[w].job].by = w]
    BY <2>1, <2>3, <1>t DEF Row
  <2> QED BY <2>2, <2>3, <1>2 DEF Claim, TakeOver, jobs
<1>3. ASSUME NEW w \in Workers, Read(w)
      PROVE  job' \in [Jobs -> Row]
  <2>1. run[w].job \in Jobs
    BY <1>r, <1>3, Labels DEF Read, At
  <2>2. CASE UNCHANGED job
    BY <2>2, <1>t
  <2>3. CASE job' = [job EXCEPT ![run[w].job].total = size[job[run[w].job].input]]
             /\ job[run[w].job].input \in blob
    <3>1. size[job[run[w].job].input] \in Nat
      BY <2>3 DEF TypeOK
    <3> QED BY <2>1, <2>3, <3>1, <1>t DEF Row
  <2> QED BY <2>2, <2>3, <1>3 DEF Read
<1>4. ASSUME NEW w \in Workers, OpenSide(w)
      PROVE  job' \in [Jobs -> Row]
  <2>1. run[w].job \in Jobs
    BY <1>r, <1>4, Labels DEF OpenSide, At
  <2>2. CASE UNCHANGED job
    BY <2>2, <1>t
  <2>3. CASE CreateSide(run[w].job, run[w].result, NewFile)
    <3>1. NewFile \in SideFiles
      BY <2>3 DEF CreateSide, NewFile
    <3>2. \/ job' = [job EXCEPT ![run[w].job].output = NewFile]
          \/ job' = [job EXCEPT ![run[w].job].error = NewFile]
      BY <2>3 DEF CreateSide
    <3>3. CASE job' = [job EXCEPT ![run[w].job].output = NewFile]
      BY <3>1, <3>3, <2>1, <1>t DEF Row
    <3>4. CASE job' = [job EXCEPT ![run[w].job].error = NewFile]
      BY <3>1, <3>4, <2>1, <1>t DEF Row
    <3> QED BY <3>2, <3>3, <3>4
  <2> QED BY <2>2, <2>3, <1>4 DEF OpenSide
<1>5. ASSUME NEW w \in Workers, CountLine(w) \/ Complete(w) \/ Cancel(w)
      PROVE  job' \in [Jobs -> Row]
  <2>1. run[w].job \in Jobs
    BY <1>r, <1>5, Labels DEF CountLine, Complete, Cancel, At
  <2> QED BY <2>1, <1>5, <1>s DEF CountLine, Complete, Cancel
<1>6. ASSUME NEW c \in Clients, CreateEnd(c)
      PROVE  job' \in [Jobs -> Row]
  <2>1. client[c].file \in Files
    BY <1>6 DEF CreateEnd, Points, HandlerPoints
  <2>2. CASE UNCHANGED job
    BY <2>2, <1>t
  <2>3. ASSUME NEW j \in Jobs, job' = [job EXCEPT ![j] = [NoJob EXCEPT !.input = client[c].file]]
        PROVE  job' \in [Jobs -> Row]
    <3>1. [NoJob EXCEPT !.input = client[c].file] \in Row
      BY <2>1 DEF NoJob, Row
    <3> QED BY <3>1, <2>3, <1>t
  <2> QED BY <2>2, <2>3, <1>6 DEF CreateEnd, jobs
<1>7. ASSUME NEW c \in Clients, DeleteRecord(c)
      PROVE  job' \in [Jobs -> Row]
  BY <1>7, <1>t, <1>d DEF DeleteRecord
<1> QED BY <1>t, <1>1, <1>2, <1>3, <1>4, <1>5, <1>6, <1>7, JobFrame

\* The records and blobs.
StoreOK ==
  /\ record \subseteq Files /\ blob \subseteq Files /\ fresh \subseteq Files
  /\ size \in [Files -> Nat] /\ \A f \in Files \ blob : size[f] = 0

\* Rows of files, blobs and sizes keep their types; an unlinked blob has no lines.
LEMMA StoreTyped ==
  ASSUME TypeOK, Points, [Next]_vars
  PROVE  StoreOK'
<1>t. StoreOK
  BY DEF TypeOK, StoreOK
<1>p. ASSUME NEW w \in Workers, pc[w] = "purgeRecord" \/ pc[w] = "purgeBlob"
      PROVE  Head(purging[w]) \in Files
  BY <1>p DEF Points, WorkerPoints, WorkerPoint
<1>u. ASSUME NEW f \in Files, Unlink(f), record' \subseteq record, UNCHANGED fresh
      PROVE  StoreOK'
  BY <1>u, <1>t DEF Unlink, StoreOK
<1>d. ASSUME NEW f \in Files, DeleteRow(f), UNCHANGED <<blob, size, fresh>>
      PROVE  StoreOK'
  BY <1>d, <1>t DEF DeleteRow, StoreOK
<1>k. ASSUME UNCHANGED store
      PROVE  StoreOK'
  BY <1>k, <1>t DEF store, StoreOK
<1>1. ASSUME NEW w \in Workers, PurgeRecord(w)
      PROVE  StoreOK'
  <2>1. Head(purging[w]) \in Files
    BY <1>p, <1>1 DEF PurgeRecord, At
  <2>2. CASE UNCHANGED record
    BY <1>1, <2>2, <1>k DEF PurgeRecord, store
  <2>3. CASE DeleteRow(Head(purging[w]))
    BY <1>1, <2>1, <2>3, <1>d DEF PurgeRecord
  <2> QED BY <1>1, <2>2, <2>3 DEF PurgeRecord
<1>2. ASSUME NEW w \in Workers, PurgeBlob(w)
      PROVE  StoreOK'
  <2>1. Head(purging[w]) \in Files
    BY <1>p, <1>2 DEF PurgeBlob, At
  <2> QED BY <1>2, <2>1, <1>u DEF PurgeBlob
<1>3. ASSUME NEW w \in Workers, OpenSide(w)
      PROVE  StoreOK'
  <2>1. CASE UNCHANGED store
    BY <2>1, <1>k
  <2>2. CASE CreateSide(run[w].job, run[w].result, NewFile)
    <3>1. NewFile \in Files
      BY <2>2 DEF CreateSide, NewFile, Files
    <3> QED BY <3>1, <2>2, <1>t DEF CreateSide, StoreOK
  <2> QED BY <1>3, <2>1, <2>2 DEF OpenSide
<1>4. ASSUME NEW w \in Workers, AppendLine(w)
      PROVE  StoreOK'
  <2>1. run[w].side \in Files
    BY <1>4 DEF AppendLine, At, Points, WorkerPoints, WorkerPoint, Files
  <2> QED BY <2>1, <1>4, <1>t DEF AppendLine, StoreOK
<1>5. ASSUME NEW c \in Clients, NEW f \in Uploads, Upload(c, f)
      PROVE  StoreOK'
  <2>1. f \in Files /\ Lines[f] \in Nat
    BY BatchAssumption DEF Files
  <2> QED BY <2>1, <1>5, <1>t DEF Upload, StoreOK
<1>6. ASSUME NEW c \in Clients, DeleteBlob(c)
      PROVE  StoreOK'
  <2>1. client[c].file \in Files
    BY <1>6 DEF DeleteBlob, Points, HandlerPoints
  <2> QED BY <2>1, <1>6, <1>u DEF DeleteBlob
<1>7. ASSUME NEW c \in Clients, DeleteRecord(c)
      PROVE  StoreOK'
  <2>1. client[c].file \in Files
    BY <1>7 DEF DeleteRecord, Points, HandlerPoints
  <2>2. CASE UNCHANGED record
    BY <1>7, <2>2, <1>k DEF DeleteRecord, store
  <2>3. CASE DeleteRow(client[c].file)
    BY <1>7, <2>1, <2>3, <1>d DEF DeleteRecord
  <2> QED BY <1>7, <2>2, <2>3 DEF DeleteRecord
<1> QED BY <1>k, <1>1, <1>2, <1>3, <1>4, <1>5, <1>6, <1>7, StoreFrame

\* What each worker runs.
LEMMA RunTyped ==
  ASSUME TypeOK, Points, [Next]_vars
  PROVE  run' \in [Workers -> Run]
<1>t. run \in [Workers -> Run]
  BY DEF TypeOK
<1>1. ASSUME NEW w \in Workers, Pick(w)
      PROVE  run' \in [Workers -> Run]
  <2>1. CASE UNCHANGED run
    BY <2>1, <1>t
  <2>2. CASE Queued # {} /\ run' = [run EXCEPT ![w].job = Oldest(Queued)]
    <3>1. Queued \subseteq Jobs /\ Queued \in SUBSET Nat
      BY DEF Queued, WithStatus, Jobs
    <3>2. Oldest(Queued) \in Queued
      <4>1. PICK j \in Queued : \A k \in Queued : j <= k
        BY <3>1, <2>2, LeastJob
      <4> QED BY <4>1 DEF Oldest
    <3> QED BY <2>2, <3>1, <3>2, <1>t DEF Run
  <2> QED BY <1>1, <2>1, <2>2 DEF Pick
<1>2. ASSUME NEW w \in Workers, Read(w)
      PROVE  run' \in [Workers -> Run]
  <2>1. CASE UNCHANGED run
    BY <2>1, <1>t
  <2>2. ASSUME NEW n \in Nat, run' = [run EXCEPT ![w].left = n, ![w].ok = 0, ![w].bad = 0]
        PROVE  run' \in [Workers -> Run]
    <3> DEFINE reset == [run[w] EXCEPT !.left = n, !.ok = 0, !.bad = 0]
    <3>1. reset \in Run
      BY <2>2, <1>t DEF Run
    <3>2. run' = [run EXCEPT ![w] = reset]
      BY <2>2, <1>t DEF Run
    <3> HIDE DEF reset
    <3> QED BY <3>1, <3>2, <1>t
  <2>3. CASE /\ job[run[w].job].input \in blob
             /\ run' = [run EXCEPT ![w].left = size[job[run[w].job].input],
                                   ![w].ok = 0, ![w].bad = 0]
    <3>1. size[job[run[w].job].input] \in Nat
      BY <2>3 DEF TypeOK
    <3>2. PICK n \in Nat : n = size[job[run[w].job].input]
      BY <3>1
    <3>3. run' = [run EXCEPT ![w].left = n, ![w].ok = 0, ![w].bad = 0]
      BY <2>3, <3>2, Zenon
    <3> QED BY <2>2, <3>3, Zenon
  <2> QED BY <1>2, <2>1, <2>3 DEF Read
<1>3. ASSUME NEW w \in Workers, Line(w)
      PROVE  run' \in [Workers -> Run]
  <2>1. run[w] \in Run /\ run[w].left > 0
    BY <1>3, <1>t DEF Line, At, Points, WorkerPoints, WorkerPoint
  <2>2. run[w].left - 1 \in Nat /\ run[w].ok + 1 \in Nat /\ run[w].bad + 1 \in Nat
    BY <2>1 DEF Run
  <2>3. CASE run' = [run EXCEPT ![w].result = "ok", ![w].left = @ - 1, ![w].ok = @ + 1]
    BY <2>2, <2>3, <1>t DEF Run
  <2>4. CASE run' = [run EXCEPT ![w].result = "bad", ![w].left = @ - 1, ![w].bad = @ + 1]
    BY <2>2, <2>4, <1>t DEF Run
  <2> QED BY <1>3, <2>3, <2>4 DEF Line
<1>4. ASSUME NEW w \in Workers, OpenSide(w)
      PROVE  run' \in [Workers -> Run]
  <2>1. ASSUME NEW f \in SideFiles, run' = [run EXCEPT ![w].side = f]
        PROVE  run' \in [Workers -> Run]
    BY <2>1, <1>t DEF Run
  <2>2. CASE CreateSide(run[w].job, run[w].result, NewFile) /\ run' = [run EXCEPT ![w].side = NewFile]
    <3>1. NewFile \in SideFiles
      BY <2>2 DEF CreateSide, NewFile
    <3> QED BY <2>1, <2>2, <3>1
  <2>3. CASE /\ SideFile(run[w].job, run[w].result) # None
             /\ run' = [run EXCEPT ![w].side = SideFile(run[w].job, run[w].result)]
    <3>1. run[w].job \in Jobs
      BY <1>4, Labels DEF OpenSide, At, Points, WorkerPoints, WorkerPoint
    <3>2. job[run[w].job] \in Row
      BY <3>1 DEF TypeOK
    <3>3. SideFile(run[w].job, run[w].result) \in SideFiles
      BY <2>3, <3>2 DEF SideFile, Row
    <3> QED BY <2>1, <2>3, <3>3
  <2> QED BY <1>4, <2>2, <2>3 DEF OpenSide
<1>5. ASSUME NEW w \in Workers, CountLine(w)
      PROVE  run' \in [Workers -> Run]
  <2> DEFINE cleared == [run[w] EXCEPT !.side = None, !.result = "ok"]
  <2>1. cleared \in Run
    BY <1>5, <1>t DEF Run
  <2>2. run' = [run EXCEPT ![w] = cleared]
    BY <1>5, <1>t DEF CountLine, Run
  <2> HIDE DEF cleared
  <2> QED BY <1>5, <2>1, <2>2, <1>t
<1>6. ASSUME NEW w \in Workers, Release(w) \/ Crash(w)
      PROVE  run' \in [Workers -> Run]
  <2>1. NoRun \in Run
    BY DEF NoRun, Run
  <2> QED BY <1>6, <2>1, <1>t DEF Release, Crash
<1> QED BY <1>t, <1>1, <1>2, <1>3, <1>4, <1>5, <1>6, RunFrame

\* What each worker purges.
LEMMA PurgingTyped ==
  ASSUME TypeOK, Points, [Next]_vars
  PROVE  purging' \in [Workers -> Seq(Files \cup {None})]
<1> DEFINE Q == Seq(Files \cup {None})
<1>t. purging \in [Workers -> Q]
  BY DEF TypeOK
<1>q. ASSUME NEW w \in Workers, pc[w] \in PurgePcs
      PROVE  Tail(purging[w]) \in Q
  <2>1. purging[w] \in Q /\ purging[w] # <<>>
    BY <1>q, <1>t DEF Points, WorkerPoints, WorkerPoint
  <2> QED BY <2>1
<1>n. ASSUME NEW w \in Workers, NextFile(w), pc[w] \in PurgePcs
      PROVE  purging' \in [Workers -> Q]
  <2>1. Tail(purging[w]) \in Q
    BY <1>q, <1>n
  <2>2. purging' = [purging EXCEPT ![w] = Tail(purging[w])]
    BY <1>n DEF NextFile
  <2> HIDE DEF Q
  <2> QED BY <2>1, <2>2, <1>t
<1>1. ASSUME NEW w \in Workers, NEW j \in Jobs, PurgeJob(w, j)
      PROVE  purging' \in [Workers -> Q]
  <2>1. job[j] \in Row
    BY DEF TypeOK
  <2>2. <<job[j].input, job[j].output, job[j].error>> \in Q
    BY <2>1 DEF Row, Files
  <2>3. purging' = [purging EXCEPT ![w] = <<job[j].input, job[j].output, job[j].error>>]
    BY <1>1 DEF PurgeJob
  <2> HIDE DEF Q
  <2> QED BY <2>2, <2>3, <1>t
<1>2. ASSUME NEW w \in Workers, PurgeFile(w)
      PROVE  purging' \in [Workers -> Q]
  <2>1. CASE UNCHANGED purging
    BY <2>1, <1>t
  <2>2. CASE NextFile(w)
    BY <2>2, <1>2, <1>n, Labels DEF PurgeFile, At
  <2> QED BY <1>2, <2>1, <2>2 DEF PurgeFile
<1>3. ASSUME NEW w \in Workers, GiveUp(w)
      PROVE  purging' \in [Workers -> Q]
  <2>1. << >> \in Q
    OBVIOUS
  <2>2. purging' = [purging EXCEPT ![w] = << >>]
    BY <1>3 DEF GiveUp
  <2> HIDE DEF Q
  <2> QED BY <2>1, <2>2, <1>t
<1>4. ASSUME NEW w \in Workers, PurgeRecord(w)
      PROVE  purging' \in [Workers -> Q]
  BY <1>4, <1>3, <1>t DEF PurgeRecord
<1>5. ASSUME NEW w \in Workers, PurgeBlob(w)
      PROVE  purging' \in [Workers -> Q]
  BY <1>5, <1>n, Labels DEF PurgeBlob, At
<1>6. ASSUME NEW w \in Workers, Crash(w)
      PROVE  purging' \in [Workers -> Q]
  <2>1. << >> \in Q
    OBVIOUS
  <2>2. purging' = [purging EXCEPT ![w] = << >>]
    BY <1>6 DEF Crash
  <2> HIDE DEF Q
  <2> QED BY <2>1, <2>2, <1>t
<1> QED BY <1>t, <1>1, <1>2, <1>4, <1>5, <1>6, PurgingFrame

\* The handlers; each step moves one, or ends them all.
LEMMA ClientTyped ==
  ASSUME TypeOK, [Next]_vars
  PROVE  client' \in [Clients -> Handler]
<1>t. client \in [Clients -> Handler]
  BY DEF TypeOK
<1>f. Free \in Handler
  BY States DEF Free, Handler
<1>a. ASSUME NEW c \in Clients, Answer(c)
      PROVE  client' \in [Clients -> Handler]
  BY <1>a, <1>t, <1>f DEF Answer
<1>g. ASSUME NEW c \in Clients, NEW l \in HandlerPcs, Go(c, l)
      PROVE  client' \in [Clients -> Handler]
  BY <1>g, <1>t DEF Go, Handler
<1>h. ASSUME NEW c \in Clients, NEW l \in HandlerPcs, NEW f \in Files \cup {None},
             NEW j \in Jobs \cup {None}, Hold(c, l, f, j)
      PROVE  client' \in [Clients -> Handler]
  <2>1. [pc |-> l, file |-> f, job |-> j] \in Handler
    BY DEF Handler
  <2> QED BY <1>h, <1>t, <2>1 DEF Hold
<1>1. ASSUME NEW c \in Clients, Asked(c)
      PROVE  client' \in [Clients -> Handler]
  <2>1. ASSUME NEW f \in Uploads, Upload(c, f)
        PROVE  client' \in [Clients -> Handler]
    BY <2>1, <1>t DEF Upload
  <2>2. ASSUME NEW f \in Files, CreateBegin(c, f) \/ DeleteBegin(c, f)
        PROVE  client' \in [Clients -> Handler]
    BY <2>2, <1>h, States DEF CreateBegin, DeleteBegin
  <2>3. ASSUME NEW j \in Jobs, CancelBegin(c, j)
        PROVE  client' \in [Clients -> Handler]
    BY <2>3, <1>h, States DEF CancelBegin
  <2> QED BY <1>1, <2>1, <2>2, <2>3 DEF Asked
<1>2. ASSUME NEW c \in Clients, Handle(c)
      PROVE  client' \in [Clients -> Handler]
  <2>1. Answer(c) \/ (\E l \in HandlerPcs : Go(c, l))
    BY <1>2, States DEF Handle, CreateEnd, DeleteBlob, DeleteRecord, CancelQueued,
       CancelRunning
  <2> QED BY <2>1, <1>a, <1>g
<1>3. ASSUME NEW w \in Workers, Came(w)
      PROVE  client' \in [Clients -> Handler]
  BY <1>3, <1>t, <1>f DEF Came, Start, Take, Busy, Release, Crash
<1>4. ASSUME NEW w \in Workers, Worked(w)
      PROVE  client' \in [Clients -> Handler]
  BY <1>4, <1>t, WorkFrame
<1> QED BY <1>1, <1>2, <1>3, <1>4, <1>t, Steps DEF vars

\* The rest: the lock, the flags, the bounds' counters and the history.
LEMMA RestTyped ==
  ASSUME TypeOK, Points, [Next]_vars
  PROVE  /\ lock' \in Workers \cup {None} /\ pc' \in [Workers -> WorkerPcs]
         /\ stale' \in [Workers -> BOOLEAN]
         /\ used' \in [{"requests", "runs", "mishaps"} -> Nat]
         /\ erased' \subseteq Files /\ spoiled' \subseteq Jobs
<1> DEFINE Kinds == {"requests", "runs", "mishaps"}
<1>p. pc' \in [Workers -> WorkerPcs]
  <2>1. pc \in [Workers -> WorkerPcs]
    BY DEF TypeOK
  <2>2. UNCHANGED pc \/ (\E w \in Workers : \E l \in WorkerPcs : pc' = [pc EXCEPT ![w] = l])
    BY Steps, Moves, HandlerFrame DEF vars, machine
  <2> QED BY <2>1, <2>2
<1>l. lock' \in Workers \cup {None}
  <2>1. lock \in Workers \cup {None}
    BY DEF TypeOK
  <2>2. ASSUME NEW w \in Workers, Came(w)
        PROVE  lock' \in {lock, w, None}
    BY <2>2 DEF Came, Start, Take, Busy, Release, Crash
  <2> QED BY <2>1, <2>2, Steps, WorkFrame, HandlerFrame DEF vars, machine
<1>s. stale' \in [Workers -> BOOLEAN]
  <2>1. stale \in [Workers -> BOOLEAN]
    BY DEF TypeOK
  <2>2. ASSUME NEW w \in Workers, Worked(w) \/ Came(w)
        PROVE  UNCHANGED stale \/ (\E b \in BOOLEAN : stale' = [stale EXCEPT ![w] = b])
    <3>1. CASE Worked(w)
      BY <3>1 DEF Worked, Reconcile, PurgeJob, PurgeDone, PurgeFile, PurgeRecord, PurgeBlob,
         Pick, Claim, Load, Read, Line, OpenSide, AppendLine, CountLine, CheckCancel,
         Complete, Cancel, Fail, Finish, Raised, Raise, work
    <3>2. CASE Came(w)
      BY <3>2 DEF Came, Start, Take, Busy, Release, Crash, work
    <3> QED BY <2>2, <3>1, <3>2
  <2>3. ASSUME NEW w \in Workers, Worked(w) \/ Came(w)
        PROVE  stale' \in [Workers -> BOOLEAN]
    BY <2>1, <2>2, <2>3
  <2> QED BY <2>1, <2>3, Steps, HandlerFrame DEF vars, machine, work
<1>u. used' \in [Kinds -> Nat]
  <2>1. used \in [Kinds -> Nat]
    BY DEF TypeOK
  <2>2. ASSUME NEW k \in Kinds, Count(k)
        PROVE  used' \in [Kinds -> Nat]
    BY <2>1, <2>2 DEF Count
  <2>3. ASSUME NEW w \in Workers, Worked(w)
        PROVE  UNCHANGED used \/ Count("mishaps")
    BY <2>3 DEF Worked, Reconcile, PurgeJob, PurgeDone, PurgeFile, PurgeRecord, PurgeBlob,
       Pick, Claim, Load, Read, Line, OpenSide, AppendLine, CountLine, CheckCancel,
       Complete, Cancel, Fail, Finish, Raised, Raise
  <2>4. ASSUME NEW w \in Workers, Came(w)
        PROVE  UNCHANGED used \/ Count("mishaps") \/ Count("runs")
    BY <2>4 DEF Came, Start, Take, Busy, Release, Crash
  <2>5. ASSUME NEW c \in Clients, Asked(c) \/ Handle(c)
        PROVE  UNCHANGED used \/ Count("requests")
    BY <2>5 DEF Asked, Handle, Upload, CreateBegin, CreateEnd, DeleteBegin, DeleteBlob,
       DeleteRecord, CancelBegin, CancelQueued, CancelRunning, Request
  <2>6. UNCHANGED used \/ (\E k \in Kinds : Count(k))
    <3>1. "mishaps" \in Kinds /\ "runs" \in Kinds /\ "requests" \in Kinds
      OBVIOUS
    <3> HIDE DEF Kinds
    <3> QED BY <3>1, <2>3, <2>4, <2>5, Steps DEF vars
  <2> QED BY <2>1, <2>2, <2>6
<1>e. erased' \subseteq Files /\ spoiled' \subseteq Jobs
  <2>1. erased \subseteq Files /\ spoiled \subseteq Jobs
    BY DEF TypeOK
  <2>2. ASSUME NEW c \in Clients, Asked(c) \/ Handle(c)
        PROVE  UNCHANGED history \/ DeleteBlob(c)
    BY <2>2 DEF Asked, Handle, Upload, CreateBegin, CreateEnd, DeleteBegin, DeleteRecord,
       CancelBegin, CancelQueued, CancelRunning
  <2>3. ASSUME NEW c \in Clients, DeleteBlob(c)
        PROVE  erased' \subseteq Files /\ spoiled' \subseteq Jobs
    <3>1. client[c].file \in Files
      BY <2>3 DEF DeleteBlob, Points, HandlerPoints
    <3> QED BY <3>1, <2>1, <2>3 DEF DeleteBlob, SideOf
  <2> QED BY <2>1, <2>2, <2>3, Steps, CameFrame, WorkFrame DEF vars, history
<1> QED BY <1>p, <1>l, <1>s, <1>u, <1>e

\* TypeOK is preserved by every step.
LEMMA TypeStep ==
  ASSUME TypeOK, Points, [Next]_vars
  PROVE  TypeOK'
BY StatusTyped, JobTyped, StoreTyped, RunTyped, PurgingTyped, ClientTyped, RestTyped
   DEF TypeOK, StoreOK

-----------------------------------------------------------------------------
(* What workers and handlers point at. *)

\* A step of one worker leaves the others where they are.
LEMMA Others ==
  ASSUME TypeOK, NEW w \in Workers, NEW v \in Workers, v # w, Worked(w) \/ Came(w)
  PROVE  pc'[v] = pc[v] /\ run'[v] = run[v] /\ purging'[v] = purging[v]
<1>t. pc \in [Workers -> WorkerPcs] /\ run \in [Workers -> Run]
      /\ purging \in [Workers -> Seq(Files \cup {None})]
  BY DEF TypeOK
<1>1. pc'[v] = pc[v]
  BY <1>t, Moves
<1>2. run'[v] = run[v]
  <2>1. CASE Worked(w)
    BY <1>t, <2>1 DEF Worked, Reconcile, PurgeJob, PurgeDone, PurgeFile, PurgeRecord,
       PurgeBlob, Pick, Claim, Load, Read, Line, OpenSide, AppendLine, CountLine,
       CheckCancel, Complete, Cancel, Fail, Finish, Raised, Raise, work
  <2>2. CASE Came(w)
    BY <1>t, <2>2 DEF Came, Start, Take, Busy, Release, Crash, work
  <2> QED BY <2>1, <2>2
<1>3. purging'[v] = purging[v]
  <2>1. CASE Worked(w)
    BY <1>t, <2>1 DEF Worked, Reconcile, PurgeJob, PurgeDone, PurgeFile, PurgeRecord,
       PurgeBlob, NextFile, GiveUp, Pick, Claim, Load, Read, Line, OpenSide, AppendLine,
       CountLine, CheckCancel, Complete, Cancel, Fail, Finish, Raised, Raise, work
  <2>2. CASE Came(w)
    BY <1>t, <2>2 DEF Came, Start, Take, Busy, Release, Crash, work
  <2> QED BY <2>1, <2>2
<1> QED BY <1>1, <1>2, <1>3

\* A worker past its claim keeps pointing at a real job, and its purge at files.
LEMMA WorkerPointsStep ==
  ASSUME TypeOK, Points, TypeOK', [Next]_vars
  PROVE  WorkerPoints'
<1>t. /\ pc \in [Workers -> WorkerPcs] /\ run \in [Workers -> Run]
      /\ purging \in [Workers -> Seq(Files \cup {None})]
      /\ pc' \in [Workers -> WorkerPcs] /\ run' \in [Workers -> Run]
  BY DEF TypeOK
<1>k. ASSUME NEW v \in Workers, pc'[v] = pc[v], run'[v] = run[v], purging'[v] = purging[v]
      PROVE  WorkerPoint(v)'
  BY <1>k DEF Points, WorkerPoints, WorkerPoint
<1>i. ASSUME NEW w \in Workers,
             pc'[w] \in {"off", "idle", "reconcile", "purge", "pick", "end"}
      PROVE  WorkerPoint(w)'
  BY <1>i, Labels DEF WorkerPoint
<1>p. ASSUME NEW w \in Workers
      PROVE  WorkerPoint(w)
  BY DEF Points, WorkerPoints
<1>n. ASSUME NEW w \in Workers, NextFile(w), pc[w] \in PurgePcs
      PROVE  WorkerPoint(w)'
  <2>1. purging[w] \in Seq(Files \cup {None}) /\ purging[w] # <<>>
    BY <1>t, <1>n, <1>p DEF WorkerPoint
  <2>2. purging'[w] = Tail(purging[w])
    BY <1>t, <1>n DEF NextFile
  <2>3. CASE Len(purging[w]) = 1
    BY <1>t, <1>i, <1>n, <2>3 DEF NextFile, Goto
  <2>4. CASE Len(purging[w]) # 1
    <3>1. Tail(purging[w]) # <<>>
      <4>1. Len(purging[w]) \in Nat /\ Len(purging[w]) # 0
        BY <2>1, EmptySeq
      <4>2. /\ Len(Tail(purging[w])) = Len(purging[w]) - 1
            /\ Tail(purging[w]) \in Seq(Files \cup {None})
        BY <2>1, HeadTailProperties
      <4>3. Len(Tail(purging[w])) # 0
        BY <2>4, <4>1, <4>2
      <4> QED BY <4>2, <4>3, EmptySeq
    <3>2. pc'[w] = "purgeFile"
      BY <1>t, <1>n, <2>4 DEF NextFile, Goto
    <3> QED BY <2>2, <3>1, <3>2, Labels DEF WorkerPoint
  <2> QED BY <2>3, <2>4
\* A run goes on to a point that asks for its job only.
<1>j. ASSUME NEW w \in Workers, run'[w].job \in Jobs,
             pc'[w] \in {"claim", "load", "read", "open", "check", "complete", "cancel",
                         "fail", "raised"}
      PROVE  WorkerPoint(w)'
  BY <1>j, Labels DEF WorkerPoint
<1>r. ASSUME NEW w \in Workers, pc[w] \in RunPcs \/ pc[w] = "claim"
      PROVE  run[w].job \in Jobs
  BY <1>r, <1>p DEF WorkerPoint
<1>1. ASSUME NEW w \in Workers, Came(w)
      PROVE  WorkerPoint(w)'
  <2>1. pc'[w] \in {"off", "idle", "reconcile", "purge", "pick", "end"}
    BY <1>1, <1>t DEF Came, Start, Take, Busy, Release, Crash, Goto, AfterReconcile
  <2> QED BY <2>1, <1>i
<1>2. ASSUME NEW w \in Workers, Worked(w)
      PROVE  WorkerPoint(w)'
  <2>1. CASE Reconcile(w) \/ PurgeDone(w)
    <3>1. pc'[w] \in {"off", "idle", "reconcile", "purge", "pick", "end"}
      BY <2>1, <1>t DEF Reconcile, PurgeDone, Goto, AfterReconcile
    <3> QED BY <3>1, <1>i
  <2>2. ASSUME NEW j \in Jobs, PurgeJob(w, j)
        PROVE  WorkerPoint(w)'
    <3>1. pc'[w] = "purgeFile" /\ purging'[w] # <<>>
      BY <2>2, <1>t DEF PurgeJob, Goto
    <3> QED BY <3>1, Labels DEF WorkerPoint
  <2>3. CASE PurgeFile(w)
    <3>1. CASE NextFile(w)
      BY <3>1, <2>3, <1>n, Labels DEF PurgeFile, At
    <3>2. CASE Goto(w, "purgeRecord") /\ UNCHANGED purging /\ Head(purging[w]) # None
      <4>1. purging[w] \in Seq(Files \cup {None}) /\ purging[w] # <<>>
        BY <1>t, <1>p, <2>3, Labels DEF WorkerPoint, PurgeFile, At
      <4>2. Head(purging[w]) \in Files
        BY <4>1, <3>2
      <4>3. pc'[w] = "purgeRecord" /\ purging'[w] = purging[w]
        BY <3>2, <1>t DEF Goto
      <4> QED BY <4>1, <4>2, <4>3, Labels DEF WorkerPoint
    <3> QED BY <2>3, <3>1, <3>2 DEF PurgeFile
  <2>4. CASE PurgeRecord(w)
    <3>1. CASE GiveUp(w)
      BY <3>1, <1>t, <1>i DEF GiveUp, Goto
    <3>2. CASE Goto(w, "purgeBlob") /\ UNCHANGED purging
      <4>1. Head(purging[w]) \in Files /\ purging[w] # <<>>
        BY <1>p, <2>4, Labels DEF WorkerPoint, PurgeRecord, At
      <4>2. pc'[w] = "purgeBlob" /\ purging'[w] = purging[w]
        BY <3>2, <1>t DEF Goto
      <4> QED BY <4>1, <4>2, Labels DEF WorkerPoint
    <3> QED BY <2>4, <3>1, <3>2 DEF PurgeRecord
  <2>5. CASE PurgeBlob(w)
    BY <2>5, <1>n, Labels DEF PurgeBlob, At
  <2>6. CASE Pick(w)
    <3>1. CASE Queued = {}
      BY <2>6, <3>1, <1>t, <1>i DEF Pick, Goto
    <3>2. CASE Queued # {}
      <4>1. pc'[w] = "claim" /\ run'[w].job = Oldest(Queued)
        BY <2>6, <3>2, <1>t DEF Pick, Goto, Run
      <4>2. Queued \in SUBSET Nat /\ Queued \subseteq Jobs
        BY DEF Queued, WithStatus, Jobs
      <4>3. Oldest(Queued) \in Queued
        <5>1. PICK j \in Queued : \A k \in Queued : j <= k
          BY <3>2, <4>2, LeastJob
        <5> QED BY <5>1 DEF Oldest
      <4> QED BY <4>1, <4>2, <4>3, <1>j
    <3> QED BY <3>1, <3>2
  <2>7. CASE Claim(w)
    <3>1. run'[w].job \in Jobs
      BY <2>7, <1>r DEF Claim, At, work
    <3>2. pc'[w] \in {"load", "pick", "end"}
      BY <2>7, <1>t DEF Claim, TakeOver, Goto
    <3> QED BY <3>1, <3>2, <1>i, <1>j
  <2>8. CASE Load(w) \/ Raised(w)
    <3>1. run'[w].job \in Jobs
      BY <2>8, <1>r, Labels DEF Load, Raised, At, work
    <3>2. pc'[w] \in {"read", "fail", "pick", "end"}
      BY <2>8, <1>t DEF Load, Raised, Goto, AfterJob
    <3> QED BY <3>1, <3>2, <1>i, <1>j
  <2>9. CASE Read(w)
    <3>1. run[w].job \in Jobs
      BY <2>9, <1>r, Labels DEF Read, At
    <3>2. CASE Goto(w, "fail") /\ UNCHANGED run
      BY <3>1, <3>2, <1>t, <1>j DEF Goto
    <3>3. ASSUME NEW n, n > 0, Goto(w, "line"),
                 run' = [run EXCEPT ![w].left = n, ![w].ok = 0, ![w].bad = 0]
          PROVE  WorkerPoint(w)'
      <4>1. pc'[w] = "line" /\ run'[w].job = run[w].job /\ run'[w].left = n
        BY <3>3, <1>t DEF Goto, Run
      <4> QED BY <3>1, <3>3, <4>1, Labels DEF WorkerPoint
    <3> QED BY <2>9, <3>2, <3>3 DEF Read
  <2>10. CASE Line(w)
    <3>1. run[w].job \in Jobs
      BY <2>10, <1>r, Labels DEF Line, At
    <3>2. pc'[w] = "open" /\ run'[w].job = run[w].job
      BY <2>10, <1>t DEF Line, Goto, Run
    <3> QED BY <3>1, <3>2, <1>j
  <2>11. CASE OpenSide(w)
    <3>1. run[w].job \in Jobs
      BY <2>11, <1>r, Labels DEF OpenSide, At
    <3>2. pc'[w] = "append"
      BY <2>11, <1>t DEF OpenSide, Goto
    <3>3. ASSUME NEW f, run' = [run EXCEPT ![w].side = f]
          PROVE  run'[w].job = run[w].job /\ run'[w].side = f
      BY <3>3, <1>t DEF Run
    <3>4. run'[w].job = run[w].job /\ run'[w].side # None
      <4>1. CASE CreateSide(run[w].job, run[w].result, NewFile)
        <5>1. NewFile \in Files
          BY <4>1 DEF CreateSide, NewFile, Files
        <5>2. NewFile # None
          BY <5>1, BatchAssumption
        <5> QED BY <2>11, <5>2, <3>3 DEF OpenSide
      <4>2. CASE ~CreateSide(run[w].job, run[w].result, NewFile)
        BY <2>11, <3>3, <4>2 DEF OpenSide
      <4> QED BY <4>1, <4>2
    <3>5. run'[w] \in Run
      BY <1>t
    <3>6. run'[w].side \in SideFiles
      BY <3>4, <3>5 DEF Run
    <3> QED BY <3>1, <3>2, <3>4, <3>6, Labels DEF WorkerPoint
  <2>12. CASE AppendLine(w)
    <3>1. run[w].job \in Jobs /\ run[w].side \in SideFiles
      BY <2>12, <1>p, Labels DEF WorkerPoint, AppendLine, At
    <3>2. pc'[w] = "count" /\ run'[w] = run[w]
      BY <2>12, <1>t DEF AppendLine, Goto, work
    <3> QED BY <3>1, <3>2, Labels DEF WorkerPoint
  <2>13. CASE CountLine(w)
    <3>1. run[w].job \in Jobs
      BY <2>13, <1>r, Labels DEF CountLine, At
    <3>2. pc'[w] = "check" /\ run'[w].job = run[w].job
      BY <2>13, <1>t DEF CountLine, Goto, Run
    <3> QED BY <3>1, <3>2, <1>j
  <2>14. CASE CheckCancel(w)
    <3>1. run[w].job \in Jobs
      BY <2>14, <1>r, Labels DEF CheckCancel, At
    <3>2. run'[w] = run[w]
      BY <2>14 DEF CheckCancel, work
    <3>3. CASE pc'[w] \in {"cancel", "complete"}
      BY <3>1, <3>2, <3>3, <1>j
    <3>4. CASE pc'[w] = "line" /\ run[w].left # 0
      <4>1. run[w].left \in Nat
        <5>1. run[w] \in Run
          BY <1>t
        <5> QED BY <5>1 DEF Run
      <4> QED BY <3>1, <3>2, <3>4, <4>1, Labels DEF WorkerPoint
    <3> QED BY <2>14, <1>t, <3>3, <3>4 DEF CheckCancel, Goto
  <2>15. CASE Complete(w) \/ Cancel(w) \/ Fail(w)
    <3>1. pc'[w] \in {"pick", "end"}
      BY <2>15, <1>t DEF Complete, Cancel, Fail, Finish, Goto, AfterJob
    <3> QED BY <3>1, <1>i
  <2>16. CASE Raise(w)
    <3>1. run[w].job \in Jobs
      BY <2>16, <1>r, Labels DEF Raise
    <3>2. pc'[w] = "raised" /\ run'[w] = run[w]
      BY <2>16, <1>t DEF Raise, Goto, work
    <3> QED BY <3>1, <3>2, <1>j
  <2> QED BY <1>2, <2>1, <2>2, <2>3, <2>4, <2>5, <2>6, <2>7, <2>8, <2>9, <2>10, <2>11,
          <2>12, <2>13, <2>14, <2>15, <2>16 DEF Worked
<1>3. ASSUME NEW w \in Workers, Worked(w) \/ Came(w)
      PROVE  WorkerPoints'
  <2>1. ASSUME NEW v \in Workers, v # w
        PROVE  WorkerPoint(v)'
    BY <1>3, <1>k, <2>1, Others
  <2> QED BY <1>1, <1>2, <1>3, <2>1 DEF WorkerPoints
<1>4. ASSUME UNCHANGED machine
      PROVE  WorkerPoints'
  BY <1>4, <1>k DEF WorkerPoints, machine, work
<1> QED BY <1>3, <1>4, Steps, HandlerFrame DEF vars

\* A handler past its first step keeps pointing at a real file or job.
LEMMA HandlerPointsStep ==
  ASSUME TypeOK, Points, [Next]_vars
  PROVE  HandlerPoints'
<1> DEFINE P(c) == /\ client[c].pc \in {"create", "unlink", "delete"} => client[c].file \in Files
                   /\ client[c].pc \in {"cancelQueued", "cancelRunning"} => client[c].job \in Jobs
<1>t. client \in [Clients -> Handler]
  BY DEF TypeOK
<1>p. ASSUME NEW c \in Clients PROVE P(c)
  BY DEF Points, HandlerPoints
<1>k. ASSUME UNCHANGED client PROVE HandlerPoints'
  BY <1>k DEF Points, HandlerPoints
<1>o. ASSUME NEW c \in Clients, NEW r, client' = [client EXCEPT ![c] = r], P(c)'
      PROVE  HandlerPoints'
  <2>1. ASSUME NEW d \in Clients, d # c PROVE P(d)'
    <3>1. client'[d] = client[d]
      BY <1>o, <1>t, <2>1
    <3> QED BY <3>1, <1>p
  <2> QED BY <1>o, <2>1 DEF HandlerPoints
<1>a. ASSUME NEW c \in Clients, Answer(c)
      PROVE  HandlerPoints'
  <2>1. P(c)'
    BY <1>a, <1>t DEF Answer, Free
  <2> QED BY <1>a, <2>1, <1>o DEF Answer
<1>f. ASSUME NEW c \in Clients, NEW l \in {"create", "unlink"}, NEW f \in Files,
             Hold(c, l, f, None)
      PROVE  HandlerPoints'
  <2>1. P(c)'
    BY <1>f, <1>t DEF Hold
  <2> QED BY <1>f, <2>1, <1>o DEF Hold
<1>j. ASSUME NEW c \in Clients, NEW j \in Jobs, Hold(c, "cancelQueued", None, j)
      PROVE  HandlerPoints'
  <2>1. P(c)'
    BY <1>j, <1>t DEF Hold
  <2> QED BY <1>j, <2>1, <1>o DEF Hold
<1>1. ASSUME NEW c \in Clients, Asked(c)
      PROVE  HandlerPoints'
  <2>1. ASSUME NEW f \in Uploads, Upload(c, f) PROVE HandlerPoints'
    BY <2>1, <1>k DEF Upload
  <2>2. ASSUME NEW f \in Files, CreateBegin(c, f) \/ DeleteBegin(c, f) PROVE HandlerPoints'
    BY <2>2, <1>f DEF CreateBegin, DeleteBegin
  <2>3. ASSUME NEW j \in Jobs, CancelBegin(c, j) PROVE HandlerPoints'
    BY <2>3, <1>j DEF CancelBegin
  <2> QED BY <1>1, <2>1, <2>2, <2>3 DEF Asked
<1>2. ASSUME NEW c \in Clients, Handle(c)
      PROVE  HandlerPoints'
  <2>1. CASE Answer(c)
    BY <2>1, <1>a
  <2>2. CASE DeleteBlob(c)
    <3>1. client' = [client EXCEPT ![c] = [client[c] EXCEPT !.pc = "delete"]]
      BY <2>2 DEF DeleteBlob, Go
    <3>2. P(c)'
      BY <2>2, <3>1, <1>t, <1>p DEF DeleteBlob, Handler
    <3> QED BY <3>1, <3>2, <1>o
  <2>3. CASE CancelQueued(c) /\ ~Answer(c)
    <3>1. client' = [client EXCEPT ![c] = [client[c] EXCEPT !.pc = "cancelRunning"]]
      BY <2>3 DEF CancelQueued, Go
    <3>2. P(c)'
      BY <2>3, <3>1, <1>t, <1>p DEF CancelQueued, Handler
    <3> QED BY <3>1, <3>2, <1>o
  <2> QED BY <1>2, <2>1, <2>2, <2>3 DEF Handle, CreateEnd, DeleteRecord, CancelRunning
<1>3. ASSUME NEW w \in Workers, Came(w)
      PROVE  HandlerPoints'
  <2>1. CASE UNCHANGED client
    BY <2>1, <1>k
  <2>2. CASE client' = [c \in Clients |-> Free]
    BY <2>2 DEF HandlerPoints, Free
  <2> QED BY <1>3, <2>1, <2>2 DEF Came, Start, Take, Busy, Release, Crash
<1>4. ASSUME NEW w \in Workers, Worked(w)
      PROVE  HandlerPoints'
  BY <1>4, <1>k, WorkFrame
<1> QED BY <1>1, <1>2, <1>3, <1>4, <1>k, Steps DEF vars

-----------------------------------------------------------------------------
(* One worker at a time, and nobody ends a job under its runner. *)

\* A worker inside a cycle goes on holding the worker lock.
LEMMA LockStep ==
  ASSUME TypeOK, LockHeld, [Next]_vars
  PROVE  LockHeld'
<1>t. pc \in [Workers -> WorkerPcs]
  BY DEF TypeOK
<1>1. ASSUME NEW w \in Workers, Worked(w)
      PROVE  LockHeld'
  <2>1. lock' = w
    BY <1>1, Alone, WorkFrame
  <2>2. ASSUME NEW v \in Workers, v # w
        PROVE  pc'[v] \in {"off", "idle"}
    BY <1>1, <2>2, Alone, Others DEF LockHeld
  <2> QED BY <2>1, <2>2 DEF LockHeld
<1>2. ASSUME NEW w \in Workers, Came(w)
      PROVE  LockHeld'
  <2>1. ASSUME NEW v \in Workers, v # w
        PROVE  pc'[v] = pc[v]
    BY <1>2, <2>1, Others
  <2>2. None \notin Workers
    BY BatchAssumption
  <2>3. CASE Start(w) \/ Busy(w)
    <3>1. pc'[w] \in {"off", "idle"} /\ UNCHANGED lock
      BY <2>3, <1>t DEF Start, Busy, Goto
    <3> QED BY <2>1, <3>1 DEF LockHeld
  <2>4. CASE Take(w)
    BY <2>4, <2>1, <2>2 DEF Take, LockHeld
  <2>5. CASE Release(w)
    <3>1. pc[w] \notin {"off", "idle"} /\ pc'[w] \in {"off", "idle"}
      BY <2>5, <1>t DEF Release, Goto, At
    <3> QED BY <2>1, <3>1 DEF LockHeld
  <2>6. CASE Crash(w)
    <3>1. pc'[w] = "off" /\ (lock' = lock \/ lock = w)
      BY <2>6, <1>t DEF Crash, Goto
    <3> QED BY <2>1, <3>1 DEF LockHeld
  <2> QED BY <1>2, <2>3, <2>4, <2>5, <2>6 DEF Came
<1>3. ASSUME UNCHANGED machine
      PROVE  LockHeld'
  BY <1>3 DEF LockHeld, machine
<1> QED BY <1>1, <1>2, <1>3, Steps, HandlerFrame DEF vars

\* Handlers never reopen, end or reassign a running job, nor change one that ended.
LEMMA HandlersKeepRuns ==
  ASSUME TypeOK, Points, NEW c \in Clients, Asked(c) \/ Handle(c), NEW j \in Jobs
  PROVE  /\ status[j] \in Running => status'[j] \in Running /\ job'[j].by = job[j].by
         /\ status[j] \in Terminal => status'[j] = status[j]
<1>t. status \in [Jobs -> Statuses] /\ job \in [Jobs -> Row]
  BY DEF TypeOK
<1>1. CASE CreateEnd(c)
  <2>1. CASE UNCHANGED jobs
    BY <2>1 DEF jobs
  <2>2. ASSUME NEW k \in Jobs, NextJob(k), SetStatus(k, "validating"),
               NEW r, job' = [job EXCEPT ![k] = r]
        PROVE  /\ status[j] \in Running => status'[j] \in Running /\ job'[j].by = job[j].by
               /\ status[j] \in Terminal => status'[j] = status[j]
    <3>1. status[k] = "none"
      BY <2>2 DEF NextJob, Jobs
    <3>2. CASE j = k
      BY <3>1, <3>2, States
    <3>3. CASE j # k
      BY <3>3, <2>2, <1>t DEF SetStatus
    <3> QED BY <3>2, <3>3
  <2> QED BY <1>1, <2>1, <2>2 DEF CreateEnd
<1>2. CASE CancelQueued(c) \/ CancelRunning(c)
  <2>1. UNCHANGED job /\ client[c].job \in Jobs
    BY <1>2 DEF CancelQueued, CancelRunning, Points, HandlerPoints
  <2>2. \/ UNCHANGED status
        \/ status[client[c].job] = "validating" /\ SetStatus(client[c].job, "cancelled")
        \/ status[client[c].job] = "in_progress" /\ SetStatus(client[c].job, "cancelling")
    BY <1>2 DEF CancelQueued, CancelRunning
  <2> QED BY <2>1, <2>2, <1>t, States DEF SetStatus
<1>3. CASE DeleteRecord(c)
  <2>1. UNCHANGED status
    BY <1>3 DEF DeleteRecord
  <2>2. job'[j].by = job[j].by
    <3>1. CASE UNCHANGED job
      BY <3>1
    <3>2. CASE DeleteRow(client[c].file)
      <4>1. job[j] \in Row
        BY <1>t
      <4> QED BY <3>2, <4>1 DEF DeleteRow, Row
    <3> QED BY <1>3, <3>1, <3>2 DEF DeleteRecord
  <2> QED BY <2>1, <2>2
<1>4. CASE DeleteBlob(c) \/ Asked(c)
  <2>1. UNCHANGED jobs
    BY <1>4 DEF DeleteBlob, Asked, Upload, CreateBegin, DeleteBegin, CancelBegin
  <2> QED BY <2>1 DEF jobs
<1> QED BY <1>1, <1>2, <1>3, <1>4 DEF Handle

\* The job being run stays in_progress or cancelling, claimed by its worker.
LEMMA OwnedStep ==
  ASSUME TypeOK, Points, LockHeld, Owned, [Next]_vars
  PROVE  Owned'
<1> DEFINE O(w) == pc[w] \in RunPcs =>
                     status[run[w].job] \in Running /\ job[run[w].job].by = w
<1>t. /\ pc \in [Workers -> WorkerPcs] /\ run \in [Workers -> Run]
      /\ status \in [Jobs -> Statuses] /\ job \in [Jobs -> Row]
  BY DEF TypeOK
<1>j. ASSUME NEW w \in Workers, pc[w] \in RunPcs \/ pc[w] = "claim"
      PROVE  run[w].job \in Jobs
  BY <1>j DEF Points, WorkerPoints, WorkerPoint
<1>o. ASSUME NEW w \in Workers PROVE O(w)
  BY DEF Owned
<1>1. ASSUME NEW w \in Workers, Worked(w)
      PROVE  Owned'
  <2>1. ASSUME NEW v \in Workers, v # w
        PROVE  O(v)'
    <3>1. pc'[v] \in {"off", "idle"}
      BY <1>1, <2>1, Alone, Others DEF LockHeld
    <3> QED BY <3>1, Labels
  <2> SUFFICES O(w)'
    BY <2>1 DEF Owned
  <2>2. ASSUME pc'[w] \notin RunPcs PROVE O(w)'
    BY <2>2
  <2>3. ASSUME pc[w] \in RunPcs, UNCHANGED status, run'[w].job = run[w].job,
               job'[run[w].job].by = job[run[w].job].by
        PROVE  O(w)'
    BY <2>3, <1>o
  <2>4. CASE Reconcile(w) \/ (\E j \in Jobs : PurgeJob(w, j)) \/ PurgeDone(w) \/ PurgeFile(w)
             \/ PurgeRecord(w) \/ PurgeBlob(w) \/ Pick(w)
    <3>1. pc'[w] \in {"purge", "pick", "purgeFile", "purgeRecord", "purgeBlob", "claim", "end"}
      BY <2>4, <1>t DEF Reconcile, PurgeJob, PurgeDone, PurgeFile, PurgeRecord, PurgeBlob,
         Pick, NextFile, GiveUp, Goto, AfterReconcile
    <3> QED BY <2>2, <3>1, Labels
  <2>5. CASE Complete(w) \/ Cancel(w) \/ Fail(w)
    <3>1. pc'[w] \in {"pick", "end"}
      BY <2>5, <1>t DEF Complete, Cancel, Fail, Finish, Goto, AfterJob
    <3> QED BY <2>2, <3>1, Labels
  <2>6. CASE Claim(w)
    <3>1. CASE TakeOver(w, run[w].job)
      <4>1. run[w].job \in Jobs /\ run'[w] = run[w]
        BY <2>6, <1>j DEF Claim, At, work
      <4>2. job[run[w].job] \in Row
        BY <4>1, <1>t
      <4>3. status'[run[w].job] = "in_progress" /\ job'[run[w].job].by = w
        BY <3>1, <4>1, <4>2, <1>t DEF TakeOver, SetStatus, Row
      <4> QED BY <4>1, <4>3, States
    <3>2. CASE \E label \in {"pick", "end"} : Goto(w, label)
      BY <3>2, <1>t, <2>2, Labels DEF Goto
    <3> QED BY <2>6, <3>1, <3>2 DEF Claim
  <2>7. CASE Load(w) \/ Raised(w) \/ AppendLine(w) \/ CheckCancel(w) \/ Raise(w)
    <3>1. UNCHANGED <<jobs, run>> /\ pc[w] \in RunPcs
      BY <2>7, Labels DEF Load, Raised, AppendLine, CheckCancel, Raise, At, work
    <3> QED BY <2>3, <3>1 DEF jobs
  <2>8. CASE Line(w)
    <3>1. UNCHANGED jobs /\ pc[w] \in RunPcs
      BY <2>8, Labels DEF Line, At
    <3>2. run'[w].job = run[w].job
      BY <2>8, <1>t DEF Line, Run
    <3> QED BY <2>3, <3>1, <3>2 DEF jobs
  <2>9. CASE Read(w) \/ OpenSide(w) \/ CountLine(w)
    <3>1. UNCHANGED status /\ pc[w] \in RunPcs
      BY <2>9, Labels DEF Read, OpenSide, CountLine, At
    <3>2. run'[w].job = run[w].job
      <4>1. run[w] \in Run
        BY <1>t
      <4>2. CASE Read(w)
        BY <4>1, <4>2, <1>t DEF Read, Run
      <4>3. CASE OpenSide(w)
        BY <4>1, <4>3, <1>t DEF OpenSide, Run
      <4>4. CASE CountLine(w)
        BY <4>1, <4>4, <1>t DEF CountLine, Run
      <4> QED BY <2>9, <4>2, <4>3, <4>4
    <3>3. job[run[w].job] \in Row /\ run[w].job \in Jobs
      BY <3>1, <1>t, <1>j
    <3>4. job'[run[w].job].by = job[run[w].job].by
      <4>1. CASE Read(w)
        BY <4>1, <1>t, <3>3 DEF Read, Row
      <4>2. CASE OpenSide(w)
        BY <4>2, <1>t, <3>3 DEF OpenSide, CreateSide, Row
      <4>3. CASE CountLine(w)
        BY <4>3, <1>t, <3>3 DEF CountLine, SaveCounts, Row
      <4> QED BY <2>9, <4>1, <4>2, <4>3
    <3> QED BY <2>3, <3>1, <3>2, <3>4
  <2> QED BY <1>1, <2>4, <2>5, <2>6, <2>7, <2>8, <2>9 DEF Worked
<1>2. ASSUME NEW w \in Workers, Came(w)
      PROVE  Owned'
  <2>1. UNCHANGED jobs
    BY <1>2, CameFrame
  <2>2. pc'[w] \in {"off", "idle", "reconcile", "purge", "pick"}
    BY <1>2, <1>t DEF Came, Start, Take, Busy, Release, Crash, Goto, AfterReconcile
  <2>3. ASSUME NEW v \in Workers, v # w
        PROVE  O(v)'
    BY <1>2, <2>1, <2>3, <1>o, Others DEF jobs
  <2> QED BY <2>2, <2>3, Labels DEF Owned
<1>3. ASSUME NEW c \in Clients, Asked(c) \/ Handle(c)
      PROVE  Owned'
  <2>1. UNCHANGED <<pc, run>>
    BY <1>3, HandlerFrame DEF machine, work
  <2>2. ASSUME NEW w \in Workers PROVE O(w)'
    BY <2>1, <1>o, <1>j, <1>3, HandlersKeepRuns
  <2> QED BY <2>2 DEF Owned
<1>4. ASSUME UNCHANGED vars
      PROVE  Owned'
  BY <1>4, <1>o DEF vars, jobs, machine, work, Owned
<1> QED BY <1>1, <1>2, <1>3, <1>4, Steps

\* The step of TerminalIsFinal: a run saves only the job it owns.
LEMMA TerminalStep ==
  ASSUME TypeOK, Points, Owned, [Next]_vars, NEW j \in Jobs, status[j] \in Terminal
  PROVE  status'[j] \in {status[j], "deleted"}
<1>t. status \in [Jobs -> Statuses]
  BY DEF TypeOK
<1>s. ASSUME NEW k \in Jobs, NEW s, SetStatus(k, s), status[k] \notin Terminal
      PROVE  status'[j] = status[j]
  BY <1>s, <1>t DEF SetStatus
<1>1. ASSUME NEW w \in Workers, Reconcile(w)
      PROVE  status'[j] = status[j]
  BY <1>1, States DEF Reconcile
<1>2. ASSUME NEW w \in Workers, NEW k \in Jobs, PurgeJob(w, k)
      PROVE  status'[j] \in {status[j], "deleted"}
  BY <1>2, <1>t DEF PurgeJob, SetStatus
<1>3. ASSUME NEW w \in Workers, Claim(w)
      PROVE  status'[j] = status[j]
  <2>1. run[w].job \in Jobs
    BY <1>3 DEF Claim, At, Points, WorkerPoints, WorkerPoint
  <2> QED BY <1>3, <2>1, <1>s, States DEF Claim, TakeOver, jobs
<1>4. ASSUME NEW w \in Workers, Complete(w) \/ Cancel(w) \/ Fail(w)
      PROVE  status'[j] = status[j]
  <2>1. pc[w] \in RunPcs
    BY <1>4, Labels DEF Complete, Cancel, Fail, At
  <2>2. run[w].job \in Jobs /\ status[run[w].job] \in Running
    BY <2>1 DEF Owned, Points, WorkerPoints, WorkerPoint
  <2>3. status[run[w].job] \notin Terminal
    BY <2>2 DEF Running, Terminal
  <2> QED BY <1>4, <2>2, <2>3, <1>s DEF Complete, Cancel, Fail, Finish
<1>5. ASSUME NEW c \in Clients, CreateEnd(c) \/ CancelQueued(c) \/ CancelRunning(c)
      PROVE  status'[j] = status[j]
  BY <1>5, HandlersKeepRuns DEF Handle
<1> QED BY <1>1, <1>2, <1>3, <1>4, <1>5, StatusFrame

-----------------------------------------------------------------------------
(* Rows and files that stay. *)

\* Only its creation makes a job exist.
LEMMA NoResurrection ==
  ASSUME TypeOK, Points, Owned, [Next]_vars, NEW j \in Jobs, Exists(j)'
  PROVE  \/ Exists(j)
         \/ /\ job'[j].output = None /\ job'[j].error = None
            /\ job'[j].input \in record /\ UNCHANGED record
<1>t. status \in [Jobs -> Statuses] /\ job \in [Jobs -> Row]
  BY DEF TypeOK
<1>s. ASSUME NEW k \in Jobs, NEW s, SetStatus(k, s), Exists(k)
      PROVE  Exists(j)
  BY <1>s, <1>t DEF SetStatus, Exists
<1>1. ASSUME NEW w \in Workers, Reconcile(w)
      PROVE  Exists(j)
  BY <1>1 DEF Reconcile, Exists
<1>2. ASSUME NEW w \in Workers, NEW k \in Jobs, PurgeJob(w, k)
      PROVE  Exists(j)
  BY <1>2, <1>s, States DEF PurgeJob, Exists
<1>3. ASSUME NEW w \in Workers, Claim(w)
      PROVE  Exists(j)
  <2>1. run[w].job \in Jobs
    BY <1>3 DEF Claim, At, Points, WorkerPoints, WorkerPoint
  <2> QED BY <1>3, <2>1, <1>s DEF Claim, TakeOver, jobs, Exists
<1>4. ASSUME NEW w \in Workers, Complete(w) \/ Cancel(w) \/ Fail(w)
      PROVE  Exists(j)
  <2>1. pc[w] \in RunPcs
    BY <1>4, Labels DEF Complete, Cancel, Fail, At
  <2>2. run[w].job \in Jobs /\ status[run[w].job] \in Running
    BY <2>1 DEF Owned, Points, WorkerPoints, WorkerPoint
  <2>3. Exists(run[w].job)
    BY <2>2 DEF Running, Exists
  <2> QED BY <1>4, <2>2, <2>3, <1>s DEF Complete, Cancel, Fail, Finish
<1>5. ASSUME NEW c \in Clients, CancelQueued(c) \/ CancelRunning(c)
      PROVE  Exists(j)
  <2>1. client[c].job \in Jobs
    BY <1>5 DEF CancelQueued, CancelRunning, Points, HandlerPoints
  <2> QED BY <1>5, <2>1, <1>s DEF CancelQueued, CancelRunning, Exists
<1>6. ASSUME NEW c \in Clients, CreateEnd(c)
      PROVE  \/ Exists(j)
             \/ /\ job'[j].output = None /\ job'[j].error = None
                /\ job'[j].input \in record /\ UNCHANGED record
  <2>1. CASE UNCHANGED jobs
    BY <2>1 DEF jobs, Exists
  <2>2. ASSUME NEW k \in Jobs, SetStatus(k, "validating"), client[c].file \in record,
               job' = [job EXCEPT ![k] = [NoJob EXCEPT !.input = client[c].file]]
        PROVE  \/ Exists(j)
               \/ /\ job'[j].output = None /\ job'[j].error = None
                  /\ job'[j].input \in record /\ UNCHANGED record
    <3>1. CASE j = k
      <4>1. job'[j] = [NoJob EXCEPT !.input = client[c].file]
        BY <2>2, <3>1, <1>t
      <4> QED BY <2>2, <4>1, <1>6 DEF NoJob, CreateEnd, store
    <3>2. CASE j # k
      BY <2>2, <3>2, <1>t DEF SetStatus, Exists
    <3> QED BY <3>1, <3>2
  <2> QED BY <1>6, <2>1, <2>2 DEF CreateEnd
<1> QED BY <1>1, <1>2, <1>3, <1>4, <1>5, <1>6, StatusFrame DEF Exists

\* A row of a file goes only when no job reads it, and its links go along.
LEMMA RowsGo ==
  ASSUME TypeOK, Points, Links, [Next]_vars
  PROVE  \/ record \subseteq record'
         \/ \E f \in Files : DeleteRow(f) /\ ~Protected(f) /\ UNCHANGED status
<1>1. ASSUME NEW w \in Workers, PurgeRecord(w)
      PROVE  UNCHANGED record
             \/ \E f \in Files : DeleteRow(f) /\ ~Protected(f) /\ UNCHANGED status
  <2>1. Head(purging[w]) \in Files
    BY <1>1 DEF PurgeRecord, At, Points, WorkerPoints, WorkerPoint
  <2> QED BY <1>1, <2>1 DEF PurgeRecord
<1>2. ASSUME NEW c \in Clients, DeleteRecord(c)
      PROVE  UNCHANGED record
             \/ \E f \in Files : DeleteRow(f) /\ ~Protected(f) /\ UNCHANGED status
  <2>1. client[c].file \in Files
    BY <1>2 DEF DeleteRecord, Points, HandlerPoints
  <2> QED BY <1>2, <2>1 DEF DeleteRecord
<1>3. ASSUME NEW w \in Workers, PurgeBlob(w) \/ OpenSide(w) \/ AppendLine(w)
      PROVE  record \subseteq record'
  BY <1>3 DEF PurgeBlob, OpenSide, AppendLine, CreateSide, store
<1>4. ASSUME NEW c \in Clients, (\E f \in Uploads : Upload(c, f)) \/ DeleteBlob(c)
      PROVE  record \subseteq record'
  BY <1>4 DEF Upload, DeleteBlob
<1> QED BY <1>1, <1>2, <1>3, <1>4, StoreFrame DEF store

\* Ids are given once: what gets a row or a blob was fresh, and is fresh no more.
LEMMA IdsOnce ==
  ASSUME TypeOK, Points, Links, PurgesApart, [Next]_vars
  PROVE  /\ fresh' \subseteq fresh
         /\ record' \subseteq record \cup (fresh \ fresh')
         /\ record' \subseteq blob' \cup erased'
<1>0. /\ record \subseteq blob \cup erased /\ erased \subseteq erased'
  <2>1. ASSUME NEW c \in Clients, Asked(c) \/ Handle(c)
        PROVE  erased \subseteq erased'
    BY <2>1 DEF Asked, Handle, Upload, CreateBegin, CreateEnd, DeleteBegin, DeleteBlob,
       DeleteRecord, CancelBegin, CancelQueued, CancelRunning, history
  <2> QED BY <2>1, Steps, CameFrame, WorkFrame DEF Links, history, vars
<1>1. ASSUME NEW w \in Workers, PurgeRecord(w)
      PROVE  UNCHANGED <<blob, fresh>> /\ record' \subseteq record
  BY <1>1 DEF PurgeRecord, DeleteRow
<1>2. ASSUME NEW c \in Clients, DeleteRecord(c)
      PROVE  UNCHANGED <<blob, fresh>> /\ record' \subseteq record
  BY <1>2 DEF DeleteRecord, DeleteRow
<1>3. ASSUME NEW w \in Workers, PurgeBlob(w)
      PROVE  UNCHANGED <<record, fresh>> /\ record \subseteq blob' \cup erased
  <2>1. Head(purging[w]) \notin record
    BY <1>3 DEF PurgeBlob, At, PurgesApart, WorkerPurge
  <2> QED BY <1>0, <1>3, <2>1 DEF PurgeBlob, Unlink
<1>4. ASSUME NEW c \in Clients, DeleteBlob(c)
      PROVE  UNCHANGED <<record, fresh>> /\ record \subseteq blob' \cup erased'
  BY <1>0, <1>4 DEF DeleteBlob, Unlink
<1>5. ASSUME NEW w \in Workers, AppendLine(w)
      PROVE  UNCHANGED <<record, fresh>> /\ blob \subseteq blob'
  BY <1>5 DEF AppendLine
<1>6. ASSUME NEW f \in fresh, record' = record \cup {f}, blob' = blob \cup {f}, fresh' = fresh \ {f}
      PROVE  /\ fresh' \subseteq fresh
             /\ record' \subseteq record \cup (fresh \ fresh')
             /\ record' \subseteq blob' \cup erased'
  BY <1>0, <1>6
<1>7. ASSUME NEW w \in Workers, OpenSide(w)
      PROVE  UNCHANGED store
             \/ \E f \in fresh : /\ record' = record \cup {f} /\ blob' = blob \cup {f}
                                 /\ fresh' = fresh \ {f}
  <2>1. CASE CreateSide(run[w].job, run[w].result, NewFile)
    <3>1. NewFile \in fresh
      BY <2>1 DEF CreateSide, NewFile
    <3> QED BY <2>1, <3>1 DEF CreateSide
  <2> QED BY <1>7, <2>1 DEF OpenSide
<1>8. ASSUME NEW c \in Clients, NEW f \in Uploads, Upload(c, f)
      PROVE  f \in fresh /\ record' = record \cup {f} /\ blob' = blob \cup {f}
             /\ fresh' = fresh \ {f}
  BY <1>8 DEF Upload
<1>9. CASE UNCHANGED store
  BY <1>0, <1>9 DEF store
<1>10. ASSUME NEW w \in Workers, PurgeRecord(w) \/ PurgeBlob(w) \/ AppendLine(w)
       PROVE  /\ fresh' \subseteq fresh /\ record' \subseteq record
              /\ record' \subseteq blob' \cup erased'
  BY <1>0, <1>1, <1>3, <1>5, <1>10
<1>11. ASSUME NEW c \in Clients, DeleteBlob(c) \/ DeleteRecord(c)
       PROVE  /\ fresh' \subseteq fresh /\ record' \subseteq record
              /\ record' \subseteq blob' \cup erased'
  BY <1>0, <1>2, <1>4, <1>11
<1> QED BY <1>6, <1>7, <1>8, <1>9, <1>10, <1>11, StoreFrame

\* A job that exists keeps its input; a new side file of it has its row.
LEMMA LinksKept ==
  ASSUME TypeOK, Points, [Next]_vars, NEW j \in Jobs, Exists(j),
         ~\E f \in Files : DeleteRow(f) /\ ~Protected(f) /\ UNCHANGED status
  PROVE  /\ job'[j].input = job[j].input
         /\ job'[j].output \in {job[j].output} \cup record'
         /\ job'[j].error \in {job[j].error} \cup record'
<1>t. job \in [Jobs -> Row] /\ job[j] \in Row
  BY DEF TypeOK
<1>r. ASSUME NEW w \in Workers, pc[w] \in RunPcs \/ pc[w] = "claim"
      PROVE  run[w].job \in Jobs
  BY <1>r DEF Points, WorkerPoints, WorkerPoint
<1>k. CASE UNCHANGED job
  BY <1>k
<1>1. ASSUME NEW w \in Workers, PurgeRecord(w)
      PROVE  UNCHANGED job
  <2>1. Head(purging[w]) \in Files
    BY <1>1 DEF PurgeRecord, At, Points, WorkerPoints, WorkerPoint
  <2> QED BY <1>1, <2>1 DEF PurgeRecord
<1>2. ASSUME NEW c \in Clients, DeleteRecord(c)
      PROVE  UNCHANGED job
  <2>1. client[c].file \in Files
    BY <1>2 DEF DeleteRecord, Points, HandlerPoints
  <2> QED BY <1>2, <2>1 DEF DeleteRecord
<1>3. ASSUME NEW w \in Workers, Claim(w)
      PROVE  /\ job'[j].input = job[j].input
             /\ job'[j].output = job[j].output /\ job'[j].error = job[j].error
  <2>1. run[w].job \in Jobs
    BY <1>r, <1>3 DEF Claim, At
  <2>2. UNCHANGED job \/ job' = [job EXCEPT ![run[w].job].by = w]
    BY <1>3 DEF Claim, TakeOver, jobs
  <2> QED BY <2>1, <2>2, <1>t DEF Row
<1>4. ASSUME NEW w \in Workers, Read(w)
      PROVE  /\ job'[j].input = job[j].input
             /\ job'[j].output = job[j].output /\ job'[j].error = job[j].error
  <2>1. run[w].job \in Jobs
    BY <1>r, <1>4, Labels DEF Read, At
  <2>2. ASSUME NEW n, job' = [job EXCEPT ![run[w].job].total = n]
        PROVE  /\ job'[j].input = job[j].input
               /\ job'[j].output = job[j].output /\ job'[j].error = job[j].error
    BY <2>1, <2>2, <1>t DEF Row
  <2> QED BY <1>4, <2>2 DEF Read
<1>5. ASSUME NEW w \in Workers, CountLine(w) \/ Complete(w) \/ Cancel(w)
      PROVE  /\ job'[j].input = job[j].input
             /\ job'[j].output = job[j].output /\ job'[j].error = job[j].error
  <2>1. run[w].job \in Jobs
    BY <1>r, <1>5, Labels DEF CountLine, Complete, Cancel, At
  <2>2. SaveCounts(w, run[w].job)
    BY <1>5 DEF CountLine, Complete, Cancel
  <2> QED BY <2>1, <2>2, <1>t DEF SaveCounts, Row
<1>6. ASSUME NEW w \in Workers, OpenSide(w)
      PROVE  /\ job'[j].input = job[j].input
             /\ job'[j].output \in {job[j].output} \cup record'
             /\ job'[j].error \in {job[j].error} \cup record'
  <2>1. run[w].job \in Jobs
    BY <1>r, <1>6, Labels DEF OpenSide, At
  <2>2. CASE UNCHANGED job
    BY <2>2
  <2>3. CASE CreateSide(run[w].job, run[w].result, NewFile)
    <3>1. NewFile \in record'
      BY <2>3 DEF CreateSide
    <3>2. \/ job' = [job EXCEPT ![run[w].job].output = NewFile]
          \/ job' = [job EXCEPT ![run[w].job].error = NewFile]
      BY <2>3 DEF CreateSide
    <3> QED BY <2>1, <3>1, <3>2, <1>t DEF Row
  <2> QED BY <1>6, <2>2, <2>3 DEF OpenSide
<1>7. ASSUME NEW c \in Clients, CreateEnd(c)
      PROVE  job'[j] = job[j]
  <2>1. CASE UNCHANGED jobs
    BY <2>1 DEF jobs
  <2>2. ASSUME NEW k \in Jobs, NextJob(k), NEW r, job' = [job EXCEPT ![k] = r]
        PROVE  job'[j] = job[j]
    <3>1. status[k] = "none"
      BY <2>2 DEF NextJob, Jobs
    <3>2. j # k
      BY <3>1 DEF Exists
    <3> QED BY <2>2, <3>2, <1>t
  <2> QED BY <1>7, <2>1, <2>2 DEF CreateEnd
<1> QED BY <1>k, <1>1, <1>2, <1>3, <1>4, <1>5, <1>6, <1>7, JobFrame

\* The files a job names keep their rows, and a row its blob unless a client's
\* delete unlinked it.
LEMMA LinksStep ==
  ASSUME TypeOK, Points, Owned, Links, PurgesApart, [Next]_vars
  PROVE  Links'
<1>1. record' \cap fresh' = {} /\ record' \subseteq blob' \cup erased'
  BY IdsOnce DEF Links
<1>2. ASSUME NEW j \in Jobs, Exists(j)'
      PROVE  /\ job'[j].input \in record'
             /\ job'[j].output \in record' \cup {None}
             /\ job'[j].error \in record' \cup {None}
  <2>1. CASE ~Exists(j)
    BY <1>2, <2>1, NoResurrection
  <2>2. CASE Exists(j)
    <3>0. Linked(j)
      BY DEF Links
    <3>1. ASSUME NEW f \in Files, DeleteRow(f), ~Protected(f)
          PROVE  /\ job'[j].input \in record'
                 /\ job'[j].output \in record' \cup {None}
                 /\ job'[j].error \in record' \cup {None}
      <4>1. job[j].input # f
        BY <2>2, <3>1 DEF Protected, InputOf
      <4>2. job[j] \in Row
        BY DEF TypeOK
      <4>3. /\ job'[j].input = job[j].input
            /\ job'[j].output \in {None, job[j].output} /\ (job'[j].output # f \/ f = None)
            /\ job'[j].error \in {None, job[j].error} /\ (job'[j].error # f \/ f = None)
        <5>1. job'[j] = [job[j] EXCEPT !.output = IF @ = f THEN None ELSE @,
                                       !.error = IF @ = f THEN None ELSE @]
          BY <3>1 DEF DeleteRow
        <5> QED BY <4>2, <5>1 DEF Row
      <4>4. record' = record \ {f}
        BY <3>1 DEF DeleteRow
      <4>5. /\ job[j].input \in record
            /\ job[j].output \in record \cup {None}
            /\ job[j].error \in record \cup {None}
        BY <2>2, <3>0 DEF Linked
      <4> QED BY <4>1, <4>3, <4>4, <4>5
    <3>2. CASE ~\E f \in Files : DeleteRow(f) /\ ~Protected(f) /\ UNCHANGED status
      <4>1. record \subseteq record'
        BY <3>2, RowsGo
      <4> QED BY <2>2, <3>0, <3>2, <4>1, LinksKept DEF Linked
    <3> QED BY <3>1, <3>2
  <2> QED BY <2>1, <2>2
<1> QED BY <1>1, <1>2 DEF Links, Linked, Exists

\* A file being purged stays out of the new ids, and loses its row before its blob.
LEMMA PurgesStep ==
  ASSUME TypeOK, Points, Links, PurgesApart, TypeOK', [Next]_vars
  PROVE  PurgesApart'
<1>t. /\ pc \in [Workers -> WorkerPcs] /\ purging \in [Workers -> Seq(Files \cup {None})]
      /\ pc' \in [Workers -> WorkerPcs] /\ job \in [Jobs -> Row]
  BY DEF TypeOK
<1>f. fresh' \subseteq fresh /\ record' \subseteq record \cup fresh
  BY IdsOnce
<1>p. ASSUME NEW w \in Workers
      PROVE  WorkerPurge(w) /\ WorkerPoint(w)
  BY DEF PurgesApart, Points, WorkerPoints
<1>o. ASSUME NEW w \in Workers, pc'[w] \notin PurgePcs
      PROVE  WorkerPurge(w)'
  BY <1>o, Labels DEF WorkerPurge
<1>q. ASSUME NEW w \in Workers, pc[w] \in PurgePcs
      PROVE  /\ purging[w] \in Seq(Files \cup {None}) /\ purging[w] # <<>>
             /\ Head(purging[w]) \notin fresh
  <2>1. purging[w] \in Seq(Files \cup {None}) /\ purging[w] # <<>>
    BY <1>q, <1>p, <1>t DEF WorkerPoint
  <2>2. 1 \in DOMAIN purging[w] /\ Head(purging[w]) = purging[w][1]
    BY <2>1
  <2> QED BY <1>q, <1>p, <2>1, <2>2 DEF WorkerPurge
\* A worker that goes on with the same files.
<1>k. ASSUME NEW w \in Workers, pc[w] \in PurgePcs, purging'[w] = purging[w],
             pc'[w] = "purgeBlob" => Head(purging[w]) \notin record'
      PROVE  WorkerPurge(w)'
  BY <1>k, <1>p, <1>f, Labels DEF WorkerPurge
<1>u. ASSUME NEW w \in Workers, pc'[w] = pc[w], purging'[w] = purging[w]
      PROVE  WorkerPurge(w)'
  <2>1. CASE pc[w] \in PurgePcs
    <3>1. pc[w] = "purgeBlob" => Head(purging[w]) \notin record'
      BY <2>1, <1>p, <1>q, <1>f DEF WorkerPurge
    <3> QED BY <1>u, <2>1, <3>1, <1>k
  <2>2. CASE pc[w] \notin PurgePcs
    BY <1>u, <2>2, <1>o
  <2> QED BY <2>1, <2>2
<1>n. ASSUME NEW w \in Workers, pc[w] \in PurgePcs, NextFile(w)
      PROVE  WorkerPurge(w)'
  <2>1. pc'[w] \in {"purge", "purgeFile"} /\ purging'[w] = Tail(purging[w])
    BY <1>n, <1>t DEF NextFile, Goto
  <2>2. ASSUME NEW i \in DOMAIN Tail(purging[w])
        PROVE  Tail(purging[w])[i] \notin fresh
    <3>1. i + 1 \in DOMAIN purging[w] /\ Tail(purging[w])[i] = purging[w][i + 1]
      BY <1>n, <1>q
    <3> QED BY <3>1, <1>n, <1>p DEF WorkerPurge
  <2> QED BY <2>1, <2>2, <1>f DEF WorkerPurge
<1>1. ASSUME NEW w \in Workers, Came(w)
      PROVE  WorkerPurge(w)'
  <2>1. pc'[w] \in {"off", "idle", "reconcile", "purge", "pick"}
    BY <1>1, <1>t DEF Came, Start, Take, Busy, Release, Crash, Goto, AfterReconcile
  <2> QED BY <2>1, <1>o, Labels
<1>2. ASSUME NEW w \in Workers, Worked(w)
      PROVE  WorkerPurge(w)'
  <2>1. CASE PurgeDone(w) \/ Reconcile(w) \/ Pick(w) \/ Claim(w) \/ Load(w) \/ Read(w)
             \/ Line(w) \/ OpenSide(w) \/ AppendLine(w) \/ CountLine(w) \/ CheckCancel(w)
    <3>1. pc'[w] \in {"purge", "pick", "claim", "load", "read", "line", "open", "append",
                      "count", "check", "cancel", "complete", "fail", "end"}
      BY <2>1, <1>t DEF PurgeDone, Reconcile, Pick, Claim, TakeOver, Load, Read, Line,
         OpenSide, AppendLine, CountLine, CheckCancel, Goto, AfterReconcile, AfterJob
    <3> QED BY <3>1, <1>o, Labels
  <2>2. CASE Complete(w) \/ Cancel(w) \/ Fail(w) \/ Raised(w) \/ Raise(w)
    <3>1. pc'[w] \in {"pick", "end", "fail", "raised"}
      BY <2>2, <1>t DEF Complete, Cancel, Fail, Finish, Raised, Raise, Goto, AfterJob
    <3> QED BY <3>1, <1>o, Labels
  <2>3. ASSUME NEW j \in Jobs, PurgeJob(w, j)
        PROVE  WorkerPurge(w)'
    <3>1. Linked(j) /\ Exists(j)
      BY <2>3 DEF Links, PurgeJob, Terminal, Exists
    <3>2. None \notin fresh
      BY BatchAssumption DEF TypeOK
    <3>3. job[j].input \notin fresh /\ job[j].output \notin fresh /\ job[j].error \notin fresh
      BY <3>1, <3>2 DEF Linked, Links
    <3>4. pc'[w] = "purgeFile"
          /\ purging'[w] = <<job[j].input, job[j].output, job[j].error>>
      BY <2>3, <1>t DEF PurgeJob, Goto
    <3>5. \A i \in DOMAIN purging'[w] : purging'[w][i] \notin fresh
      BY <3>3, <3>4
    <3> QED BY <3>4, <3>5, <1>f DEF WorkerPurge
  <2>4. CASE PurgeFile(w)
    <3>1. pc[w] \in PurgePcs
      BY <2>4, Labels DEF PurgeFile, At
    <3>2. CASE NextFile(w)
      BY <3>1, <3>2, <1>n
    <3>3. CASE Goto(w, "purgeRecord") /\ UNCHANGED purging
      BY <3>1, <3>3, <1>k, <1>t DEF Goto
    <3> QED BY <2>4, <3>2, <3>3 DEF PurgeFile
  <2>5. CASE PurgeRecord(w)
    <3>1. pc[w] \in PurgePcs
      BY <2>5, Labels DEF PurgeRecord, At
    <3>2. CASE GiveUp(w)
      BY <3>2, <1>o, <1>t, Labels DEF GiveUp, Goto
    <3>3. CASE DeleteRow(Head(purging[w])) /\ UNCHANGED purging
      BY <3>1, <3>3, <1>k DEF DeleteRow
    <3> QED BY <2>5, <3>2, <3>3 DEF PurgeRecord
  <2>6. CASE PurgeBlob(w)
    BY <2>6, <1>n, Labels DEF PurgeBlob, At
  <2> QED BY <1>2, <2>1, <2>2, <2>3, <2>4, <2>5, <2>6 DEF Worked
<1>3. ASSUME NEW w \in Workers, Worked(w) \/ Came(w)
      PROVE  PurgesApart'
  <2>1. ASSUME NEW v \in Workers, v # w
        PROVE  WorkerPurge(v)'
    BY <1>3, <1>u, <2>1, Others
  <2> QED BY <1>1, <1>2, <1>3, <2>1 DEF PurgesApart
<1>4. ASSUME UNCHANGED machine
      PROVE  PurgesApart'
  BY <1>4, <1>u DEF PurgesApart, machine, work
<1> QED BY <1>3, <1>4, Steps, HandlerFrame DEF vars

-----------------------------------------------------------------------------
(* The theorems. *)

Inv == TypeOK /\ Points /\ LockHeld /\ Owned /\ Links /\ PurgesApart

\* The invariant holds in the initial states.
LEMMA Initial ==
  ASSUME Init
  PROVE  Inv
<1>1. TypeOK
  <2>1. NoJob \in Row /\ NoRun \in Run /\ Free \in Handler
    BY States DEF NoJob, Row, NoRun, Run, Free, Handler
  <2>2. << >> \in Seq(Files \cup {None})
    OBVIOUS
  <2>3. status \in [Jobs -> Statuses] /\ job \in [Jobs -> Row]
    BY <2>1, States DEF Init
  <2>4. pc \in [Workers -> WorkerPcs] /\ stale \in [Workers -> BOOLEAN]
    BY Labels DEF Init
  <2>5. purging \in [Workers -> Seq(Files \cup {None})]
    BY <2>2 DEF Init
  <2>6. run \in [Workers -> Run] /\ client \in [Clients -> Handler]
    BY <2>1 DEF Init
  <2>7. used \in [{"requests", "runs", "mishaps"} -> Nat]
    BY DEF Init
  <2> QED BY <2>3, <2>4, <2>5, <2>6, <2>7 DEF TypeOK, Init
<1>2. \A w \in Workers : pc[w] = "off"
  BY DEF Init
<1>3. WorkerPoints /\ LockHeld /\ Owned
  BY <1>2, Labels DEF WorkerPoints, WorkerPoint, LockHeld, Owned
<1>4. HandlerPoints
  BY DEF Init, HandlerPoints, Free
<1>5. Links
  BY States DEF Init, Links, Linked, Exists
<1>6. PurgesApart
  BY <1>2, Labels DEF PurgesApart, WorkerPurge
<1> QED BY <1>1, <1>3, <1>4, <1>5, <1>6 DEF Inv, Points

\* The invariant is preserved by every step.
LEMMA Inductive ==
  ASSUME Inv, [Next]_vars
  PROVE  Inv'
<1>1. TypeOK'
  BY TypeStep DEF Inv
<1> QED BY <1>1, WorkerPointsStep, HandlerPointsStep, LockStep, OwnedStep, LinksStep, PurgesStep
       DEF Inv, Points

\* The invariant holds in every reachable state.
LEMMA Invariant == Spec => []Inv
BY Initial, Inductive, PTL DEF Spec

\* Type correctness, of the rows, the store, the workers and the handlers.
THEOREM TypeCorrect == Spec => []TypeOK
<1>1. Inv => TypeOK
  BY DEF Inv
<1> QED BY <1>1, Invariant, PTL

\* Two workers never run the same job, and nothing ends a job under its runner,
\* for any number of commands, handlers, jobs and crashes.
THEOREM RunnersAreAlone == Spec => []RunnersOwnTheirJob
<1>1. ASSUME Inv PROVE RunnersOwnTheirJob
  <2>1. ASSUME NEW w \in Workers, pc[w] \in RunPcs
        PROVE  /\ run[w].job \in WithStatus(Running) /\ job[run[w].job].by = w
               /\ \A v \in Workers \ {w} : ~Runs(v, run[w].job)
    <3>1. run[w].job \in Jobs
      BY <1>1, <2>1 DEF Inv, Points, WorkerPoints, WorkerPoint
    <3>2. status[run[w].job] \in Running /\ job[run[w].job].by = w
      BY <1>1, <2>1 DEF Inv, Owned
    <3>3. ASSUME NEW v \in Workers, v # w, Runs(v, run[w].job)
          PROVE  FALSE
      BY <1>1, <3>2, <3>3 DEF Inv, Owned, Runs
    <3> QED BY <3>1, <3>2, <3>3 DEF WithStatus
  <2> QED BY <2>1 DEF RunnersOwnTheirJob
<1> QED BY <1>1, Invariant, PTL

\* An ended job is never reopened or relabelled.
THEOREM TerminalStays == Spec => TerminalIsFinal
<1>1. ASSUME Inv, [Next]_vars
      PROVE  [\A j \in Jobs : status[j] \in Terminal => status'[j] \in {status[j], "deleted"}]_vars
  BY <1>1, TerminalStep DEF Inv
<1> QED BY <1>1, Invariant, PTL DEF Spec, TerminalIsFinal

\* Retention and requests never take an input of a remaining job, but for the blob
\* that a client's own delete has unlinked.
THEOREM InputsStay == Spec => []SharedInputsStay
<1>1. Inv => SharedInputsStay
  BY DEF Inv, Links, Linked, SharedInputsStay
<1> QED BY <1>1, Invariant, PTL

-----------------------------------------------------------------------------
(* What the counters of a job say of its files.  A result file belongs to  *)
(* one job and one kind of result (SidesApart), so the lines in it are     *)
(* those its worker has counted, but for the line being stored (Tallies);  *)
(* what clients and retention unlink is no result of a job, or the job     *)
(* counts as spoiled (DeletesKnown, PurgesUnused).                         *)

Results == {"ok", "bad"}
Counted(j, r) == IF r = "ok" THEN job[j].ok ELSE job[j].bad
Tally(w, r) == IF r = "ok" THEN run[w].ok ELSE run[w].bad

\* An id nobody has yet has no blob.
FreshIds == fresh \cap blob = {}

\* A result file belongs to one job, for one kind of result.
SidesApart ==
  \A j, k \in Jobs, r, s \in Results :
    Exists(j) /\ Exists(k) /\ SideFile(j, r) = SideFile(k, s) /\ SideFile(j, r) # None
      => j = k /\ r = s

\* A file that a client is about to delete was given to somebody; once its blob
\* is unlinked, the jobs that have it as a result are known to be spoiled.
DeletesKnown ==
  \A c \in Clients :
    /\ client[c].pc \in {"unlink", "delete"} => client[c].file \notin fresh
    /\ client[c].pc = "delete" => SideOf(client[c].file) \subseteq spoiled

\* What retention deletes is a result of no job that is left.
PurgesUnused ==
  \A w \in Workers :
    pc[w] \in {"purgeRecord", "purgeBlob"} => SideOf(Head(purging[w])) = {}

\* A job that no worker has begun has no results.
Unbegun(j) == \A r \in Results : SideFile(j, r) = None /\ Counted(j, r) = 0
QueuedUnbegun ==
  /\ \A j \in Jobs : status[j] = "validating" => Unbegun(j)
  /\ \A w \in Workers : pc[w] \in {"load", "read"} => Unbegun(run[w].job)

\* The line being stored goes to its job's own file.
Storing(w) ==
  pc[w] = "append" =>
    /\ run[w].side \notin fresh
    /\ run[w].job \notin spoiled => run[w].side = SideFile(run[w].job, run[w].result)
    /\ \A k \in Jobs, r \in Results :
         Exists(k) /\ SideFile(k, r) = run[w].side => k = run[w].job

\* A worker has as many lines left as it has not counted, and has counted those
\* that are stored, but for the one it is about to store.
TallyPcs == {"line", "open", "append", "count", "check", "complete", "cancel"}
Ahead(w, r) == IF pc[w] \in {"open", "append"} /\ run[w].result = r THEN 1 ELSE 0
WorkerTally(w) ==
  pc[w] \in TallyPcs =>
    /\ run[w].left + run[w].ok + run[w].bad = job[run[w].job].total
    /\ pc[w] = "complete" => run[w].left = 0
    /\ run[w].job \notin spoiled =>
         \A r \in Results : Tally(w, r) = Stored(SideFile(run[w].job, r)) + Ahead(w, r)
Tallies == \A w \in Workers : Storing(w) /\ WorkerTally(w)

CountInv ==
  /\ FreshIds /\ SidesApart /\ DeletesKnown /\ PurgesUnused /\ QueuedUnbegun /\ Tallies
  /\ CountsAreDownloadable /\ CompletedIsWhole

-----------------------------------------------------------------------------
(* Result files and rows. *)

\* What a job that exists names as its results is a file somebody was given.
LEMMA SideFacts ==
  ASSUME Inv, NEW j \in Jobs, NEW r \in Results
  PROVE  /\ SideFile(j, r) \in SideFiles \cup {None}
         /\ Counted(j, r) \in Nat /\ Stored(SideFile(j, r)) \in Nat
         /\ Exists(j) => SideFile(j, r) \notin fresh
         /\ Exists(j) /\ SideFile(j, r) # None => j \in SideOf(SideFile(j, r))
<1>1. job[j] \in Row /\ size \in [Files -> Nat] /\ fresh \subseteq Files
  BY DEF Inv, TypeOK
<1>2. SideFile(j, r) \in SideFiles \cup {None} /\ Counted(j, r) \in Nat
  BY <1>1 DEF Row, SideFile, Counted
<1>3. Stored(SideFile(j, r)) \in Nat
  BY <1>1, <1>2 DEF Stored, Files
<1>4. ASSUME Exists(j) PROVE SideFile(j, r) \notin fresh
  <2>1. SideFile(j, r) \in record \cup {None}
    BY <1>4 DEF Inv, Links, Linked, SideFile
  <2>2. None \notin fresh
    BY <1>1, BatchAssumption
  <2> QED BY <2>1, <2>2 DEF Inv, Links
<1>5. ASSUME Exists(j), SideFile(j, r) # None PROVE j \in SideOf(SideFile(j, r))
  BY <1>5 DEF SideOf, SideFile
<1> QED BY <1>2, <1>3, <1>4, <1>5

\* The worker's own run, where it is and who holds the lock.
LEMMA Runner ==
  ASSUME Inv, NEW w \in Workers, pc[w] \in RunPcs
  PROVE  /\ run[w].job \in Jobs /\ status[run[w].job] \in Running /\ Exists(run[w].job)
         /\ run[w] \in Run /\ job[run[w].job] \in Row
         /\ lock = w
<1>1. run[w].job \in Jobs
  BY DEF Inv, Points, WorkerPoints, WorkerPoint
<1>2. status[run[w].job] \in Running
  BY DEF Inv, Owned
<1>3. Exists(run[w].job)
  BY <1>2 DEF Running, Exists
<1>4. lock = w
  BY Labels DEF Inv, LockHeld
<1> QED BY <1>1, <1>2, <1>3, <1>4 DEF Inv, TypeOK

\* The row of a job, but for its worker.
RowKept(j) ==
  /\ job'[j].total = job[j].total
  /\ \A r \in Results : Counted(j, r)' = Counted(j, r)
RowSame(j) == RowKept(j) /\ \A r \in Results : SideFile(j, r)' = SideFile(j, r)
RunStep(w, j) ==
  /\ pc[w] \in RunPcs /\ run[w].job = j
  /\ Read(w) \/ OpenSide(w) \/ CountLine(w) \/ Complete(w) \/ Cancel(w)

\* The deletion of a row leaves counters alone; a job that loses a result by it
\* is known to be spoiled.
LEMMA DeletedRow ==
  ASSUME Inv, CountInv, NEW f \in Files, DeleteRow(f), SideOf(f) \subseteq spoiled,
         NEW j \in Jobs, Exists(j)
  PROVE  /\ RowKept(j)
         /\ \A r \in Results : SideFile(j, r)' \in {SideFile(j, r), None}
         /\ j \notin spoiled => RowSame(j)
<1>1. job[j] \in Row
  BY DEF Inv, TypeOK
<1>2. job'[j] = [job[j] EXCEPT !.output = IF @ = f THEN None ELSE @,
                               !.error = IF @ = f THEN None ELSE @]
  BY DEF DeleteRow
<1>3. RowKept(j)
  BY <1>1, <1>2 DEF Row, RowKept, Counted
<1>4. ASSUME NEW r \in Results
      PROVE  /\ SideFile(j, r)' \in {SideFile(j, r), None}
             /\ SideFile(j, r) # f => SideFile(j, r)' = SideFile(j, r)
  BY <1>1, <1>2 DEF Row, SideFile
<1>5. ASSUME NEW r \in Results, j \notin spoiled
      PROVE  SideFile(j, r) # f
  <2>1. f # None
    BY BatchAssumption
  <2> QED BY <1>5, <2>1, SideFacts
<1> QED BY <1>3, <1>4, <1>5 DEF RowSame

\* A row changes in its job's run; else it may only lose results to a deletion
\* that has spoiled the job.
LEMMA RowSteps ==
  ASSUME Inv, CountInv, [Next]_vars, NEW j \in Jobs, Exists(j)
  PROVE  \/ RowSame(j)
         \/ /\ j \in spoiled /\ RowKept(j)
            /\ \A r \in Results : SideFile(j, r)' \in {SideFile(j, r), None}
         \/ \E w \in Workers : RunStep(w, j)
<1>t. job \in [Jobs -> Row] /\ job[j] \in Row
  BY DEF Inv, TypeOK
<1>k. ASSUME job'[j] = job[j] PROVE RowSame(j)
  BY <1>k DEF RowSame, RowKept, SideFile, Counted
<1>r. ASSUME NEW w \in Workers, pc[w] \in RunPcs \/ pc[w] = "claim"
      PROVE  run[w].job \in Jobs
  BY <1>r DEF Inv, Points, WorkerPoints, WorkerPoint
<1>d. ASSUME NEW f \in Files, DeleteRow(f), SideOf(f) \subseteq spoiled
      PROVE  \/ RowSame(j)
             \/ /\ j \in spoiled /\ RowKept(j)
                /\ \A r \in Results : SideFile(j, r)' \in {SideFile(j, r), None}
  BY <1>d, DeletedRow
<1>1. ASSUME NEW w \in Workers, PurgeRecord(w)
      PROVE  \/ RowSame(j)
             \/ /\ j \in spoiled /\ RowKept(j)
                /\ \A r \in Results : SideFile(j, r)' \in {SideFile(j, r), None}
  <2>1. CASE UNCHANGED job
    BY <2>1, <1>k
  <2>2. CASE DeleteRow(Head(purging[w]))
    <3>1. Head(purging[w]) \in Files
      BY <1>1 DEF PurgeRecord, At, Inv, Points, WorkerPoints, WorkerPoint
    <3>2. SideOf(Head(purging[w])) \subseteq spoiled
      BY <1>1 DEF PurgeRecord, At, CountInv, PurgesUnused
    <3> QED BY <2>2, <3>1, <3>2, <1>d
  <2> QED BY <1>1, <2>1, <2>2 DEF PurgeRecord
<1>2. ASSUME NEW c \in Clients, DeleteRecord(c)
      PROVE  \/ RowSame(j)
             \/ /\ j \in spoiled /\ RowKept(j)
                /\ \A r \in Results : SideFile(j, r)' \in {SideFile(j, r), None}
  <2>1. CASE UNCHANGED job
    BY <2>1, <1>k
  <2>2. CASE DeleteRow(client[c].file)
    <3>1. client[c].file \in Files
      BY <1>2 DEF DeleteRecord, Inv, Points, HandlerPoints
    <3>2. SideOf(client[c].file) \subseteq spoiled
      BY <1>2 DEF DeleteRecord, CountInv, DeletesKnown
    <3> QED BY <2>2, <3>1, <3>2, <1>d
  <2> QED BY <1>2, <2>1, <2>2 DEF DeleteRecord
<1>3. ASSUME NEW w \in Workers, Claim(w)
      PROVE  RowSame(j)
  <2>1. run[w].job \in Jobs
    BY <1>r, <1>3 DEF Claim, At
  <2>2. UNCHANGED job \/ job' = [job EXCEPT ![run[w].job].by = w]
    BY <1>3 DEF Claim, TakeOver, jobs
  <2>3. CASE job' = [job EXCEPT ![run[w].job].by = w]
    BY <2>1, <2>3, <1>t DEF RowSame, RowKept, SideFile, Counted, Row
  <2> QED BY <2>2, <2>3, <1>k
<1>4. ASSUME NEW w \in Workers,
             Read(w) \/ OpenSide(w) \/ CountLine(w) \/ Complete(w) \/ Cancel(w)
      PROVE  RowSame(j) \/ RunStep(w, j)
  <2>1. pc[w] \in RunPcs
    BY <1>4, Labels DEF Read, OpenSide, CountLine, Complete, Cancel, At
  <2>2. CASE run[w].job = j
    BY <1>4, <2>1, <2>2 DEF RunStep
  <2>3. CASE run[w].job # j
    <3>1. job'[j] = job[j]
      BY <1>4, <2>1, <2>3, <1>r, <1>t DEF Read, OpenSide, CreateSide, CountLine, Complete,
         Cancel, SaveCounts
    <3> QED BY <3>1, <1>k
  <2> QED BY <2>2, <2>3
<1>5. ASSUME NEW c \in Clients, CreateEnd(c)
      PROVE  RowSame(j)
  <2>1. CASE UNCHANGED jobs
    BY <2>1, <1>k DEF jobs
  <2>2. ASSUME NEW k \in Jobs, NextJob(k), NEW r, job' = [job EXCEPT ![k] = r]
        PROVE  RowSame(j)
    <3>1. status[k] = "none"
      BY <2>2 DEF NextJob, Jobs
    <3>2. j # k
      BY <3>1 DEF Exists
    <3> QED BY <2>2, <3>2, <1>t, <1>k
  <2> QED BY <1>5, <2>1, <2>2 DEF CreateEnd
<1> QED BY <1>k, <1>1, <1>2, <1>3, <1>4, <1>5, JobFrame DEF Inv

\* What a run does to the result files of its job: nothing, or it gives the job
\* its first one of a kind, with an id nobody had.
LEMMA RunSides ==
  ASSUME Inv, NEW w \in Workers, NEW j \in Jobs, RunStep(w, j), NEW r \in Results
  PROVE  \/ SideFile(j, r)' = SideFile(j, r)
         \/ /\ OpenSide(w) /\ r = run[w].result /\ SideFile(j, r) = None
            /\ NewFile \in fresh /\ NewFile \in SideFiles /\ SideFile(j, r)' = NewFile
            /\ fresh' = fresh \ {NewFile} /\ run'[w].side = NewFile
<1>t. job \in [Jobs -> Row] /\ job[j] \in Row /\ run \in [Workers -> Run] /\ run[w] \in Run
  BY DEF Inv, TypeOK
<1>j. run[w].job = j
  BY DEF RunStep
<1>1. CASE Read(w)
  <2>1. ASSUME NEW n, job' = [job EXCEPT ![j].total = n]
        PROVE  SideFile(j, r)' = SideFile(j, r)
    BY <2>1, <1>t DEF SideFile, Row
  <2> QED BY <1>1, <1>j, <2>1 DEF Read, SideFile
<1>2. CASE CountLine(w) \/ Complete(w) \/ Cancel(w)
  BY <1>2, <1>j, <1>t DEF CountLine, Complete, Cancel, SaveCounts, SideFile, Row
<1>3. CASE OpenSide(w)
  <2>1. CASE UNCHANGED job
    BY <2>1 DEF SideFile
  <2>2. CASE /\ SideFile(j, run[w].result) = None /\ CreateSide(j, run[w].result, NewFile)
             /\ run' = [run EXCEPT ![w].side = NewFile]
    <3>1. NewFile \in SideFiles /\ NewFile \in fresh
      BY <2>2 DEF CreateSide, NewFile
    <3>2. fresh' = fresh \ {NewFile} /\ run'[w].side = NewFile
      BY <2>2, <1>t DEF CreateSide, Run
    <3>3. CASE r = run[w].result
      <4>1. SideFile(j, r)' = NewFile
        BY <2>2, <3>3, <1>t DEF CreateSide, SideFile, Row
      <4> QED BY <1>3, <2>2, <3>1, <3>2, <3>3, <4>1
    <3>4. CASE r # run[w].result
      BY <2>2, <3>4, <1>t DEF CreateSide, SideFile, Row, Run, Results
    <3> QED BY <3>3, <3>4
  <2> QED BY <1>3, <1>j, <2>1, <2>2 DEF OpenSide
<1> QED BY <1>1, <1>2, <1>3 DEF RunStep

\* What a run does to the counters: it saves its own, or leaves them alone.
LEMMA RunCounts ==
  ASSUME Inv, NEW w \in Workers, NEW j \in Jobs, RunStep(w, j)
  PROVE  /\ ~Read(w) => job'[j].total = job[j].total
         /\ \A r \in Results :
              \/ Counted(j, r)' = Counted(j, r)
              \/ Counted(j, r)' = Tally(w, r) /\ (CountLine(w) \/ Complete(w) \/ Cancel(w))
<1>t. job \in [Jobs -> Row] /\ job[j] \in Row
  BY DEF Inv, TypeOK
<1>j. run[w].job = j
  BY DEF RunStep
<1>1. CASE Read(w)
  <2>1. ASSUME NEW n, job' = [job EXCEPT ![j].total = n], NEW r \in Results
        PROVE  Counted(j, r)' = Counted(j, r)
    BY <2>1, <1>t DEF Counted, Row
  <2> QED BY <1>1, <1>j, <2>1 DEF Read, Counted
<1>2. CASE CountLine(w) \/ Complete(w) \/ Cancel(w)
  BY <1>2, <1>j, <1>t DEF CountLine, Complete, Cancel, SaveCounts, Counted, Tally, Row
<1>3. CASE OpenSide(w)
  BY <1>3, <1>j, <1>t DEF OpenSide, CreateSide, Counted, Row
<1> QED BY <1>1, <1>2, <1>3 DEF RunStep

\* Both, for any job that exists.
LEMMA SideSteps ==
  ASSUME Inv, CountInv, [Next]_vars, NEW j \in Jobs, Exists(j), NEW r \in Results
  PROVE  \/ SideFile(j, r)' = SideFile(j, r)
         \/ j \in spoiled /\ SideFile(j, r)' = None
         \/ \E w \in Workers :
              /\ OpenSide(w) /\ run[w].job = j /\ r = run[w].result /\ SideFile(j, r) = None
              /\ NewFile \in fresh /\ NewFile \in SideFiles /\ SideFile(j, r)' = NewFile
              /\ fresh' = fresh \ {NewFile}
<1>1. ASSUME NEW w \in Workers, RunStep(w, j)
      PROVE  run[w].job = j
  BY <1>1 DEF RunStep
<1> QED BY <1>1, RowSteps, RunSides DEF RowSame

\* A job that comes into being is queued, with no results.
LEMMA Newborn ==
  ASSUME Inv, [Next]_vars, NEW j \in Jobs, Exists(j)', ~Exists(j)
  PROVE  /\ \E c \in Clients : CreateEnd(c)
         /\ Unbegun(j)' /\ status'[j] = "validating"
<1>t. status \in [Jobs -> Statuses] /\ job \in [Jobs -> Row]
  BY DEF Inv, TypeOK
<1>s. ASSUME NEW k \in Jobs, NEW s, SetStatus(k, s), Exists(k)
      PROVE  FALSE
  BY <1>s, <1>t DEF SetStatus, Exists
<1>1. ASSUME NEW w \in Workers, Reconcile(w)
      PROVE  FALSE
  BY <1>1 DEF Reconcile, Exists
<1>2. ASSUME NEW w \in Workers, NEW k \in Jobs, PurgeJob(w, k)
      PROVE  FALSE
  BY <1>2, <1>s, States DEF PurgeJob, Exists
<1>3. ASSUME NEW w \in Workers, Claim(w)
      PROVE  FALSE
  <2>1. run[w].job \in Jobs
    BY <1>3 DEF Claim, At, Inv, Points, WorkerPoints, WorkerPoint
  <2> QED BY <1>3, <2>1, <1>s DEF Claim, TakeOver, jobs, Exists
<1>4. ASSUME NEW w \in Workers, Complete(w) \/ Cancel(w) \/ Fail(w)
      PROVE  FALSE
  <2>1. pc[w] \in RunPcs
    BY <1>4, Labels DEF Complete, Cancel, Fail, At
  <2> QED BY <1>4, <2>1, Runner, <1>s DEF Complete, Cancel, Fail, Finish
<1>5. ASSUME NEW c \in Clients, CancelQueued(c) \/ CancelRunning(c)
      PROVE  FALSE
  <2>1. client[c].job \in Jobs
    BY <1>5 DEF CancelQueued, CancelRunning, Inv, Points, HandlerPoints
  <2> QED BY <1>5, <2>1, <1>s DEF CancelQueued, CancelRunning, Exists
<1>6. ASSUME NEW c \in Clients, CreateEnd(c)
      PROVE  Unbegun(j)' /\ status'[j] = "validating"
  <2>1. CASE UNCHANGED jobs
    BY <2>1 DEF jobs, Exists
  <2>2. ASSUME NEW k \in Jobs, SetStatus(k, "validating"),
               job' = [job EXCEPT ![k] = [NoJob EXCEPT !.input = client[c].file]]
        PROVE  Unbegun(j)' /\ status'[j] = "validating"
    <3>1. j = k
      BY <2>2, <1>t DEF SetStatus, Exists
    <3>2. job'[j] = [NoJob EXCEPT !.input = client[c].file]
      BY <2>2, <3>1, <1>t
    <3>3. Unbegun(j)'
      BY <3>2 DEF NoJob, Unbegun, SideFile, Counted
    <3> QED BY <2>2, <3>1, <3>3, <1>t DEF SetStatus
  <2> QED BY <1>6, <2>1, <2>2 DEF CreateEnd
<1> QED BY <1>1, <1>2, <1>3, <1>4, <1>5, <1>6, StatusFrame DEF Exists, Inv

-----------------------------------------------------------------------------
(* The lines stored. *)

\* A file that was given to somebody gets no new owner.
LEMMA SideOfShrinks ==
  ASSUME Inv, CountInv, [Next]_vars, NEW f \in Files \ fresh
  PROVE  SideOf(f)' \subseteq SideOf(f)
<1> SUFFICES ASSUME NEW j \in Jobs, NEW r \in Results, Exists(j)', SideFile(j, r)' = f
             PROVE  Exists(j) /\ SideFile(j, r) = f
  BY DEF SideOf, SideFile, Results, Exists
<1>0. f # None
  BY BatchAssumption
<1>1. Exists(j)
  BY <1>0, Newborn DEF Unbegun
<1>2. SideFile(j, r) = f
  BY <1>0, <1>1, SideSteps
<1> QED BY <1>1, <1>2

\* Blobs that are somebody's change by the storing of a line, and by unlinking
\* what is nobody's result or spoils whose it is.
LEMMA SizeSteps ==
  ASSUME Inv, CountInv, [Next]_vars, NEW f \in Files \ fresh
  PROVE  \/ size'[f] = size[f]
         \/ SideOf(f) \subseteq spoiled'
         \/ \E w \in Workers : AppendLine(w) /\ run[w].side = f /\ size'[f] = size[f] + 1
<1>t. size \in [Files -> Nat]
  BY DEF Inv, TypeOK
<1>1. ASSUME NEW w \in Workers, PurgeRecord(w)
      PROVE  UNCHANGED size
  BY <1>1 DEF PurgeRecord
<1>2. ASSUME NEW c \in Clients, DeleteRecord(c)
      PROVE  UNCHANGED size
  BY <1>2 DEF DeleteRecord
<1>3. ASSUME NEW w \in Workers, PurgeBlob(w)
      PROVE  size'[f] = size[f] \/ SideOf(f) = {}
  BY <1>3, <1>t DEF PurgeBlob, Unlink, At, CountInv, PurgesUnused
<1>4. ASSUME NEW c \in Clients, DeleteBlob(c)
      PROVE  size'[f] = size[f] \/ SideOf(f) \subseteq spoiled'
  BY <1>4, <1>t DEF DeleteBlob, Unlink
<1>5. ASSUME NEW w \in Workers, OpenSide(w)
      PROVE  UNCHANGED size
  BY <1>5 DEF OpenSide, CreateSide, store
<1>6. ASSUME NEW w \in Workers, AppendLine(w)
      PROVE  size'[f] = size[f] \/ (run[w].side = f /\ size'[f] = size[f] + 1)
  BY <1>6, <1>t DEF AppendLine
<1>7. ASSUME NEW c \in Clients, NEW g \in Uploads, Upload(c, g)
      PROVE  size'[f] = size[f]
  BY <1>7, <1>t DEF Upload
<1>8. CASE UNCHANGED store
  BY <1>8 DEF store
<1> QED BY <1>1, <1>2, <1>3, <1>4, <1>5, <1>6, <1>7, <1>8, StoreFrame

\* The lines in a result file of a job that is not spoiled are those its worker
\* has stored.
LEMMA StoredSteps ==
  ASSUME Inv, CountInv, [Next]_vars, NEW j \in Jobs, Exists(j), j \notin spoiled',
         spoiled \subseteq spoiled', NEW r \in Results
  PROVE  \/ Stored(SideFile(j, r))' = Stored(SideFile(j, r))
         \/ \E w \in Workers :
              /\ AppendLine(w) /\ run[w].job = j /\ run[w].result = r
              /\ Stored(SideFile(j, r))' = Stored(SideFile(j, r)) + 1
<1>t. /\ size \in [Files -> Nat] /\ fresh \subseteq Files /\ run \in [Workers -> Run]
      /\ \A f \in Files \ blob : size[f] = 0
  BY DEF Inv, TypeOK
<1>n. j \notin spoiled
  OBVIOUS
<1>1. CASE SideFile(j, r) = None /\ SideFile(j, r)' = None
  BY <1>1 DEF Stored
<1>2. CASE SideFile(j, r) # None /\ SideFile(j, r)' = SideFile(j, r)
  <2> DEFINE f == SideFile(j, r)
  <2>1. f \in Files \ fresh /\ j \in SideOf(f)
    BY <1>2, SideFacts DEF Files
  <2>2. Stored(SideFile(j, r)) = size[f] /\ Stored(SideFile(j, r))' = size'[f]
    BY <1>2 DEF Stored
  <2>3. CASE size'[f] = size[f]
    BY <2>2, <2>3
  <2>4. ASSUME NEW w \in Workers, AppendLine(w), run[w].side = f, size'[f] = size[f] + 1
        PROVE  run[w].job = j /\ run[w].result = r
    <3>1. pc[w] = "append"
      BY <2>4 DEF AppendLine, At
    <3>2. Storing(w)
      BY DEF CountInv, Tallies
    <3>3. run[w].job = j
      BY <2>4, <3>1, <3>2 DEF Storing
    <3>4. f = SideFile(j, run[w].result)
      BY <2>4, <3>1, <3>2, <3>3, <1>n DEF Storing
    <3>5. run[w].result \in Results
      BY <1>t DEF Run, Results
    <3>6. run[w].result = r
      BY <1>2, <3>4, <3>5 DEF CountInv, SidesApart
    <3> QED BY <3>3, <3>6
  <2>5. \/ size'[f] = size[f]
        \/ SideOf(f) \subseteq spoiled'
        \/ \E w \in Workers : AppendLine(w) /\ run[w].side = f /\ size'[f] = size[f] + 1
    BY <2>1, SizeSteps
  <2> HIDE DEF f
  <2> QED BY <2>1, <2>2, <2>3, <2>4, <2>5
<1>3. ASSUME NEW w \in Workers, OpenSide(w), SideFile(j, r) = None, NewFile \in fresh,
             NewFile \in SideFiles, SideFile(j, r)' = NewFile
      PROVE  Stored(SideFile(j, r))' = Stored(SideFile(j, r))
  <2>1. NewFile \in Files /\ NewFile # None
    BY <1>3, BatchAssumption DEF Files
  <2>2. size[NewFile] = 0
    BY <1>3, <1>t, <2>1 DEF CountInv, FreshIds
  <2>3. UNCHANGED size
    BY <1>3 DEF OpenSide, CreateSide, store
  <2>4. Stored(SideFile(j, r)) = 0
    BY <1>3 DEF Stored
  <2>5. Stored(SideFile(j, r))' = size'[NewFile]
    <3>1. Stored(SideFile(j, r))' = IF SideFile(j, r)' = None THEN 0 ELSE size'[SideFile(j, r)']
      BY DEF Stored
    <3> QED BY <3>1, <1>3, <2>1
  <2> QED BY <2>2, <2>3, <2>4, <2>5
<1> QED BY <1>1, <1>2, <1>3, <1>n, SideSteps

\* The set of spoiled jobs only grows, by a client's deletion.
LEMMA SpoiledGrows ==
  ASSUME Inv, [Next]_vars
  PROVE  spoiled \subseteq spoiled'
<1>1. ASSUME NEW c \in Clients, Asked(c) \/ Handle(c)
      PROVE  spoiled \subseteq spoiled'
  BY <1>1 DEF Asked, Handle, Upload, CreateBegin, CreateEnd, DeleteBegin, DeleteBlob,
     DeleteRecord, CancelBegin, CancelQueued, CancelRunning, history
<1> QED BY <1>1, Steps, CameFrame, WorkFrame DEF history, vars

-----------------------------------------------------------------------------
(* Each part of the invariant, over one step. *)

\* An id gets a blob only when it is given out.
LEMMA FreshStep ==
  ASSUME Inv, CountInv, [Next]_vars
  PROVE  FreshIds'
<1>f. fresh \cap blob = {} /\ fresh' \subseteq fresh
  BY IdsOnce DEF CountInv, FreshIds, Inv
<1>1. ASSUME NEW w \in Workers, PurgeRecord(w) \/ PurgeBlob(w)
      PROVE  blob' \subseteq blob
  BY <1>1 DEF PurgeRecord, PurgeBlob, Unlink
<1>2. ASSUME NEW c \in Clients, DeleteBlob(c) \/ DeleteRecord(c)
      PROVE  blob' \subseteq blob
  BY <1>2 DEF DeleteBlob, DeleteRecord, Unlink
<1>3. ASSUME NEW w \in Workers, AppendLine(w)
      PROVE  blob' = blob \cup {run[w].side} /\ run[w].side \notin fresh
  BY <1>3 DEF AppendLine, At, CountInv, Tallies, Storing
<1>4. ASSUME NEW w \in Workers, OpenSide(w)
      PROVE  \/ UNCHANGED <<blob, fresh>>
             \/ blob' = blob \cup {NewFile} /\ fresh' = fresh \ {NewFile}
  BY <1>4 DEF OpenSide, CreateSide, store
<1>5. ASSUME NEW c \in Clients, NEW f \in Uploads, Upload(c, f)
      PROVE  blob' = blob \cup {f} /\ fresh' = fresh \ {f}
  BY <1>5 DEF Upload
<1>6. CASE UNCHANGED store
  BY <1>6, <1>f DEF store, FreshIds
<1> QED BY <1>f, <1>1, <1>2, <1>3, <1>4, <1>5, <1>6, StoreFrame DEF FreshIds

\* A new result file is nobody else's.
LEMMA SidesStep ==
  ASSUME Inv, CountInv, [Next]_vars
  PROVE  SidesApart'
<1> SUFFICES ASSUME NEW j \in Jobs, NEW k \in Jobs, NEW r \in Results, NEW s \in Results,
                    Exists(j)', Exists(k)', SideFile(j, r)' = SideFile(k, s)',
                    SideFile(j, r)' # None
             PROVE  j = k /\ r = s
  BY DEF SidesApart
<1> DEFINE Made(i, q, w) ==
      /\ OpenSide(w) /\ run[w].job = i /\ q = run[w].result
      /\ NewFile \in fresh /\ SideFile(i, q)' = NewFile
<1>1. Exists(j) /\ Exists(k)
  BY Newborn DEF Unbegun
<1>2. \/ SideFile(j, r)' = SideFile(j, r)
      \/ \E w \in Workers : Made(j, r, w)
  BY <1>1, SideSteps
<1>3. \/ SideFile(k, s)' = SideFile(k, s)
      \/ \E w \in Workers : Made(k, s, w)
  BY <1>1, SideSteps
<1>4. CASE SideFile(j, r)' = SideFile(j, r) /\ SideFile(k, s)' = SideFile(k, s)
  BY <1>1, <1>4 DEF CountInv, SidesApart
<1>5. ASSUME NEW w \in Workers, Made(j, r, w), SideFile(k, s)' = SideFile(k, s)
      PROVE  FALSE
  BY <1>1, <1>5, SideFacts
<1>6. ASSUME NEW w \in Workers, Made(k, s, w), SideFile(j, r)' = SideFile(j, r)
      PROVE  FALSE
  BY <1>1, <1>6, SideFacts
<1>7. ASSUME NEW w \in Workers, NEW v \in Workers, Made(j, r, w), Made(k, s, v)
      PROVE  j = k /\ r = s
  <2>1. pc[w] \in RunPcs /\ pc[v] \in RunPcs
    BY <1>7, Labels DEF OpenSide, At
  <2>2. w = v
    BY <2>1, Runner
  <2> QED BY <1>7, <2>2
<1> HIDE DEF Made
<1> QED BY <1>2, <1>3, <1>4, <1>5, <1>6, <1>7

\* Whoever deletes a file knows which jobs it spoils.
LEMMA DeletesStep ==
  ASSUME Inv, CountInv, [Next]_vars
  PROVE  DeletesKnown'
<1> DEFINE D(c) == /\ client[c].pc \in {"unlink", "delete"} => client[c].file \notin fresh
                   /\ client[c].pc = "delete" => SideOf(client[c].file) \subseteq spoiled
<1>t. client \in [Clients -> Handler]
  BY DEF Inv, TypeOK
<1>f. fresh' \subseteq fresh /\ spoiled \subseteq spoiled'
  BY IdsOnce, SpoiledGrows DEF Inv
<1>d. ASSUME NEW c \in Clients PROVE D(c)
  BY DEF CountInv, DeletesKnown
<1>k. ASSUME NEW c \in Clients, client'[c] = client[c]
      PROVE  D(c)'
  <2>1. CASE client[c].pc = "delete"
    <3>1. client[c].file \in Files \ fresh
      BY <2>1, <1>d DEF Inv, Points, HandlerPoints
    <3>2. SideOf(client[c].file)' \subseteq SideOf(client[c].file)
      <4>1. PICK g \in Files \ fresh : g = client[c].file
        BY <3>1
      <4>2. SideOf(g)' \subseteq SideOf(g)
        BY SideOfShrinks
      <4> QED BY <4>1, <4>2, <1>k DEF SideOf, Exists
    <3>3. SideOf(client[c].file)' \subseteq spoiled'
      BY <2>1, <3>2, <1>d, <1>f
    <3> QED BY <2>1, <3>1, <3>3, <1>k, <1>f
  <2>2. CASE client[c].pc # "delete"
    BY <2>2, <1>k, <1>d, <1>f
  <2> QED BY <2>1, <2>2
<1>i. ASSUME NEW c \in Clients, client'[c].pc \notin {"unlink", "delete"}
      PROVE  D(c)'
  BY <1>i
<1>o. ASSUME NEW c \in Clients, NEW r, client' = [client EXCEPT ![c] = r], D(c)'
      PROVE  DeletesKnown'
  <2>1. ASSUME NEW d \in Clients, d # c PROVE D(d)'
    <3>1. client'[d] = client[d]
      BY <1>o, <1>t, <2>1
    <3> QED BY <3>1, <1>k
  <2> QED BY <1>o, <2>1 DEF DeletesKnown
<1>u. ASSUME UNCHANGED client PROVE DeletesKnown'
  BY <1>u, <1>k DEF DeletesKnown
<1>a. ASSUME NEW c \in Clients, NEW r, client' = [client EXCEPT ![c] = r],
             r.pc \notin {"unlink", "delete"}
      PROVE  DeletesKnown'
  BY <1>a, <1>t, <1>i, <1>o
<1>1. ASSUME NEW c \in Clients, Asked(c)
      PROVE  DeletesKnown'
  <2>1. ASSUME NEW f \in Uploads, Upload(c, f) PROVE DeletesKnown'
    BY <2>1, <1>u DEF Upload
  <2>2. ASSUME NEW f \in Files, CreateBegin(c, f) PROVE DeletesKnown'
    BY <2>2, <1>a DEF CreateBegin, Hold
  <2>3. ASSUME NEW f \in Files, DeleteBegin(c, f) PROVE DeletesKnown'
    <3>1. client' = [client EXCEPT ![c] = [pc |-> "unlink", file |-> f, job |-> None]]
      BY <2>3 DEF DeleteBegin, Hold
    <3>2. f \notin fresh
      BY <2>3 DEF DeleteBegin, Inv, Links
    <3>3. D(c)'
      BY <3>1, <3>2, <1>t, <1>f
    <3> QED BY <3>1, <3>3, <1>o
  <2>4. ASSUME NEW j \in Jobs, CancelBegin(c, j) PROVE DeletesKnown'
    BY <2>4, <1>a DEF CancelBegin, Hold
  <2> QED BY <1>1, <2>1, <2>2, <2>3, <2>4 DEF Asked
<1>2. ASSUME NEW c \in Clients, Handle(c)
      PROVE  DeletesKnown'
  <2>1. CASE Answer(c)
    BY <2>1, <1>a DEF Answer, Free
  <2>2. CASE DeleteBlob(c)
    <3>1. client' = [client EXCEPT ![c] = [client[c] EXCEPT !.pc = "delete"]]
      BY <2>2 DEF DeleteBlob, Go
    <3>2. client'[c].file = client[c].file /\ client[c].file \notin fresh
      BY <2>2, <3>1, <1>t, <1>d DEF DeleteBlob, Handler
    <3>3. SideOf(client[c].file)' = SideOf(client[c].file)
      BY <2>2, <3>2 DEF DeleteBlob, SideOf, Exists, jobs
    <3>4. D(c)'
      BY <2>2, <3>2, <3>3, <1>f DEF DeleteBlob
    <3> QED BY <3>1, <3>4, <1>o
  <2>3. CASE CancelQueued(c) /\ ~Answer(c)
    <3>1. client' = [client EXCEPT ![c] = [client[c] EXCEPT !.pc = "cancelRunning"]]
      BY <2>3 DEF CancelQueued, Go
    <3>2. [client[c] EXCEPT !.pc = "cancelRunning"].pc = "cancelRunning"
      BY <1>t DEF Handler
    <3> QED BY <3>1, <3>2, <1>a
  <2> QED BY <1>2, <2>1, <2>2, <2>3 DEF Handle, CreateEnd, DeleteRecord, CancelRunning
<1>3. ASSUME NEW w \in Workers, Came(w)
      PROVE  DeletesKnown'
  <2>1. CASE UNCHANGED client
    BY <2>1, <1>u
  <2>2. CASE client' = [c \in Clients |-> Free]
    BY <2>2 DEF DeletesKnown, Free
  <2> QED BY <1>3, <2>1, <2>2 DEF Came, Start, Take, Busy, Release, Crash
<1>4. ASSUME NEW w \in Workers, Worked(w)
      PROVE  DeletesKnown'
  BY <1>4, <1>u, WorkFrame
<1> QED BY <1>1, <1>2, <1>3, <1>4, <1>u, Steps DEF vars

\* What retention has still to delete becomes nobody's result.
LEMMA PurgesUnusedStep ==
  ASSUME Inv, CountInv, [Next]_vars
  PROVE  PurgesUnused'
<1> DEFINE U(w) == pc[w] \in {"purgeRecord", "purgeBlob"} => SideOf(Head(purging[w])) = {}
<1>t. /\ pc \in [Workers -> WorkerPcs] /\ purging \in [Workers -> Seq(Files \cup {None})]
      /\ job \in [Jobs -> Row]
  BY DEF Inv, TypeOK
<1>u. ASSUME NEW w \in Workers PROVE U(w)
  BY DEF CountInv, PurgesUnused
<1>i. ASSUME NEW w \in Workers, pc'[w] \notin {"purgeRecord", "purgeBlob"}
      PROVE  U(w)'
  BY <1>i
<1>q. ASSUME NEW w \in Workers, pc[w] \in {"purgeRecord", "purgeBlob"}
      PROVE  Head(purging[w]) \in Files \ fresh
  <2>1. /\ purging[w] \in Seq(Files \cup {None}) /\ purging[w] # <<>>
        /\ Head(purging[w]) \in Files /\ pc[w] \in PurgePcs
    BY <1>q, <1>t, Labels DEF Inv, Points, WorkerPoints, WorkerPoint
  <2>2. 1 \in DOMAIN purging[w] /\ Head(purging[w]) = purging[w][1]
    BY <2>1
  <2>3. WorkerPurge(w)
    BY DEF Inv, PurgesApart
  <2> QED BY <2>1, <2>2, <2>3 DEF WorkerPurge
<1>k. ASSUME NEW w \in Workers, pc[w] \in {"purgeRecord", "purgeBlob"},
             purging'[w] = purging[w]
      PROVE  U(w)'
  <2>1. PICK g \in Files \ fresh : g = Head(purging[w])
    BY <1>k, <1>q
  <2>2. SideOf(g)' \subseteq SideOf(g)
    BY SideOfShrinks
  <2>3. SideOf(g) = {}
    BY <2>1, <1>k, <1>u
  <2> QED BY <2>1, <2>2, <2>3, <1>k DEF SideOf, Exists
<1>s. ASSUME NEW w \in Workers, pc'[w] = pc[w], purging'[w] = purging[w]
      PROVE  U(w)'
  BY <1>s, <1>i, <1>k
<1>1. ASSUME NEW w \in Workers, Came(w)
      PROVE  U(w)'
  <2>1. pc'[w] \in {"off", "idle", "reconcile", "purge", "pick"}
    BY <1>1, <1>t DEF Came, Start, Take, Busy, Release, Crash, Goto, AfterReconcile
  <2> QED BY <2>1, <1>i
<1>2. ASSUME NEW w \in Workers, Worked(w)
      PROVE  U(w)'
  <2>1. CASE PurgeDone(w) \/ Reconcile(w) \/ Pick(w) \/ Claim(w) \/ Load(w) \/ Read(w)
             \/ Line(w) \/ OpenSide(w) \/ AppendLine(w) \/ CountLine(w) \/ CheckCancel(w)
    <3>1. pc'[w] \in {"purge", "pick", "claim", "load", "read", "line", "open", "append",
                      "count", "check", "cancel", "complete", "fail", "end"}
      BY <2>1, <1>t DEF PurgeDone, Reconcile, Pick, Claim, TakeOver, Load, Read, Line,
         OpenSide, AppendLine, CountLine, CheckCancel, Goto, AfterReconcile, AfterJob
    <3> QED BY <3>1, <1>i
  <2>2. CASE Complete(w) \/ Cancel(w) \/ Fail(w) \/ Raised(w) \/ Raise(w)
    <3>1. pc'[w] \in {"pick", "end", "fail", "raised"}
      BY <2>2, <1>t DEF Complete, Cancel, Fail, Finish, Raised, Raise, Goto, AfterJob
    <3> QED BY <3>1, <1>i
  <2>3. ASSUME NEW j \in Jobs, PurgeJob(w, j)
        PROVE  U(w)'
    BY <2>3, <1>t, <1>i DEF PurgeJob, Goto
  <2>4. CASE PurgeFile(w)
    <3>1. CASE NextFile(w)
      BY <3>1, <1>t, <1>i DEF NextFile, Goto
    <3>2. CASE ~StillReferenced(Head(purging[w])) /\ UNCHANGED purging
      BY <2>4, <3>2 DEF StillReferenced, PurgeFile, SideOf, Exists, jobs
    <3> QED BY <2>4, <3>1, <3>2 DEF PurgeFile
  <2>5. CASE PurgeRecord(w)
    <3>1. CASE GiveUp(w)
      BY <3>1, <1>i, <1>t DEF GiveUp, Goto
    <3>2. CASE UNCHANGED purging
      BY <2>5, <3>2, <1>k DEF PurgeRecord, At
    <3> QED BY <2>5, <3>1, <3>2 DEF PurgeRecord
  <2>6. CASE PurgeBlob(w)
    BY <2>6, <1>t, <1>i DEF PurgeBlob, NextFile, Goto
  <2> QED BY <1>2, <2>1, <2>2, <2>3, <2>4, <2>5, <2>6 DEF Worked
<1>3. ASSUME NEW w \in Workers, Worked(w) \/ Came(w)
      PROVE  PurgesUnused'
  <2>1. ASSUME NEW v \in Workers, v # w
        PROVE  U(v)'
    BY <1>3, <1>s, <2>1, Others DEF Inv
  <2> QED BY <1>1, <1>2, <1>3, <2>1 DEF PurgesUnused
<1>4. ASSUME UNCHANGED machine
      PROVE  PurgesUnused'
  BY <1>4, <1>s DEF PurgesUnused, machine, work
<1> QED BY <1>3, <1>4, Steps, HandlerFrame DEF vars

\* A step that leaves the workers alone is no step of a run.
LEMMA Quiet ==
  ASSUME Inv, UNCHANGED machine
  PROVE  \A w \in Workers : ~AppendLine(w) /\ \A j \in Jobs : ~RunStep(w, j)
<1> SUFFICES ASSUME NEW w \in Workers
             PROVE  ~AppendLine(w) /\ \A j \in Jobs : ~RunStep(w, j)
  OBVIOUS
<1>1. pc \in [Workers -> WorkerPcs] /\ UNCHANGED pc
  BY DEF Inv, TypeOK, machine
<1>2. ~AppendLine(w)
  BY <1>1 DEF AppendLine, At, Goto
<1>3. ASSUME NEW j \in Jobs, RunStep(w, j)
      PROVE  FALSE
  BY <1>1, <1>3 DEF RunStep, Read, OpenSide, CountLine, Complete, Cancel, Finish, At, Goto,
     AfterJob
<1> QED BY <1>2, <1>3

\* A job without results gets none but by being run.
LEMMA UnbegunStays ==
  ASSUME Inv, CountInv, [Next]_vars, NEW j \in Jobs, Exists(j), Unbegun(j),
         \A w \in Workers : ~RunStep(w, j)
  PROVE  Unbegun(j)'
BY RowSteps DEF Unbegun, RowSame, RowKept

\* Queued jobs have no results, nor has one that is claimed and not yet read.
LEMMA QueuedStep ==
  ASSUME Inv, CountInv, [Next]_vars
  PROVE  QueuedUnbegun'
<1>t. /\ pc \in [Workers -> WorkerPcs] /\ run \in [Workers -> Run]
      /\ status \in [Jobs -> Statuses] /\ job \in [Jobs -> Row]
  BY DEF Inv, TypeOK
<1>1. ASSUME NEW j \in Jobs, status'[j] = "validating"
      PROVE  Unbegun(j)'
  <2>1. CASE ~Exists(j)
    BY <1>1, <2>1, Newborn DEF Exists
  <2>2. CASE Exists(j)
    <3>1. status[j] = "validating"
      <4>1. ASSUME NEW w \in Workers, Reconcile(w) PROVE status[j] = "validating"
        BY <1>1, <4>1 DEF Reconcile
      <4>2. ASSUME NEW w \in Workers, NEW k \in Jobs, PurgeJob(w, k)
            PROVE  status[j] = "validating"
        BY <1>1, <4>2, <1>t DEF PurgeJob, SetStatus
      <4>3. ASSUME NEW w \in Workers, Claim(w) \/ Complete(w) \/ Cancel(w) \/ Fail(w)
            PROVE  status[j] = "validating"
        BY <1>1, <4>3, <1>t DEF Claim, TakeOver, Complete, Cancel, Fail, Finish, SetStatus, jobs
      <4>4. ASSUME NEW c \in Clients, CancelQueued(c) \/ CancelRunning(c)
            PROVE  status[j] = "validating"
        BY <1>1, <4>4, <1>t DEF CancelQueued, CancelRunning, SetStatus
      <4>5. ASSUME NEW c \in Clients, CreateEnd(c)
            PROVE  status[j] = "validating"
        <5>1. CASE UNCHANGED jobs
          BY <1>1, <5>1 DEF jobs
        <5>2. ASSUME NEW k \in Jobs, NextJob(k), SetStatus(k, "validating")
              PROVE  status[j] = "validating"
          <6>1. status[k] = "none"
            BY <5>2 DEF NextJob, Jobs
          <6>2. j # k
            BY <2>2, <6>1 DEF Exists
          <6> QED BY <1>1, <5>2, <6>2, <1>t DEF SetStatus
        <5> QED BY <4>5, <5>1, <5>2 DEF CreateEnd
      <4> QED BY <1>1, <4>1, <4>2, <4>3, <4>4, <4>5, StatusFrame DEF Inv
    <3>2. Unbegun(j)
      BY <3>1 DEF CountInv, QueuedUnbegun
    <3>3. \A w \in Workers : ~RunStep(w, j)
      BY <3>1, Runner, States DEF RunStep
    <3> QED BY <2>2, <3>2, <3>3, UnbegunStays
  <2> QED BY <2>1, <2>2
<1> DEFINE B(w) == pc[w] \in {"load", "read"} => Unbegun(run[w].job)
<1>2. ASSUME NEW w \in Workers, pc'[w] = pc[w], run'[w] = run[w],
             \A v \in Workers : ~RunStep(v, run[w].job)
      PROVE  B(w)'
  <2>1. CASE pc[w] \in {"load", "read"}
    <3>1. Unbegun(run[w].job) /\ pc[w] \in RunPcs
      BY <2>1, Labels DEF CountInv, QueuedUnbegun
    <3>2. PICK j \in Jobs : j = run[w].job /\ Exists(j)
      BY <3>1, Runner
    <3>3. Unbegun(j)'
      BY <1>2, <3>1, <3>2, UnbegunStays
    <3> QED BY <1>2, <3>2, <3>3
  <2> QED BY <2>1, <1>2
<1>3. ASSUME NEW w \in Workers, Worked(w)
      PROVE  \A v \in Workers : B(v)'
  <2>1. ASSUME NEW v \in Workers, v # w
        PROVE  B(v)'
    <3>1. pc'[v] \in {"off", "idle"}
      BY <1>3, <2>1, Alone, Others DEF LockHeld, Inv
    <3> QED BY <3>1
  <2>2. B(w)'
    <3>i. ASSUME pc'[w] \notin {"load", "read"} PROVE B(w)'
      BY <3>i
    <3>1. CASE Reconcile(w) \/ (\E j \in Jobs : PurgeJob(w, j)) \/ PurgeDone(w) \/ PurgeFile(w)
               \/ PurgeRecord(w) \/ PurgeBlob(w) \/ Pick(w)
      <4>1. pc'[w] \in {"purge", "pick", "purgeFile", "purgeRecord", "purgeBlob", "claim", "end"}
        BY <3>1, <1>t DEF Reconcile, PurgeJob, PurgeDone, PurgeFile, PurgeRecord, PurgeBlob,
           Pick, NextFile, GiveUp, Goto, AfterReconcile
      <4> QED BY <3>i, <4>1
    <3>2. CASE Complete(w) \/ Cancel(w) \/ Fail(w) \/ Raised(w) \/ Raise(w) \/ Read(w)
      <4>1. pc'[w] \in {"pick", "end", "fail", "raised", "line"}
        BY <3>2, <1>t DEF Complete, Cancel, Fail, Finish, Raised, Raise, Read, Goto, AfterJob
      <4> QED BY <3>i, <4>1
    <3>3. CASE Line(w) \/ OpenSide(w) \/ AppendLine(w) \/ CountLine(w) \/ CheckCancel(w)
      <4>1. pc'[w] \in {"line", "open", "append", "count", "check", "cancel", "complete"}
        BY <3>3, <1>t DEF Line, OpenSide, AppendLine, CountLine, CheckCancel, Goto
      <4> QED BY <3>i, <4>1
    <3>4. CASE Claim(w)
      <4>1. CASE pc'[w] \in {"load", "read"}
        <5>1. run[w].job \in Jobs /\ run'[w] = run[w]
          BY <3>4 DEF Claim, At, work, Inv, Points, WorkerPoints, WorkerPoint
        <5>2. status[run[w].job] = "validating"
          BY <3>4, <4>1, <1>t DEF Claim, Goto
        <5>3. Unbegun(run[w].job)
          BY <5>1, <5>2 DEF CountInv, QueuedUnbegun
        <5>4. \A v \in Workers : ~RunStep(v, run[w].job)
          BY <5>2, Runner, States DEF RunStep
        <5>5. Exists(run[w].job)
          BY <5>2 DEF Exists
        <5>6. PICK j \in Jobs : j = run[w].job
          BY <5>1
        <5>7. Unbegun(j)'
          BY <5>3, <5>4, <5>5, <5>6, UnbegunStays
        <5> QED BY <5>1, <5>6, <5>7
      <4> QED BY <4>1
    <3>5. CASE Load(w)
      <4>1. UNCHANGED <<jobs, run>> /\ pc[w] = "load"
        BY <3>5 DEF Load, At, work
      <4>2. Unbegun(run[w].job)
        BY <4>1 DEF CountInv, QueuedUnbegun
      <4> QED BY <4>1, <4>2 DEF jobs, Unbegun, SideFile, Counted
    <3> QED BY <1>3, <3>1, <3>2, <3>3, <3>4, <3>5 DEF Worked
  <2> QED BY <2>1, <2>2
<1>4. ASSUME NEW w \in Workers, Came(w)
      PROVE  \A v \in Workers : B(v)'
  <2>1. UNCHANGED jobs
    BY <1>4, CameFrame
  <2>2. pc'[w] \in {"off", "idle", "reconcile", "purge", "pick"}
    BY <1>4, <1>t DEF Came, Start, Take, Busy, Release, Crash, Goto, AfterReconcile
  <2>3. ASSUME NEW v \in Workers, v # w
        PROVE  B(v)'
    <3>1. pc'[v] = pc[v] /\ run'[v] = run[v]
      BY <1>4, <2>3, Others DEF Inv
    <3>2. B(v)
      BY DEF CountInv, QueuedUnbegun
    <3> QED BY <2>1, <3>1, <3>2 DEF jobs, Unbegun, SideFile, Counted
  <2> QED BY <2>2, <2>3
<1>5. ASSUME UNCHANGED machine
      PROVE  \A v \in Workers : B(v)'
  <2>1. UNCHANGED <<pc, run>>
    BY <1>5 DEF machine, work
  <2>2. \A v \in Workers, j \in Jobs : ~RunStep(v, j)
    BY <1>5, Quiet
  <2>3. \A v \in Workers : pc[v] \in {"load", "read"} => run[v].job \in Jobs
    BY Runner, Labels
  <2> QED BY <2>1, <2>2, <2>3, <1>2
<1>6. \A v \in Workers : B(v)'
  BY <1>3, <1>4, <1>5, Steps, HandlerFrame DEF vars
<1> QED BY <1>1, <1>6 DEF QueuedUnbegun

-----------------------------------------------------------------------------
(* The worker's tally. *)

\* Under the lock, nobody else stores lines or runs jobs.
LEMMA OnlyWorker ==
  ASSUME Inv, NEW w \in Workers, Worked(w), NEW v \in Workers,
         AppendLine(v) \/ \E j \in Jobs : RunStep(v, j)
  PROVE  v = w
<1>1. pc[v] \in RunPcs
  BY Labels DEF AppendLine, At, RunStep
<1>2. lock = v
  BY <1>1, Runner
<1> QED BY <1>2, Alone DEF Inv

\* A worker that nothing has changed.
LEMMA TallySame ==
  ASSUME CountInv, NEW w \in Workers, UNCHANGED <<jobs, store, history>>,
         pc'[w] = pc[w], run'[w] = run[w]
  PROVE  Storing(w)' /\ WorkerTally(w)'
<1>1. Storing(w) /\ WorkerTally(w)
  BY DEF CountInv, Tallies
<1> QED BY <1>1 DEF Storing, WorkerTally, jobs, store, history, Exists, SideFile, Stored,
        Tally, Ahead

\* The step of a handler leaves a worker's tally right.
LEMMA TallyKept ==
  ASSUME Inv, CountInv, [Next]_vars, UNCHANGED machine, NEW w \in Workers
  PROVE  Storing(w)' /\ WorkerTally(w)'
<1>1. pc'[w] = pc[w] /\ run'[w] = run[w]
  BY DEF machine, work
<1>2. Storing(w) /\ WorkerTally(w)
  BY DEF CountInv, Tallies
<1>3. fresh' \subseteq fresh /\ spoiled \subseteq spoiled'
  BY IdsOnce, SpoiledGrows DEF Inv
<1>4. ASSUME NEW j \in Jobs, Exists(j)
      PROVE  /\ RowKept(j) /\ (j \notin spoiled => RowSame(j))
             /\ \A r \in Results : SideFile(j, r)' \in {SideFile(j, r), None}
  BY <1>4, RowSteps, Quiet DEF RowSame
<1>5. ASSUME NEW j \in Jobs, Exists(j), j \notin spoiled', NEW r \in Results
      PROVE  Stored(SideFile(j, r))' = Stored(SideFile(j, r))
  BY <1>5, <1>3, StoredSteps, Quiet
<1>6. CASE pc[w] \in RunPcs
  <2>1. PICK j \in Jobs : j = run[w].job /\ Exists(j)
    BY <1>6, Runner
  <2>2. run[w] \in Run /\ run[w].result \in Results
    BY <1>6, Runner DEF Run, Results
  <2>3. Storing(w)'
    <3>1. CASE pc[w] = "append"
      <4>1. /\ run[w].side \notin fresh
            /\ j \notin spoiled => run[w].side = SideFile(j, run[w].result)
            /\ \A k \in Jobs, r \in Results :
                 Exists(k) /\ SideFile(k, r) = run[w].side => k = j
        BY <3>1, <1>2, <2>1 DEF Storing
      <4>2. run[w].side # None
        <5>1. run[w].side \in SideFiles
          BY <3>1 DEF Inv, Points, WorkerPoints, WorkerPoint
        <5> QED BY <5>1, BatchAssumption DEF Files
      <4>3. ASSUME j \notin spoiled'
            PROVE  run[w].side = SideFile(j, run[w].result)'
        <5>1. SideFile(j, run[w].result)' = SideFile(j, run[w].result)
          <6>1. \A r \in Results : SideFile(j, r)' = SideFile(j, r)
            BY <4>3, <1>3, <1>4, <2>1 DEF RowSame
          <6> QED BY <6>1, <2>2, <1>1 DEF SideFile
        <5> QED BY <4>1, <4>3, <5>1, <1>3
      <4>4. ASSUME NEW k \in Jobs, NEW r \in Results, Exists(k)',
                   SideFile(k, r)' = run[w].side
            PROVE  k = j
        <5>1. Exists(k)
          BY <4>2, <4>4, Newborn DEF Unbegun
        <5>2. SideFile(k, r) = run[w].side
          BY <4>2, <4>4, <5>1, <1>4
        <5> QED BY <4>1, <5>1, <5>2
      <4> QED BY <3>1, <4>1, <4>3, <4>4, <1>1, <1>3, <2>1 DEF Storing, SideFile
    <3>2. CASE pc[w] # "append"
      BY <3>2, <1>1 DEF Storing
    <3> QED BY <3>1, <3>2
  <2>4. WorkerTally(w)'
    <3>1. CASE pc[w] \in TallyPcs
      <4>1. /\ run[w].left + run[w].ok + run[w].bad = job[j].total
            /\ pc[w] = "complete" => run[w].left = 0
            /\ j \notin spoiled =>
                 \A r \in Results : Tally(w, r) = Stored(SideFile(j, r)) + Ahead(w, r)
        BY <3>1, <1>2, <2>1 DEF WorkerTally
      <4>2. job'[j].total = job[j].total
        BY <1>4, <2>1 DEF RowKept
      <4>3. ASSUME NEW r \in Results, j \notin spoiled'
            PROVE  Tally(w, r)' = Stored(SideFile(j, r))' + Ahead(w, r)'
        <5>1. Tally(w, r)' = Tally(w, r) /\ Ahead(w, r)' = Ahead(w, r)
          BY <1>1 DEF Tally, Ahead
        <5> QED BY <4>1, <4>3, <5>1, <1>3, <1>5, <2>1
      <4>4. run'[w].job = j
        BY <1>1, <2>1
      <4> QED BY <4>1, <4>2, <4>3, <4>4, <1>1 DEF WorkerTally, Stored, SideFile
    <3>2. CASE pc[w] \notin TallyPcs
      BY <3>2, <1>1 DEF WorkerTally
    <3> QED BY <3>1, <3>2
  <2> QED BY <2>3, <2>4
<1>7. CASE pc[w] \notin RunPcs
  <2>1. pc[w] # "append" /\ pc[w] \notin TallyPcs
    BY <1>7, Labels DEF TallyPcs
  <2> QED BY <2>1, <1>1 DEF Storing, WorkerTally
<1> QED BY <1>6, <1>7

\* What the rest of the run of w's job leaves alone while w works: the lines that
\* are stored, but for the one it appends.
LEMMA WorkedStored ==
  ASSUME Inv, CountInv, [Next]_vars, NEW w \in Workers, Worked(w), NEW j \in Jobs, Exists(j),
         j \notin spoiled, ~(AppendLine(w) /\ run[w].job = j), NEW r \in Results
  PROVE  Stored(SideFile(j, r))' = Stored(SideFile(j, r))
<1>1. UNCHANGED spoiled
  BY WorkFrame DEF history
<1> QED BY <1>1, StoredSteps, OnlyWorker

\* The file it opens is its job's, and no other job's.
LEMMA OpenStores ==
  ASSUME Inv, CountInv, [Next]_vars, NEW w \in Workers, OpenSide(w)
  PROVE  Storing(w)'
<1>r. run[w] \in Run /\ run \in [Workers -> Run] /\ run[w].result \in Results
  BY DEF Inv, TypeOK, Run, Results
<1>1. PICK j \in Jobs : j = run[w].job /\ Exists(j) /\ pc[w] \in RunPcs
  <2>1. pc[w] \in RunPcs
    BY Labels DEF OpenSide, At
  <2> QED BY <2>1, Runner
<1> DEFINE res == run[w].result
           f == SideFile(j, res)
<1>s. ASSUME NEW g, run' = [run EXCEPT ![w].side = g]
      PROVE  run'[w].side = g /\ run'[w].job = j /\ run'[w].result = res
  BY <1>s, <1>1, <1>r DEF Run
<1>2. CASE f # None
  <2>1. UNCHANGED <<jobs, store>> /\ run' = [run EXCEPT ![w].side = f]
    BY <1>1, <1>2 DEF OpenSide, jobs
  <2>2. run'[w].side = f /\ run'[w].job = j /\ run'[w].result = res
    BY <2>1, <1>s
  <2>3. f \notin fresh
    BY <1>1, <1>r, SideFacts
  <2>4. ASSUME NEW k \in Jobs, NEW s \in Results, Exists(k), SideFile(k, s) = f
        PROVE  k = j
    BY <1>1, <1>2, <1>r, <2>4 DEF CountInv, SidesApart
  <2> QED BY <2>1, <2>2, <2>3, <2>4 DEF Storing, SideFile, Exists, jobs, store
<1>3. CASE f = None
  <2>1. CreateSide(j, res, NewFile) /\ run' = [run EXCEPT ![w].side = NewFile]
    BY <1>1, <1>3 DEF OpenSide
  <2>2. run'[w].side = NewFile /\ run'[w].job = j /\ run'[w].result = res
    BY <2>1, <1>s
  <2>3. NewFile \in SideFiles /\ NewFile \in fresh /\ fresh' = fresh \ {NewFile}
    BY <2>1 DEF CreateSide, NewFile
  <2>4. NewFile # None
    BY <2>3, BatchAssumption DEF Files
  <2>5. job \in [Jobs -> Row] /\ job[j] \in Row
    BY DEF Inv, TypeOK
  <2>6. SideFile(j, res)' = NewFile
    BY <2>1, <2>5 DEF CreateSide, SideFile, Row
  <2>7. ASSUME NEW k \in Jobs, NEW s \in Results, Exists(k)', SideFile(k, s)' = NewFile,
               k # j
        PROVE  FALSE
    <3>1. job'[k] = job[k]
      BY <2>1, <2>5, <2>7 DEF CreateSide
    <3>2. SideFile(k, s) = NewFile
      BY <2>7, <3>1 DEF SideFile
    <3>3. Exists(k)
      BY <2>4, <2>7, Newborn DEF Unbegun
    <3> QED BY <2>3, <3>2, <3>3, SideFacts
  <2> QED BY <2>2, <2>3, <2>6, <2>7 DEF Storing, SideFile
<1> QED BY <1>2, <1>3

\* A worker's own step leaves its tally right.
LEMMA TallyWorked ==
  ASSUME Inv, CountInv, [Next]_vars, NEW w \in Workers, Worked(w)
  PROVE  Storing(w)' /\ WorkerTally(w)'
<1>t. /\ pc \in [Workers -> WorkerPcs] /\ run \in [Workers -> Run] /\ run[w] \in Run
      /\ job \in [Jobs -> Row]
  BY DEF Inv, TypeOK
<1>i. ASSUME pc'[w] \notin TallyPcs
      PROVE  Storing(w)' /\ WorkerTally(w)'
  BY <1>i DEF Storing, WorkerTally, TallyPcs
<1>g. /\ "line" \in TallyPcs /\ "open" \in TallyPcs /\ "append" \in TallyPcs
      /\ "count" \in TallyPcs /\ "check" \in TallyPcs
  BY DEF TallyPcs
<1>w. WorkerTally(w) /\ Storing(w)
  BY DEF CountInv, Tallies
\* The tally after a step of its job's run.
<1>p. ASSUME NEW j \in Jobs, run'[w].job = j, pc'[w] \in TallyPcs \ {"append"},
             run'[w].left + run'[w].ok + run'[w].bad = job'[j].total,
             pc'[w] = "complete" => run'[w].left = 0,
             j \notin spoiled' =>
               \A r \in Results : Tally(w, r)' = Stored(SideFile(j, r))' + Ahead(w, r)'
      PROVE  Storing(w)' /\ WorkerTally(w)'
  BY <1>p DEF Storing, WorkerTally, Stored, SideFile
<1>h. UNCHANGED spoiled
  BY WorkFrame DEF history
<1>1. CASE Reconcile(w) \/ (\E j \in Jobs : PurgeJob(w, j)) \/ PurgeDone(w) \/ PurgeFile(w)
           \/ PurgeRecord(w) \/ PurgeBlob(w) \/ Pick(w)
  <2>1. pc'[w] \in {"purge", "pick", "purgeFile", "purgeRecord", "purgeBlob", "claim", "end"}
    BY <1>1, <1>t DEF Reconcile, PurgeJob, PurgeDone, PurgeFile, PurgeRecord, PurgeBlob,
       Pick, NextFile, GiveUp, Goto, AfterReconcile
  <2> QED BY <2>1, <1>i DEF TallyPcs
<1>2. CASE Claim(w) \/ Load(w)
  <2>1. pc'[w] \in {"pick", "end", "load", "read"}
    BY <1>2, <1>t DEF Claim, TakeOver, Load, Goto, AfterJob
  <2> QED BY <2>1, <1>i DEF TallyPcs
<1>3. CASE Complete(w) \/ Cancel(w) \/ Fail(w) \/ Raised(w) \/ Raise(w)
  <2>1. pc'[w] \in {"pick", "end", "fail", "raised"}
    BY <1>3, <1>t DEF Complete, Cancel, Fail, Finish, Raised, Raise, Goto, AfterJob
  <2> QED BY <2>1, <1>i DEF TallyPcs
<1>4. CASE Read(w)
  <2>1. PICK j \in Jobs : j = run[w].job /\ Exists(j) /\ job[j] \in Row /\ pc[w] = "read"
    BY <1>4, Runner, Labels DEF Read, At
  <2>2. CASE Goto(w, "fail")
    BY <2>2, <1>t, <1>i DEF Goto, TallyPcs
  <2>3. ASSUME NEW n \in Nat, Goto(w, "line"), job' = [job EXCEPT ![j].total = n],
               run' = [run EXCEPT ![w].left = n, ![w].ok = 0, ![w].bad = 0]
        PROVE  Storing(w)' /\ WorkerTally(w)'
    <3>1. pc'[w] = "line" /\ job'[j].total = n
      BY <2>3, <1>t, <2>1 DEF Goto, Row
    <3>2. run'[w].left = n /\ run'[w].ok = 0 /\ run'[w].bad = 0 /\ run'[w].job = j
      BY <2>3, <1>t, <2>1 DEF Run
    <3>3. \A r \in Results : Tally(w, r)' = 0 /\ Ahead(w, r)' = 0
      BY <3>1, <3>2 DEF Tally, Ahead
    <3>4. \A r \in Results : Stored(SideFile(j, r))' = 0
      <4>1. Unbegun(j)
        BY <2>1 DEF CountInv, QueuedUnbegun
      <4>2. \A r \in Results : SideFile(j, r)' = SideFile(j, r)
        BY <2>1, <2>3, <1>t DEF SideFile, Row
      <4> QED BY <4>1, <4>2 DEF Unbegun, Stored
    <3> QED BY <3>1, <3>2, <3>3, <3>4, <1>p, <1>g
  <2>4. CASE /\ Goto(w, "line") /\ job[j].input \in blob
             /\ job' = [job EXCEPT ![j].total = size[job[j].input]]
             /\ run' = [run EXCEPT ![w].left = size[job[j].input], ![w].ok = 0, ![w].bad = 0]
    <3>1. PICK n \in Nat : n = size[job[j].input]
      BY <2>4 DEF Inv, TypeOK
    <3>2. job' = [job EXCEPT ![j].total = n]
      BY <2>4, <3>1, Zenon
    <3>3. run' = [run EXCEPT ![w].left = n, ![w].ok = 0, ![w].bad = 0]
      BY <2>4, <3>1, Zenon
    <3> QED BY <2>3, <2>4, <3>2, <3>3, Zenon
  <2> QED BY <1>4, <2>1, <2>2, <2>4 DEF Read
\* From here on the worker has a tally already.
<1>5. ASSUME pc[w] \in TallyPcs
      PROVE  \E j \in Jobs :
               /\ j = run[w].job /\ Exists(j) /\ job[j] \in Row
               /\ run[w].left + run[w].ok + run[w].bad = job[j].total
               /\ j \notin spoiled =>
                    \A r \in Results : Tally(w, r) = Stored(SideFile(j, r)) + Ahead(w, r)
  <2>1. pc[w] \in RunPcs
    BY <1>5, Labels DEF TallyPcs
  <2> QED BY <2>1, <1>5, <1>w, Runner DEF WorkerTally
<1>n. \A j \in Jobs, r \in Results : Stored(SideFile(j, r)) \in Nat
  BY SideFacts
<1>6. CASE Line(w)
  <2>1. pc[w] = "line" /\ pc'[w] = "open" /\ UNCHANGED jobs
    BY <1>6, <1>t DEF Line, At, Goto
  <2>2. PICK j \in Jobs :
               /\ j = run[w].job /\ Exists(j) /\ job[j] \in Row
               /\ run[w].left + run[w].ok + run[w].bad = job[j].total
               /\ j \notin spoiled =>
                    \A r \in Results : Tally(w, r) = Stored(SideFile(j, r)) + Ahead(w, r)
    BY <2>1, <1>5, <1>g
  <2>3. run[w].left > 0
    BY <2>1 DEF Inv, Points, WorkerPoints, WorkerPoint
  <2>4. \A r \in Results : Ahead(w, r) = 0
    BY <2>1 DEF Ahead
  <2>5. /\ run'[w].job = j
        /\ run'[w].left + run'[w].ok + run'[w].bad = job'[j].total
        /\ \A r \in Results : Tally(w, r)' = Tally(w, r) + Ahead(w, r)'
    <3>1. /\ run[w].ok \in Nat /\ run[w].bad \in Nat /\ run[w].left \in Nat
          /\ job'[j] = job[j]
      BY <1>t, <2>1 DEF Run, jobs
    <3>2. CASE run' = [run EXCEPT ![w].result = "ok", ![w].left = @ - 1, ![w].ok = @ + 1]
      <4>1. /\ run'[w].job = run[w].job /\ run'[w].left = run[w].left - 1
            /\ run'[w].ok = run[w].ok + 1 /\ run'[w].bad = run[w].bad
            /\ run'[w].result = "ok"
        BY <3>2, <1>t DEF Run
      <4> QED BY <2>1, <2>2, <3>1, <4>1 DEF Tally, Ahead, Results
    <3>3. CASE run' = [run EXCEPT ![w].result = "bad", ![w].left = @ - 1, ![w].bad = @ + 1]
      <4>1. /\ run'[w].job = run[w].job /\ run'[w].left = run[w].left - 1
            /\ run'[w].ok = run[w].ok /\ run'[w].bad = run[w].bad + 1
            /\ run'[w].result = "bad"
        BY <3>3, <1>t DEF Run
      <4> QED BY <2>1, <2>2, <3>1, <4>1 DEF Tally, Ahead, Results
    <3> QED BY <1>6, <3>2, <3>3 DEF Line
  <2>6. ASSUME j \notin spoiled', NEW r \in Results
        PROVE  Tally(w, r)' = Stored(SideFile(j, r))' + Ahead(w, r)'
    <3>1. Stored(SideFile(j, r))' = Stored(SideFile(j, r))
      BY <1>6, <1>h, <2>1, <2>2, <2>6, WorkedStored DEF AppendLine, At
    <3>2. Tally(w, r) = Stored(SideFile(j, r))
      BY <1>h, <1>n, <2>2, <2>4, <2>6
    <3> QED BY <2>5, <3>1, <3>2
  <2> QED BY <2>1, <2>5, <2>6, <1>p, <1>g
<1>7. CASE OpenSide(w)
  <2>1. pc[w] = "open" /\ pc'[w] = "append"
    BY <1>7, <1>t DEF OpenSide, At, Goto
  <2>2. PICK j \in Jobs :
               /\ j = run[w].job /\ Exists(j) /\ job[j] \in Row
               /\ run[w].left + run[w].ok + run[w].bad = job[j].total
               /\ j \notin spoiled =>
                    \A r \in Results : Tally(w, r) = Stored(SideFile(j, r)) + Ahead(w, r)
    BY <2>1, <1>5, <1>g
  <2>3. \E g : run' = [run EXCEPT ![w].side = g]
    BY <1>7 DEF OpenSide
  <2>4. /\ run'[w].job = j /\ run'[w].left = run[w].left /\ run'[w].ok = run[w].ok
        /\ run'[w].bad = run[w].bad /\ run'[w].result = run[w].result
    BY <2>2, <2>3, <1>t DEF Run
  <2>5. job'[j].total = job[j].total
    BY <1>7, <2>1, <2>2, RunCounts, Labels DEF RunStep, Read, At
  <2>6. ASSUME j \notin spoiled', NEW r \in Results
        PROVE  Tally(w, r)' = Stored(SideFile(j, r))' + Ahead(w, r)'
    <3>1. Stored(SideFile(j, r))' = Stored(SideFile(j, r))
      BY <1>7, <1>h, <2>1, <2>2, <2>6, WorkedStored DEF AppendLine, At
    <3>2. Tally(w, r)' = Tally(w, r) /\ Ahead(w, r)' = Ahead(w, r)
      BY <2>1, <2>4 DEF Tally, Ahead
    <3> QED BY <1>h, <2>2, <2>6, <3>1, <3>2
  <2>7. WorkerTally(w)'
    BY <2>1, <2>2, <2>4, <2>5, <2>6 DEF WorkerTally, Stored, SideFile
  <2> QED BY <1>7, <2>7, OpenStores
<1>8. CASE AppendLine(w)
  <2>1. pc[w] = "append" /\ pc'[w] = "count" /\ UNCHANGED jobs /\ run'[w] = run[w]
    BY <1>8, <1>t DEF AppendLine, At, Goto, work
  <2>2. PICK j \in Jobs :
               /\ j = run[w].job /\ Exists(j) /\ job[j] \in Row
               /\ run[w].left + run[w].ok + run[w].bad = job[j].total
               /\ j \notin spoiled =>
                    \A r \in Results : Tally(w, r) = Stored(SideFile(j, r)) + Ahead(w, r)
    BY <2>1, <1>5, <1>g
  <2>3. ASSUME j \notin spoiled', NEW r \in Results
        PROVE  Tally(w, r)' = Stored(SideFile(j, r))' + Ahead(w, r)'
    <3>1. run[w].side \in SideFiles /\ run[w].side = SideFile(j, run[w].result)
      BY <2>1, <2>2, <2>3, <1>h, <1>w DEF Storing, Inv, Points, WorkerPoints, WorkerPoint
    <3>2. run[w].side \in Files /\ run[w].side # None
      BY <3>1, BatchAssumption DEF Files
    <3>3. size \in [Files -> Nat] /\ run[w].result \in Results
      BY <1>t DEF Inv, TypeOK, Run, Results
    <3>4. size' = [size EXCEPT ![run[w].side] = @ + 1]
      BY <1>8 DEF AppendLine
    <3>5. SideFile(j, r)' = SideFile(j, r)
      BY <2>1 DEF SideFile, jobs
    <3>6. Tally(w, r)' = Tally(w, r) /\ Ahead(w, r)' = 0
      BY <2>1 DEF Tally, Ahead
    <3>7. CASE r = run[w].result
      <4>1. Stored(SideFile(j, r))' = Stored(SideFile(j, r)) + 1
        BY <3>1, <3>2, <3>3, <3>4, <3>5, <3>7 DEF Stored
      <4>2. Ahead(w, r) = 1
        BY <2>1, <3>7 DEF Ahead
      <4> QED BY <1>h, <1>n, <2>2, <2>3, <3>6, <4>1, <4>2
    <3>8. CASE r # run[w].result
      <4>1. SideFile(j, r) # run[w].side
        BY <2>2, <3>1, <3>2, <3>3, <3>8 DEF CountInv, SidesApart
      <4>2. SideFile(j, r) \in Files \cup {None}
        BY SideFacts DEF Files
      <4>3. Stored(SideFile(j, r))' = Stored(SideFile(j, r))
        BY <3>2, <3>3, <3>4, <3>5, <4>1, <4>2 DEF Stored
      <4>4. Ahead(w, r) = 0
        BY <3>8 DEF Ahead
      <4> QED BY <1>h, <1>n, <2>2, <2>3, <3>6, <4>3, <4>4
    <3> QED BY <3>7, <3>8
  <2> QED BY <2>1, <2>2, <2>3, <1>p, <1>g DEF jobs
<1>9. CASE CountLine(w)
  <2>1. pc[w] = "count" /\ pc'[w] = "check"
    BY <1>9, <1>t DEF CountLine, At, Goto
  <2>2. PICK j \in Jobs :
               /\ j = run[w].job /\ Exists(j) /\ job[j] \in Row
               /\ run[w].left + run[w].ok + run[w].bad = job[j].total
               /\ j \notin spoiled =>
                    \A r \in Results : Tally(w, r) = Stored(SideFile(j, r)) + Ahead(w, r)
    BY <2>1, <1>5, <1>g
  <2>3. /\ run'[w].job = j /\ run'[w].left = run[w].left /\ run'[w].ok = run[w].ok
        /\ run'[w].bad = run[w].bad
    BY <1>9, <2>2, <1>t DEF CountLine, Run
  <2>4. job'[j].total = job[j].total
    BY <1>9, <2>1, <2>2, RunCounts, Labels DEF RunStep, Read, At
  <2>5. ASSUME j \notin spoiled', NEW r \in Results
        PROVE  Tally(w, r)' = Stored(SideFile(j, r))' + Ahead(w, r)'
    <3>1. Stored(SideFile(j, r))' = Stored(SideFile(j, r))
      BY <1>9, <1>h, <2>1, <2>2, <2>5, WorkedStored DEF AppendLine, At
    <3>2. Tally(w, r)' = Tally(w, r) /\ Ahead(w, r)' = 0 /\ Ahead(w, r) = 0
      BY <2>1, <2>3 DEF Tally, Ahead
    <3> QED BY <1>h, <2>2, <2>5, <3>1, <3>2
  <2> QED BY <2>1, <2>2, <2>3, <2>4, <2>5, <1>p, <1>g
<1>10. CASE CheckCancel(w)
  <2>1. /\ pc[w] = "check" /\ UNCHANGED jobs /\ run'[w] = run[w]
        /\ pc'[w] \in {"cancel", "complete", "line"}
        /\ pc'[w] = "complete" => run[w].left = 0
    BY <1>10, <1>t DEF CheckCancel, At, Goto, work
  <2>2. PICK j \in Jobs :
               /\ j = run[w].job /\ Exists(j) /\ job[j] \in Row
               /\ run[w].left + run[w].ok + run[w].bad = job[j].total
               /\ j \notin spoiled =>
                    \A r \in Results : Tally(w, r) = Stored(SideFile(j, r)) + Ahead(w, r)
    BY <2>1, <1>5, <1>g
  <2>3. ASSUME j \notin spoiled', NEW r \in Results
        PROVE  Tally(w, r)' = Stored(SideFile(j, r))' + Ahead(w, r)'
    <3>1. Stored(SideFile(j, r))' = Stored(SideFile(j, r))
      BY <1>10, <1>h, <2>1, <2>2, <2>3, WorkedStored DEF AppendLine, At
    <3>2. Tally(w, r)' = Tally(w, r) /\ Ahead(w, r)' = 0 /\ Ahead(w, r) = 0
      BY <2>1 DEF Tally, Ahead
    <3> QED BY <1>h, <2>2, <2>3, <3>1, <3>2
  <2>4. pc'[w] \in TallyPcs \ {"append"}
    BY <2>1 DEF TallyPcs
  <2> QED BY <2>1, <2>2, <2>3, <2>4, <1>p DEF jobs
<1> QED BY <1>1, <1>2, <1>3, <1>4, <1>6, <1>7, <1>8, <1>9, <1>10 DEF Worked

\* All workers' tallies.
LEMMA TalliesStep ==
  ASSUME Inv, CountInv, [Next]_vars
  PROVE  Tallies'
<1>1. ASSUME NEW w \in Workers, Worked(w), NEW v \in Workers
      PROVE  Storing(v)' /\ WorkerTally(v)'
  <2>1. CASE v = w
    BY <1>1, <2>1, TallyWorked
  <2>2. CASE v # w
    <3>1. pc'[v] \in {"off", "idle"}
      BY <1>1, <2>2, Alone, Others DEF LockHeld, Inv
    <3> QED BY <3>1 DEF Storing, WorkerTally, TallyPcs
  <2> QED BY <2>1, <2>2
<1>2. ASSUME NEW w \in Workers, Came(w), NEW v \in Workers
      PROVE  Storing(v)' /\ WorkerTally(v)'
  <2>1. CASE v = w
    <3>1. pc \in [Workers -> WorkerPcs]
      BY DEF Inv, TypeOK
    <3>2. pc'[w] \in {"off", "idle", "reconcile", "purge", "pick"}
      BY <1>2, <3>1 DEF Came, Start, Take, Busy, Release, Crash, Goto, AfterReconcile
    <3> QED BY <2>1, <3>2 DEF Storing, WorkerTally, TallyPcs
  <2>2. CASE v # w
    <3>1. pc'[v] = pc[v] /\ run'[v] = run[v]
      BY <1>2, <2>2, Others DEF Inv
    <3> QED BY <1>2, <3>1, CameFrame, TallySame
  <2> QED BY <2>1, <2>2
<1>3. ASSUME UNCHANGED machine, NEW v \in Workers
      PROVE  Storing(v)' /\ WorkerTally(v)'
  BY <1>3, TallyKept
<1> QED BY <1>1, <1>2, <1>3, Steps, HandlerFrame DEF vars, Tallies

\* The counts a worker saves are of lines it has stored.
LEMMA SavedIsStored ==
  ASSUME Inv, CountInv, [Next]_vars, NEW w \in Workers,
         CountLine(w) \/ Complete(w) \/ Cancel(w),
         NEW j \in Jobs, run[w].job = j, j \notin spoiled, NEW r \in Results
  PROVE  /\ Stored(SideFile(j, r))' = Stored(SideFile(j, r))
         /\ Tally(w, r) = Stored(SideFile(j, r))
<1>1. pc[w] \in {"count", "complete", "cancel"}
  BY DEF CountLine, Complete, Cancel, At
<1>2. pc[w] \in RunPcs /\ pc[w] \in TallyPcs /\ pc[w] # "append" /\ pc[w] # "open"
  BY <1>1, Labels DEF TallyPcs
<1>3. Exists(j)
  BY <1>2, Runner
<1>4. Stored(SideFile(j, r)) \in Nat
  BY SideFacts
<1>5. Tally(w, r) = Stored(SideFile(j, r)) + Ahead(w, r)
  BY <1>2 DEF CountInv, Tallies, WorkerTally
<1>6. Ahead(w, r) = 0
  BY <1>2 DEF Ahead
<1>7. Stored(SideFile(j, r))' = Stored(SideFile(j, r))
  BY <1>2, <1>3, WorkedStored DEF Worked, AppendLine, At
<1> QED BY <1>4, <1>5, <1>6, <1>7

\* Counts run behind the files.
LEMMA DownloadableStep ==
  ASSUME Inv, CountInv, [Next]_vars
  PROVE  CountsAreDownloadable'
<1> SUFFICES ASSUME NEW j \in Jobs, j \notin spoiled', Exists(j)', NEW r \in Results
             PROVE  Counted(j, r)' <= Stored(SideFile(j, r))'
  BY DEF CountsAreDownloadable, Counted, SideFile, Results
<1>1. CASE ~Exists(j)
  BY <1>1, Newborn DEF Unbegun, Stored
<1>2. CASE Exists(j)
  <2>1. spoiled \subseteq spoiled' /\ j \notin spoiled
    BY SpoiledGrows
  <2>2. Counted(j, r) <= Stored(SideFile(j, r))
    BY <1>2, <2>1 DEF CountInv, CountsAreDownloadable, Counted, SideFile, Results
  <2>3. Counted(j, r) \in Nat /\ Stored(SideFile(j, r)) \in Nat
    BY SideFacts
  <2>4. CASE Counted(j, r)' = Counted(j, r)
    <3>1. \/ Stored(SideFile(j, r))' = Stored(SideFile(j, r))
          \/ Stored(SideFile(j, r))' = Stored(SideFile(j, r)) + 1
      BY <1>2, <2>1, StoredSteps
    <3> QED BY <2>2, <2>3, <2>4, <3>1
  <2>5. ASSUME NEW w \in Workers, RunStep(w, j), Counted(j, r)' = Tally(w, r),
               CountLine(w) \/ Complete(w) \/ Cancel(w)
        PROVE  Counted(j, r)' <= Stored(SideFile(j, r))'
    <3>1. run[w].job = j
      BY <2>5 DEF RunStep
    <3>2. /\ Stored(SideFile(j, r))' = Stored(SideFile(j, r))
          /\ Tally(w, r) = Stored(SideFile(j, r))
      BY <2>1, <2>5, <3>1, SavedIsStored
    <3> QED BY <2>3, <2>5, <3>2
  <2> QED BY <1>2, <2>4, <2>5, RowSteps, RunCounts DEF RowSame, RowKept
<1> QED BY <1>1, <1>2

\* Only a run completes a job, and nothing counts or stores for it afterwards.
LEMMA WholeStep ==
  ASSUME Inv, CountInv, [Next]_vars
  PROVE  CompletedIsWhole'
<1> SUFFICES ASSUME NEW j \in Jobs, status'[j] = "completed"
             PROVE  /\ Counted(j, "ok")' + Counted(j, "bad")' = job'[j].total
                    /\ j \notin spoiled' =>
                         \A r \in Results : Counted(j, r)' = Stored(SideFile(j, r))'
  BY DEF CompletedIsWhole, WithStatus, Counted, SideFile, Results
<1>t. status \in [Jobs -> Statuses]
  BY DEF Inv, TypeOK
<1>h. spoiled \subseteq spoiled'
  BY SpoiledGrows
<1>e. Exists(j)
  <2>1. Exists(j)'
    BY DEF Exists
  <2> QED BY <2>1, Newborn
<1>r. "ok" \in Results /\ "bad" \in Results
  BY DEF Results
<1>1. CASE status[j] = "completed"
  <2>1. \A w \in Workers : ~(pc[w] \in RunPcs /\ run[w].job = j)
    BY <1>1, Runner, States
  <2>2. RowKept(j) /\ (j \notin spoiled => RowSame(j))
    BY <2>1, <1>e, RowSteps DEF RunStep, RowSame
  <2>3. j \notin spoiled' =>
          \A r \in Results : Stored(SideFile(j, r))' = Stored(SideFile(j, r))
    BY <2>1, <1>e, <1>h, StoredSteps, Labels DEF AppendLine, At
  <2>4. /\ Counted(j, "ok") + Counted(j, "bad") = job[j].total
        /\ j \notin spoiled => \A r \in Results : Counted(j, r) = Stored(SideFile(j, r))
    BY <1>1 DEF CountInv, CompletedIsWhole, WithStatus, Counted, SideFile, Results
  <2> QED BY <2>2, <2>3, <2>4, <1>h, <1>r DEF RowKept
<1>2. ASSUME NEW w \in Workers, Complete(w), run[w].job = j
      PROVE  /\ Counted(j, "ok")' + Counted(j, "bad")' = job'[j].total
             /\ j \notin spoiled' =>
                  \A r \in Results : Counted(j, r)' = Stored(SideFile(j, r))'
  <2>1. /\ pc[w] = "complete" /\ pc[w] \in RunPcs /\ pc[w] \in TallyPcs
        /\ run[w] \in Run /\ job[j] \in Row /\ job \in [Jobs -> Row]
    BY <1>2, Runner, Labels DEF Complete, At, TallyPcs, Inv, TypeOK
  <2>2. run[w].left + run[w].ok + run[w].bad = job[j].total /\ run[w].left = 0
    BY <1>2, <2>1 DEF CountInv, Tallies, WorkerTally
  <2>3. /\ job'[j].ok = run[w].ok /\ job'[j].bad = run[w].bad
        /\ job'[j].total = job[j].total
    BY <1>2, <2>1 DEF Complete, SaveCounts, Row
  <2>4. run[w].ok \in Nat /\ run[w].bad \in Nat
    BY <2>1 DEF Run
  <2>5. Counted(j, "ok")' + Counted(j, "bad")' = job'[j].total
    BY <2>2, <2>3, <2>4 DEF Counted
  <2>6. ASSUME j \notin spoiled', NEW r \in Results
        PROVE  Counted(j, r)' = Stored(SideFile(j, r))'
    <3>1. /\ Stored(SideFile(j, r))' = Stored(SideFile(j, r))
          /\ Tally(w, r) = Stored(SideFile(j, r))
      BY <1>2, <1>h, <2>6, SavedIsStored
    <3>2. Counted(j, r)' = Tally(w, r)
      BY <2>3 DEF Counted, Tally
    <3> QED BY <3>1, <3>2
  <2> QED BY <2>5, <2>6
<1>3. ASSUME status[j] # "completed"
      PROVE  \E w \in Workers : Complete(w) /\ run[w].job = j
  <2>1. ASSUME NEW w \in Workers, Reconcile(w) PROVE FALSE
    BY <1>3, <2>1 DEF Reconcile
  <2>2. ASSUME NEW w \in Workers, NEW k \in Jobs, PurgeJob(w, k) PROVE FALSE
    BY <1>3, <2>2, <1>t DEF PurgeJob, SetStatus
  <2>3. ASSUME NEW w \in Workers, Claim(w) \/ Cancel(w) \/ Fail(w) PROVE FALSE
    BY <1>3, <2>3, <1>t DEF Claim, TakeOver, Cancel, Fail, Finish, SetStatus, jobs
  <2>4. ASSUME NEW c \in Clients, CreateEnd(c) \/ CancelQueued(c) \/ CancelRunning(c)
        PROVE  FALSE
    BY <1>3, <2>4, <1>t DEF CreateEnd, CancelQueued, CancelRunning, SetStatus, jobs
  <2>5. ASSUME NEW w \in Workers, Complete(w)
        PROVE  run[w].job = j
    BY <1>3, <2>5, <1>t DEF Complete, Finish, SetStatus
  <2> QED BY <1>3, <2>1, <2>2, <2>3, <2>4, <2>5, StatusFrame DEF Inv
<1> QED BY <1>1, <1>2, <1>3

-----------------------------------------------------------------------------
(* The theorems. *)

\* The invariant holds in the initial states.
LEMMA CountInitial ==
  ASSUME Init
  PROVE  CountInv
<1>1. \A w \in Workers : pc[w] = "off"
  BY DEF Init
<1>2. \A j \in Jobs : ~Exists(j) /\ status[j] = "none"
  BY DEF Init, Exists
<1>3. FreshIds /\ SidesApart /\ CountsAreDownloadable /\ CompletedIsWhole
  BY <1>2 DEF Init, FreshIds, SidesApart, CountsAreDownloadable, CompletedIsWhole, WithStatus
<1>4. DeletesKnown
  BY DEF Init, DeletesKnown, Free
<1>5. PurgesUnused /\ QueuedUnbegun /\ Tallies
  BY <1>1, <1>2 DEF PurgesUnused, QueuedUnbegun, Tallies, Storing, WorkerTally, TallyPcs
<1> QED BY <1>3, <1>4, <1>5 DEF CountInv

\* The invariant is preserved by every step.
LEMMA CountInductive ==
  ASSUME Inv, CountInv, [Next]_vars
  PROVE  CountInv'
BY FreshStep, SidesStep, DeletesStep, PurgesUnusedStep, QueuedStep, TalliesStep,
   DownloadableStep, WholeStep DEF CountInv

\* The invariant holds in every reachable state.
LEMMA CountInvariant == Spec => []CountInv
BY CountInitial, CountInductive, Invariant, PTL DEF Spec

\* request_counts never announces a line that is not in the output or error file
\* yet, whatever the worker, a crash, retention or a cancellation was about to do.
THEOREM CountsDownloadable == Spec => []CountsAreDownloadable
<1>1. CountInv => CountsAreDownloadable
  BY DEF CountInv
<1> QED BY <1>1, CountInvariant, PTL

\* A completed job has one result for each line of its input, all of them in its
\* files, and stays so.
THEOREM CompletedWhole == Spec => []CompletedIsWhole
<1>1. CountInv => CompletedIsWhole
  BY DEF CountInv
<1> QED BY <1>1, CountInvariant, PTL
=============================================================================
