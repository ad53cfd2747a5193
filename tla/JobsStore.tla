------------------------------ MODULE JobsStore ------------------------------
(***************************************************************************)
(* The jobs service's store of tasks (scheduler/jobs/grpc/handler.go and   *)
(* scheduler/jobs/bolt.go) and the client that feeds it                    *)
(* (scheduler/tasks/reconnecting-client.go).                               *)
(*                                                                         *)
(*   - the CLIENT sends each update of a task on a stream and waits for    *)
(*     the answer; when the stream fails it puts the update directly, once,*)
(*     and opens another stream;                                           *)
(*   - HANDLERS, one for each stream, check the job and pass the update to *)
(*     putTaskChan; the handler of a broken stream may still be at work;   *)
(*   - the WATCH goroutine buffers updates, stores some of them at once    *)
(*     and flushes the buffer when it is full or idle;                     *)
(*   - MAINTENANCE repairs tasks stuck in Running, prunes old tasks and    *)
(*     removes AutoClean jobs, each with reads and writes in separate      *)
(*     transactions.                                                       *)
(*                                                                         *)
(* The k-th update of task t carries the status Updates[t][k].  Every      *)
(* transaction of the bolt database is one step.                           *)
(***************************************************************************)
EXTENDS Integers, Sequences, FiniteSets

CONSTANTS
  Job,         \* job IDs
  Task,        \* task IDs
  NoTask,      \* not a task ID
  JobOf,       \* Task.JobID
  Updates,     \* the statuses the tasks service sends for a task, in order
  StartTime,   \* Task.StartTime
  AutoClean,   \* jobs with AutoStart and AutoClean
  Removable,   \* jobs that users may delete and put again
  Erasable,    \* tasks that users may delete
  BuffMax,     \* 500 in watchPutTaskChan
  PruneLimit,  \* DeleteTasksRequest.PruneLimit
  Operations,  \* maintenance requested: of "stuck", "prune" and "clean"
  MaxFailures, \* bound on broken streams, failed calls and failed flushes
  MaxRestarts, \* bound on restarts of the jobs service
  MaxDeletions \* bound on the requests that delete jobs or tasks

Status == {"Running", "Finished", "Interrupted", "Error"}

ASSUME StoreAssumption ==
  /\ JobOf \in [Task -> Job] /\ Updates \in [Task -> Seq(Status)]
  /\ StartTime \in [Task -> Nat] /\ NoTask \notin Task
  /\ AutoClean \subseteq Job /\ Removable \subseteq Job /\ Erasable \subseteq Task
  /\ IsFiniteSet(Task)
  /\ {BuffMax, PruneLimit, MaxFailures, MaxRestarts, MaxDeletions} \subseteq Nat
  /\ Operations \subseteq {"stuck", "prune", "clean"}

VARIABLES
  jobs,        \* the jobs in the database
  tasks,       \* the tasks in the database: the update that wrote each
  buff,        \* putTaskBuff
  buffLength,  \* putTaskBuffLength
  watch,       \* watchPutTaskChan: "idle", or what it is about to store
  jobsBuff,    \* jobs cached by PutTaskStream
  handling,    \* calls of the stream handlers that are in progress
  stream,      \* the client's stream: "open" or "closed"
  client,      \* what the client is doing, and with which update
  sent,        \* how many updates of each task the client has taken
  admin,       \* the maintenance request in progress
  failures,    \* failures so far
  restarts,    \* restarts so far
  deletions    \* requests to delete so far

vars == <<jobs, tasks, buff, buffLength, watch, jobsBuff, handling, stream, client,
          sent, admin, failures, restarts, deletions>>
watchVars == <<buff, buffLength, watch>>
streamVars == <<handling, stream, client, sent>>
bounds == <<failures, restarts, deletions>>

----------------------------------------------------------------------------

Update(k, st) == [k |-> k, st |-> st]
None == Update(0, "none")

\* A worker of the service: what it does, and for which update.
Busy(pc, t, k) == [pc |-> pc, t |-> t, k |-> k]
Idle == Busy("idle", NoTask, 0)

Sent(h) == Update(h.k, Updates[h.t][h.k])

Request(op, left, chosen) == [op |-> op, left |-> left, chosen |-> chosen]
NoRequest == Request("none", <<>>, {})

Of(j) == {t \in Task : JobOf[t] = j}
Having(st) == {t \in Task : tasks[t].st = st}

\* Something outside of the program fails; bounded by MaxFailures.
Fails == failures < MaxFailures /\ failures' = failures + 1

\* A request that deletes; bounded by MaxDeletions.
Deletes == deletions < MaxDeletions /\ deletions' = deletions + 1

Init ==
  /\ jobs = Job /\ tasks = [t \in Task |-> None]
  /\ buff = [t \in Task |-> None] /\ buffLength = 0 /\ watch = Idle
  /\ jobsBuff = {} /\ handling = {}
  /\ stream = "open" /\ client = Idle /\ sent = [t \in Task |-> 0]
  /\ admin = NoRequest
  /\ failures = 0 /\ restarts = 0 /\ deletions = 0

----------------------------------------------------------------------------
(***************************************************************************)
(* The reconnecting client.                                                *)
(***************************************************************************)

\* Send on the stream, or PutTask when Send reports that the stream is gone.
SendTask(t) ==
  LET k == sent[t] + 1
  IN /\ client = Idle /\ k <= Len(Updates[t])
     /\ sent' = [sent EXCEPT ![t] = k]
     /\ \/ /\ stream = "open"
           /\ client' = Busy("wait", t, k)
           /\ handling' = handling \cup {Busy("check", t, k)}
        \/ /\ stream = "closed"
           /\ client' = Busy("direct", t, k)
           /\ UNCHANGED handling
     /\ UNCHANGED <<jobs, tasks, watchVars, jobsBuff, stream, admin, bounds>>

\* The client's Recv fails: it falls back on a direct call.
Fallback(c) == IF c.pc = "wait" THEN [c EXCEPT !.pc = "direct"] ELSE c

\* The stream breaks or reaches its 5 minutes; a request under way may be lost.
BreakStream ==
  /\ stream = "open" /\ Fails
  /\ stream' = "closed"
  /\ client' = Fallback(client)
  /\ handling' \in {handling, {h \in handling : h.pc # "check"}}
  /\ UNCHANGED <<jobs, tasks, watchVars, jobsBuff, sent, admin, restarts, deletions>>

\* Whatever PutTask answered, a new stream is opened.
Reconnected == client' = Idle /\ stream' = "open"

\* PutTask loads the job ...
DirectCheck ==
  /\ client.pc = "direct"
  /\ \/ /\ JobOf[client.t] \in jobs
        /\ client' = [client EXCEPT !.pc = "put"]
        /\ UNCHANGED <<stream, failures>>
     \/ /\ JobOf[client.t] \notin jobs /\ Reconnected /\ UNCHANGED failures
     \/ Fails /\ Reconnected
  /\ UNCHANGED <<jobs, tasks, watchVars, jobsBuff, handling, sent, admin, restarts, deletions>>

\* ... and stores the task, past the buffer.
DirectPut ==
  /\ client.pc = "put"
  /\ tasks' = [tasks EXCEPT ![client.t] = Sent(client)]
  /\ Reconnected
  /\ UNCHANGED <<jobs, watchVars, jobsBuff, handling, sent, admin, bounds>>

----------------------------------------------------------------------------
(***************************************************************************)
(* PutTaskStream, one call for each update.                                *)
(***************************************************************************)

Goes(h, pc) == handling' = (handling \ {h}) \cup {[h EXCEPT !.pc = pc]}

Awaited(h) == client = Busy("wait", h.t, h.k)

\* Mutant: the handler goes on to its next Recv without an answer.
RejectSilently(h) == handling' = handling \ {h} /\ UNCHANGED <<stream, client>>

\* The handler returns NotFound, which ends its stream.
Reject(h) ==
  /\ handling' = handling \ {h}
  /\ \/ Awaited(h) /\ client' = Fallback(client) /\ stream' = "closed"
     \/ ~Awaited(h) /\ UNCHANGED <<client, stream>>

\* The job comes from jobsBuff, else from the store; a cached job is never
\* looked up again.
CheckJob(h) ==
  /\ h.pc = "check"
  /\ \/ /\ JobOf[h.t] \in jobsBuff \cup jobs
        /\ jobsBuff' = jobsBuff \cup {JobOf[h.t]}
        /\ Goes(h, "push") /\ UNCHANGED <<stream, client>>
     \/ /\ JobOf[h.t] \notin jobsBuff \cup jobs
        /\ Reject(h) /\ UNCHANGED jobsBuff
  /\ UNCHANGED <<jobs, tasks, watchVars, sent, admin, bounds>>

\* Mutant: only tasks that had finished before are stored at once.
StoreNowIfFinished(t) == buff[t].st = "Finished"

\* A task is stored at once when the buffer has no update of it, or has one
\* that was Finished.
StoreNow(t) == buff[t] = None \/ buff[t].st = "Finished"

\* Mutant: an update that is stored at once is not buffered.
BufferedUnlessFinished(h) == IF buff[h.t].st = "Finished" THEN buff[h.t] ELSE Sent(h)

\* Mutant: the buffer keeps the update it has.
KeepFirst(h) == IF buff[h.t] = None THEN Sent(h) ELSE buff[h.t]

\* The entry of the buffer is replaced.
Buffered(h) == Sent(h)

\* putTaskChan <- t : watchPutTaskChan buffers the update, and is then about
\* to flush the buffer, to store the update, or to receive again.
Push(h) ==
  /\ h.pc = "push" /\ watch = Idle
  /\ Goes(h, "reply")
  /\ buff' = [buff EXCEPT ![h.t] = Buffered(h)]
  /\ buffLength' = buffLength + 1
  /\ watch' = IF buffLength + 1 > BuffMax THEN Busy("flush", NoTask, 0)
              ELSE IF StoreNow(h.t) THEN Busy("store", h.t, h.k)
              ELSE Idle
  /\ UNCHANGED <<jobs, tasks, jobsBuff, stream, client, sent, admin, bounds>>

\* streamer.Send; the answer of a broken stream is lost, and its handler ends.
Reply(h) ==
  /\ h.pc = "reply"
  /\ handling' = handling \ {h}
  /\ client' = IF Awaited(h) THEN Idle ELSE client
  /\ UNCHANGED <<jobs, tasks, watchVars, jobsBuff, stream, sent, admin, bounds>>

----------------------------------------------------------------------------
(***************************************************************************)
(* watchPutTaskChan.                                                       *)
(***************************************************************************)

\* store.PutTask, creating the bucket of the job if it is missing.
PutTask ==
  /\ watch.pc = "store"
  /\ tasks' = [tasks EXCEPT ![watch.t] = Sent(watch)]
  /\ watch' = Idle
  /\ UNCHANGED <<jobs, buff, buffLength, jobsBuff, streamVars, admin, bounds>>

\* What the database holds after store.PutTasks(putTaskBuff).
Flushed == [t \in Task |-> IF buff[t] = None THEN tasks[t] ELSE buff[t]]

\* Mutant: the buffer is emptied, its length is not reset.
NoBufferButLength == buff' = [t \in Task |-> None] /\ UNCHANGED buffLength

\* The buffer is emptied.
NoBuffer == buff' = [t \in Task |-> None] /\ buffLength' = 0

\* The loop of watchPutTaskChan goes on.
AfterFlush == Idle

\* flush, when the buffer is full or nothing arrived for 3 seconds.  An error
\* of the store empties the buffer all the same.
Flush ==
  /\ watch.pc = "flush" \/ (watch = Idle /\ buffLength > 0)
  /\ \/ tasks' = Flushed /\ UNCHANGED failures
     \/ Fails /\ UNCHANGED tasks
  /\ NoBuffer /\ watch' = AfterFlush
  /\ UNCHANGED <<jobs, jobsBuff, streamVars, admin, restarts, deletions>>

----------------------------------------------------------------------------
(***************************************************************************)
(* Users and maintenance.                                                  *)
(***************************************************************************)

PutJob(j) ==
  /\ j \in Removable /\ jobs' = jobs \cup {j}
  /\ UNCHANGED <<tasks, watchVars, jobsBuff, streamVars, admin, bounds>>

\* store.DeleteJob: the job and the bucket of its tasks.
JobDeleted(j) ==
  /\ jobs' = jobs \ {j}
  /\ tasks' = [t \in Task |-> IF JobOf[t] = j THEN None ELSE tasks[t]]

DeleteJob(j) ==
  /\ j \in Removable /\ JobDeleted(j) /\ Deletes
  /\ UNCHANGED <<watchVars, jobsBuff, streamVars, admin, failures, restarts>>

DeleteTask(t) ==
  /\ t \in Erasable /\ tasks' = [tasks EXCEPT ![t] = None] /\ Deletes
  /\ UNCHANGED <<jobs, watchVars, jobsBuff, streamVars, admin, failures, restarts>>

\* The tasks CleanStuckTasks lists: those stored as Running.
Stuck == {<<t, tasks[t].k>> : t \in Having("Running")}

\* DetectStuckTasks only retains tasks that started long enough ago.
DetectStuck ==
  /\ "stuck" \in Operations /\ admin = NoRequest
  /\ \E old \in SUBSET Stuck : admin' = Request("stuck", <<>>, old)
  /\ UNCHANGED <<jobs, tasks, watchVars, jobsBuff, streamVars, bounds>>

\* store.PutTask of a stuck task, as it was listed but for its status.
FixStuck ==
  /\ admin.op = "stuck"
  /\ \/ \E x \in admin.chosen :
          /\ tasks' = [tasks EXCEPT ![x[1]] = Update(x[2], "Error")]
          /\ admin' = [admin EXCEPT !.chosen = @ \ {x}]
     \/ admin.chosen = {} /\ admin' = NoRequest /\ UNCHANGED tasks
  /\ UNCHANGED <<jobs, watchVars, jobsBuff, streamVars, bounds>>

Pruning == Request("prune", <<"Finished", "Interrupted", "Error">>, {})

Prune ==
  /\ "prune" \in Operations /\ admin = NoRequest /\ admin' = Pruning
  /\ UNCHANGED <<jobs, tasks, watchVars, jobsBuff, streamVars, bounds>>

\* Mutant: the tasks that started first are kept.
BeyondLimitOldestKept(st) ==
  {D \in SUBSET Having(st) : \A j \in Job :
     LET kept == (Of(j) \cap Having(st)) \ D
     IN /\ Cardinality(kept) <= PruneLimit
        /\ D \cap Of(j) # {} => Cardinality(kept) = PruneLimit
        /\ \A d \in D \cap Of(j), t \in kept : StartTime[d] >= StartTime[t]}

\* ListTasks with PruneLimit as its offset: in each bucket, all tasks of that
\* status but the PruneLimit that started last.
BeyondLimit(st) ==
  {D \in SUBSET Having(st) : \A j \in Job :
     LET kept == (Of(j) \cap Having(st)) \ D
     IN /\ Cardinality(kept) <= PruneLimit
        /\ D \cap Of(j) # {} => Cardinality(kept) = PruneLimit
        /\ \A d \in D \cap Of(j), t \in kept : StartTime[d] <= StartTime[t]}

PruneStep ==
  /\ admin.op = "prune"
  /\ \/ /\ admin.left # <<>>
        /\ \E D \in BeyondLimit(Head(admin.left)) :
             admin' = [admin EXCEPT !.left = Tail(@), !.chosen = @ \cup D]
        /\ UNCHANGED tasks
     \/ /\ admin.left = <<>> /\ admin.chosen # {}
        /\ \E j \in Job :
             /\ admin.chosen \cap Of(j) # {}
             /\ tasks' = [t \in Task |-> IF t \in admin.chosen \cap Of(j) THEN None ELSE tasks[t]]
             /\ admin' = [admin EXCEPT !.chosen = @ \ Of(j)]
     \/ /\ admin.left = <<>> /\ admin.chosen = {}
        /\ admin' = NoRequest /\ UNCHANGED tasks
  /\ UNCHANGED <<jobs, watchVars, jobsBuff, streamVars, bounds>>

\* DeleteJob with CleanableJobs.
Clean ==
  /\ "clean" \in Operations /\ admin = NoRequest /\ Deletes
  /\ admin' = Request("clean", <<"Finished", "Error">>, {})
  /\ UNCHANGED <<jobs, tasks, watchVars, jobsBuff, streamVars, failures, restarts>>

CleanStep ==
  /\ admin.op = "clean"
  /\ \/ /\ admin.left # <<>>
        /\ admin' = [admin EXCEPT !.left = Tail(@), !.chosen = @ \cup
             {j \in jobs \cap AutoClean : Of(j) \cap Having(Head(admin.left)) # {}}]
        /\ UNCHANGED <<jobs, tasks>>
     \/ /\ admin.left = <<>>
        /\ \E j \in admin.chosen :
             JobDeleted(j) /\ admin' = [admin EXCEPT !.chosen = @ \ {j}]
     \/ /\ admin.left = <<>> /\ admin.chosen = {}
        /\ admin' = NoRequest /\ UNCHANGED <<jobs, tasks>>
  /\ UNCHANGED <<watchVars, jobsBuff, streamVars, bounds>>

\* Mutant: the tasks found Running at start are left alone.
NothingAtStart(stored) == NoRequest

\* CleanStuckTasks at start, without a duration, on the tasks stored then.
CleanAtStart(stored) ==
  Request("stuck", <<>>, {<<t, stored[t].k>> : t \in {u \in Task : stored[u].st = "Running"}})

\* The service stops and starts again.  BeforeStop closes the handler and then
\* the store: watchPutTaskChan may or may not have flushed its buffer before,
\* and a crash flushes nothing.  Calls in progress end with an error.
Restart ==
  /\ restarts < MaxRestarts /\ restarts' = restarts + 1
  /\ tasks' \in {tasks, Flushed}
  /\ NoBuffer /\ watch' = Idle /\ jobsBuff' = {} /\ handling' = {}
  /\ admin' = CleanAtStart(tasks')
  /\ \/ /\ client.pc = "put" /\ Reconnected
     \/ /\ client.pc # "put" /\ client' = Fallback(client) /\ stream' = "closed"
  /\ UNCHANGED <<jobs, sent, failures, deletions>>

----------------------------------------------------------------------------

Client == (\E t \in Task : SendTask(t)) \/ DirectCheck \/ DirectPut
Handler == \E h \in handling : CheckJob(h) \/ Push(h) \/ Reply(h)
Watch == PutTask \/ Flush
Maintain == FixStuck \/ PruneStep \/ CleanStep

Users ==
  \/ \E j \in Job : PutJob(j) \/ DeleteJob(j)
  \/ \E t \in Task : DeleteTask(t)
  \/ DetectStuck \/ Prune \/ Clean

Next == Client \/ Handler \/ Watch \/ Maintain \/ Users \/ BreakStream \/ Restart

\* Goroutines that can go on do, and the tasks of the run send all updates;
\* users owe nothing.
Fairness ==
  WF_vars(Client) /\ WF_vars(Handler) /\ WF_vars(Watch) /\ WF_vars(Maintain)

Spec == Init /\ [][Next]_vars /\ Fairness
----------------------------------------------------------------------------
(***************************************************************************)
(* Properties.                                                             *)
(***************************************************************************)

Entry == [k : Nat, st : Status \cup {"none"}]
Calls(pcs) == [pc : pcs, t : Task, k : Nat \ {0}]

\* The type invariant.
TypeOK ==
  /\ jobs \subseteq Job /\ jobsBuff \subseteq Job
  /\ tasks \in [Task -> Entry] /\ buff \in [Task -> Entry] /\ buffLength \in 0..(BuffMax + 1)
  /\ watch \in {Idle, Busy("flush", NoTask, 0)} \cup Calls({"store"})
  /\ handling \subseteq Calls({"check", "push", "reply"})
  /\ stream \in {"open", "closed"} /\ client \in {Idle} \cup Calls({"wait", "direct", "put"})
  /\ \A t \in Task : sent[t] \in 0..Len(Updates[t])
  /\ admin.op \in {"none", "stuck", "prune", "clean"}
  /\ failures \in 0..MaxFailures /\ restarts \in 0..MaxRestarts
  /\ deletions \in 0..MaxDeletions

\* A task known to the buffer has a row in the database, so that a crash may
\* cost an update but never hides that the task exists: its first update is
\* stored at once, and a failed flush forgets the buffer as well.  (Nobody
\* deletes tasks here.)
BufferedIsStored ==
  watch = Idle => \A t \in Task : buff[t] # None => tasks[t] # None

\* Without failures, what the database holds of a task is never older than
\* what it held before: neither a flush, nor the quick store, nor a restart
\* takes a task back to an earlier update.
NeverBack == [][\A t \in Task : tasks'[t].k >= tasks[t].k]_vars

\* Every update accepted is stored in the end, whether it was stored at once
\* or flushed later, and is only superseded by a later one.
LastIsStored ==
  \A t \in Task : \A k \in 1..Len(Updates[t]) : sent[t] = k ~> tasks[t].k >= k

\* The client never waits for ever for the answer of a stream: the handler,
\* the goroutine it pushes to, and the end of the stream release it.
CallsReturn == client # Idle ~> client = Idle

\* A task whose last update was lost in a restart does not stay Running: the
\* repair at start sees it, or its update is put after it.  (Nothing else fails
\* and nobody deletes its job.)
RunningEnds == <>[](failures + deletions > 0 \/ \A t \in Task : tasks[t].st # "Running")

\* The buffer does not hold back the end of a task: it is stored quickly when
\* it is new or finished.
FinishedIsStored ==
  watch = Idle => \A t \in Task : buff[t].st = "Finished" => tasks[t].st = "Finished"

\* The store holds tasks of existing jobs only: appending a task to a job that
\* does not exist is refused.
TasksHaveJob == \A t \in Task : tasks[t] # None => JobOf[t] \in jobs

\* An AutoClean job is removed once it is finished, on success only.
CleanedJobsSucceeded ==
  [][\A j \in jobs \ jobs' : \A t \in Of(j) : tasks[t].st \in {"none", "Finished"}]_vars

\* Nothing is on its way to the store.
Quiet ==
  /\ client = Idle /\ handling = {} /\ watch = Idle /\ buffLength = 0
  /\ \A t \in Task : sent[t] = Len(Updates[t])

\* Pruning a quiet store leaves at most PruneLimit tasks for each job.
PruneKeepsTheLimit ==
  Quiet /\ admin = Pruning ~>
    \A j \in Job : Cardinality({t \in Of(j) : tasks[t] # None}) <= PruneLimit

\* Pruning removes a task only if PruneLimit tasks of its job that started no
\* earlier stay, whatever became of them since they were listed, unless someone
\* else deletes tasks.
PrunedAreOlder ==
  [][admin.op = "prune" /\ deletions' = 0 =>
       \A t \in Task : tasks'[t] = None /\ tasks[t] # None =>
         PruneLimit <= Cardinality({u \in Of(JobOf[t]) :
                         tasks'[u] # None /\ StartTime[u] >= StartTime[t]})]_vars
=============================================================================
