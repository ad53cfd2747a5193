--------------------------- MODULE JobsStoreProofs ---------------------------
(***************************************************************************)
(* Proofs about JobsStore, for any tasks, updates, buffer size, failures   *)
(* and restarts: a buffered task has a row in the database; without        *)
(* failures the database never goes back to an older update; and pruning   *)
(* spares the last tasks of a job although listings and deletions are      *)
(* separate transactions.                                                  *)
(***************************************************************************)
EXTENDS JobsStore, FiniteSetTheorems, TLAPS

\* A call for an update that was sent.
Pending(pcs) == {c \in [pc : pcs, t : Task, k : Nat \ {0}] : c.k <= Len(Updates[c.t])}

AdminRec ==
  {NoRequest} \cup [op : {"stuck"}, left : {<<>>}, chosen : SUBSET (Task \X Nat)]
              \cup [op : {"prune"}, left : Seq(Status), chosen : SUBSET Task]
              \cup [op : {"clean"}, left : Seq(Status), chosen : SUBSET Job]

StoreTyped ==
  /\ jobs \subseteq Job /\ tasks \in [Task -> Entry]

WatchTyped ==
  /\ buff \in [Task -> Entry] /\ buffLength \in 0..(BuffMax + 1)
  /\ watch \in {Idle, Busy("flush", NoTask, 0)} \cup Pending({"store"})
  /\ watch.pc # "flush" => buffLength <= BuffMax

ClientTyped ==
  /\ jobsBuff \subseteq Job /\ handling \subseteq Pending({"check", "push", "reply"})
  /\ stream \in {"open", "closed"} /\ client \in {Idle} \cup Pending({"wait", "direct", "put"})
  /\ sent \in [Task -> Nat] /\ \A t \in Task : sent[t] <= Len(Updates[t])

BoundsTyped ==
  /\ failures \in 0..MaxFailures /\ restarts \in 0..MaxRestarts
  /\ deletions \in 0..MaxDeletions

\* The inductive invariant that gives the types.  The buffer is over its limit
\* only while it is about to be flushed.
Typed == StoreTyped /\ WatchTyped /\ ClientTyped /\ admin \in AdminRec /\ BoundsTyped

\* Nobody deletes tasks: no request to delete, and no pruning.
Undeleted == MaxDeletions = 0 /\ "prune" \notin Operations

\* A task that is buffered without a row in the database is about to get it.
BuffStored ==
  /\ admin.op \in {"none", "stuck"}
  /\ \A t \in Task : buff[t] # None =>
       \/ tasks[t] # None
       \/ watch.pc = "flush"
       \/ watch.pc = "store" /\ watch.t = t

\* Nothing fails and nobody maintains the store.
NoFaults ==
  MaxFailures = 0 /\ MaxRestarts = 0 /\ MaxDeletions = 0 /\ Operations = {}

\* The client has nothing under way, or its last update is with one handler.
OneCall ==
  \/ client = Idle /\ handling = {}
  \/ /\ client.pc = "wait" /\ client.k = sent[client.t]
     /\ \E pc \in {"check", "push", "reply"} : handling = {Busy(pc, client.t, client.k)}

\* The database is not ahead of the buffer, nor the buffer of the client; and
\* an update about to be stored is the one that is buffered.
InOrder ==
  /\ \A t \in Task : /\ tasks[t].k <= sent[t] /\ buff[t].k <= sent[t]
                     /\ buff[t] # None => tasks[t].k <= buff[t].k
  /\ watch.pc = "store" => buff[watch.t] # None /\ buff[watch.t].k = watch.k

Calm == jobs = Job /\ stream = "open" /\ admin = NoRequest /\ OneCall /\ InOrder

\* No two tasks of a job started at the same time.
DistinctStarts ==
  \A t, u \in Task : JobOf[t] = JobOf[u] /\ StartTime[t] = StartTime[u] => t = u

\* Tasks of the job of t that are stored, not among those listed for removal,
\* and started no earlier.
Spared(t, listed, stored) ==
  {u \in Of(JobOf[t]) \ listed : stored[u] # None /\ StartTime[u] >= StartTime[t]}

Enough(S) == PruneLimit <= Cardinality(S)

\* Enough tasks are spared for each one that is to be removed, also of those
\* that an earlier listing kept and a later one took.
PruneSafe ==
  admin.op = "prune" /\ deletions = 0 =>
    \A t \in admin.chosen : Enough(Spared(t, admin.chosen, tasks))

----------------------------------------------------------------------------
(***************************************************************************)
(* Updates and calls.                                                      *)
(***************************************************************************)

\* The update of a pending call is one that may be stored.
LEMMA SentIsEntry ==
  ASSUME StoreAssumption, NEW pcs, NEW c \in Pending(pcs)
  PROVE  /\ Sent(c) \in Entry /\ Sent(c).k = c.k /\ Sent(c) # None
         /\ c.t \in Task /\ c.k \in Nat /\ c.k > 0 /\ c.pc \in pcs
<1>1. /\ c.t \in Task /\ c.k \in Nat \ {0} /\ c.k <= Len(Updates[c.t]) /\ c.pc \in pcs
  BY DEF Pending
<1>2. Updates[c.t] \in Seq(Status)
  BY <1>1 DEF StoreAssumption
<1>3. c.k \in 1..Len(Updates[c.t])
  BY <1>1, <1>2
<1>4. Updates[c.t][c.k] \in Status
  BY <1>2, <1>3
<1>5. Sent(c) = [k |-> c.k, st |-> Updates[c.t][c.k]]
  BY DEF Sent, Update
<1>6. Sent(c) \in Entry /\ Sent(c).k = c.k
  BY <1>1, <1>4, <1>5 DEF Entry
<1>7. Sent(c) # None
  BY <1>1, <1>6 DEF None, Update
<1> QED
  BY <1>1, <1>6, <1>7

\* A call that changes what it does stays the call of its update.
LEMMA PcOfCall ==
  ASSUME NEW pcs, NEW qcs, NEW c \in Pending(pcs), NEW pc \in qcs
  PROVE  /\ [c EXCEPT !.pc = pc] \in Pending(qcs)
         /\ [c EXCEPT !.pc = pc].pc = pc
         /\ [c EXCEPT !.pc = pc].t = c.t /\ [c EXCEPT !.pc = pc].k = c.k
BY DEF Pending

\* Nothing to do, and no update.
LEMMA IdleIs ==
  /\ Idle.pc = "idle" /\ Idle.t = NoTask /\ Idle.k = 0
  /\ Busy("flush", NoTask, 0).pc = "flush" /\ None.k = 0 /\ None.st = "none"
  /\ None \in Entry /\ NoRequest.op = "none" /\ NoRequest \in AdminRec
  /\ NoRequest.chosen = {}
BY DEF Idle, Busy, None, Update, NoRequest, Request, AdminRec, Entry

\* The client that waits falls back on a direct call, any other goes on.
LEMMA FallbackIs ==
  ASSUME NEW c \in {Idle} \cup Pending({"wait", "direct", "put"})
  PROVE  /\ Fallback(c) \in {Idle} \cup Pending({"wait", "direct", "put"})
         /\ c.pc = "wait" => Fallback(c) \in Pending({"wait", "direct", "put"})
<1>1. CASE c.pc = "wait"
  <2>1. c \in Pending({"wait", "direct", "put"})
    BY <1>1, IdleIs
  <2>2. [c EXCEPT !.pc = "direct"] \in Pending({"wait", "direct", "put"})
    <3>1. "direct" \in {"wait", "direct", "put"}
      OBVIOUS
    <3> QED
      BY <2>1, <3>1, PcOfCall
  <2> QED
    BY <1>1, <2>2 DEF Fallback
<1>2. CASE c.pc # "wait"
  BY <1>2 DEF Fallback
<1> QED
  BY <1>1, <1>2

\* What a flush writes.
LEMMA FlushedIs ==
  ASSUME Typed
  PROVE  /\ Flushed \in [Task -> Entry]
         /\ \A t \in Task : Flushed[t] = IF buff[t] = None THEN tasks[t] ELSE buff[t]
BY DEF Typed, StoreTyped, WatchTyped, Flushed

----------------------------------------------------------------------------
(***************************************************************************)
(* Types: the client and its handlers.                                     *)
(***************************************************************************)

\* Send of the client.
LEMMA SendTaskTyped ==
  ASSUME StoreAssumption, Typed, NEW t \in Task, SendTask(t)
  PROVE  Typed'
<1> DEFINE k == sent[t] + 1
<1>1. /\ k <= Len(Updates[t]) /\ sent' = [sent EXCEPT ![t] = k]
      /\ \/ /\ client' = Busy("wait", t, k) /\ handling' = handling \cup {Busy("check", t, k)}
         \/ client' = Busy("direct", t, k) /\ handling' = handling
      /\ UNCHANGED <<jobs, tasks, watchVars, jobsBuff, stream, admin, bounds>>
  BY DEF SendTask
<1>2. sent \in [Task -> Nat] /\ k \in Nat \ {0}
  BY DEF Typed, ClientTyped
<1> HIDE DEF k
<1>3. sent' \in [Task -> Nat] /\ \A u \in Task : sent'[u] <= Len(Updates[u])
  BY <1>1, <1>2 DEF Typed, ClientTyped
<1>4. /\ Busy("wait", t, k) \in Pending({"wait", "direct", "put"})
      /\ Busy("direct", t, k) \in Pending({"wait", "direct", "put"})
      /\ Busy("check", t, k) \in Pending({"check", "push", "reply"})
  BY <1>1, <1>2 DEF Pending, Busy
<1>5. ClientTyped'
  BY <1>1, <1>3, <1>4 DEF Typed, ClientTyped
<1> QED
  BY <1>1, <1>5 DEF Typed, StoreTyped, WatchTyped, BoundsTyped, watchVars, bounds

\* The stream breaks.
LEMMA BreakStreamTyped ==
  ASSUME StoreAssumption, Typed, BreakStream
  PROVE  Typed'
<1>1. /\ failures < MaxFailures /\ failures' = failures + 1
      /\ stream' = "closed" /\ client' = Fallback(client)
      /\ handling' \in {handling, {h \in handling : h.pc # "check"}}
      /\ UNCHANGED <<jobs, tasks, watchVars, jobsBuff, sent, admin, restarts, deletions>>
  BY DEF BreakStream, Fails
<1>2. client' \in {Idle} \cup Pending({"wait", "direct", "put"})
  BY <1>1, FallbackIs DEF Typed, ClientTyped
<1>3. handling' \subseteq handling
  BY <1>1
<1>4. ClientTyped'
  BY <1>1, <1>2, <1>3 DEF Typed, ClientTyped
<1>5. BoundsTyped'
  BY <1>1 DEF Typed, BoundsTyped, StoreAssumption
<1> QED
  BY <1>1, <1>4, <1>5 DEF Typed, StoreTyped, WatchTyped, watchVars

\* The two steps of a direct PutTask.
LEMMA DirectTyped ==
  ASSUME StoreAssumption, Typed, DirectCheck \/ DirectPut
  PROVE  Typed'
<1>1. client \in Pending({"wait", "direct", "put"}) /\ client.pc \in {"direct", "put"}
  BY IdleIs DEF DirectCheck, DirectPut, Typed, ClientTyped
<1>2. CASE DirectCheck
  <2>1. [client EXCEPT !.pc = "put"] \in Pending({"wait", "direct", "put"})
    <3>1. "put" \in {"wait", "direct", "put"}
      OBVIOUS
    <3> QED
      BY <1>1, <3>1, PcOfCall
  <2>2. client' \in {Idle, [client EXCEPT !.pc = "put"]} /\ stream' \in {stream, "open"}
    BY <1>2 DEF DirectCheck, Reconnected
  <2>3. UNCHANGED <<jobs, tasks, watchVars, jobsBuff, handling, sent, admin, restarts, deletions>>
    BY <1>2 DEF DirectCheck
  <2>4. failures' = failures \/ (failures < MaxFailures /\ failures' = failures + 1)
    BY <1>2 DEF DirectCheck, Fails
  <2>5. ClientTyped'
    BY <2>1, <2>2, <2>3 DEF Typed, ClientTyped
  <2>6. BoundsTyped'
    BY <2>3, <2>4 DEF Typed, BoundsTyped, StoreAssumption
  <2> QED
    BY <2>3, <2>5, <2>6 DEF Typed, StoreTyped, WatchTyped, watchVars
<1>3. CASE DirectPut
  <2>1. /\ tasks' = [tasks EXCEPT ![client.t] = Sent(client)]
        /\ client' = Idle /\ stream' = "open"
        /\ UNCHANGED <<jobs, watchVars, jobsBuff, handling, sent, admin, bounds>>
    BY <1>3 DEF DirectPut, Reconnected
  <2>2. StoreTyped'
    BY <1>1, <2>1, SentIsEntry DEF Typed, StoreTyped
  <2>3. ClientTyped'
    BY <2>1 DEF Typed, ClientTyped
  <2> QED
    BY <2>1, <2>2, <2>3 DEF Typed, WatchTyped, BoundsTyped, watchVars, bounds
<1> QED
  BY <1>2, <1>3

\* A handler goes on.
LEMMA GoesTyped ==
  ASSUME Typed, NEW h \in handling, NEW pc \in {"check", "push", "reply"}, Goes(h, pc)
  PROVE  handling' \subseteq Pending({"check", "push", "reply"})
<1>1. h \in Pending({"check", "push", "reply"})
  BY DEF Typed, ClientTyped
<1>2. [h EXCEPT !.pc = pc] \in Pending({"check", "push", "reply"})
  BY <1>1, PcOfCall
<1> QED
  BY <1>2 DEF Goes, Typed, ClientTyped

\* The check of the job.
LEMMA CheckJobTyped ==
  ASSUME StoreAssumption, Typed, NEW h \in handling, CheckJob(h)
  PROVE  Typed'
<1>1. UNCHANGED <<jobs, tasks, watchVars, sent, admin, bounds>>
  BY DEF CheckJob
<1>2. h.t \in Task /\ JobOf[h.t] \in Job
  BY DEF Typed, ClientTyped, Pending, StoreAssumption
<1>3. CASE /\ jobsBuff' = jobsBuff \cup {JobOf[h.t]}
           /\ Goes(h, "push") /\ UNCHANGED <<stream, client>>
  <2>1. handling' \subseteq Pending({"check", "push", "reply"})
    BY <1>3, GoesTyped
  <2>2. ClientTyped'
    BY <1>1, <1>2, <1>3, <2>1 DEF Typed, ClientTyped
  <2> QED
    BY <1>1, <2>2 DEF Typed, StoreTyped, WatchTyped, BoundsTyped, watchVars, bounds
<1>4. CASE Reject(h) /\ UNCHANGED jobsBuff
  <2>1. /\ handling' \subseteq handling
        /\ stream' \in {stream, "closed"} /\ client' \in {client, Fallback(client)}
    BY <1>4 DEF Reject
  <2>2. Fallback(client) \in {Idle} \cup Pending({"wait", "direct", "put"})
    BY FallbackIs DEF Typed, ClientTyped
  <2>3. ClientTyped'
    BY <1>1, <1>4, <2>1, <2>2 DEF Typed, ClientTyped
  <2> QED
    BY <1>1, <2>3 DEF Typed, StoreTyped, WatchTyped, BoundsTyped, watchVars, bounds
<1> QED
  BY <1>3, <1>4 DEF CheckJob

\* What a push does to the buffer.
LEMMA PushFacts ==
  ASSUME StoreAssumption, Typed, NEW h \in handling, Push(h)
  PROVE  /\ watch = Idle /\ h \in Pending({"check", "push", "reply"}) /\ h.pc = "push"
         /\ buff' = [buff EXCEPT ![h.t] = Sent(h)] /\ buffLength' = buffLength + 1
         /\ watch' \in {Idle, Busy("flush", NoTask, 0), Busy("store", h.t, h.k)}
         /\ watch' = Idle => ~StoreNow(h.t)
         /\ watch'.pc # "flush" => buffLength' <= BuffMax
         /\ UNCHANGED <<jobs, tasks, jobsBuff, stream, client, sent, admin, bounds>>
<1>1. h \in Pending({"check", "push", "reply"}) /\ buffLength \in Nat /\ BuffMax \in Nat
  BY DEF Typed, ClientTyped, WatchTyped, StoreAssumption
<1>2. /\ watch = Idle /\ h.pc = "push"
      /\ buff' = [buff EXCEPT ![h.t] = Sent(h)] /\ buffLength' = buffLength + 1
      /\ UNCHANGED <<jobs, tasks, jobsBuff, stream, client, sent, admin, bounds>>
  BY DEF Push, Buffered
<1>3. watch' = IF buffLength + 1 > BuffMax THEN Busy("flush", NoTask, 0)
               ELSE IF StoreNow(h.t) THEN Busy("store", h.t, h.k) ELSE Idle
  BY DEF Push
<1>4. Busy("store", h.t, h.k) # Idle /\ Busy("flush", NoTask, 0) # Idle
  BY DEF Busy, Idle
<1> QED
  BY <1>1, <1>2, <1>3, <1>4, IdleIs

\* The update reaches the buffer.
LEMMA PushTyped ==
  ASSUME StoreAssumption, Typed, NEW h \in handling, Push(h)
  PROVE  Typed'
<1>1. /\ h \in Pending({"check", "push", "reply"})
      /\ buff' = [buff EXCEPT ![h.t] = Sent(h)] /\ buffLength' = buffLength + 1
      /\ watch' \in {Idle, Busy("flush", NoTask, 0), Busy("store", h.t, h.k)}
      /\ watch'.pc # "flush" => buffLength' <= BuffMax
      /\ UNCHANGED <<jobs, tasks, jobsBuff, stream, client, sent, admin, bounds>>
  BY PushFacts
<1>2. Busy("store", h.t, h.k) \in Pending({"store"})
  BY <1>1 DEF Pending, Busy
<1>3. buff' \in [Task -> Entry]
  BY <1>1, SentIsEntry DEF Typed, WatchTyped
<1>4. buffLength \in 0..BuffMax
  BY IdleIs, PushFacts DEF Typed, WatchTyped, StoreAssumption
<1>5. WatchTyped'
  BY <1>1, <1>2, <1>3, <1>4 DEF WatchTyped, StoreAssumption
<1>6. handling' \subseteq Pending({"check", "push", "reply"})
  BY GoesTyped DEF Push
<1> QED
  BY <1>1, <1>5, <1>6 DEF Typed, StoreTyped, ClientTyped, BoundsTyped, bounds

\* The answer.
LEMMA ReplyTyped ==
  ASSUME StoreAssumption, Typed, NEW h \in handling, Reply(h)
  PROVE  Typed'
<1>1. /\ handling' \subseteq handling /\ client' \in {Idle, client}
      /\ UNCHANGED <<jobs, tasks, watchVars, jobsBuff, stream, sent, admin, bounds>>
  BY DEF Reply
<1>2. ClientTyped'
  BY <1>1 DEF Typed, ClientTyped
<1> QED
  BY <1>1, <1>2 DEF Typed, StoreTyped, WatchTyped, BoundsTyped, watchVars, bounds

----------------------------------------------------------------------------
(***************************************************************************)
(* Types: the store, users and maintenance.                                *)
(***************************************************************************)

\* The quick store.
LEMMA PutTaskTyped ==
  ASSUME StoreAssumption, Typed, PutTask
  PROVE  Typed'
<1>1. /\ watch.pc = "store" /\ watch' = Idle
      /\ tasks' = [tasks EXCEPT ![watch.t] = Sent(watch)]
      /\ UNCHANGED <<jobs, buff, buffLength, jobsBuff, streamVars, admin, bounds>>
  BY DEF PutTask
<1>2. watch \in Pending({"store"})
  BY <1>1, IdleIs DEF Typed, WatchTyped
<1>3. StoreTyped'
  BY <1>1, <1>2, SentIsEntry DEF Typed, StoreTyped
<1>4. WatchTyped'
  BY <1>1 DEF Typed, WatchTyped
<1> QED
  BY <1>1, <1>3, <1>4 DEF Typed, ClientTyped, BoundsTyped, streamVars, bounds

\* An empty buffer.
LEMMA NoBufferTyped ==
  ASSUME StoreAssumption, NoBuffer, watch' = Idle
  PROVE  WatchTyped' /\ \A t \in Task : buff'[t] = None
BY IdleIs DEF NoBuffer, WatchTyped, StoreAssumption

\* The flush.
LEMMA FlushTyped ==
  ASSUME StoreAssumption, Typed, Flush
  PROVE  Typed'
<1>1. /\ tasks' \in {tasks, Flushed} /\ NoBuffer /\ watch' = Idle
      /\ failures' = failures \/ (failures < MaxFailures /\ failures' = failures + 1)
      /\ UNCHANGED <<jobs, jobsBuff, streamVars, admin, restarts, deletions>>
  BY DEF Flush, AfterFlush, Fails
<1>2. StoreTyped'
  BY <1>1, FlushedIs DEF Typed, StoreTyped
<1>3. WatchTyped'
  BY <1>1, NoBufferTyped
<1>4. BoundsTyped'
  BY <1>1 DEF Typed, BoundsTyped, StoreAssumption
<1> QED
  BY <1>1, <1>2, <1>3, <1>4 DEF Typed, ClientTyped, streamVars

\* A job that is deleted takes its tasks with it.
LEMMA JobDeletedTyped ==
  ASSUME Typed, NEW j, JobDeleted(j)
  PROVE  StoreTyped'
BY IdleIs DEF JobDeleted, Typed, StoreTyped

\* Users put and delete jobs.
LEMMA JobsTyped ==
  ASSUME StoreAssumption, Typed, NEW j \in Job, PutJob(j) \/ DeleteJob(j)
  PROVE  Typed'
<1>1. StoreTyped'
  BY JobDeletedTyped DEF PutJob, DeleteJob, Typed, StoreTyped
<1>2. UNCHANGED <<watchVars, jobsBuff, streamVars, admin, failures, restarts>>
  BY DEF PutJob, DeleteJob, bounds
<1>3. deletions' = deletions \/ (deletions < MaxDeletions /\ deletions' = deletions + 1)
  BY DEF PutJob, DeleteJob, bounds, Deletes
<1>4. BoundsTyped'
  BY <1>2, <1>3 DEF Typed, BoundsTyped, StoreAssumption
<1> QED
  BY <1>1, <1>2, <1>4 DEF Typed, WatchTyped, ClientTyped, watchVars, streamVars

\* Users delete tasks.
LEMMA DeleteTaskTyped ==
  ASSUME StoreAssumption, Typed, NEW t \in Task, DeleteTask(t)
  PROVE  Typed'
<1>1. StoreTyped'
  BY IdleIs DEF DeleteTask, Typed, StoreTyped
<1>2. UNCHANGED <<watchVars, jobsBuff, streamVars, admin, failures, restarts>>
  BY DEF DeleteTask, bounds
<1>3. deletions' = deletions \/ (deletions < MaxDeletions /\ deletions' = deletions + 1)
  BY DEF DeleteTask, bounds, Deletes
<1>4. BoundsTyped'
  BY <1>2, <1>3 DEF Typed, BoundsTyped, StoreAssumption
<1> QED
  BY <1>1, <1>2, <1>4 DEF Typed, WatchTyped, ClientTyped, watchVars, streamVars

\* The tasks listed as stuck.
LEMMA StuckTyped ==
  ASSUME NEW f \in [Task -> Entry], NEW S \in SUBSET Task,
         NEW old \in SUBSET {<<t, f[t].k>> : t \in S}
  PROVE  Request("stuck", <<>>, old) \in AdminRec
<1>1. old \subseteq Task \X Nat
  BY DEF Entry
<1> QED
  BY <1>1 DEF AdminRec, Request

\* Requests of the maintenance.
LEMMA RequestTyped ==
  ASSUME StoreAssumption, Typed, DetectStuck \/ Prune \/ Clean
  PROVE  Typed'
<1>1. UNCHANGED <<jobs, tasks, watchVars, jobsBuff, streamVars, failures, restarts>>
  BY DEF DetectStuck, Prune, Clean, bounds
<1>2. deletions' = deletions \/ (deletions < MaxDeletions /\ deletions' = deletions + 1)
  BY DEF DetectStuck, Prune, Clean, bounds, Deletes
<1>3. admin' \in AdminRec
  <2>1. CASE DetectStuck
    <3>1. PICK old \in SUBSET Stuck : admin' = Request("stuck", <<>>, old)
      BY <2>1 DEF DetectStuck
    <3>2. tasks \in [Task -> Entry] /\ Having("Running") \in SUBSET Task
      BY DEF Typed, StoreTyped, Having
    <3> QED
      BY <3>1, <3>2, StuckTyped DEF Stuck
  <2>2. CASE Prune
    <3>1. <<"Finished", "Interrupted", "Error">> \in Seq(Status)
      BY DEF Status
    <3> QED
      BY <2>2, <3>1 DEF Prune, Pruning, Request, AdminRec
  <2>3. CASE Clean
    <3>1. <<"Finished", "Error">> \in Seq(Status)
      BY DEF Status
    <3> QED
      BY <2>3, <3>1 DEF Clean, Request, AdminRec
  <2> QED
    BY <2>1, <2>2, <2>3
<1>4. BoundsTyped'
  BY <1>1, <1>2 DEF Typed, BoundsTyped, StoreAssumption
<1> QED
  BY <1>1, <1>3, <1>4 DEF Typed, StoreTyped, WatchTyped, ClientTyped, watchVars, streamVars

\* A stuck task is stored as an error.
LEMMA FixStuckTyped ==
  ASSUME StoreAssumption, Typed, FixStuck
  PROVE  Typed'
<1>1. UNCHANGED <<jobs, watchVars, jobsBuff, streamVars, bounds>>
  BY DEF FixStuck
<1>2. admin \in [op : {"stuck"}, left : {<<>>}, chosen : SUBSET (Task \X Nat)]
  BY IdleIs DEF FixStuck, Typed, AdminRec
<1>3. CASE admin' = NoRequest /\ UNCHANGED tasks
  BY <1>1, <1>3, IdleIs
     DEF Typed, StoreTyped, WatchTyped, ClientTyped, BoundsTyped, watchVars, streamVars, bounds
<1>4. ASSUME NEW x \in admin.chosen,
             tasks' = [tasks EXCEPT ![x[1]] = Update(x[2], "Error")],
             admin' = [admin EXCEPT !.chosen = admin.chosen \ {x}]
      PROVE  Typed'
  <2>1. x[1] \in Task /\ x[2] \in Nat
    BY <1>2
  <2>2. Update(x[2], "Error") \in Entry
    BY <2>1 DEF Update, Entry, Status
  <2>3. StoreTyped'
    BY <1>1, <1>4, <2>2 DEF Typed, StoreTyped
  <2>4. admin' \in AdminRec
    BY <1>2, <1>4 DEF AdminRec
  <2> QED
    BY <1>1, <2>3, <2>4
       DEF Typed, WatchTyped, ClientTyped, BoundsTyped, watchVars, streamVars, bounds
<1> QED
  BY <1>3, <1>4 DEF FixStuck

\* A prune request in progress, and the tasks it lists.
LEMMA PruneFacts ==
  ASSUME Typed, admin.op = "prune"
  PROVE  /\ admin \in [op : {"prune"}, left : Seq(Status), chosen : SUBSET Task]
         /\ \A st : BeyondLimit(st) \subseteq SUBSET Task
BY IdleIs DEF Typed, AdminRec, BeyondLimit, Having

\* Pruning.
LEMMA PruneStepTyped ==
  ASSUME StoreAssumption, Typed, PruneStep
  PROVE  Typed'
<1>1. UNCHANGED <<jobs, watchVars, jobsBuff, streamVars, bounds>>
  BY DEF PruneStep
<1>2. admin.op = "prune"
  BY DEF PruneStep
<1>3. /\ admin \in [op : {"prune"}, left : Seq(Status), chosen : SUBSET Task]
      /\ \A st : BeyondLimit(st) \subseteq SUBSET Task
  BY <1>2, PruneFacts
<1>4. ASSUME admin.left # <<>>, NEW D \in BeyondLimit(Head(admin.left)),
             admin' = [admin EXCEPT !.left = Tail(admin.left), !.chosen = admin.chosen \cup D]
      PROVE  admin' \in AdminRec
  <2>1. Tail(admin.left) \in Seq(Status) /\ D \subseteq Task
    BY <1>3, <1>4
  <2> QED
    BY <1>3, <1>4, <2>1 DEF AdminRec
<1>5. ASSUME NEW j \in Job, admin' = [admin EXCEPT !.chosen = admin.chosen \ Of(j)]
      PROVE  admin' \in AdminRec
  BY <1>3, <1>5 DEF AdminRec
<1>6. admin' \in AdminRec
  BY <1>4, <1>5, IdleIs DEF PruneStep
<1>7. ASSUME NEW S, tasks' = [t \in Task |-> IF t \in S THEN None ELSE tasks[t]]
      PROVE  StoreTyped'
  BY <1>1, <1>7, IdleIs DEF Typed, StoreTyped
<1>8. StoreTyped'
  BY <1>1, <1>7 DEF PruneStep, Typed, StoreTyped
<1> QED
  BY <1>1, <1>6, <1>8
     DEF Typed, WatchTyped, ClientTyped, BoundsTyped, watchVars, streamVars, bounds

\* Removing jobs that ran.
LEMMA CleanStepTyped ==
  ASSUME StoreAssumption, Typed, CleanStep
  PROVE  Typed'
<1>1. UNCHANGED <<watchVars, jobsBuff, streamVars, bounds>>
  BY DEF CleanStep
<1>2. admin \in [op : {"clean"}, left : Seq(Status), chosen : SUBSET Job]
  BY IdleIs DEF CleanStep, Typed, AdminRec
<1>3. ASSUME admin.left # <<>>, NEW D, D \subseteq Job,
             admin' = [admin EXCEPT !.left = Tail(admin.left), !.chosen = admin.chosen \cup D]
      PROVE  admin' \in AdminRec
  <2>1. Tail(admin.left) \in Seq(Status)
    BY <1>2, <1>3
  <2> QED
    BY <1>2, <1>3, <2>1 DEF AdminRec
<1>4. ASSUME NEW j, admin' = [admin EXCEPT !.chosen = admin.chosen \ {j}]
      PROVE  admin' \in AdminRec
  BY <1>2, <1>4 DEF AdminRec
<1>5. admin' \in AdminRec /\ StoreTyped'
  <2>1. CASE /\ admin.left # <<>>
             /\ admin' = [admin EXCEPT !.left = Tail(@), !.chosen = @ \cup
                  {j \in jobs \cap AutoClean : Of(j) \cap Having(Head(admin.left)) # {}}]
             /\ UNCHANGED <<jobs, tasks>>
    <3> DEFINE D == {j \in jobs \cap AutoClean : Of(j) \cap Having(Head(admin.left)) # {}}
    <3>1. D \subseteq Job
      BY DEF Typed, StoreTyped
    <3>2. admin' = [admin EXCEPT !.left = Tail(admin.left), !.chosen = admin.chosen \cup D]
      BY <2>1
    <3> HIDE DEF D
    <3>3. admin' \in AdminRec
      BY <1>3, <2>1, <3>1, <3>2
    <3> QED
      BY <2>1, <3>3 DEF Typed, StoreTyped
  <2>2. ASSUME NEW j \in admin.chosen, JobDeleted(j),
               admin' = [admin EXCEPT !.chosen = admin.chosen \ {j}]
        PROVE  admin' \in AdminRec /\ StoreTyped'
    BY <1>4, <2>2, JobDeletedTyped
  <2>3. CASE admin' = NoRequest /\ UNCHANGED <<jobs, tasks>>
    BY <2>3, IdleIs DEF Typed, StoreTyped
  <2> QED
    BY <2>1, <2>2, <2>3 DEF CleanStep
<1> QED
  BY <1>1, <1>5
     DEF Typed, WatchTyped, ClientTyped, BoundsTyped, watchVars, streamVars, bounds

\* A restart.
LEMMA RestartTyped ==
  ASSUME StoreAssumption, Typed, Restart
  PROVE  Typed'
<1>1. /\ restarts < MaxRestarts /\ restarts' = restarts + 1
      /\ tasks' \in {tasks, Flushed} /\ NoBuffer /\ watch' = Idle
      /\ jobsBuff' = {} /\ handling' = {} /\ admin' = CleanAtStart(tasks')
      /\ client' \in {Idle, Fallback(client)} /\ stream' \in {"open", "closed"}
      /\ UNCHANGED <<jobs, sent, failures, deletions>>
  BY DEF Restart, Reconnected
<1>2. tasks' \in [Task -> Entry]
  BY <1>1, FlushedIs DEF Typed, StoreTyped
<1>3. admin' \in AdminRec
  <2> DEFINE S == {u \in Task : tasks'[u].st = "Running"}
             old == {<<t, tasks'[t].k>> : t \in S}
  <2>1. S \in SUBSET Task /\ old \in SUBSET {<<t, tasks'[t].k>> : t \in S}
    OBVIOUS
  <2>2. admin' = Request("stuck", <<>>, old)
    BY <1>1 DEF CleanAtStart
  <2> HIDE DEF S, old
  <2> QED
    BY <1>2, <2>1, <2>2, StuckTyped
<1>4. ClientTyped'
  <2>1. client' \in {Idle} \cup Pending({"wait", "direct", "put"})
    BY <1>1, FallbackIs DEF Typed, ClientTyped
  <2> QED
    BY <1>1, <2>1 DEF Typed, ClientTyped
<1>5. BoundsTyped'
  BY <1>1 DEF Typed, BoundsTyped, StoreAssumption
<1>6. WatchTyped'
  BY <1>1, NoBufferTyped
<1> QED
  BY <1>1, <1>2, <1>3, <1>4, <1>5, <1>6 DEF Typed, StoreTyped

\* The store is typed at the start.
LEMMA InitTyped == ASSUME StoreAssumption, Init PROVE Typed
<1>1. StoreTyped
  BY IdleIs DEF Init, StoreTyped
<1>2. WatchTyped
  BY IdleIs DEF Init, WatchTyped, StoreAssumption
<1>3. ClientTyped
  <2>1. \A t \in Task : Len(Updates[t]) \in Nat
    BY DEF StoreAssumption
  <2> QED
    BY <2>1 DEF Init, ClientTyped
<1>4. BoundsTyped
  BY DEF Init, BoundsTyped, StoreAssumption
<1> QED
  BY <1>1, <1>2, <1>3, <1>4, IdleIs DEF Init, Typed

\* Every step keeps the types.
LEMMA NextTyped == ASSUME StoreAssumption, Typed, [Next]_vars PROVE Typed'
<1>1. CASE Client
  BY <1>1, SendTaskTyped, DirectTyped DEF Client
<1>2. CASE Handler
  BY <1>2, CheckJobTyped, PushTyped, ReplyTyped DEF Handler
<1>3. CASE Watch
  BY <1>3, PutTaskTyped, FlushTyped DEF Watch
<1>4. CASE Maintain
  BY <1>4, FixStuckTyped, PruneStepTyped, CleanStepTyped DEF Maintain
<1>5. CASE Users
  BY <1>5, JobsTyped, DeleteTaskTyped, RequestTyped DEF Users
<1>6. CASE UNCHANGED vars
  BY <1>6 DEF vars, watchVars, streamVars, bounds, Typed, StoreTyped, WatchTyped,
              ClientTyped, BoundsTyped
<1> QED
  BY <1>1, <1>2, <1>3, <1>4, <1>5, <1>6, BreakStreamTyped, RestartTyped DEF Next

----------------------------------------------------------------------------
(***************************************************************************)
(* What steps leave alone.                                                 *)
(***************************************************************************)

\* Only four actions touch the buffer and its goroutine.
LEMMA WatchSteps ==
  ASSUME [Next]_vars
  PROVE  \/ UNCHANGED <<buff, watch>>
         \/ \E h \in handling : Push(h)
         \/ PutTask \/ Flush \/ Restart
<1>1. CASE Client
  BY <1>1 DEF Client, SendTask, DirectCheck, DirectPut, watchVars
<1>2. CASE Handler
  BY <1>2 DEF Handler, CheckJob, Reply, watchVars
<1>3. CASE Maintain
  BY <1>3 DEF Maintain, FixStuck, PruneStep, CleanStep, watchVars
<1>4. CASE Users
  BY <1>4 DEF Users, PutJob, DeleteJob, DeleteTask, DetectStuck, Prune, Clean, watchVars
<1>5. CASE BreakStream \/ UNCHANGED vars
  BY <1>5 DEF BreakStream, vars, watchVars
<1> QED
  BY <1>1, <1>2, <1>3, <1>4, <1>5 DEF Next, Watch

\* A task only disappears from the database by a request to delete or to clean,
\* or when it is pruned.
LEMMA TasksKept ==
  ASSUME StoreAssumption, Typed, [Next]_vars, NEW t \in Task, tasks[t] # None
  PROVE  \/ tasks'[t] # None
         \/ deletions' = deletions + 1 /\ deletions < MaxDeletions
         \/ CleanStep
         \/ PruneStep
<1> SUFFICES ASSUME ~CleanStep, ~PruneStep
             PROVE  tasks'[t] # None \/ (deletions' = deletions + 1 /\ deletions < MaxDeletions)
  OBVIOUS
<1>1. tasks \in [Task -> Entry]
  BY DEF Typed, StoreTyped
<1>2. ASSUME NEW u \in Task, NEW e, e # None, tasks' = [tasks EXCEPT ![u] = e]
      PROVE  tasks'[t] # None
  BY <1>1, <1>2
<1>3. CASE Client
  <2>1. CASE DirectPut
    <3>1. client \in Pending({"wait", "direct", "put"})
      BY <2>1, IdleIs DEF DirectPut, Typed, ClientTyped
    <3>2. client.t \in Task /\ Sent(client) # None
      BY <3>1, SentIsEntry
    <3> QED
      BY <2>1, <3>2, <1>2 DEF DirectPut
  <2> QED
    BY <1>3, <2>1 DEF Client, SendTask, DirectCheck
<1>4. CASE Handler
  BY <1>4 DEF Handler, CheckJob, Push, Reply
<1>5. CASE PutTask
  <2>1. watch \in Pending({"store"})
    BY <1>5, IdleIs DEF PutTask, Typed, WatchTyped
  <2>2. watch.t \in Task /\ Sent(watch) # None
    BY <2>1, SentIsEntry
  <2> QED
    BY <1>5, <2>2, <1>2 DEF PutTask
<1>6. CASE tasks' \in {tasks, Flushed}
  BY <1>6, FlushedIs
<1>7. CASE Users
  BY <1>7 DEF Users, PutJob, DeleteJob, DeleteTask, DetectStuck, Prune, Clean, Deletes
<1>8. CASE FixStuck
  <2>1. admin \in [op : {"stuck"}, left : {<<>>}, chosen : SUBSET (Task \X Nat)]
    BY <1>8, IdleIs DEF FixStuck, Typed, AdminRec
  <2>2. ASSUME NEW x \in admin.chosen, tasks' = [tasks EXCEPT ![x[1]] = Update(x[2], "Error")]
        PROVE  tasks'[t] # None
    <3>1. x[1] \in Task /\ Update(x[2], "Error") # None
      BY <2>1 DEF Update, None
    <3> QED
      BY <2>2, <3>1, <1>2
  <2> QED
    BY <1>8, <2>2 DEF FixStuck
<1>9. CASE BreakStream \/ UNCHANGED vars
  BY <1>9 DEF BreakStream, vars
<1> QED
  BY <1>3, <1>4, <1>5, <1>6, <1>7, <1>8, <1>9 DEF Next, Watch, Flush, Restart, Maintain

----------------------------------------------------------------------------
(***************************************************************************)
(* Without deletions, what is buffered is stored.                          *)
(***************************************************************************)

\* Without deletions, the only maintenance is the repair of stuck tasks.
LEMMA OnlyRepairs ==
  ASSUME StoreAssumption, Undeleted, Typed, admin.op \in {"none", "stuck"}, [Next]_vars
  PROVE  admin'.op \in {"none", "stuck"}
<1>1. \A c : Request("stuck", <<>>, c).op = "stuck"
  BY DEF Request
<1>2. CASE Users
  <2>1. deletions \in Nat /\ MaxDeletions = 0 /\ "prune" \notin Operations
    BY DEF Typed, BoundsTyped, Undeleted
  <2> QED
    BY <1>1, <1>2, <2>1
       DEF Users, PutJob, DeleteJob, DeleteTask, DetectStuck, Prune, Clean, Deletes
<1>3. CASE Maintain
  <2>1. FixStuck
    BY <1>3 DEF Maintain, PruneStep, CleanStep
  <2>2. admin \in [op : {"stuck"}, left : {<<>>}, chosen : SUBSET (Task \X Nat)]
    BY <2>1, IdleIs DEF FixStuck, Typed, AdminRec
  <2>3. admin'.op = admin.op \/ admin' = NoRequest
    BY <2>1, <2>2 DEF FixStuck
  <2> QED
    BY <2>2, <2>3, IdleIs
<1>4. CASE Restart
  BY <1>1, <1>4 DEF Restart, CleanAtStart
<1>5. CASE Client \/ Handler \/ Watch \/ BreakStream \/ UNCHANGED vars
  BY <1>5 DEF Client, SendTask, DirectCheck, DirectPut, Handler, CheckJob, Push, Reply,
              Watch, PutTask, Flush, BreakStream, vars
<1> QED
  BY <1>2, <1>3, <1>4, <1>5 DEF Next

\* Every step keeps it.
LEMMA NextBuffStored ==
  ASSUME StoreAssumption, Undeleted, Typed, BuffStored, [Next]_vars
  PROVE  BuffStored'
<1>1. admin'.op \in {"none", "stuck"}
  BY OnlyRepairs DEF BuffStored
<1>2. \A t \in Task : tasks[t] # None => tasks'[t] # None
  <2>1. ~CleanStep /\ ~PruneStep
    BY DEF BuffStored, CleanStep, PruneStep
  <2>2. MaxDeletions = 0 /\ deletions \in Nat
    BY DEF Undeleted, Typed, BoundsTyped
  <2> QED
    BY <2>1, <2>2, TasksKept
<1>3. CASE UNCHANGED <<buff, watch>>
  BY <1>1, <1>2, <1>3 DEF BuffStored
<1>4. ASSUME NEW h \in handling, Push(h) PROVE BuffStored'
  <2>1. /\ watch = Idle /\ h.t \in Task /\ buff \in [Task -> Entry]
        /\ buff' = [buff EXCEPT ![h.t] = Sent(h)]
        /\ watch' \in {Idle, Busy("flush", NoTask, 0), Busy("store", h.t, h.k)}
        /\ watch' = Idle => ~StoreNow(h.t)
    BY <1>4, PushFacts, SentIsEntry DEF Typed, WatchTyped
  <2>2. \A t \in Task : buff[t] # None => tasks'[t] # None
    BY <1>2, <2>1, IdleIs DEF BuffStored
  <2>3. \A t \in Task : t # h.t => buff'[t] = buff[t]
    BY <2>1
  <2>4. CASE watch' = Idle
    BY <1>1, <2>1, <2>2, <2>3, <2>4 DEF BuffStored, StoreNow
  <2>5. CASE watch' # Idle
    BY <1>1, <2>1, <2>2, <2>3, <2>5, IdleIs DEF BuffStored, Busy
  <2> QED
    BY <2>4, <2>5
<1>5. CASE PutTask
  <2>1. watch \in Pending({"store"}) /\ watch.pc = "store"
    BY <1>5, IdleIs DEF PutTask, Typed, WatchTyped
  <2>2. watch.t \in Task /\ Sent(watch) # None
    BY <2>1, SentIsEntry
  <2>3. tasks'[watch.t] # None /\ buff' = buff
    BY <1>5, <2>2 DEF PutTask, Typed, StoreTyped
  <2> QED
    BY <1>1, <1>2, <2>1, <2>3 DEF BuffStored
<1>6. CASE Flush \/ Restart
  <2>1. NoBuffer /\ watch' = Idle
    BY <1>6 DEF Flush, Restart, AfterFlush
  <2>2. \A t \in Task : buff'[t] = None
    BY <2>1, NoBufferTyped
  <2> QED
    BY <1>1, <2>2 DEF BuffStored
<1> QED
  BY <1>3, <1>4, <1>5, <1>6, WatchSteps

----------------------------------------------------------------------------
(***************************************************************************)
(* Without failures, the database never goes back.                         *)
(***************************************************************************)

\* Nothing fails, is maintained or deleted.
LEMMA CalmSteps ==
  ASSUME StoreAssumption, NoFaults, Typed, Calm, [Next]_vars
  PROVE  /\ \/ \E t \in Task : SendTask(t)
            \/ \E h \in handling : CheckJob(h) \/ Push(h) \/ Reply(h)
            \/ PutTask \/ Flush
            \/ UNCHANGED <<tasks, buff, watch, handling, client, sent>>
         /\ jobs' = Job /\ stream' = "open" /\ admin' = NoRequest
<1>1. /\ MaxFailures = 0 /\ MaxRestarts = 0 /\ MaxDeletions = 0 /\ Operations = {}
      /\ failures \in Nat /\ restarts \in Nat /\ deletions \in Nat
  BY DEF NoFaults, Typed, BoundsTyped
<1>2. jobs = Job /\ stream = "open" /\ admin = NoRequest /\ OneCall
  BY DEF Calm
<1>3. /\ client.pc \in {"idle", "wait"}
      /\ \A h \in handling : Awaited(h) /\ JobOf[h.t] \in jobs
  <2>1. client.pc \in {"idle", "wait"}
    BY <1>2, IdleIs DEF OneCall
  <2>2. ASSUME NEW h \in handling PROVE Awaited(h) /\ JobOf[h.t] \in jobs
    <3>1. client.pc = "wait" /\ \E pc \in {"check", "push", "reply"} : h = Busy(pc, client.t, client.k)
      BY <1>2 DEF OneCall
    <3>2. client \in Pending({"wait", "direct", "put"})
      BY <3>1, IdleIs DEF Typed, ClientTyped
    <3>3. client = Busy("wait", client.t, client.k) /\ client.t \in Task
      BY <3>1, <3>2 DEF Pending, Busy
    <3>4. h.t = client.t /\ h.k = client.k
      BY <3>1 DEF Busy
    <3> QED
      BY <1>2, <3>3, <3>4 DEF Awaited, StoreAssumption
  <2> QED
    BY <2>1, <2>2
<1>4. CASE Client
  <2>1. ~DirectCheck /\ ~DirectPut
    BY <1>3 DEF DirectCheck, DirectPut
  <2> QED
    BY <1>2, <1>4, <2>1 DEF Client, SendTask
<1>5. CASE Handler
  <2>1. PICK h \in handling : CheckJob(h) \/ Push(h) \/ Reply(h)
    BY <1>5 DEF Handler
  <2>2. UNCHANGED <<jobs, stream, admin>>
    BY <1>3, <2>1 DEF CheckJob, Push, Reply
  <2> QED
    BY <1>2, <2>1, <2>2
<1>6. CASE Watch
  BY <1>2, <1>6 DEF Watch, PutTask, Flush, streamVars
<1>7. CASE Users
  <2>1. ~(\E j \in Job : DeleteJob(j)) /\ ~(\E t \in Task : DeleteTask(t))
    BY <1>1 DEF DeleteJob, DeleteTask, Deletes
  <2>2. ~DetectStuck /\ ~Prune /\ ~Clean
    BY <1>1 DEF DetectStuck, Prune, Clean
  <2>3. PICK j \in Job : PutJob(j)
    BY <1>7, <2>1, <2>2 DEF Users
  <2> QED
    BY <1>2, <2>3 DEF PutJob, watchVars, streamVars
<1>8. ~Maintain /\ ~BreakStream /\ ~Restart
  BY <1>1, <1>2, IdleIs DEF Maintain, FixStuck, PruneStep, CleanStep, BreakStream, Fails, Restart
<1>9. CASE UNCHANGED vars
  BY <1>2, <1>9 DEF vars
<1> QED
  BY <1>4, <1>5, <1>6, <1>7, <1>8, <1>9 DEF Next

\* The handler that is at work has the last update of the client.
LEMMA OneCallFacts ==
  ASSUME Typed, OneCall, NEW h \in handling
  PROVE  /\ client = Busy("wait", h.t, h.k) /\ handling = {h}
         /\ h.k = sent[h.t] /\ h.t \in Task /\ h.k \in Nat
         /\ \A pc : [h EXCEPT !.pc = pc] = Busy(pc, client.t, client.k)
<1>1. /\ client.pc = "wait" /\ client.k = sent[client.t]
      /\ \E pc \in {"check", "push", "reply"} : handling = {Busy(pc, client.t, client.k)}
  BY DEF OneCall
<1>2. client \in Pending({"wait", "direct", "put"})
  BY <1>1, IdleIs DEF Typed, ClientTyped
<1>3. client = Busy("wait", client.t, client.k) /\ client.t \in Task /\ client.k \in Nat
  BY <1>1, <1>2 DEF Pending, Busy
<1>4. PICK pc \in {"check", "push", "reply"} : h = Busy(pc, client.t, client.k) /\ handling = {h}
  BY <1>1
<1>5. h.t = client.t /\ h.k = client.k
  BY <1>4 DEF Busy
<1>6. \A q : [h EXCEPT !.pc = q] = Busy(q, client.t, client.k)
  BY <1>4 DEF Busy
<1> QED
  BY <1>1, <1>3, <1>4, <1>5, <1>6

\* The numbers of updates are natural numbers.
LEMMA EntryFacts ==
  ASSUME Typed, NEW t \in Task
  PROVE  tasks[t].k \in Nat /\ buff[t].k \in Nat /\ sent[t] \in Nat
BY DEF Typed, StoreTyped, WatchTyped, ClientTyped, Entry

\* Every step keeps the order, and takes no task back.
LEMMA NextCalm ==
  ASSUME StoreAssumption, NoFaults, Typed, Calm, [Next]_vars
  PROVE  Calm' /\ \A t \in Task : tasks'[t].k >= tasks[t].k
<1>1. jobs' = Job /\ stream' = "open" /\ admin' = NoRequest
  BY CalmSteps
<1>2. /\ tasks \in [Task -> Entry] /\ buff \in [Task -> Entry] /\ sent \in [Task -> Nat]
      /\ OneCall /\ InOrder
  BY DEF Typed, StoreTyped, WatchTyped, ClientTyped, Calm
<1>3. \A t \in Task : tasks[t].k \in Nat /\ buff[t].k \in Nat /\ sent[t] \in Nat
  BY EntryFacts
<1>4. ASSUME NEW t \in Task, SendTask(t) PROVE OneCall' /\ InOrder' /\ UNCHANGED tasks
  <2> DEFINE k == sent[t] + 1
  <2>1. /\ client = Idle /\ sent' = [sent EXCEPT ![t] = k] /\ UNCHANGED <<tasks, buff, watch>>
        /\ client' = Busy("wait", t, k) /\ handling' = handling \cup {Busy("check", t, k)}
    BY <1>4 DEF SendTask, Calm, watchVars
  <2>2. handling = {}
    BY <1>2, <2>1, IdleIs DEF OneCall
  <2>3. k \in Nat /\ k > sent[t] /\ sent'[t] = k /\ \A u \in Task : u # t => sent'[u] = sent[u]
    BY <1>2, <1>3, <2>1
  <2> HIDE DEF k
  <2>4. OneCall'
    <3>1. client'.pc = "wait" /\ client'.t = t /\ client'.k = k
      BY <2>1 DEF Busy
    <3> QED
      BY <2>1, <2>2, <2>3, <3>1 DEF OneCall
  <2>5. InOrder'
    <3>1. ASSUME NEW u \in Task PROVE sent'[u] >= sent[u] /\ sent'[u] \in Nat
      <4>1. sent[u] \in Nat /\ (u = t \/ sent'[u] = sent[u])
        BY <1>3, <2>3
      <4> QED
        BY <2>3, <4>1
    <3> QED
      BY <1>2, <1>3, <2>1, <3>1 DEF InOrder
  <2> QED
    BY <2>1, <2>4, <2>5
<1>5. ASSUME NEW h \in handling, CheckJob(h) PROVE OneCall' /\ InOrder' /\ UNCHANGED tasks
  <2>1. JobOf[h.t] \in jobs
    BY <1>2, OneCallFacts DEF Calm, StoreAssumption
  <2>2. Goes(h, "push") /\ UNCHANGED <<tasks, buff, watch, client, sent>>
    BY <1>5, <2>1 DEF CheckJob, watchVars
  <2>3. handling' = {Busy("push", client.t, client.k)} /\ client.pc = "wait"
    <3>1. handling = {h} /\ client = Busy("wait", h.t, h.k)
      BY <1>2, OneCallFacts
    <3>2. [h EXCEPT !.pc = "push"] = Busy("push", client.t, client.k)
      BY <1>2, OneCallFacts
    <3>3. client.pc = "wait"
      BY <3>1 DEF Busy
    <3> QED
      BY <2>2, <3>1, <3>2, <3>3 DEF Goes
  <2>4. OneCall'
    BY <1>2, <2>2, <2>3, IdleIs DEF OneCall
  <2>5. InOrder'
    BY <1>2, <2>2 DEF InOrder
  <2> QED
    BY <2>2, <2>4, <2>5
<1>6. ASSUME NEW h \in handling, Push(h) PROVE OneCall' /\ InOrder' /\ UNCHANGED tasks
  <2>1. /\ h \in Pending({"check", "push", "reply"}) /\ buff' = [buff EXCEPT ![h.t] = Sent(h)]
        /\ watch' \in {Idle, Busy("flush", NoTask, 0), Busy("store", h.t, h.k)}
        /\ UNCHANGED <<tasks, client, sent>> /\ Goes(h, "reply")
    BY <1>6, PushFacts DEF Push
  <2>2. /\ h.k = sent[h.t] /\ h.t \in Task /\ client.pc = "wait"
        /\ handling' = {Busy("reply", client.t, client.k)}
    <3>1. /\ handling = {h} /\ client = Busy("wait", h.t, h.k)
          /\ h.k = sent[h.t] /\ h.t \in Task
      BY <1>2, OneCallFacts
    <3>2. [h EXCEPT !.pc = "reply"] = Busy("reply", client.t, client.k)
      BY <1>2, OneCallFacts
    <3>3. client.pc = "wait"
      BY <3>1 DEF Busy
    <3> QED
      BY <2>1, <3>1, <3>2, <3>3 DEF Goes
  <2>3. OneCall'
    BY <1>2, <2>1, <2>2, IdleIs DEF OneCall
  <2>4. /\ buff'[h.t] = Sent(h) /\ Sent(h).k = sent[h.t] /\ Sent(h) # None
        /\ \A t \in Task : t # h.t => buff'[t] = buff[t]
    BY <1>2, <2>1, <2>2, SentIsEntry
  <2>5. InOrder'
    <3>1. \A t \in Task : /\ tasks'[t].k <= sent'[t] /\ buff'[t].k <= sent'[t]
                          /\ buff'[t] # None => tasks'[t].k <= buff'[t].k
      BY <1>2, <1>3, <2>1, <2>4 DEF InOrder
    <3>2. watch'.pc = "store" => watch'.t = h.t /\ watch'.k = h.k
      BY <2>1, IdleIs DEF Busy
    <3> QED
      BY <2>2, <2>4, <3>1, <3>2 DEF InOrder
  <2> QED
    BY <2>1, <2>3, <2>5
<1>7. ASSUME NEW h \in handling, Reply(h) PROVE OneCall' /\ InOrder' /\ UNCHANGED tasks
  <2>1. /\ handling' = handling \ {h} /\ UNCHANGED <<tasks, buff, watch, sent>>
        /\ client' = IF Awaited(h) THEN Idle ELSE client
    BY <1>7 DEF Reply, watchVars
  <2>2. handling = {h} /\ Awaited(h)
    BY <1>2, OneCallFacts DEF Awaited
  <2>3. OneCall'
    BY <2>1, <2>2 DEF OneCall
  <2>4. InOrder'
    BY <1>2, <2>1 DEF InOrder
  <2> QED
    BY <2>1, <2>3, <2>4
<1>8. CASE PutTask
  <2>1. /\ watch.pc = "store" /\ watch' = Idle /\ tasks' = [tasks EXCEPT ![watch.t] = Sent(watch)]
        /\ UNCHANGED <<buff, handling, client, sent>>
    BY <1>8 DEF PutTask, streamVars
  <2>2. watch \in Pending({"store"})
    BY <2>1, IdleIs DEF Typed, WatchTyped
  <2>3. watch.t \in Task /\ Sent(watch).k = watch.k /\ watch.k \in Nat
    BY <2>2, SentIsEntry
  <2>4. /\ tasks'[watch.t].k = watch.k
        /\ \A t \in Task : t # watch.t => tasks'[t] = tasks[t]
    BY <1>2, <2>1, <2>3
  <2>5. buff[watch.t].k = watch.k /\ tasks[watch.t].k <= watch.k /\ watch.k <= sent[watch.t]
    BY <1>2, <2>1, <2>3 DEF InOrder
  <2>6. OneCall'
    BY <1>2, <2>1 DEF OneCall
  <2>7. InOrder'
    <3>1. \A t \in Task : /\ tasks'[t].k <= sent'[t] /\ buff'[t].k <= sent'[t]
                          /\ buff'[t] # None => tasks'[t].k <= buff'[t].k
      BY <1>2, <1>3, <2>1, <2>4, <2>5 DEF InOrder
    <3> QED
      BY <2>1, <3>1, IdleIs DEF InOrder
  <2>8. ASSUME NEW t \in Task PROVE tasks'[t].k >= tasks[t].k
    <3>1. tasks[t].k \in Nat
      BY <1>3
    <3>2. CASE t = watch.t
      BY <2>3, <2>4, <2>5, <3>1, <3>2
    <3>3. CASE t # watch.t
      BY <2>4, <3>1, <3>3
    <3> QED
      BY <3>2, <3>3
  <2> QED
    BY <1>1, <2>6, <2>7, <2>8 DEF Calm
<1>9. CASE Flush
  <2>1. /\ tasks' \in {tasks, Flushed} /\ NoBuffer /\ watch' = Idle
        /\ UNCHANGED <<handling, client, sent>>
    BY <1>9 DEF Flush, AfterFlush, streamVars
  <2>2. \A t \in Task : buff'[t] = None
    BY <2>1, NoBufferTyped
  <2>3. ASSUME NEW t \in Task PROVE tasks[t].k <= tasks'[t].k /\ tasks'[t].k <= sent[t]
    <3>1. tasks[t].k \in Nat /\ buff[t].k \in Nat /\ sent[t] \in Nat
      BY <1>3
    <3>2. tasks'[t] = tasks[t] \/ (tasks'[t] = buff[t] /\ buff[t] # None)
      BY <2>1, FlushedIs
    <3>3. /\ tasks[t].k <= sent[t] /\ buff[t].k <= sent[t]
          /\ buff[t] # None => tasks[t].k <= buff[t].k
      BY <1>2 DEF InOrder
    <3> QED
      BY <3>1, <3>2, <3>3
  <2>4. OneCall'
    BY <1>2, <2>1 DEF OneCall
  <2>5. ASSUME NEW t \in Task PROVE buff'[t].k <= sent'[t]
    BY <1>3, <2>1, <2>2, IdleIs
  <2>6. InOrder'
    BY <2>1, <2>2, <2>3, <2>5, IdleIs DEF InOrder
  <2>7. ASSUME NEW t \in Task PROVE tasks'[t].k >= tasks[t].k
    <3>1. tasks'[t].k = tasks[t].k \/ tasks'[t].k = buff[t].k
      BY <2>1, FlushedIs
    <3> QED
      BY <1>3, <2>3, <3>1
  <2> QED
    BY <1>1, <2>4, <2>6, <2>7 DEF Calm
<1>10. CASE UNCHANGED <<tasks, buff, watch, handling, client, sent>>
  BY <1>1, <1>2, <1>3, <1>10 DEF Calm, OneCall, InOrder
<1>11. ASSUME OneCall', InOrder', UNCHANGED tasks
       PROVE  Calm' /\ \A t \in Task : tasks'[t].k >= tasks[t].k
  BY <1>1, <1>3, <1>11 DEF Calm
<1> QED
  BY <1>4, <1>5, <1>6, <1>7, <1>8, <1>9, <1>10, <1>11, CalmSteps

----------------------------------------------------------------------------
(***************************************************************************)
(* Pruning spares the last tasks of a job.                                 *)
(***************************************************************************)

\* More tasks are enough as well.
LEMMA EnoughMore ==
  ASSUME StoreAssumption, NEW S \in SUBSET Task, NEW R \in SUBSET S, Enough(R)
  PROVE  Enough(S)
<1>1. IsFiniteSet(S) /\ IsFiniteSet(R)
  BY FS_Subset DEF StoreAssumption
<1>2. Cardinality(R) <= Cardinality(S) /\ Cardinality(R) \in Nat /\ Cardinality(S) \in Nat
  BY <1>1, FS_Subset, FS_CardinalityType
<1> QED
  BY <1>2 DEF Enough, StoreAssumption

\* A listing takes a task only when PruneLimit others of its status are kept,
\* none of them older.  One of these may have been listed before, under another
\* status: then the tasks spared for it are spared here as well, for a task
\* listed now and spared then would have started at the same time.
LEMMA ListingSpares ==
  ASSUME StoreAssumption, DistinctStarts, NEW st \in Status, NEW D \in BeyondLimit(st),
         NEW C \in SUBSET Task, \A t \in C : Enough(Spared(t, C, tasks))
  PROVE  \A t \in C \cup D : Enough(Spared(t, C \cup D, tasks))
<1>1. /\ \A t \in Task : StartTime[t] \in Nat /\ JobOf[t] \in Job
      /\ D \subseteq Having(st) /\ Having(st) \subseteq Task
      /\ \A t, L : Spared(t, L, tasks) \in SUBSET Task
  BY DEF StoreAssumption, BeyondLimit, Having, Spared, Of
<1>2. \A u \in Having(st) : tasks[u] # None
  BY IdleIs DEF Having, Status
<1>3. ASSUME NEW d \in D PROVE Enough(Spared(d, C \cup D, tasks))
  <2> DEFINE j == JobOf[d]
             kept == (Of(j) \cap Having(st)) \ D
  <2>1. d \in Task /\ j \in Job /\ d \in D \cap Of(j)
    BY <1>1 DEF Of
  <2>2. Cardinality(kept) = PruneLimit
    BY <2>1 DEF BeyondLimit
  <2>3. \A e \in D \cap Of(j), t \in kept : StartTime[e] <= StartTime[t]
    BY <2>1 DEF BeyondLimit
  <2>4. CASE kept \cap C = {}
    <3>1. kept \subseteq Spared(d, C \cup D, tasks)
      BY <1>1, <1>2, <2>1, <2>3, <2>4 DEF Spared
    <3>2. Enough(kept)
      BY <2>2 DEF Enough, StoreAssumption
    <3> HIDE DEF kept
    <3> QED
      BY <1>1, <3>1, <3>2, EnoughMore
  <2>5. ASSUME NEW v \in kept \cap C PROVE Enough(Spared(d, C \cup D, tasks))
    <3>1. v \in Task /\ JobOf[v] = j /\ StartTime[d] <= StartTime[v]
      BY <2>1, <2>3 DEF Of
    <3>2. ASSUME NEW e \in Spared(v, C, tasks) PROVE e \notin D
      <4> SUFFICES ASSUME e \in D PROVE FALSE
        OBVIOUS
      <4>1. e \in Task /\ JobOf[e] = j /\ e \notin C /\ StartTime[e] >= StartTime[v]
        BY <3>1 DEF Spared, Of
      <4>2. StartTime[e] <= StartTime[v]
        BY <2>3, <4>1 DEF Of
      <4>3. e = v
        BY <1>1, <3>1, <4>1, <4>2 DEF DistinctStarts
      <4> QED
        BY <4>1, <4>3
    <3>3. Spared(v, C, tasks) \subseteq Spared(d, C \cup D, tasks)
      <4> SUFFICES ASSUME NEW e \in Spared(v, C, tasks) PROVE e \in Spared(d, C \cup D, tasks)
        OBVIOUS
      <4>1. /\ e \in Of(j) \ C /\ e \in Task /\ tasks[e] # None
            /\ StartTime[e] >= StartTime[v]
        BY <3>1 DEF Spared, Of
      <4>2. StartTime[e] >= StartTime[d]
        BY <1>1, <2>1, <3>1, <4>1
      <4> QED
        BY <3>2, <4>1, <4>2 DEF Spared
    <3> QED
      BY <1>1, <3>3, EnoughMore
  <2> QED
    BY <2>4, <2>5
<1>4. ASSUME NEW t \in C PROVE Enough(Spared(t, C \cup D, tasks))
  <2>1. CASE Spared(t, C, tasks) \cap D = {}
    <3>1. Spared(t, C, tasks) \subseteq Spared(t, C \cup D, tasks)
      BY <2>1 DEF Spared
    <3> QED
      BY <1>1, <3>1, EnoughMore
  <2>2. ASSUME NEW d \in Spared(t, C, tasks) \cap D PROVE Enough(Spared(t, C \cup D, tasks))
    <3>1. d \in Task /\ JobOf[d] = JobOf[t] /\ StartTime[d] >= StartTime[t] /\ t \in Task
      BY DEF Spared, Of
    <3>2. Spared(d, C \cup D, tasks) \subseteq Spared(t, C \cup D, tasks)
      <4> SUFFICES ASSUME NEW e \in Spared(d, C \cup D, tasks)
                   PROVE  e \in Spared(t, C \cup D, tasks)
        OBVIOUS
      <4>1. /\ e \in Of(JobOf[t]) \ (C \cup D) /\ e \in Task /\ tasks[e] # None
            /\ StartTime[e] >= StartTime[d]
        BY <3>1 DEF Spared, Of
      <4>2. StartTime[e] >= StartTime[t]
        BY <1>1, <3>1, <4>1
      <4> QED
        BY <4>1, <4>2 DEF Spared
    <3>3. Enough(Spared(d, C \cup D, tasks))
      BY <1>3
    <3>4. Spared(t, C \cup D, tasks) \in SUBSET Task
      BY <1>1
    <3> QED
      BY <3>2, <3>3, <3>4, EnoughMore
  <2> QED
    BY <2>1, <2>2
<1> QED
  BY <1>3, <1>4

\* Only three kinds of steps leave a prune request in progress.
LEMMA AdminSteps ==
  ASSUME StoreAssumption, Typed, [Next]_vars, admin'.op = "prune"
  PROVE  \/ admin' = admin /\ admin.op = "prune" /\ ~CleanStep
         \/ admin' = Pruning
         \/ PruneStep
<1>1. \A c, l : Request("stuck", l, c).op = "stuck" /\ Request("clean", l, c).op = "clean"
  BY DEF Request
<1>2. CASE Users
  BY <1>1, <1>2, IdleIs
     DEF Users, PutJob, DeleteJob, DeleteTask, DetectStuck, Prune, Clean, CleanStep
<1>3. CASE FixStuck
  <2>1. admin \in [op : {"stuck"}, left : {<<>>}, chosen : SUBSET (Task \X Nat)]
    BY <1>3, IdleIs DEF FixStuck, Typed, AdminRec
  <2>2. admin'.op = admin.op \/ admin' = NoRequest
    BY <1>3, <2>1 DEF FixStuck
  <2> QED
    BY <2>1, <2>2, IdleIs
<1>4. CASE CleanStep
  <2>1. admin \in [op : {"clean"}, left : Seq(Status), chosen : SUBSET Job]
    BY <1>4, IdleIs DEF CleanStep, Typed, AdminRec
  <2>2. \A l, c : [admin EXCEPT !.left = l, !.chosen = c].op = "clean"
    BY <2>1
  <2>3. \A c : [admin EXCEPT !.chosen = c].op = "clean"
    BY <2>1
  <2>4. admin'.op = "clean" \/ admin' = NoRequest
    BY <1>4, <2>2, <2>3 DEF CleanStep
  <2> QED
    BY <2>4, IdleIs
<1>5. CASE Restart
  BY <1>1, <1>5 DEF Restart, CleanAtStart
<1>6. CASE Client \/ Handler \/ Watch \/ BreakStream \/ UNCHANGED vars
  <2>1. admin' = admin
    BY <1>6 DEF Client, SendTask, DirectCheck, DirectPut, Handler, CheckJob, Push, Reply,
                Watch, PutTask, Flush, BreakStream, vars
  <2> QED
    BY <2>1 DEF CleanStep
<1> QED
  BY <1>2, <1>3, <1>4, <1>5, <1>6 DEF Next, Maintain

\* Every step keeps it.
LEMMA NextPruneSafe ==
  ASSUME StoreAssumption, DistinctStarts, Typed, PruneSafe, [Next]_vars, Typed'
  PROVE  PruneSafe'
<1> SUFFICES ASSUME admin'.op = "prune", deletions' = 0
             PROVE  \A t \in admin'.chosen : Enough(Spared(t, admin'.chosen, tasks'))
  BY DEF PruneSafe
<1>1. deletions \in Nat /\ \A t, L, f : Spared(t, L, f) \in SUBSET Task
  BY DEF Typed, BoundsTyped, Spared, Of
<1>2. CASE admin' = admin /\ admin.op = "prune" /\ ~CleanStep /\ ~PruneStep
  <2>1. deletions = 0
    BY <1>1, <1>2 DEF Next, Client, SendTask, DirectCheck, DirectPut, Handler, CheckJob, Push, Reply,
      Watch, PutTask, Flush, BreakStream, vars, bounds, Maintain, FixStuck, Users, PutJob,
      DeleteJob, DeleteTask, DetectStuck, Prune, Clean, Deletes, Restart
  <2>2. \A u \in Task : tasks[u] # None => tasks'[u] # None
    BY <1>1, <1>2, TasksKept
  <2>3. ASSUME NEW t \in admin.chosen PROVE Enough(Spared(t, admin.chosen, tasks'))
    <3>1. Spared(t, admin.chosen, tasks) \subseteq Spared(t, admin.chosen, tasks')
      BY <2>2 DEF Spared, Of
    <3>2. Enough(Spared(t, admin.chosen, tasks))
      BY <1>2, <2>1 DEF PruneSafe
    <3> QED
      BY <1>1, <3>1, <3>2, EnoughMore
  <2> QED
    BY <1>2, <2>3
<1>3. CASE admin' = Pruning
  BY <1>3 DEF Pruning, Request
<1>4. CASE PruneStep
  <2>1. admin.op = "prune" /\ deletions = 0
    BY <1>4 DEF PruneStep, bounds
  <2>2. admin \in [op : {"prune"}, left : Seq(Status), chosen : SUBSET Task]
    BY <2>1, PruneFacts
  <2> DEFINE C == admin.chosen
  <2>3. C \in SUBSET Task /\ \A t \in C : Enough(Spared(t, C, tasks))
    BY <2>1, <2>2 DEF PruneSafe
  <2>4. ASSUME admin.left # <<>>, NEW D \in BeyondLimit(Head(admin.left)),
               admin' = [admin EXCEPT !.left = Tail(admin.left), !.chosen = C \cup D],
               tasks' = tasks
        PROVE  \A t \in admin'.chosen : Enough(Spared(t, admin'.chosen, tasks'))
    <3>1. admin'.chosen = C \cup D
      BY <2>2, <2>4
    <3>2. Head(admin.left) \in Status
      BY <2>2, <2>4
    <3> HIDE DEF C
    <3>3. \A t \in C \cup D : Enough(Spared(t, C \cup D, tasks))
      BY <2>3, <3>2, ListingSpares
    <3> QED
      BY <2>4, <3>1, <3>3
  <2>5. ASSUME NEW j \in Job,
               tasks' = [t \in Task |-> IF t \in C \cap Of(j) THEN None ELSE tasks[t]],
               admin' = [admin EXCEPT !.chosen = C \ Of(j)]
        PROVE  \A t \in admin'.chosen : Enough(Spared(t, admin'.chosen, tasks'))
    <3>1. admin'.chosen = C \ Of(j)
      BY <2>2, <2>5
    <3> HIDE DEF C
    <3>2. ASSUME NEW t \in C \ Of(j) PROVE Enough(Spared(t, C \ Of(j), tasks'))
      <4>1. Spared(t, C, tasks) \subseteq Spared(t, C \ Of(j), tasks')
        BY <2>5 DEF Spared, Of
      <4> QED
        BY <1>1, <2>3, <4>1, EnoughMore
    <3> QED
      BY <3>1, <3>2
  <2>6. CASE admin' = NoRequest
    BY <2>6, IdleIs
  <2> QED
    BY <1>4, <2>4, <2>5, <2>6 DEF PruneStep
<1> QED
  BY <1>2, <1>3, <1>4, AdminSteps

\* What a step removes while pruning is one of the tasks listed, and those
\* spared for it stay.
LEMMA PruneStepSpares ==
  ASSUME StoreAssumption, Typed, PruneSafe, [Next]_vars, admin.op = "prune", deletions' = 0,
         NEW t \in Task, tasks[t] # None, tasks'[t] = None
  PROVE  Enough({u \in Of(JobOf[t]) : tasks'[u] # None /\ StartTime[u] >= StartTime[t]})
<1>1. deletions \in Nat /\ tasks \in [Task -> Entry]
  BY DEF Typed, StoreTyped, BoundsTyped
<1>2. PruneStep
  BY <1>1, TasksKept DEF CleanStep
<1>3. deletions = 0
  BY <1>2 DEF PruneStep, bounds
<1>4. PICK j \in Job :
        tasks' = [u \in Task |-> IF u \in admin.chosen \cap Of(j) THEN None ELSE tasks[u]]
  BY <1>2 DEF PruneStep
<1>5. t \in admin.chosen
  BY <1>4
<1> DEFINE S == {u \in Of(JobOf[t]) : tasks'[u] # None /\ StartTime[u] >= StartTime[t]}
<1>6. Enough(Spared(t, admin.chosen, tasks))
  BY <1>3, <1>5 DEF PruneSafe
<1>7. Spared(t, admin.chosen, tasks) \subseteq S /\ S \in SUBSET Task
  BY <1>4 DEF Spared, Of
<1> HIDE DEF S
<1>8. Enough(S)
  BY <1>6, <1>7, EnoughMore
<1> QED
  BY <1>8 DEF S

----------------------------------------------------------------------------
(***************************************************************************)
(* The theorems.                                                           *)
(***************************************************************************)

\* The inductive invariant of the types holds in every state, whatever fails,
\* restarts or is deleted.
THEOREM Invariance == ASSUME StoreAssumption PROVE Spec => []Typed
<1>1. Init => Typed
  BY InitTyped
<1>2. Typed /\ [Next]_vars => Typed'
  BY NextTyped
<1> QED
  BY <1>1, <1>2, PTL DEF Spec

\* The state of the store, its buffer, the handlers and the client has its types.
THEOREM TypeCorrect == ASSUME StoreAssumption PROVE Spec => []TypeOK
<1>1. ASSUME Typed PROVE TypeOK
  <2>1. \A pcs : Pending(pcs) \subseteq Calls(pcs)
    BY DEF Pending, Calls
  <2>2. admin.op \in {"none", "stuck", "prune", "clean"}
    BY <1>1, IdleIs DEF Typed, AdminRec
  <2>3. \A t \in Task : sent[t] \in 0..Len(Updates[t])
    <3>1. \A t \in Task : Len(Updates[t]) \in Nat
      BY DEF StoreAssumption
    <3> QED
      BY <1>1, <3>1 DEF Typed, ClientTyped
  <2> QED
    BY <1>1, <2>1, <2>2, <2>3 DEF Typed, StoreTyped, WatchTyped, ClientTyped, BoundsTyped, TypeOK
<1> QED
  BY <1>1, Invariance, PTL

\* A task known to the buffer has a row in the database, whatever fails or
\* restarts, as long as nobody deletes tasks.
THEOREM BufferedTasksStored ==
  ASSUME StoreAssumption, Undeleted PROVE Spec => []BufferedIsStored
<1>1. Init => BuffStored
  BY IdleIs DEF Init, BuffStored
<1>2. Typed /\ BuffStored /\ [Next]_vars => BuffStored'
  BY NextBuffStored
<1>3. BuffStored => BufferedIsStored
  BY IdleIs DEF BuffStored, BufferedIsStored
<1> QED
  BY <1>1, <1>2, <1>3, Invariance, PTL DEF Spec

\* Without failures and maintenance, neither the quick store nor a flush takes
\* a task back to an earlier update.
THEOREM NothingGoesBack ==
  ASSUME StoreAssumption, NoFaults PROVE Spec => NeverBack
<1>1. Init => Calm
  BY IdleIs DEF Init, Calm, OneCall, InOrder, NoFaults
<1>2. Typed /\ Calm /\ [Next]_vars => Calm' /\ \A t \in Task : tasks'[t].k >= tasks[t].k
  BY NextCalm
<1> QED
  BY <1>1, <1>2, Invariance, PTL DEF Spec, NeverBack

\* Pruning removes a task only if PruneLimit tasks of its job that started no
\* earlier stay, although tasks change between the listings and the deletions,
\* as long as nobody else deletes and no two tasks of a job start together.
THEOREM PrunedTasksAreOlder ==
  ASSUME StoreAssumption, DistinctStarts PROVE Spec => PrunedAreOlder
<1> DEFINE Spares ==
             admin.op = "prune" /\ deletions' = 0 =>
               \A t \in Task : tasks'[t] = None /\ tasks[t] # None =>
                 PruneLimit <= Cardinality({u \in Of(JobOf[t]) :
                                 tasks'[u] # None /\ StartTime[u] >= StartTime[t]})
<1>1. Init => PruneSafe
  BY IdleIs DEF Init, PruneSafe
<1>2. Typed /\ [Next]_vars => Typed'
  BY NextTyped
<1>3. Typed /\ Typed' /\ PruneSafe /\ [Next]_vars => PruneSafe'
  BY NextPruneSafe
<1>4. Typed /\ PruneSafe /\ [Next]_vars => [Spares]_vars
  BY PruneStepSpares DEF Enough
<1> QED
  BY <1>1, <1>2, <1>3, <1>4, Invariance, PTL DEF Spec, PrunedAreOlder

=============================================================================
