----------------------------- MODULE Dispatcher -----------------------------
(***************************************************************************)
(* The multiplexer of the task service (scheduler/tasks/subscriber.go,     *)
(* dispatcher.go, dispatcher-worker.go): triggers create runnables, one    *)
(* goroutine forwards them from the main queue to the dispatcher of their  *)
(* job, and each dispatcher hands them to a pool of workers.  Job          *)
(* configuration events stop and replace dispatchers meanwhile.            *)
(*                                                                         *)
(* A dispatcher is a number, given by NewDispatcher; a worker is a pair    *)
(* <<d, w>>.  The place of a runnable says which goroutine holds it.       *)
(* RunAction is the step from "running" to "finishing" (TaskRun.tla has    *)
(* its inside); the children it sends to JobReQueue are "offered" by the   *)
(* goroutines that Dispatch starts.                                        *)
(***************************************************************************)
EXTENDS Integers, Sequences, FiniteSets, Functions

CONSTANTS
  Job,             \* job IDs
  Root,            \* Root[j]: the runnables triggers of j may create
  Child,           \* Child[r]: the runnables chained to r
  MaxConcurrency,  \* Job.MaxConcurrency, 0 when not set
  DefaultMaximumWorkers,
  AutoStart,       \* jobs flagged AutoStart
  Known,           \* jobs the subscriber loaded at start (Init)
  Puts,            \* Puts[j]: how many more times PutJob is called on j
  Deletes,         \* jobs that may be deleted
  Triggers,        \* Triggers[j]: timer events on their way for j
  MaxDispatchers   \* bound on the dispatchers ever created

Runnable == (UNION {Root[j] : j \in Job}) \cup (UNION {Child[r] : r \in DOMAIN Child})

ASSUME DispatcherAssumption ==
  /\ MaxConcurrency \in [Job -> Nat] /\ DefaultMaximumWorkers \in Nat \ {0}
  /\ Puts \in [Job -> Nat] /\ Triggers \in [Job -> Nat]
  /\ Known \subseteq Job /\ IsFiniteSet(Known)
  /\ AutoStart \subseteq Job /\ Deletes \subseteq Job
  /\ MaxDispatchers \in Nat /\ DOMAIN Child = Runnable

VARIABLES
  store,    \* the jobs service: "none", "active" or "inactive" for each job
  putsLeft, \* bound: calls of PutJob to come
  config,   \* JobChangeEvents on their way to the subscriber, in order
  trigger,  \* JobTriggerEvents on their way, by job
  defs,     \* Subscriber.JobsDefinitions: "none", "active" or "inactive"
  current,  \* Subscriber.Dispatchers: the dispatcher of a job, 0 if none
  disp,     \* the dispatchers: their job, whether their loop runs, quit, active
  pool,     \* WorkerPool of each dispatcher: the workers registered in it
  worker,   \* the worker goroutines
  stopping, \* workers whose Stop goroutine is still sending on quit
  main,     \* the dispatcher the main queue listener is sending to, or 0
  place     \* where each runnable is

vars == <<store, putsLeft, config, trigger, defs, current, disp, pool, worker,
          stopping, main, place>>
eventVars == <<store, putsLeft, config, trigger>>
dispVars == <<current, disp, pool, worker, stopping>>

----------------------------------------------------------------------------

MaxWorker(j) == IF MaxConcurrency[j] > 0 THEN MaxConcurrency[j] ELSE DefaultMaximumWorkers

Workers(d) == {d} \X (1..MaxWorker(disp[d].job))

\* The place of a runnable: what holds it, and for which worker or dispatcher.
At(st, d, w) == [st |-> st, d |-> d, w |-> w]
New == At("new", 0, 0)

\* Mutant: the dispatcher is created but Run is not called.
NewDispatcherNotRun(j) == [job |-> j, loop |-> FALSE, quit |-> FALSE, active |-> 0]

NewDispatcher(j) == [job |-> j, loop |-> TRUE, quit |-> FALSE, active |-> 0]

\* NewDispatcher and Run, next to the dispatchers ds: the new one loops, its
\* workers register one by one, and it is the job's entry in the map.
Run(j, ds) ==
  LET n == Len(ds) + 1
      ws == {n} \X (1..MaxWorker(j))
  IN /\ n <= MaxDispatchers
     /\ disp' = Append(ds, NewDispatcher(j))
     /\ pool' = Append(pool, {})
     /\ worker' = [x \in DOMAIN worker \cup ws |-> IF x \in ws THEN "register" ELSE worker[x]]
     /\ current' = [current EXCEPT ![j] = n]

\* GetDispatcherForJob: the dispatcher in the map, or a new one.
GetDispatcherForJob(j) ==
  IF current[j] # 0 THEN UNCHANGED <<current, disp, pool, worker>> ELSE Run(j, disp)

\* Subscriber.Init has loaded the known jobs, in some order.
Init ==
  /\ store = [j \in Job |-> IF j \in Known THEN "active" ELSE "none"]
  /\ putsLeft = Puts
  /\ config = [j \in Job |-> <<>>]
  /\ trigger = Triggers
  /\ defs = store
  /\ \E s \in Bijection(1..Cardinality(Known), Known) :
       /\ disp = [n \in DOMAIN s |-> NewDispatcher(s[n])]
       /\ current = [j \in Job |-> IF j \in Known THEN CHOOSE n \in DOMAIN s : s[n] = j ELSE 0]
       /\ worker = [x \in UNION {{n} \X (1..MaxWorker(s[n])) : n \in DOMAIN s} |-> "register"]
  /\ pool = [n \in DOMAIN disp |-> {}]
  /\ stopping = {}
  /\ main = 0
  /\ place = [r \in Runnable |-> New]

----------------------------------------------------------------------------
(***************************************************************************)
(* The jobs service, as far as the subscriber hears of it.                 *)
(***************************************************************************)

\* PutJob publishes a JobUpdated event and, for AutoStart, a trigger.
PutJob(j, state) ==
  /\ putsLeft[j] > 0 /\ putsLeft' = [putsLeft EXCEPT ![j] = @ - 1]
  /\ store' = [store EXCEPT ![j] = state]
  /\ config' = [config EXCEPT ![j] = Append(@, state)]
  /\ trigger' = [trigger EXCEPT ![j] = IF j \in AutoStart /\ state = "active" THEN @ + 1 ELSE @]
  /\ UNCHANGED <<defs, dispVars, main, place>>

DeleteJob(j) ==
  /\ j \in Deletes /\ store[j] # "none"
  /\ store' = [store EXCEPT ![j] = "none"]
  /\ config' = [config EXCEPT ![j] = Append(@, "none")]
  /\ UNCHANGED <<putsLeft, trigger, defs, dispVars, main, place>>

----------------------------------------------------------------------------
(***************************************************************************)
(* The subscriber.                                                         *)
(***************************************************************************)

\* Dispatcher.Stop: quit has room for one value, and is sent to only once.
Stopped(d) == [disp EXCEPT ![d].quit = TRUE]

\* jobsChangeEvent.  A removed job loses its definition and its dispatcher; an
\* updated one gets a new dispatcher if it had one and is active.
JobsChangeEvent(j) ==
  LET state == Head(config[j])
      old == current[j]
  IN /\ config[j] # <<>>
     /\ config' = [config EXCEPT ![j] = Tail(@)]
     /\ defs' = [defs EXCEPT ![j] = state]
     /\ \/ /\ old = 0
           /\ UNCHANGED <<current, disp, pool, worker>>
        \/ /\ old # 0 /\ state # "active"
           /\ disp' = Stopped(old)
           /\ current' = [current EXCEPT ![j] = 0]
           /\ UNCHANGED <<pool, worker>>
        \/ /\ old # 0 /\ state = "active"
           /\ Run(j, Stopped(old))
     /\ UNCHANGED <<store, putsLeft, trigger, stopping, main, place>>

\* timerEvent: the definition, or else what the jobs service has; inactive or
\* missing jobs are skipped.  EnqueueRunnables runs in its own goroutine.
TimerEvent(j) ==
  LET job == IF defs[j] # "none" THEN defs[j] ELSE store[j]
  IN /\ trigger[j] > 0
     /\ trigger' = [trigger EXCEPT ![j] = @ - 1]
     /\ \/ job # "active" /\ UNCHANGED place
        \/ /\ job = "active"
           /\ \E r \in Root[j] : /\ place[r] = New
                                 /\ place' = [place EXCEPT ![r] = At("pending", 0, 0)]
     /\ UNCHANGED <<store, putsLeft, config, defs, dispVars, main>>

\* The listener receives r from the main queue and looks its dispatcher up,
\* without holding jobsLock.
ListenToMainQueue(j, r) ==
  /\ main = 0
  /\ r \in Root[j] /\ place[r].st = "pending"
  /\ GetDispatcherForJob(j)
  /\ main' = current'[j]
  /\ place' = [place EXCEPT ![r] = At("forward", current'[j], 0)]
  /\ UNCHANGED <<eventVars, defs, stopping>>

----------------------------------------------------------------------------
(***************************************************************************)
(* A dispatcher.                                                           *)
(***************************************************************************)

\* The loop receives from JobQueue, from the main listener or from a chained
\* action, and leaves the runnable to a goroutine of its own.
Receive(r) ==
  /\ place[r].st \in {"forward", "offered"}
  /\ disp[place[r].d].loop
  /\ place' = [place EXCEPT ![r].st = "intake"]
  /\ main' = IF place[r].st = "forward" THEN 0 ELSE main
  /\ UNCHANGED <<eventVars, defs, dispVars>>

\* Mutant: the channel stays in the pool while its worker is busy.
TakenKept(d, x) == pool

\* jobChannel := <-WorkerPool.
Taken(d, x) == [pool EXCEPT ![d] = @ \ {x}]

\* That goroutine obtains the channel of a registered worker.
TakeWorker(r, x) ==
  /\ place[r].st = "intake" /\ x \in pool[place[r].d]
  /\ pool' = Taken(place[r].d, x)
  /\ place' = [place EXCEPT ![r] = At("assigned", x[1], x[2])]
  /\ UNCHANGED <<eventVars, defs, current, disp, worker, stopping, main>>

\* jobChannel <- job.
HandOver(r) ==
  LET x == <<place[r].d, place[r].w>>
  IN /\ place[r].st = "assigned" /\ worker[x] = "select"
     /\ worker' = [worker EXCEPT ![x] = "busy"]
     /\ place' = [place EXCEPT ![r].st = "held"]
     /\ UNCHANGED <<eventVars, defs, current, disp, pool, stopping, main>>

\* <-quit : every worker is told to stop by a goroutine of its own; the loop ends.
Quit(d) ==
  /\ disp[d].loop /\ disp[d].quit
  /\ disp' = [disp EXCEPT ![d].loop = FALSE]
  /\ stopping' = stopping \cup Workers(d)
  /\ UNCHANGED <<eventVars, defs, current, pool, worker, main, place>>

----------------------------------------------------------------------------
(***************************************************************************)
(* A worker.                                                               *)
(***************************************************************************)

\* WorkerPool <- JobChannel.
Register(x) ==
  /\ worker[x] = "register"
  /\ Cardinality(pool[x[1]]) < MaxWorker(disp[x[1]].job)
  /\ pool' = [pool EXCEPT ![x[1]] = @ \cup {x}]
  /\ worker' = [worker EXCEPT ![x] = "select"]
  /\ UNCHANGED <<eventVars, defs, current, disp, stopping, main, place>>

\* Mutant: activeChan has room for a value, the loop need not receive it.
ActiveBuffered(d, delta) == disp' = [disp EXCEPT ![d].active = @ + delta]

\* Mutant: the start of a run is counted -1 and its end 1.
ActiveReversed(d, delta) ==
  /\ disp[d].loop
  /\ disp' = [disp EXCEPT ![d].active = @ - delta]

\* A value sent on activeChan is received by the dispatcher's loop.
ActiveReceived(d, delta) ==
  /\ disp[d].loop
  /\ disp' = [disp EXCEPT ![d].active = @ + delta]

\* activeChan <- 1, then RunAction begins.
StartRun(r) ==
  /\ place[r].st = "held"
  /\ ActiveReceived(place[r].d, 1)
  /\ place' = [place EXCEPT ![r].st = "running"]
  /\ UNCHANGED <<eventVars, defs, current, pool, worker, stopping, main>>

\* RunAction dispatches a chained action: a goroutine sends it to JobReQueue.
Chain(r, c) ==
  /\ place[r].st = "running" /\ c \in Child[r] /\ place[c] = New
  /\ place' = [place EXCEPT ![c] = At("offered", place[r].d, 0)]
  /\ UNCHANGED <<eventVars, defs, dispVars, main>>

\* RunAction returns.
RunReturns(r) ==
  /\ place[r].st = "running"
  /\ place' = [place EXCEPT ![r].st = "finishing"]
  /\ UNCHANGED <<eventVars, defs, dispVars, main>>

\* activeChan <- -1, and the worker goes round its loop.
FinishRun(r) ==
  /\ place[r].st = "finishing"
  /\ ActiveReceived(place[r].d, -1)
  /\ worker' = [worker EXCEPT ![<<place[r].d, place[r].w>>] = "register"]
  /\ place' = [place EXCEPT ![r].st = "done"]
  /\ UNCHANGED <<eventVars, defs, current, pool, stopping, main>>

\* <-w.quit.
WorkerQuit(x) ==
  /\ x \in stopping /\ worker[x] = "select"
  /\ worker' = [worker EXCEPT ![x] = "stopped"]
  /\ stopping' = stopping \ {x}
  /\ UNCHANGED <<eventVars, defs, current, disp, pool, main, place>>

----------------------------------------------------------------------------

Dispatchers == 1..Len(disp)

Environment == \E j \in Job : DeleteJob(j) \/ \E s \in {"active", "inactive"} : PutJob(j, s)

System ==
  \/ \E j \in Job : JobsChangeEvent(j) \/ TimerEvent(j)
  \/ \E j \in Job : \E r \in Root[j] : ListenToMainQueue(j, r)
  \/ \E r \in Runnable : \/ Receive(r) \/ HandOver(r) \/ StartRun(r)
                         \/ RunReturns(r) \/ FinishRun(r)
                         \/ \E c \in Child[r] : Chain(r, c)
  \/ \E r \in Runnable, x \in DOMAIN worker : TakeWorker(r, x)
  \/ \E d \in Dispatchers : Quit(d)
  \/ \E x \in DOMAIN worker : Register(x) \/ WorkerQuit(x)

Next == Environment \/ System

\* Events are delivered, implementations return, and every goroutine that can
\* go on does; callers of PutJob and DeleteJob owe nothing.
Fairness == WF_vars(System)

Spec == Init /\ [][Next]_vars /\ Fairness

----------------------------------------------------------------------------
(***************************************************************************)
(* Properties.                                                             *)
(***************************************************************************)

Places == {"new", "pending", "forward", "offered", "intake", "assigned", "held",
           "running", "finishing", "done"}
OnWorker == {"assigned", "held", "running", "finishing"}

\* The type invariant.
TypeOK ==
  /\ store \in [Job -> {"none", "active", "inactive"}]
  /\ defs \in [Job -> {"none", "active", "inactive"}]
  /\ putsLeft \in [Job -> Nat] /\ trigger \in [Job -> Nat]
  /\ config \in [Job -> Seq({"none", "active", "inactive"})]
  /\ current \in [Job -> 0..Len(disp)] /\ main \in 0..Len(disp)
  /\ disp \in Seq([job : Job, loop : BOOLEAN, quit : BOOLEAN, active : Nat])
  /\ DOMAIN pool = DOMAIN disp /\ \A d \in DOMAIN disp : pool[d] \subseteq Workers(d)
  /\ DOMAIN worker = UNION {Workers(d) : d \in DOMAIN disp}
  /\ \A x \in DOMAIN worker : worker[x] \in {"register", "select", "busy", "stopped"}
  /\ stopping \subseteq DOMAIN worker
  /\ place \in [Runnable -> [st : Places, d : 0..Len(disp), w : Nat]]

\* A worker is given one runnable at a time, whatever the order in which intake
\* goroutines, workers and Stop run: its channel is in the pool once, and only
\* while it is free.
OneRunnablePerWorker ==
  /\ \A r, q \in Runnable :
       r # q /\ place[r].st \in OnWorker /\ place[q].st \in OnWorker =>
         <<place[r].d, place[r].w>> # <<place[q].d, place[q].w>>
  /\ \A r \in Runnable : place[r].st \in OnWorker =>
       <<place[r].d, place[r].w>> \notin pool[place[r].d]

\* Registering never blocks: the pool always has room for a worker that comes
\* back, although its capacity is exactly the number of workers.
RegisterHasRoom ==
  \A x \in DOMAIN worker :
    worker[x] = "register" => Cardinality(pool[x[1]]) < MaxWorker(disp[x[1]].job)

\* The activeWorkers gauge is the number of runnables being run, and a
\* dispatcher never runs more of them than its job's MaxConcurrency.
ActiveIsRunning ==
  \A d \in DOMAIN disp :
    /\ disp[d].active =
         Cardinality({r \in Runnable : place[r].st \in {"running", "finishing"} /\ place[r].d = d})
    /\ disp[d].active <= MaxWorker(disp[d].job)

\* Once the loop of a stopped dispatcher has returned, it starts nothing more:
\* workers that took a runnable cannot even report themselves active.
StoppedStartsNothing ==
  [][\A r \in Runnable :
       place[r].st # "running" /\ place'[r].st = "running" => disp[place[r].d].loop]_vars

\* No configuration event of j was published since the start.
Undisturbed(j) == putsLeft[j] = Puts[j] /\ store[j] = "active"

\* Every runnable created by a trigger, and every chained one, is run to its
\* end as long as no configuration event intervenes.
Completes ==
  \A r \in Runnable :
    place[r].st \in {"pending", "offered"} ~> place[r].st = "done" \/ \E j \in Job : ~Undisturbed(j)

\* The listener of the main queue goes on listening for all jobs, unless the
\* dispatcher it sends to is told to quit.
ListenerGoesOn == main # 0 ~> main = 0 \/ disp[main].quit

\* The same, whatever happens to dispatchers.
ListenerNeverStalls == main # 0 ~> main = 0

\* A worker told to stop stops.
StopStopsWorkers == \A x \in {1} \X (1..DefaultMaximumWorkers) : x \in stopping ~> worker[x] = "stopped"

\* At most MaxConcurrency runnables of a job run at a time: there is one
\* dispatcher for each job definition.
JobConcurrency ==
  \A j \in Job :
    Cardinality({r \in Runnable : place[r].st = "running" /\ disp[place[r].d].job = j}) <= MaxWorker(j)
=============================================================================
