# Pydio Cells: specifications

TLA+ models, model-checking configurations and proofs for the parts of Pydio
Cells whose correctness depends on the order in which goroutines, messages,
callbacks of the web client and transactions happen. Paths below are relative to the root of the repository
(`src/` in `PROJECT.json`).

## 1. Inventory

| Part | State | Operations | Interacts with | What is hard |
|---|---|---|---|---|
| **Task run** `scheduler/tasks/task.go`, `runnable.go`, `common/proto/jobs/action.go` | the task (status, start and end time), its counter `RC`, runnables, dispatch goroutines | `EnqueueRunnables`, `Dispatch`, `ToMessages`, `CreateChild`, `RunAction`, `Add`, `Done`, `SetStatus`, `Save` | the queue of a dispatcher; the PubSub hub; actions | many goroutines write one status; a counter decides when it is final; panics and errors leave by different exits |
| **Task multiplexer** `scheduler/tasks/subscriber.go`, `dispatcher.go`, `dispatcher-worker.go` | job definitions, dispatchers, worker pools, main queue | `timerEvent`, `nodeEvent`, `idmEvent`, `jobsChangeEvent`, `ListenToMainQueue`, `Run`, `Stop`, `Start` | jobs service (definitions, events), timer service, task runs | dispatchers are replaced while they work; unbuffered channels everywhere |
| **Task updates and their store** `scheduler/tasks/reconnecting-client.go`, `scheduler/jobs/grpc/handler.go`, `scheduler/jobs/bolt.go` | the stream, the put buffer, the cache of jobs, the bolt database | `PutTaskStream`, `PutTask`, `watchPutTaskChan`, `flush`, `DeleteJob`, `DeleteTasks`, `CleanStuckTasks` | PubSub hub, users, prune action | buffered writes overtaken by direct ones, restarts, listings used after their transaction |
| **Timer** `scheduler/timer`, `common/utils/schedule` | waiters, tickers, next tick | `StartOrUpdateJob`, `StopWaiter`, `WaitUntilNext`, `computeNextWait` | job events in, trigger events out | stopping a ticker that is firing or ending |
| **Control bus** `scheduler/tasks/task.go` (`listenControl`), `scheduler/actions/interfaces.go`, vendored `cskr/pubsub` | topics, subscriptions, control channels | pause, resume, stop, `BlockUntilResume` | task runs | a hub that sends synchronously to its subscribers, which call it back |
| **Event batchers** `common/utils/cache` | batches by key | `Start`, `Done`, flush | node events of the multiplexer | senders that outlive the batcher |
| **Synchronisation** `common/sync` | patches, operations in progress, locks, echo filter, commands | `Process`, `Interrupt`, lock and unlock of a path, filter of echoes | endpoints, the sync task | interruption, channels closed under a sender, a mutex held across a send |
| **Merge of trees** `common/sync/merger` | tree patches | diff, enqueue, filter, validate | synchronisation | moves, conflicts |
| **Router** `common/views` | node cache, temporary nodes | put, multipart, copy | index, object store | an upload that fails after its node was created |
| **Index** `data/source/index`, `common/sql/index` | materialised paths | create, move, delete, sessions | synchronisation, router | concurrent inserts below one parent |
| **Upload queue** `uploader.html/res/js` of the web client | sessions, the tree of items and their status, `_processing`, transfers and their handles | drop, `prepare`, confirmation, `processNext`, retry, abort, pause, resume, remove, clear | REST services (stat, create folders), object store | handlers that re-enter the queue; aborts between attempts; failed folders; several sessions in one queue |
| **Chat** `gui.ajax/.../chat`, `gateway/websocket/chat-handler.go`, `chat-hb.go` | subscriptions and rooms of the client, flags of its socket, timers; rooms of a session, users of a room | `joinRoom`, `leaveRoom`, `loadHistory`, `open`, `close`, `heartbeat`, JOIN, LEAVE, HISTORY, pings, broadcast | components, token service, chat service, broker | a socket that reconnects by itself, a token that is late, messages that are lost, two sessions at once |
| **Public links** `action.share/.../dialog`, `idm/share` | the edited and the original link, passwords; workspace, hidden user and hash document | toggle, edit, reset, revert, save, delete; `PutShareLink`, `DeleteShareLink`, `GetShareLink` | user, workspace and docstore services | three stores without a transaction; overlapping requests; a decision taken on both sides |
| **other views, idm, broker, gateways, discovery, framework** | databases, registries, UI | | | I/O, layout and queries; not in the plan |

What makes each part correct, in one sentence: a task run ends with one final
status that agrees with what ran; the multiplexer runs each runnable once, on
one worker, and no more at a time than the job allows; the store holds the last
update of each task even when updates take different ways; the timer has one
ticker for each scheduled job and ticks on schedule; the control bus never
blocks the hub; a synchronisation stops when told to and leaves no path locked;
a router upload leaves either a node with its content or nothing; the upload
queue sends each file once, a few at a time, and never stops by itself; the
chat's session serves the rooms that are on the screen; a public link is one
workspace, one user and one document that agree.

## 2. Plan

1. `TaskRun`, with proofs (done).
2. `Dispatcher`, with proofs (done).
3. `JobsStore`, with proofs (done).
4. `Timer`, with proofs (done).
5. `Uploader`, which implements the abstract `TransferQueue`, with proofs of both
   (done).
6. `Chat`: the client, its socket and the session of the server, with proofs (done).
7. `PublicLink`: the share dialog with its REST handlers, with proofs (done).

The following are not written; they are listed in the order of their interest.

8. `ControlBus`: the PubSub hub, control listeners and a waiting action; an
   abstract bus that delivers commands, which the hub should implement.
9. `SelectorChain`: a message through filters and several selectors; property:
   `done` is sent exactly once and nothing is sent after the end.
10. `SyncRun`: processor, locker and interruption; the echo filter.
11. `PutNode`: temporary node, upload, index update, retry on duplicates, and
    the cells of the share dialog beside its links.
12. Merge operators, checked against a reference definition on small trees.

No module declares a `RECURSIVE` operator, and each has a module of proofs. In the
uploader `processNext` calls itself through the items it starts; its handlers are
run call by call instead (section 3).

Abstract specifications worth stating: `TransferQueue` (done); the life of a task
as its user sees it (queued, running, final), implemented by `TaskRun` up to the
race of `task_early`; a pool that runs each runnable once, implemented by
`Dispatcher` without configuration changes; a register per task, implemented by
`JobsStore` without failures.

## 3. What is modelled

### TaskRun (`MCTaskRun`, `TaskRunProofs`)

State: the fields of the task that matter (`status`, `started`, `ended`, `RC`),
what is on its way to the store (`inflight`, `stored`), and three functions for
the goroutines: `frame` (an execution of `Dispatch`), `loop` (the goroutine
`Dispatch` starts for each action) and `run` (runnables). They are indexed by
paths, which mirror `ActionPath`: loop `<<f, i>>` is for the i-th action of frame
`f`, runnable `<<l, k>>` is the k-th of loop `l`, frame `<<l, 0>>` dispatches the
`FailedFilterActions` of loop `l`.

Every channel operation between `ToMessages` and `Dispatch` is a step; a send on
an unbuffered channel is one step of both sides, and the message is not counted
until `CreateChild` runs. Filters, selectors and outcomes of actions are
nondeterministic within what the constants allow. `Finish` reads `RC` and writes
the status in one step, as `SetStatus` does under the lock.
Task messages, progress, logs and chains of several selectors are left out.

| Run | Shows |
|---|---|
| `task_chain` | fan-out over up to two objects, each with a chained action: counter, settled status, reporting, store |
| `task_branch` | filters that pass, split or block, failed-filter branches at two levels, a collecting selector, errors, panics, a missing and a delegated implementation: every goroutine returns, and what counter and status still guarantee |
| `task_early` | **violation**: a task becomes Finished and then runs again (`runnable.go:139`) |

Bounds: two or three actions and at most two objects: enough for two concurrent
siblings, a child that outlives its parent's dispatch, and one filter branch
inside another. Depth is not bounded by the model but by the (acyclic) actions
of the instance.

### Dispatcher (`MCDispatcher`, `DispatcherProofs`)

State: the jobs service as far as events tell of it (`store`, `config`,
`trigger`), the subscriber's maps (`defs`, `current`), the dispatchers with
their pools, workers and pending `Stop` goroutines, the dispatcher the main queue
listener is blocked on (`main`), and the `place` of each runnable: which goroutine
holds it. `RunAction` is the interval from `running` to `finishing`; its inside is
`TaskRun`. Delivery order is kept per topic and job, and free between the two topics.

| Run | Shows |
|---|---|
| `dispatch` | a pool of two workers, a trigger of two runnables, a chained action, and an update or a removal of the job at any moment: each runnable on one worker, the gauge is exact, what stopping never breaks, and all complete when nothing is changed |

Bounds: one job, a dispatcher for it and up to two that replace it, two workers (so
that hand-over is a choice) and three runnables. Dispatchers share nothing but the
listener, which the replaced ones already compete for, so a second job adds product
states only.

### JobsStore (`MCJobsStore`, `JobsStoreProofs`)

State: the database (`jobs`, `tasks`), the buffer of `watchPutTaskChan`, the cache
of `PutTaskStream`, the calls in progress, the client and its stream, and one
maintenance request at a time, as the prune action issues them. A task's row is the
update that wrote it, an index into the sequence of statuses the task sends, so that
*older* and *newer* make sense. Each bolt transaction is a step: `PutTask` of the
service checks the job in one and writes in another. `Restart` covers a stop and a
crash: `BeforeStop` closes the handler and then the store without waiting for the
flush, so it may or may not happen.

| Run | Shows |
|---|---|
| `store_calm` | buffer limit of three, a task that finishes twice: no row goes back, none is only buffered, the last update arrives |
| `store_faults` | a broken stream, a failed call or flush, a restart, a deletion and all maintenance: calls return, no task stays Running after a restart, pruning keeps what it may |

Bounds: two tasks and `BuffMax` 3 or 1 instead of 500: the limit is reached
within the four to six updates. Failures, restarts and deletions are counted
(`MaxFailures`, `MaxRestarts`, `MaxDeletions`), one of each in `store_faults`: every
pair of them is then tried in both orders.

### Timer (`MCTimer`, `TimerProofs`)

State: the clock, the tickers with the result of `computeNextWait` as a deadline,
the pool `waiters`, the handler of job events and the goroutine that publishes.
The clock may advance between any two steps, so goroutines may be late; a ticker's
callback blocks until the publishing goroutine takes its event. The arithmetic of
`computeNextWait` is modelled exactly, in units of half the smallest interval;
five minutes are a constant. The clock of the code has nanoseconds, so a ticker that
looks at it again after its event was taken finds it past the start of its schedule.

| Run | Shows |
|---|---|
| `timer_replace` | endless, repeated and single-shot schedules, replaced or removed at any moment: one ticker, ticks spaced, repetitions respected |

Bounds: eight instants, intervals of two, and one instant for the five minutes that
`computeNextWait` falls back to, so that it happens within them: a first tick, a late one and the end of
a repeated schedule; two events, a job that is scheduled and then changed.

### Uploader, TransferQueue (`MCUploader`, `UploaderProofs`, `UploaderQueueProofs`)

State: the sessions of the store, the tree and status of their items, `_processing`
as a count for each item, the requests under way (`prep`, `creating`, `transfer`)
and what each item keeps of its transfer (`xhr`, `_userAborted`, a part of a
multipart file). A transfer waits for its back-off and its token (`wait`), is `sent`, or
`aborting` (a multipart upload obtains a token before it aborts).

JavaScript runs a handler to its end, and `processNext` calls itself through the
callbacks of the items it starts. The stack of such a handler is `todo`: the calls that
are still to be made, the innermost first. A call is a function (`next` is `processNext`,
`resume` what `resume` does after its loop, `detach` the end of `removeChild`, `cleared`
that of `clearAll`) or a loop with the items or sessions it has yet to visit (`send`,
`ready`, `prepared`, `remove`, `abort`, and those of `clearStatus`). A step of `Run` makes
one call, and puts the calls it leads to before the rest: a file that completes at once
inside the loop of `processNext` puts `next` before the rest of that loop, as the
nested call does. The actions of the user, of the server and of timers need `Idle`,
an empty `todo`, so that nothing interleaves with a handler. `getNexts` is the set of
queued files that fewer than `Slots - Length` queued files precede.

`TransferQueue` is what the queue promises for each file: a transfer at a time, next
to at most `Slots - 1` others, ended by `stored` or `failed`, and never again once
stored. `ImplementsQueue` maps the store to it for files that are sent in one request
and that the user does not stop, while anything may happen to the others.

| Run | Shows |
|---|---|
| `upload_queue` | two sessions, a multipart file in an existing folder and two files, sent one at a time: whatever the user pauses, stops, retries, removes or clears, `_processing` has one entry for each transfer, every transfer ends, nothing waits for ever, and `TransferQueue` is implemented |
| `upload_ask` | **violation**: files of a session are sent before the user was asked (`Store.js:255`) |

Bounds: one slot instead of three: the second file always has to wait, and a single
entry too many blocks the queue. Two attempts are what `MAX_RETRIES` gives; one
failed request, two transfers of one file, and which files the user may stop,
retry or remove are constants of the instance. The file in a folder is the one that
is stopped and paused, so that removal of its folder meets it. No file of the
instance is refused; the theorems of section 5 hold with refused files as well.

### Chat (`MCChat`, `ChatProofs`)

State: the fields of `ChatClient` (`subs`, `rooms`, `connecting`, `connOpen`), its
timers as a queue (all wait 1.5 s), the socket behind `ws` with the tokens asked for
it and for a former one, messages both ways in order, the rooms of the server's
session, messages of closed sessions that are still handled, and the chat service
(`exists`, `users`, room `events`). One user is modelled; others only add events.
`ReconnectingWebSocket` (external) reconnects without touching the flags; what is
sent while it is closed or lost is lost, and a send while it is connecting throws:
`close` then stops at its first LEAVE, and the socket stays. A refresh while the
connection is usable only asks for another token (`token.again`).

| Run | Shows |
|---|---|
| `chat` | the panel and the icon of one cell come and go while the connection is lost, the token is late or refused, or the workspaces are refreshed: handlers exist for known rooms, and in the end the session serves the subscribed rooms and no other, and lists the user in them |

Bounds: two components of one room, two mounts, one event (`MaxEvents`) and one
retry instead of three, after which the counter has no effect. A single panel
was also checked with two events.

`SessionFollows` and `UserIsListed` ask nothing once a token was refused (nobody
asks for another on that socket) or when the client is deceived, and `SessionFollows`
nothing of behaviours in which the token of a refresh overtakes that of a new
connection; see the table below.

### PublicLink (`MCPublicLink`, `PublicLinkProofs`)

State: the link, its original and the passwords as `LinkModel` keeps them, the
two saving flags, and the stores: `workspaces`, hidden `users` with their password
and hash documents `docs`. A request carries how far its handler got (`at`) and the
handler's local variables; each call to a store is an action, so handlers of
overlapping requests interleave. Links and users are named after the request that
creates them. The later store calls of a handler go on with what earlier ones read,
as in the code.

| Run | Shows |
|---|---|
| `link` | a node with or without a link, three requests of the dialog that may overlap, one failing call, passwords mandatory or not: the stores agree with each other and with the dialog when requests did not overlap or fail, one dialog leaves one link, saving states end |
| `link_password` | **violation**: a password that replaces a removed one is sent as one to create, and dropped (`LinkModel.js:187`) |

Bounds: three requests: load, edit and a third that overlaps either, or create,
edit, delete. One password besides the default suffices, since the properties only
compare protected with unprotected; safety was also explored with four requests.

### Properties that do not hold of the code

Besides the three runs marked as violations, TLC refutes the following definitions
of the modules on the instances given; they are kept next to the properties that
hold because a change to the code should make them true.

| Property | Instance | What happens |
|---|---|---|
| `TaskRun!ManualRunReports` | manual, root filter blocks, failed branch filtered out too | nothing runs, and `runnable.go:126` has counted a dispatch, so no fake action is spawned |
| `Dispatcher!Completes` | AutoStart job put once | the update, handled after the trigger (`subscriber.go:217`), stops the dispatcher that holds the one-shot run |
| `Dispatcher!ListenerNeverStalls` | one update or removal | the listener looked a dispatcher up just before it was stopped and sends to it for ever (`subscriber.go:165`): no runnable of any job is forwarded any more |
| `Dispatcher!StopStopsWorkers` | one update | a running worker blocks on `activeChan` (`dispatcher.go:92`) and never reads `quit` |
| `Dispatcher!JobConcurrency` | one update | runnables of the old and the new dispatcher overlap |
| `JobsStore!FinishedIsStored` | no failure | the immediate store looks at the status buffered before (`handler.go:260`): a task that has just finished waits for a flush, though `handler.go:268` says "Quick store of this task as it is new or finished" |
| `JobsStore!TasksHaveJob` | a job deleted while its task runs | a flush, or the cached job (`handler.go:296`), brings its bucket back |
| `JobsStore!CleanedJobsSucceeded` | AutoClean job with a task in Error | it is removed, though `jobs.proto:228` says "success only" |
| `JobsStore!PruneKeepsTheLimit` | one Finished and one Error task, limit 1 | both stay: the limit is per status (`handler.go:359`) |
| `Timer!PoolHasTimers` | an update without schedule | the old ticker goes on (`subscriber.go:45` of the timer) |
| `Timer!StopReturns` | a repeated schedule at its last tick | the ticker ends without reading the channel `Stop` sends on (`ticker.go:151`), and the handler of job events waits for ever |
| `Uploader!FoldersFirst` | a session with a new folder | a transfer that ends, or a retry, sends files while the folder is being created; after a failed creation the folder also stays in `_processing` (`Store.js:195`) and takes the place of a transfer |
| `Uploader!ImplementsQueue` for multipart or stopped files | pause and resume of a part; stop during the back-off, then restart | the file is sent twice at once (`UploadItem.js:106`, `172-185`); an abort before the request is sent does not stop it |
| `Uploader!ImplementsQueue` with a refused extension | two slots or more, a file whose extension is not allowed between others | it completes inside the loop that starts it, the nested `processNext` starts files that the loop then starts again (`Store.js:201-207`) |
| `Chat!NeverDeceived`, and `SessionFollows` without its escape | a refresh while the token is asked for | the token of a closed socket sets `connOpen` (`ChatClient.js:257`), and the client does not open another |
| `Chat!SessionFollows` without `Overtaken` | a refresh, then a lost connection | the token asked for by `refresh` (`PydioWebSocket.es6:61`) is sent on the new connection before its own: the server accepts pings while `connOpen` is not set, an unmount sends no LEAVE, and the session keeps the room |
| `Chat!NoGhost` | two rooms, one lost connection | a LEAVE that was lost leaves the user listed while pings of the other room keep the heartbeat alive (`chat-hb.go:46`) |
| `Chat!MountedIsSubscribed`, `Chat!OnlyMounted` | a reconnection; an unmount during a retry | the subscription is dropped by `open` and not renewed; a timer joins for a component that is gone (`ChatClient.js:95`) |
| `Chat!PanelIsFilled`, `Chat!HistoryAfterJoin` | a late token; a user who is listed already | the history is ignored before a ROOM_UPDATE, which does not come when nothing changed (`chat-handler.go:213`); the comment at `chat-handler.go:233` says "Must arrive AFTER a JOIN message" |
| `PublicLink!PasswordIsSaved` | two passwords, as in `link_password` | the password that was sent is not the link's |
| `PublicLink!ProtectedByPassword`, `PublicLink!UserExists` | a call fails | the load of the document fails unseen (`rest.go:409`); the hidden user is deleted before its successor fails (`rest.go:417-429`) |
| `PublicLink!DeletedIsGone`, `PublicLink!CleanIsStored` | overlapping requests | a save that overlaps a delete stores the document again; an older answer arrives last |
| `PublicLink!OneLink`, `PublicLink!SavingEnds` without their escapes | password mandatory | the button that enables a link with a password is not disabled (`Panel.js:79-93`); `LinkModel.save` throws after `saving` was set (`CompositeModel.js:161-173`) |

## 4. Fairness

`TaskRun` assumes `WF_vars(Next)`: some goroutine that can go on does. Runs are
finite, so nothing stronger is needed. It includes that implementations return and
that the client goes on reading. `Dispatcher` assumes the same of everything but
callers of `PutJob` and `DeleteJob`. `JobsStore` asks for weak fairness of the
client, the stream handlers, the watching goroutine and a maintenance request that
has begun, each by itself, because users may keep the service busy for ever.
`Timer` asks for it of the handler, the publisher and each ticker; the clock owes
nothing. `Uploader` and `PublicLink` assume that requests are answered and timers
fire, and nothing of the user. In `Uploader` an answer also waits for the handler
under way, which the user may start again and again: the assumption is that handlers
end (`WF_vars(Run)`) and that the event loop comes back to the answers
(`SF_vars(Network)`). For `PublicLink` it is `WF_vars(Requests)`. `Chat` asks
for weak fairness of timers, the heartbeat, the socket, tokens and each goroutine of
the server, and nothing of users and faults. The schedulers of Go and of the browser,
and timeouts of requests, give all of these: an event loop takes its events in
order, so that one of the user cannot overtake an answer for ever.

Deadlock is checked in `TaskRun`, where `Terminated` stands for the legitimate end.
It is not in the other modules, whose instances stop when their bounded inputs are
used up; what must not block there is stated as liveness.

## 5. What is proved

Every theorem is about the specification with its constants left open: any number of
jobs, tasks, workers, rooms, requests, failures, and any schedules, passwords or
chains of actions. The assumptions are those of the modules (`ActionsAssumption`,
`BehaviourAssumption`, `DispatcherAssumption`, `StoreAssumption`, `TimerAssumption`,
`ChatAssumption`, `PublicLinkAssumption`, `UploaderAssumption`), which give constants
their types and say that the jobs the dispatcher knows at first, tasks, rooms, files
and folders are finitely many, and that files, folders and sessions are in an order. Any
further hypothesis is named in the table.

| Theorem | States | Hypothesis |
|---|---|---|
| `TaskRunProofs!TypeCorrect`, `CounterCorrect`, `FinishedCorrect` | `[]TypeOK`, `[]RCCountsLive`, `[]FinishedMeansIdle` | |
| `TaskRunProofs!StatusSettles` | `[]SettledStatus` | |
| `TaskRunProofs!EveryManualRunReports` | `[]ManualRunReports` | `RootsReport`: root actions are registered and have no branch for failed filters |
| `DispatcherProofs!TypeCorrect`, `OneAtATime`, `RoomInPool`, `GaugeCorrect` | `[]TypeOK`, `[]OneRunnablePerWorker`, `[]RegisterHasRoom`, `[]ActiveIsRunning` | |
| `DispatcherProofs!NothingStartsLate` | `StoppedStartsNothing` (action property) | |
| `JobsStoreProofs!TypeCorrect` | `[]TypeOK` | |
| `JobsStoreProofs!BufferedTasksStored` | `[]BufferedIsStored` | `Undeleted`: no deletion and no pruning |
| `JobsStoreProofs!NothingGoesBack` | `NeverBack` (action property) | `NoFaults`: no failure, restart, deletion or maintenance |
| `JobsStoreProofs!PrunedTasksAreOlder` | `PrunedAreOlder` (action property) | `DistinctStarts`: no two tasks of a job started at the same time |
| `TimerProofs!TypeCorrect`, `OneTicker`, `RepetitionsKept` | `[]TypeOK`, `[]OnlyRegisteredTick`, `[]RepeatRespected` | |
| `TimerProofs!TicksSpaced` | `Spaced` (action property) | |
| `ChatProofs!TypeCorrect`, `RoomsHaveHandlers` | `[]TypeOK`, `[]RoomsAreSubscribed` | |
| `PublicLinkProofs!TypeCorrect`, `LinkIsOne`, `StoresAgreeAlways` | `[]TypeOK`, `[]OneLink`, `[]StoresAgree` | |
| `UploaderProofs!TypeCorrect`, `EntriesCounted` | `[]TypeOK`, `[]CountsTransfers` | |
| `UploaderQueueProofs!StepsOfTheQueue` | `Queue!Init` and `[][Queue!Next]`: each step of the store is a step of `TransferQueue` | no file is refused, or `Slots = 1` |
| `UploaderQueueProofs!Implementation` | `ImplementsQueue` | the same, and `Settles` |

The hypotheses are needed. Without `RootsReport` the property is false (first row of
the table of properties that do not hold; the ignored action, which `RootsReport` also names, is always found,
`manager.go:61`). A deletion, or a row pruned while an update of it is buffered,
leaves a buffered task without a row. A failed stream makes a direct put overtake the
buffer. Tasks with one start time are listed in no particular order, and different
listings of the three statuses may then keep different ones. A refused file that is
not the last of its loop makes the loop start files twice (table of section 3).
`Settles`, that transfers come to an end, is liveness, and what the run `upload_queue`
checks. Each hypothesis is satisfied by an instance that a run checks (`task_chain`,
`store_calm`, `store_faults`, `upload_queue`).

How the proofs go, module by module. All follow one plan: an invariant that is
inductive, one lemma per action that it is kept, and the property from it.

- **TaskRun**, from `IInv`. `RC` is compared with the number of runnables in certain
  places, so each `Add` must be shown to add a *new* runnable to a finite set. That
  needs the paths: runnable `<<l, k>>` exists only for `k` at most the counter of `l`,
  except when `l` has spawned its fake action and is done; and a frame's loops are only
  those of actions it has reached (`LoopPaths`, `RunPaths`, `FramePaths`). Then
  `SetStatus(Finished)` finding `RC` not positive implies that no runnable is counted,
  hence that none runs. `SettledStatus` adds `Settling`: a task that is Running has a
  runnable to show for it, one in Error has a failed one, a runnable that wrote its last
  status set the end time, and whoever changes the status has a `Save` before it. That
  a task is left Running by nobody rests on the counter again: `Finish` writes Running
  only when `RC` is positive, and another runnable is then counted.
  `ManualRunReports` adds `Reporting`, which follows the loops of the root frame until
  their first runnable.
- **Dispatcher**, from `IInv`. A worker is in a pool only while it waits or has stopped
  (`PoolIsFree`), the holder of a runnable is busy with it (`HoldersAreBusy`), and no two
  runnables are on one worker: none of the three is inductive alone, since a worker
  taken from the pool must be shown not to be held already. `RegisterHasRoom` compares
  the pool, a set of free workers, with all workers of the dispatcher; the gauge is
  the cardinality of the set of runs (`GaugeCounts`), bounded because they are on
  different workers.
- **JobsStore**. `Typed` is inductive with two facts about sizes: the buffer exceeds its
  limit only while a flush is due, and calls only carry updates that were sent.
  `BufferedIsStored` needs that a buffered task without a row is the one that the
  watching goroutine is about to store (`BuffStored`). `NeverBack` needs that the
  client has at most one call under way and that row, buffer and client are in order
  (`InOrder`). `PrunedAreOlder` needs a count that survives a sequence of listings,
  in transactions of their own, between which tasks go on: for every task chosen so
  far, enough tasks that started no earlier are stored and not chosen (`PruneSafe`).
- **Timer**, from `IInv`. `OnTime` gives each ticker a deadline that is late enough
  (after the start, an interval after the last tick, and, for a repeated schedule, as
  many intervals after the start as it has ticked); `Registered` relates entries, stop
  flags and the handler. `RepeatRespected` follows because the end of the schedule is
  half an interval after its last tick. This argument needs the ticker to look at the
  clock after its event was taken, as the code does.
- **Chat**. Handlers are functions of the client's state; each is shown to turn a good
  state (types, and handlers for every known room) into a good one, and every action
  applies one handler. A `close` that is interrupted by a throwing send is good too,
  because `leaveRoom` forgets the room before it sends.
- **PublicLink**. `Typed` includes what a request has found out before each call
  (`Staged`). `OneLink` rests on `One`: identifiers known to the client or a request
  are those of requests that ended (`UuidsKnown`), one toggle at a time deletes or
  creates, and a request that creates sees no workspace until it made its own.
  `StoresAgree` rests on `Agree`: at most one request is active; while none is, dialog
  and stores are without a link or show the same one; while one is, the stores are as
  far as its next call says.
- **Uploader**, from `IInv`. `CountsTransfers` compares a counter with the transfers of
  a file, so a transfer that starts must be new, and one that moves on must replace
  itself: `Books` says that transfers are finitely many and told apart by file and
  number (numbers are at most `started`, by `TypeOK`). `Unmonitor` does nothing at zero,
  hence the counter must be positive when a transfer ends. Types of folders need
  `FoldersOnce`: requests to create folders are disjoint, and a folder that is new is
  not in `_processing`.
- **TransferQueue**, from `QInv`. That a file is not sent twice rests on its status:
  while a transfer of it is under way, `getNexts` must not find it (`FileOK`). Its
  status may show it as queued only while the queue is paused, or until `resume`, which
  is among the calls left to do, has set it; and as failed, so that it could be
  restarted, only until the `detach` that follows its abort (`Follows`). That at most
  `Slots` files are sent rests on `Room`: what the loop of `processNext` has yet to send
  and the transfers fit together. It holds when the loop begins because `_processing`
  has an entry for each transfer (`EntriesOfTransfers`, an injection) and because
  `getNexts` returns at most as many files as there are free entries (`NextsFit`: the
  numbers of files that precede them are different). One lemma per action tells what it
  does to a file (`Does`, `Views`), and `FileMoves` that this is a move of the queue.

Not proved, and why:

- Liveness (`Settles`, `Drains`, `Returns`, `StoreCatchesUp`, `Completes`, `ListenerGoesOn`, `LastIsStored`,
  `CallsReturn`, `RunningEnds`, `SessionFollows`, `UserIsListed` and the others under
  *Fairness*): the proof system does not handle `ENABLED`, on which fairness rests.
- That the model's bounds (`MaxDispatchers`, `MaxTime`, `MaxEvents`, `MaxRequests`, …)
  lose nothing: they are constants, and the theorems hold for each of their values.

## 6. What is not modelled

`PROJECT.json` lists every part with its status. Node and IDM events reach the main
queue as triggers do and differ by their filters; the event batchers before them
are not modelled. Of the upload queue, the asynchronous entries of a dropped directory,
requests of more than 60 folders or 400 paths and a change of workspace are left out;
of the chat, posts, deletions and authorisation; of the share dialog, cells, custom
hashes, ACLs, expiration and the other options of a link. Most of the web client is
views, forms and vendored editors, whose state is what they display. `StopAll` of the
timer has no caller outside tests. Unsynchronised accesses to Go maps
(`subscriber.go:164`, `producer.go:99`) end the process when they race; the models
take such accesses as atomic.
