------------------------------ MODULE TaskRun ------------------------------
(***************************************************************************)
(* One run of a scheduler job (scheduler/tasks/task.go, runnable.go and    *)
(* common/proto/jobs/action.go): the task, its reference counter RC, the   *)
(* runnables its actions spawn and the goroutines that dispatch them.      *)
(*                                                                         *)
(* Three kinds of goroutine take part:                                     *)
(*                                                                         *)
(*   - a FRAME is an execution of Runnable.Dispatch: it walks a list of    *)
(*     actions and calls Action.ToMessages for each.  The root frame runs  *)
(*     in EnqueueRunnables, the frame of a runnable in the worker that ran *)
(*     it, the frame of a failed filter in the loop that received it;      *)
(*   - a LOOP is the goroutine Dispatch starts for one action: it receives *)
(*     the messages of that action on an unbuffered channel, creates one   *)
(*     child runnable per message (RC + 1) and sends it to the Queue;      *)
(*   - a RUNNABLE is executed by RunAction in some worker.  When and in    *)
(*     which order workers pick queued runnables is left open here (see    *)
(*     Dispatcher.tla).                                                    *)
(*                                                                         *)
(* Identities are paths, as ActionPath is in the code: the root frame is   *)
(* <<>>, the loop for the i-th action of frame f is <<f, i>>, the k-th     *)
(* runnable of loop l is <<l, k>> and is also the identity of its frame,   *)
(* and <<l, 0>> is the frame of the FailedFilterActions of loop l.         *)
(***************************************************************************)
EXTENDS Integers, Sequences, FiniteSets

CONSTANTS
  Action,       \* the actions of the job (jobs.Action)
  RootActions,  \* Job.Actions
  Chained,      \* ChainedActions of an action
  OnFail,       \* FailedFilterActions of an action
  Selector,     \* "none", "fan" (one message per object) or "collect"
  Filters,      \* what the filters of an action may answer: "pass", "split", "block"
  Outcomes,     \* how the implementation may return: "ok", "err", "panic"
  Registered,   \* actions with a concrete implementation
  Delegated,    \* implementations that are a TaskUpdaterDelegateAction
  BreakAfter,   \* actions flagged BreakAfter
  MaxSelect,    \* bound on the objects a selector returns
  Manual,       \* the trigger is a JobTriggerEvent (manual or scheduled)
  Ignored       \* the action IgnoredActionName

ASSUME ActionsAssumption ==
  /\ RootActions \in Seq(Action)
  /\ Chained \in [Action -> Seq(Action)]
  /\ OnFail \in [Action -> Seq(Action)]
  /\ Ignored \in Action

ASSUME BehaviourAssumption ==
  /\ Selector \in [Action -> {"none", "fan", "collect"}]
  /\ Filters \in [Action -> SUBSET {"pass", "split", "block"}]
  /\ Outcomes \in [Action -> SUBSET {"ok", "err", "panic"}]
  /\ Registered \subseteq Action
  /\ MaxSelect \in Nat
  /\ Manual \in BOOLEAN

VARIABLES
  status,    \* lockedTask.Status
  started,   \* lockedTask.StartTime is set
  ended,     \* lockedTask.EndTime is set
  RC,        \* Task.RC, the number of runnables not known to be over
  frame,     \* executions of Dispatch, by path
  loop,      \* dispatch goroutines, by path
  run,       \* runnables, by path
  inflight,  \* a pointer to the task is on its way through the PubSub hub
  stored     \* the last status the reconnecting client read from that pointer

vars == <<status, started, ended, RC, frame, loop, run, inflight, stored>>
taskVars == <<status, started, ended>>

----------------------------------------------------------------------------

Root == <<>>

\* f with x mapped to v, whether or not x was in its domain.
Put(f, x, v) == [y \in DOMAIN f \cup {x} |-> IF y = x THEN v ELSE f[y]]

NewFrame(acts) == [acts |-> acts, i |-> 1, call |-> "next"]

FrameEnded(f) == frame[f].call = "next" /\ frame[f].i > Len(frame[f].acts)

\* The action frame f is at, and the loop it started for it.
Current(f) == frame[f].acts[frame[f].i]
CurrentLoop(f) == <<f, frame[f].i>>

\* ToMessages, once the filters are passed: selectors first, else the message.
AfterFilters(a) == IF Selector[a] = "none" THEN "out" ELSE "select"

\* frame with f's call replaced, or with f gone on to its next action.
Calling(f, c) == [frame EXCEPT ![f].call = c]
NextAction(f) == [frame EXCEPT ![f] = [acts |-> @.acts, i |-> @.i + 1, call |-> "next"]]

\* A task is Queued and unknown to the store until its first Save;
\* EnqueueRunnables starts dispatching the job's actions.
Init ==
  /\ status = "Queued" /\ started = FALSE /\ ended = FALSE
  /\ RC = 0
  /\ frame = [f \in {Root} |-> NewFrame(RootActions)]
  /\ loop = [l \in {} |-> {}]
  /\ run = [r \in {} |-> {}]
  /\ inflight = FALSE /\ stored = "none"

----------------------------------------------------------------------------
(***************************************************************************)
(* Dispatch and ToMessages, on the side of the frame.                      *)
(***************************************************************************)

\* Start the loop of the next action and apply that action's filters.
ApplyFilters(f) ==
  /\ frame[f].call = "next" /\ frame[f].i <= Len(frame[f].acts)
  /\ loop' = Put(loop, CurrentLoop(f),
                 [pc |-> "select", enqueued |-> 0, out |-> 0, done |-> FALSE])
  /\ \E answer \in Filters[Current(f)] :
       frame' = Calling(f, IF answer = "pass" THEN AfterFilters(Current(f)) ELSE answer)
  /\ UNCHANGED <<taskVars, RC, run, inflight, stored>>

\* Mutant: the early return of ToMessages forgets done <- true.
BlockedForgotten(f) == FALSE

\* After a filter blocked, done <- true ends the call.
Blocked(f) == frame[f].call = "block"

\* failedFilter <- excluded : the loop receives it, and dispatches the
\* FailedFilterActions if there are any.  A blocked message ends the call.
FilterFailed(f) ==
  LET l == CurrentLoop(f)
      nested == OnFail[Current(f)]
      left == IF frame[f].call = "block" THEN NextAction(f)
              ELSE Calling(f, AfterFilters(Current(f)))
  IN /\ frame[f].call \in {"block", "split"}
     /\ loop[l].pc = "select"
     /\ \/ /\ nested = <<>>
           /\ frame' = left
           /\ loop' = [loop EXCEPT ![l].done = Blocked(f)]
        \/ /\ nested # <<>>
           /\ frame' = Put(left, <<l, 0>>, NewFrame(nested))
           /\ loop' = [loop EXCEPT ![l].done = Blocked(f),
                                   ![l].pc = "failing",
                                   ![l].enqueued = @ + 1]
     /\ UNCHANGED <<taskVars, RC, run, inflight, stored>>

\* Mutant: FanOutSelector ends without done <- true.
DoneForgottenByFanOut(n) == FALSE

\* The selector has no object left: its goroutine sends done.
NoObjectLeft(n) == n = 0

\* ResolveSelectors.  A fan-out returns at once and leaves n messages to be
\* sent by its own goroutine; a collect waits for the objects and sends one
\* message if there are any.
ResolveSelectors(f) ==
  LET a == Current(f)
      l == CurrentLoop(f)
  IN /\ frame[f].call = "select"
     /\ \E n \in 0..MaxSelect :
          \/ /\ Selector[a] = "fan"
             /\ frame' = NextAction(f)
             /\ loop' = [loop EXCEPT ![l].out = n, ![l].done = NoObjectLeft(n)]
          \/ /\ Selector[a] = "collect" /\ n = 0
             /\ frame' = NextAction(f)
             /\ loop' = [loop EXCEPT ![l].done = TRUE]
          \/ /\ Selector[a] = "collect" /\ n > 0
             /\ frame' = Calling(f, "out")
             /\ UNCHANGED loop
     /\ UNCHANGED <<taskVars, RC, run, inflight, stored>>

\* output <- message; done <- true.  The channel is unbuffered: the loop has
\* the message, but has not counted it yet, when the frame goes on.
SendMessage(f) ==
  LET l == CurrentLoop(f)
  IN /\ frame[f].call = "out"
     /\ loop[l].pc = "select"
     /\ frame' = NextAction(f)
     /\ loop' = [loop EXCEPT ![l].pc = "got", ![l].done = TRUE]
     /\ UNCHANGED <<taskVars, RC, run, inflight, stored>>

----------------------------------------------------------------------------
(***************************************************************************)
(* The dispatch loop of one action.                                        *)
(***************************************************************************)

\* The goroutine of FanOutSelector hands over one more message.
FanOut(l) ==
  /\ loop[l].pc = "select" /\ loop[l].out > 0
  /\ loop' = [loop EXCEPT ![l].pc = "got", ![l].out = @ - 1,
                          ![l].done = NoObjectLeft(loop[l].out - 1)]
  /\ UNCHANGED <<taskVars, RC, frame, run, inflight, stored>>

\* Mutant: Add with the wrong sign.
AddedWrongSign == RC - 1
\* Mutant: RunAction forgets Done(1).
DoneForgotten == RC

\* Task.Add(1) and Task.Done(1).
Added == RC + 1
Done == RC - 1

\* CreateChild: Task.Add(1) under the lock, then the new runnable.
CreateChild(l) ==
  /\ loop[l].pc = "got"
  /\ RC' = Added
  /\ loop' = [loop EXCEPT ![l].pc = "push", ![l].enqueued = @ + 1]
  /\ run' = Put(run, <<l, loop[l].enqueued + 1>>,
                [act |-> frame[l[1]].acts[l[2]], pc |-> "created"])
  /\ UNCHANGED <<taskVars, frame, inflight, stored>>

\* Queue <- child : the queue took runnable r.
Enqueue(r) ==
  LET l == r[1]
  IN /\ run[r].pc = "created"
     /\ run' = [run EXCEPT ![r].pc = "queued"]
     /\ loop' = [loop EXCEPT ![l].pc = IF @ = "push" THEN "select" ELSE "closed"]
     /\ UNCHANGED <<taskVars, RC, frame, inflight, stored>>

\* The recursive Dispatch of the FailedFilterActions returned.
FailDispatched(l) ==
  /\ loop[l].pc = "failing" /\ FrameEnded(<<l, 0>>)
  /\ loop' = [loop EXCEPT ![l].pc = "select"]
  /\ UNCHANGED <<taskVars, RC, frame, run, inflight, stored>>

\* Mutant: no fake action is ever spawned.
NeverNothing(l) == FALSE

\* <-done with nothing enqueued at root level of a manual or scheduled job:
\* a fake action is spawned just to update the status.
NothingStarted(l) == l[1] = Root /\ loop[l].enqueued = 0 /\ Manual

LoopDone(l) ==
  /\ loop[l].pc = "select" /\ loop[l].done
  /\ \/ /\ NothingStarted(l)
        /\ RC' = Added
        /\ run' = Put(run, <<l, 1>>, [act |-> Ignored, pc |-> "created"])
        /\ loop' = [loop EXCEPT ![l].pc = "pushfake"]
     \/ /\ ~NothingStarted(l)
        /\ loop' = [loop EXCEPT ![l].pc = "closed"]
        /\ UNCHANGED <<RC, run>>
  /\ UNCHANGED <<taskVars, frame, inflight, stored>>

----------------------------------------------------------------------------
(***************************************************************************)
(* RunAction, in a worker.                                                 *)
(***************************************************************************)

Goto(r, pc) == run' = [run EXCEPT ![r].pc = pc]

\* No concrete implementation: RunAction returns before Done(1).
NotFound(r) ==
  /\ run[r].pc = "queued" /\ run[r].act \notin Registered
  /\ Goto(r, "lost")
  /\ UNCHANGED <<taskVars, RC, frame, loop, inflight, stored>>

\* SetStatus(Running) and SetStartTime.
StartAction(r) ==
  /\ run[r].pc = "queued" /\ run[r].act \in Registered
  /\ status' = "Running" /\ started' = TRUE
  /\ Goto(r, "saveRunning")
  /\ UNCHANGED <<ended, RC, frame, loop, inflight, stored>>

AfterSave == [saveRunning |-> "running", savePanic |-> "panicked",
              saveError |-> "failed", saveFinished |-> "over"]

\* Save: the hub accepts the pointer once it has delivered the previous one.
Save(r) ==
  /\ run[r].pc \in DOMAIN AfterSave
  /\ ~inflight /\ inflight' = TRUE
  /\ Goto(r, AfterSave[run[r].pc])
  /\ UNCHANGED <<taskVars, RC, frame, loop, stored>>

\* The reconnecting client receives the pointer and copies what it points to.
ClientReads ==
  /\ inflight /\ inflight' = FALSE
  /\ stored' = status
  /\ UNCHANGED <<taskVars, RC, frame, loop, run>>

\* Implementation.Run returned (or was bypassed): Done(1), then the error
\* branch or the Dispatch of the chained actions.
RunReturns(r) ==
  /\ run[r].pc = "running"
  /\ RC' = Done
  /\ \/ /\ "err" \in Outcomes[run[r].act]
        /\ Goto(r, "error") /\ UNCHANGED frame
     \/ /\ "ok" \in Outcomes[run[r].act]
        /\ Goto(r, "dispatch")
        /\ frame' = Put(frame, r, NewFrame(IF run[r].act \in BreakAfter
                                            THEN <<>> ELSE Chained[run[r].act]))
  /\ UNCHANGED <<taskVars, loop, inflight, stored>>

\* The deferred recover: neither Done(1) nor SetEndTime.
Panic(r) ==
  /\ run[r].pc = "running" /\ "panic" \in Outcomes[run[r].act]
  /\ status' = "Error"
  /\ Goto(r, "savePanic")
  /\ UNCHANGED <<started, ended, RC, frame, loop, inflight, stored>>

SetError(r) ==
  /\ run[r].pc = "error"
  /\ status' = "Error" /\ ended' = TRUE
  /\ Goto(r, "saveError")
  /\ UNCHANGED <<started, RC, frame, loop, inflight, stored>>

\* Mutant: SetStatus without the test of the counter.
FinishedAnyway == "Finished"

\* SetStatus(Finished): a positive counter turns it into Running.
FinishedUnlessBusy == IF RC > 0 THEN "Running" ELSE "Finished"

\* Mutant: the final Save is missing.
NoFinalSave == "over"

\* SetEndTime and Save follow.
AfterFinish == "saveFinished"

Finish(r) ==
  /\ run[r].pc = "dispatch" /\ FrameEnded(r)
  /\ \/ /\ run[r].act \in Delegated
        /\ Goto(r, "over") /\ UNCHANGED taskVars
     \/ /\ run[r].act \notin Delegated
        /\ status' = FinishedUnlessBusy /\ ended' = TRUE /\ UNCHANGED started
        /\ Goto(r, AfterFinish)
  /\ UNCHANGED <<RC, frame, loop, inflight, stored>>

----------------------------------------------------------------------------

\* Where a runnable stops for ever.
Final == {"lost", "panicked", "failed", "over"}

Quiescent ==
  /\ FrameEnded(Root)
  /\ \A l \in DOMAIN loop : loop[l].pc = "closed"
  /\ \A r \in DOMAIN run : run[r].pc \in Final
  /\ ~inflight

FrameStep(f) == ApplyFilters(f) \/ FilterFailed(f) \/ ResolveSelectors(f) \/ SendMessage(f)

LoopStep(l) == FanOut(l) \/ CreateChild(l) \/ FailDispatched(l) \/ LoopDone(l)

RunStep(r) ==
  \/ Enqueue(r) \/ NotFound(r) \/ StartAction(r) \/ Save(r)
  \/ RunReturns(r) \/ Panic(r) \/ SetError(r) \/ Finish(r)

\* All goroutines have returned.
Terminated == Quiescent /\ UNCHANGED vars

Next ==
  \/ \E f \in DOMAIN frame : FrameStep(f)
  \/ \E l \in DOMAIN loop : LoopStep(l)
  \/ \E r \in DOMAIN run : RunStep(r)
  \/ ClientReads
  \/ Terminated

\* The Go scheduler keeps running goroutines that can run, implementations
\* return, and the client keeps reading.
Spec == Init /\ [][Next]_vars /\ WF_vars(Next)
----------------------------------------------------------------------------
(***************************************************************************)
(* Properties.                                                             *)
(***************************************************************************)

\* A runnable's program counter, while Task.RC counts it ...
Counted == {"created", "queued", "saveRunning", "running", "lost", "savePanic", "panicked"}
\* ... and once RunAction called Done(1).
Uncounted == {"error", "saveError", "failed", "dispatch", "saveFinished", "over"}

Live == {r \in DOMAIN run : run[r].pc \in Counted}

Status == {"Queued", "Running", "Finished", "Error"}

Frames == [acts : Seq(Action), i : Nat \ {0},
           call : {"next", "block", "split", "select", "out"}]
Loops == [pc : {"select", "failing", "got", "push", "pushfake", "closed"},
          enqueued : Nat, out : Nat, done : BOOLEAN]
Runnables == [act : Action, pc : Counted \cup Uncounted]

\* A loop was started by its frame for an action the frame is at or past;
\* the action a frame is at has its loop.
LoopPaths ==
  /\ \A l \in DOMAIN loop :
       /\ l = <<l[1], l[2]>> /\ l[1] \in DOMAIN frame
       /\ l[2] \in 1..Len(frame[l[1]].acts)
       /\ \/ l[2] < frame[l[1]].i
          \/ l[2] = frame[l[1]].i /\ frame[l[1]].call # "next"
  /\ \A f \in DOMAIN frame : frame[f].call # "next" => CurrentLoop(f) \in DOMAIN loop

\* A runnable is numbered by the counter of its loop; only the last act of a
\* loop, spawning the fake action, leaves the counter behind.
RunPaths ==
  \A r \in DOMAIN run :
    /\ r = <<r[1], r[2]>> /\ r[1] \in DOMAIN loop /\ r[2] \in Nat \ {0}
    /\ r[2] <= loop[r[1]].enqueued \/ loop[r[1]].pc \in {"pushfake", "closed"}

\* A frame other than the root belongs to a runnable that returned without an
\* error, or to a loop whose failed filter has been answered.
Answered(l) ==
  \/ l[2] < frame[l[1]].i
  \/ l[2] = frame[l[1]].i /\ frame[l[1]].call \in {"select", "out"}

FramePaths ==
  \A f \in DOMAIN frame \ {Root} :
    /\ f = <<f[1], f[2]>>
    /\ \/ f \in DOMAIN run /\ f[2] # 0 /\ run[f].pc \in {"dispatch", "saveFinished", "over"}
       \/ f[2] = 0 /\ f[1] \in DOMAIN loop /\ Answered(f[1])

\* Types, and how paths relate frames, loops and runnables (Dispatch and
\* CreateChild build ActionPath that way): no identity is used twice.
TypeOK ==
  /\ status \in Status
  /\ stored \in Status \cup {"none"}
  /\ started \in BOOLEAN /\ ended \in BOOLEAN /\ inflight \in BOOLEAN
  /\ RC \in Nat
  /\ frame \in [DOMAIN frame -> Frames]
  /\ loop \in [DOMAIN loop -> Loops]
  /\ run \in [DOMAIN run -> Runnables]
  /\ LoopPaths /\ RunPaths /\ FramePaths

\* Task.RC is exactly the number of runnables created by CreateChild for
\* which RunAction has not called Done(1): Add and Done are called from
\* different goroutines, and three exits of RunAction skip Done.
RCCountsLive == RC = Cardinality(Live)

\* A task whose status is Finished has no action running, and none of its
\* actions panicked: SetStatus turns Finished into Running while RC is
\* positive, and StartAction leaves Finished.
FinishedMeansIdle ==
  status = "Finished" =>
    \A r \in DOMAIN run : run[r].pc \notin {"saveRunning", "running", "savePanic", "panicked"}

\* Every runnable ran to its end, none was delegated, and one exists.
RanToTheEnd ==
  /\ DOMAIN run # {}
  /\ \A r \in DOMAIN run : run[r].pc \in {"over", "failed"} /\ run[r].act \notin Delegated

\* Once everything returned, a task whose actions all ran is Finished or in
\* Error, with an end time, its counter is back to zero, and that status is
\* the one the jobs service was sent; without an error it is Finished.  Which
\* runnable writes last is up to the scheduler.
SettledStatus ==
  Quiescent /\ RanToTheEnd =>
    /\ RC = 0 /\ ended
    /\ status \in {"Finished", "Error"} /\ stored = status
    /\ (\A r \in DOMAIN run : run[r].pc = "over") => status = "Finished"

\* A manual or scheduled run whose actions are registered and not delegated
\* reports some status before everything returned ("Nothing has started at
\* root level : spawn a fake action just to update status").
ManualRunReports == Manual /\ Quiescent /\ RootActions # <<>> => stored # "none"

\* Every goroutine of the run returns: no loop waits for a message or a done
\* that never comes.
Returns == <>Quiescent

\* Once an action started, the jobs service keeps being brought up to date
\* with the task's status.
StoreCatchesUp == started ~> (stored = status /\ ~inflight)

\* A task that is Finished stays Finished: no action of it starts any more
\* (SetStatus holds Finished back while actions are pending).
FinishedIsLast == [][status = "Finished" => status' = "Finished"]_vars
=============================================================================
