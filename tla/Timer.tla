-------------------------------- MODULE Timer --------------------------------
(***************************************************************************)
(* The timer service (scheduler/timer) and its tickers                     *)
(* (common/utils/schedule/ticker.go): one ticker for each job with a       *)
(* schedule, started, replaced and stopped by job configuration events,    *)
(* each sending trigger events to one goroutine that publishes them.       *)
(*                                                                         *)
(* Tickers are numbered as StartOrUpdateJob creates them; "one" ticker is  *)
(* the goroutines of WaitUntilNext, of which one is alive at a time.  Time *)
(* is discrete, passes between any two steps, and a goroutine may be late; *)
(* lengths are multiples of 2, so that half an interval is exact.          *)
(***************************************************************************)
EXTENDS Integers, Sequences, FiniteSets

CONSTANTS
  Job,         \* job IDs
  Schedules,   \* schedules of updated jobs: [start, interval, repeat]
  FiveMinutes, \* the wait used when computeNextWait finds none
  MaxEvents,   \* bound on job configuration events
  MaxTime      \* bound on time

NoSchedule == [start |-> 0, interval |-> 0, repeat |-> 0]
Removed == [start |-> 0, interval |-> 0, repeat |-> 1]

ASSUME TimerAssumption ==
  /\ \A s \in Schedules : /\ {s.start, s.interval, s.repeat} \subseteq Nat
                          /\ s.interval % 2 = 0 /\ s.interval + s.repeat # 0
                          /\ s.interval = 0 => s.start > 0
  /\ FiveMinutes \in Nat \ {0} /\ MaxEvents \in Nat /\ MaxTime \in Nat \ {0}

VARIABLES
  now,       \* the clock
  schedule,  \* the schedule of each job, as the jobs service has it
  events,    \* job configuration events not handled yet
  handler,   \* JobsEventsSubscriber.Handle: what it does, and for which event
  waiters,   \* EventProducer.Waiters: the ticker of each job, 0 if none
  ticker,    \* the tickers
  loop,      \* the goroutine of NewEventProducer: the ticker it publishes for, or 0
  nEvents    \* bound: events so far

vars == <<now, schedule, events, handler, waiters, ticker, loop, nEvents>>
serviceVars == <<schedule, events, nEvents>>

----------------------------------------------------------------------------

Idle == [pc |-> "idle", job |-> "none", sched |-> NoSchedule]

\* Mutant: the time of the last tick is not taken into account.
NoLastTick(s, last, t) ==
  IF t <= s.start THEN s.start - t ELSE s.interval - ((t - s.start) % s.interval)

\* computeNextWait, before the end of the schedule is considered: until the
\* start, else until the next multiple of the interval after the start, else
\* until an interval after the last tick (0 when there was none).
Wait(s, last, t) ==
  IF t <= s.start THEN s.start - t
  ELSE IF last = 0 THEN s.interval - ((t - s.start) % s.interval)
  ELSE last + s.interval - t

\* The end of a schedule that is repeated a number of times.
EndTime(s) == s.start + s.interval * s.repeat + s.interval \div 2

\* Mutant: the end of the schedule is ignored.
NeverStops(s, last, t) == t > s.start /\ s.interval = 0

\* computeNextWait returns stop.
Stops(s, last, t) ==
  \/ t > s.start /\ s.interval = 0
  \/ s.repeat > 0 /\ s.interval > 0 /\ t + Wait(s, last, t) > EndTime(s)

\* Mutant: the flag is not set when the ticker ends by itself.
EndsUnnoticed(k, t) ==
  IF Stops(k.sched, k.last, t) THEN [k EXCEPT !.pc = "ended"]
  ELSE [k EXCEPT !.pc = "sleep", !.deadline = t + Wait(k.sched, k.last, t)]

\* WaitUntilNext, at time t: the ticker k ends, or sleeps until its deadline.
WaitUntilNext(k, t) ==
  IF Stops(k.sched, k.last, t) THEN [k EXCEPT !.pc = "ended", !.stopped = TRUE]
  ELSE LET w == Wait(k.sched, k.last, t)
       IN [k EXCEPT !.pc = "sleep", !.deadline = t + (IF w = 0 THEN FiveMinutes ELSE w)]

NewTicker(j, s) ==
  [job |-> j, sched |-> s, pc |-> "new", stopped |-> FALSE, deadline |-> 0,
   last |-> 0, ticks |-> 0]

Init ==
  /\ now = 1
  /\ schedule = [j \in Job |-> NoSchedule] /\ events = <<>> /\ nEvents = 0
  /\ handler = Idle
  /\ waiters = [j \in Job |-> 0] /\ ticker = <<>> /\ loop = 0

----------------------------------------------------------------------------
(***************************************************************************)
(* The jobs service and the clock.                                         *)
(***************************************************************************)

\* PutJob or DeleteJob publishes a JobChangeEvent.
ChangeJob(j, s) ==
  /\ nEvents < MaxEvents /\ nEvents' = nEvents + 1
  /\ schedule' = [schedule EXCEPT ![j] = IF s = Removed THEN NoSchedule ELSE s]
  /\ events' = Append(events, [pc |-> "stop", job |-> j, sched |-> s])
  /\ UNCHANGED <<now, handler, waiters, ticker, loop>>

Tick ==
  /\ now < MaxTime /\ now' = now + 1
  /\ UNCHANGED <<serviceVars, handler, waiters, ticker, loop>>

----------------------------------------------------------------------------
(***************************************************************************)
(* JobsEventsSubscriber.Handle, one event at a time.                       *)
(***************************************************************************)

\* Whether an event concerns the producer: a removal, or an update with a
\* schedule.
Concerns(e) == e.sched # NoSchedule

\* Mutant: updates create a ticker next to the one they should stop.
NoStopOnUpdate(e) == waiters[e.job] = 0 \/ e.sched # Removed

\* StopWaiter finds no ticker.
NothingToStop(e) == waiters[e.job] = 0

\* StopWaiter has returned: a removal is handled, an update goes on.
AfterStop(e) == IF e.sched = Removed THEN Idle ELSE [e EXCEPT !.pc = "start"]

\* StopWaiter, up to the send of Ticker.Stop.
HandleEvent ==
  LET e == Head(events)
      n == waiters[e.job]
  IN /\ handler = Idle /\ events # <<>>
     /\ events' = Tail(events)
     /\ \/ ~Concerns(e) /\ UNCHANGED <<handler, waiters, ticker>>
        \/ /\ Concerns(e) /\ NothingToStop(e)
           /\ handler' = AfterStop(e) /\ UNCHANGED <<waiters, ticker>>
        \/ /\ Concerns(e) /\ ~NothingToStop(e) /\ ticker[n].stopped
           /\ handler' = AfterStop(e)
           /\ waiters' = [waiters EXCEPT ![e.job] = 0] /\ UNCHANGED ticker
        \/ /\ Concerns(e) /\ ~NothingToStop(e) /\ ~ticker[n].stopped
           /\ handler' = e
           /\ ticker' = [ticker EXCEPT ![n].stopped = TRUE] /\ UNCHANGED waiters
     /\ UNCHANGED <<now, schedule, nEvents, loop>>

\* stopChan <- true : the sleeping ticker receives it and returns.
SendStop ==
  LET n == waiters[handler.job]
  IN /\ handler.pc = "stop" /\ ticker[n].pc = "sleep"
     /\ ticker' = [ticker EXCEPT ![n].pc = "ended"]
     /\ waiters' = [waiters EXCEPT ![handler.job] = 0]
     /\ handler' = AfterStop(handler)
     /\ UNCHANGED <<now, serviceVars, loop>>

\* The rest of StartOrUpdateJob.
StartJob ==
  /\ handler.pc = "start" /\ handler' = Idle
  /\ ticker' = Append(ticker, WaitUntilNext(NewTicker(handler.job, handler.sched), now))
  /\ waiters' = [waiters EXCEPT ![handler.job] = Len(ticker) + 1]
  /\ UNCHANGED <<now, serviceVars, loop>>

----------------------------------------------------------------------------
(***************************************************************************)
(* The tickers and the goroutine that publishes.                           *)
(***************************************************************************)

\* <-time.After(wait)
Fire(n) ==
  /\ ticker[n].pc = "sleep" /\ now >= ticker[n].deadline
  /\ ticker' = [ticker EXCEPT ![n].pc = "fire"]
  /\ UNCHANGED <<now, serviceVars, handler, waiters, loop>>

\* EventChan <- event : the goroutine receives it.
SendEvent(n) ==
  /\ ticker[n].pc = "fire" /\ loop = 0
  /\ loop' = n
  /\ ticker' = [ticker EXCEPT ![n].pc = "next", ![n].ticks = @ + 1]
  /\ UNCHANGED <<now, serviceVars, handler, waiters>>

\* client.Publish returns.
Published ==
  /\ loop # 0 /\ loop' = 0
  /\ UNCHANGED <<now, serviceVars, handler, waiters, ticker>>

\* lastTick = now, and the goroutine is replaced by another or by none.  The
\* clock, of nanoseconds, is read after the event was sent: it is past the start.
Again(n) ==
  /\ ticker[n].pc = "next" /\ now > ticker[n].sched.start
  /\ ticker' = [ticker EXCEPT ![n] = WaitUntilNext([ticker[n] EXCEPT !.last = now], now)]
  /\ UNCHANGED <<now, serviceVars, handler, waiters, loop>>

----------------------------------------------------------------------------

Handler == HandleEvent \/ SendStop \/ StartJob
Ticking(n) == Fire(n) \/ SendEvent(n) \/ Again(n)

Next ==
  \/ \E j \in Job : \E s \in Schedules \cup {NoSchedule, Removed} : ChangeJob(j, s)
  \/ Tick \/ Handler \/ Published
  \/ \E n \in DOMAIN ticker : Ticking(n)

\* Events are handled, publications return and every ticker is scheduled.
Spec ==
  /\ Init /\ [][Next]_vars
  /\ WF_vars(Handler) /\ WF_vars(Published)
  /\ \A n \in 1..MaxEvents : WF_vars(n \in DOMAIN ticker /\ Ticking(n))
----------------------------------------------------------------------------
(***************************************************************************)
(* Properties.                                                             *)
(***************************************************************************)

\* The type invariant.
TypeOK ==
  /\ now \in 1..MaxTime /\ nEvents \in 0..MaxEvents
  /\ schedule \in [Job -> Schedules \cup {NoSchedule}]
  /\ handler.pc \in {"idle", "stop", "start"} /\ Len(events) <= nEvents
  /\ waiters \in [Job -> 0..Len(ticker)] /\ loop \in 0..Len(ticker)
  /\ \A n \in DOMAIN ticker :
       /\ ticker[n].pc \in {"sleep", "fire", "next", "ended"}
       /\ ticker[n].pc # "ended" => ticker[n].deadline > 0
       /\ ticker[n].pc = "ended" => ticker[n].stopped

\* A ticker that is still alive is the one registered for its job, so that a
\* job never has two tickers and a removed one none: Stop returns only once
\* the goroutine has received it.
OnlyRegisteredTick ==
  \A n \in DOMAIN ticker : ticker[n].pc # "ended" => waiters[ticker[n].job] = n

\* A ticker fires no earlier than its schedule starts, and never twice within
\* an interval, however late its goroutines are.
Spaced ==
  [][\A n \in DOMAIN ticker :
       ticker'[n].ticks > ticker[n].ticks =>
         /\ now >= ticker[n].sched.start
         /\ ticker[n].last > 0 => now >= ticker[n].last + ticker[n].sched.interval]_vars

\* A schedule with R repetitions fires at most R times after the first.
RepeatRespected ==
  \A n \in DOMAIN ticker :
    ticker[n].sched.repeat > 0 /\ ticker[n].sched.interval > 0 =>
      ticker[n].ticks <= ticker[n].sched.repeat + 1

\* Stop simply stops the waiter: the handler gets past it.
StopReturns == handler.pc = "stop" ~> handler.pc # "stop"

\* Once its events are handled, the pool has tickers for jobs with a schedule
\* only.
PoolHasTimers ==
  events = <<>> /\ handler = Idle =>
    \A j \in Job : waiters[j] # 0 => schedule[j] # NoSchedule
=============================================================================
