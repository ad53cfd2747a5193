----------------------------- MODULE TimerProofs -----------------------------
(***************************************************************************)
(* Proofs about Timer, for any jobs and schedules: a job has one live      *)
(* ticker at most, ticks are spaced by the interval and never more than    *)
(* the schedule asks for.                                                  *)
(***************************************************************************)
EXTENDS Timer, SequenceTheorems, TLAPS

EventRec == [pc : {"stop"}, job : Job, sched : Schedules \cup {NoSchedule, Removed}]

HandlerRec ==
  {Idle} \cup [pc : {"stop"}, job : Job, sched : Schedules \cup {Removed}]
         \cup [pc : {"start"}, job : Job, sched : Schedules]

Stages == {"sleep", "fire", "next", "ended"}

TickerRec ==
  [job : Job, sched : Schedules, pc : Stages, stopped : BOOLEAN,
   deadline : Int, last : Nat, ticks : Nat]

Typed ==
  /\ now \in 1..MaxTime /\ nEvents \in 0..MaxEvents
  /\ schedule \in [Job -> Schedules \cup {NoSchedule}]
  /\ events \in Seq(EventRec) /\ Len(events) <= nEvents
  /\ handler \in HandlerRec
  /\ ticker \in Seq(TickerRec)
  /\ waiters \in [Job -> 0..Len(ticker)] /\ loop \in 0..Len(ticker)

\* A ticker counts its repetitions.
Repeats(k) == k.sched.repeat > 0 /\ k.sched.interval > 0

\* A ticker k at time t wakes after its schedule starts and an interval after
\* its last tick.  One that repeats has as many intervals behind it as it has
\* ticked, and sleeps only for a tick that it may still send.
OnTime(k, t) ==
  /\ k.pc # "ended" => k.deadline > 0
  /\ k.pc = "ended" => k.stopped
  /\ k.pc \in {"sleep", "fire"} =>
       /\ k.deadline >= k.sched.start
       /\ k.last > 0 => k.deadline >= k.last + k.sched.interval
  /\ k.pc = "fire" => t >= k.deadline
  /\ Repeats(k) =>
       /\ k.ticks <= k.sched.repeat + 1
       /\ k.pc \in {"sleep", "fire"} =>
            /\ k.ticks <= k.sched.repeat
            /\ k.deadline >= k.sched.start + k.sched.interval * k.ticks
       /\ k.pc = "next" =>
            t + k.sched.interval >= k.sched.start + k.sched.interval * k.ticks

Punctual == \A n \in DOMAIN ticker : OnTime(ticker[n], now)

\* The entries of Waiters are tickers of their jobs; a live ticker is flagged
\* only while the handler waits for it to receive; and a ticker is only started
\* for a job that has no entry.
Registered ==
  /\ \A j \in Job : waiters[j] # 0 => ticker[waiters[j]].job = j
  /\ \A n \in DOMAIN ticker : ticker[n].stopped /\ ticker[n].pc # "ended" =>
       handler.pc = "stop" /\ waiters[handler.job] = n
  /\ handler.pc = "stop" => /\ waiters[handler.job] # 0
                            /\ ticker[waiters[handler.job]].stopped
  /\ handler.pc = "start" => waiters[handler.job] = 0

\* The inductive invariant.
IInv == Typed /\ Punctual /\ OnlyRegisteredTick /\ Registered

----------------------------------------------------------------------------
(***************************************************************************)
(* Schedules and the next wait.                                            *)
(***************************************************************************)

\* The fields of a schedule of an update.
LEMMA ScheduleFacts ==
  ASSUME TimerAssumption, NEW s \in Schedules
  PROVE  /\ s.start \in Nat /\ s.interval \in Nat /\ s.repeat \in Nat
         /\ s # NoSchedule /\ s # Removed
<1>1. /\ s.start \in Nat /\ s.interval \in Nat /\ s.repeat \in Nat
      /\ s.interval + s.repeat # 0 /\ s.interval = 0 => s.start > 0
  BY DEF TimerAssumption
<1>2. s # NoSchedule
  BY <1>1 DEF NoSchedule
<1>3. s # Removed
  BY <1>1 DEF Removed
<1> QED
  BY <1>1, <1>2, <1>3

\* What a ticker is made of.
LEMMA TickerRecIs ==
  ASSUME NEW j \in Job, NEW s \in Schedules, NEW pc \in Stages, NEW b \in BOOLEAN,
         NEW d \in Int, NEW l \in Nat, NEW c \in Nat
  PROVE  [job |-> j, sched |-> s, pc |-> pc, stopped |-> b, deadline |-> d,
          last |-> l, ticks |-> c] \in TickerRec
BY DEF TickerRec

\* As many intervals as fit before the end of a schedule are repetitions of it.
LEMMA FewerRepetitions ==
  ASSUME NEW a \in Nat, NEW b \in Nat, NEW i \in Nat, i > 0,
         i * a <= i * b + i \div 2
  PROVE  a <= b
<1> SUFFICES ASSUME a >= b + 1 PROVE FALSE
  OBVIOUS
<1>1. i \div 2 < i
  OBVIOUS
<1>2. PICK c \in Nat : a = (b + 1) + c
  <2> WITNESS a - (b + 1) \in Nat
  <2> QED
    OBVIOUS
<1>3. i * a = i * b + i + i * c /\ i * c \in Nat /\ i * b \in Nat
  BY <1>2
<1> QED
  BY <1>1, <1>3

\* The wait after the start, when no tick was sent, is at most an interval.
LEMMA FirstWait ==
  ASSUME NEW i \in Nat, i > 0, NEW x \in Nat
  PROVE  i - (x % i) \in Nat /\ i - (x % i) > 0
OBVIOUS

\* A new ticker ends at once, or sleeps at least until its schedule starts.
LEMMA FirstWaitUntilNext ==
  ASSUME TimerAssumption, NEW j \in Job, NEW s \in Schedules, NEW t \in Nat, t > 0,
         NEW k, k = WaitUntilNext(NewTicker(j, s), t)
  PROVE  /\ k \in TickerRec /\ k.job = j /\ OnTime(k, t)
         /\ k.pc # "ended" => ~k.stopped
<1> DEFINE k0 == NewTicker(j, s)
           w == Wait(s, 0, t)
<1>1. s.start \in Nat /\ s.interval \in Nat /\ s.repeat \in Nat /\ FiveMinutes \in Nat \ {0}
  BY ScheduleFacts DEF TimerAssumption
<1>2. /\ k0 = [job |-> j, sched |-> s, pc |-> "new", stopped |-> FALSE, deadline |-> 0,
               last |-> 0, ticks |-> 0]
      /\ k0.sched = s /\ k0.last = 0
  BY DEF NewTicker
<1> HIDE DEF k0
<1>3. CASE Stops(s, 0, t)
  <2>1. k = [k0 EXCEPT !.pc = "ended", !.stopped = TRUE]
    BY <1>2, <1>3 DEF WaitUntilNext, k0
  <2>2. k = [job |-> j, sched |-> s, pc |-> "ended", stopped |-> TRUE, deadline |-> 0,
             last |-> 0, ticks |-> 0]
    BY <2>1, <1>2
  <2>3. k \in TickerRec /\ k.job = j /\ k.pc = "ended"
    BY <2>2 DEF TickerRec, Stages
  <2>4. OnTime(k, t)
    BY <2>2, <1>1 DEF OnTime, Repeats
  <2> QED
    BY <2>3, <2>4
<1>4. CASE ~Stops(s, 0, t)
  <2> DEFINE d == t + (IF w = 0 THEN FiveMinutes ELSE w)
  <2>1. k = [k0 EXCEPT !.pc = "sleep", !.deadline = d]
    BY <1>2, <1>4 DEF WaitUntilNext, k0
  <2>2. w \in Nat /\ (t <= s.start => w = s.start - t)
    <3>1. CASE t <= s.start
      BY <3>1, <1>1 DEF Wait
    <3>2. CASE t > s.start
      <4>1. s.interval > 0 /\ t - s.start \in Nat
        BY <3>2, <1>1, <1>4 DEF Stops
      <4>2. w = s.interval - ((t - s.start) % s.interval)
        BY <3>2, <1>1 DEF Wait
      <4> QED
        BY <3>2, <4>1, <4>2, <1>1, FirstWait
    <3> QED
      BY <3>1, <3>2, <1>1
  <2> HIDE DEF w
  <2>3. d \in Nat /\ d > 0 /\ d >= s.start
    BY <2>2, <1>1
  <2> HIDE DEF d
  <2>4. k = [job |-> j, sched |-> s, pc |-> "sleep", stopped |-> FALSE, deadline |-> d,
             last |-> 0, ticks |-> 0]
    BY <2>1, <1>2
  <2>5. k \in TickerRec /\ k.job = j /\ ~k.stopped
    BY <2>4, <2>3 DEF TickerRec, Stages
  <2>6. OnTime(k, t)
    BY <2>4, <2>3, <1>1 DEF OnTime, Repeats
  <2> QED
    BY <2>5, <2>6
<1> QED
  BY <1>3, <1>4

\* A ticker that has just ticked ends, or sleeps for exactly an interval, and
\* then its schedule has a tick left.
LEMMA NextWaitUntilNext ==
  ASSUME TimerAssumption, NEW b \in TickerRec, b.pc = "next", NEW t \in Nat,
         t > b.sched.start, OnTime(b, t),
         NEW k, k = WaitUntilNext([b EXCEPT !.last = t], t)
  PROVE  /\ k \in TickerRec /\ k.job = b.job /\ OnTime(k, t)
         /\ k.ticks = b.ticks
         /\ k.pc # "ended" => k.stopped = b.stopped
<1> DEFINE s == b.sched
           k0 == [b EXCEPT !.last = t]
<1>1. /\ b.job \in Job /\ s \in Schedules /\ b.ticks \in Nat /\ b.stopped \in BOOLEAN
      /\ b.deadline \in Int
  BY DEF TickerRec
<1>2. /\ s.start \in Nat /\ s.interval \in Nat /\ s.repeat \in Nat /\ t > 0
  BY <1>1, ScheduleFacts
<1>3. /\ k0 = [job |-> b.job, sched |-> s, pc |-> "next", stopped |-> b.stopped,
               deadline |-> b.deadline, last |-> t, ticks |-> b.ticks]
      /\ k0.sched = s /\ k0.last = t
  BY DEF TickerRec
<1> HIDE DEF k0
<1>4. Repeats(b) => /\ b.ticks <= s.repeat + 1
                    /\ t + s.interval >= s.start + s.interval * b.ticks
  BY DEF OnTime
<1>5. CASE Stops(s, t, t)
  <2>1. k = [k0 EXCEPT !.pc = "ended", !.stopped = TRUE]
    BY <1>3, <1>5 DEF WaitUntilNext, k0
  <2>2. k = [job |-> b.job, sched |-> s, pc |-> "ended", stopped |-> TRUE,
             deadline |-> b.deadline, last |-> t, ticks |-> b.ticks]
    BY <2>1, <1>3
  <2> HIDE DEF s
  <2>3. k \in TickerRec /\ k.job = b.job /\ k.pc = "ended" /\ k.ticks = b.ticks
    <3> HIDE DEF s
    <3>1. k.job = b.job /\ k.pc = "ended" /\ k.ticks = b.ticks
      BY <2>2
    <3> DEFINE flag == TRUE
    <3>2. "ended" \in Stages /\ flag \in BOOLEAN
      BY DEF Stages
    <3> HIDE DEF flag
    <3>3. [job |-> b.job, sched |-> s, pc |-> "ended", stopped |-> flag,
           deadline |-> b.deadline, last |-> t, ticks |-> b.ticks] \in TickerRec
      BY <3>2, <1>1, TickerRecIs
    <3>4. k \in TickerRec
      BY <2>2, <3>3 DEF flag
    <3> QED
      BY <3>1, <3>4
  <2>4. OnTime(k, t)
    BY <2>2, <1>2, <1>4 DEF OnTime, Repeats, s
  <2> QED
    BY <2>3, <2>4
<1>6. CASE ~Stops(s, t, t)
  <2> DEFINE d == t + s.interval
  <2>1. s.interval > 0 /\ Wait(s, t, t) = s.interval
    BY <1>2, <1>6 DEF Wait, Stops
  <2>2. k = [k0 EXCEPT !.pc = "sleep", !.deadline = d]
    <3>1. k = [k0 EXCEPT !.pc = "sleep", !.deadline =
                 t + (IF Wait(s, t, t) = 0 THEN FiveMinutes ELSE Wait(s, t, t))]
      BY <1>3, <1>6 DEF WaitUntilNext, k0
    <3>2. (IF Wait(s, t, t) = 0 THEN FiveMinutes ELSE Wait(s, t, t)) = s.interval
      BY <2>1, <1>2
    <3> QED
      BY <3>1, <3>2
  <2>3. k = [job |-> b.job, sched |-> s, pc |-> "sleep", stopped |-> b.stopped,
             deadline |-> d, last |-> t, ticks |-> b.ticks]
    BY <2>2, <1>3
  <2>4. Repeats(b) => b.ticks <= s.repeat /\ d >= s.start + s.interval * b.ticks
    <3> SUFFICES ASSUME Repeats(b) PROVE b.ticks <= s.repeat /\ d >= s.start + s.interval * b.ticks
      OBVIOUS
    <3>1. s.repeat > 0
      BY DEF Repeats
    <3>2. d <= s.start + s.interval * s.repeat + s.interval \div 2
      BY <3>1, <2>1, <1>2, <1>6 DEF Stops, EndTime
    <3>3. d >= s.start + s.interval * b.ticks
      BY <1>4
    <3>4. s.interval * b.ticks <= s.interval * s.repeat + s.interval \div 2
      <4>1. /\ s.interval * b.ticks \in Nat /\ s.interval * s.repeat \in Nat
            /\ s.interval \div 2 \in Nat
        BY <1>1, <1>2
      <4> QED
        BY <3>2, <3>3, <4>1, <1>2
    <3> HIDE DEF s
    <3>5. b.ticks <= s.repeat
      BY <3>4, <2>1, <1>1, <1>2, FewerRepetitions
    <3> QED
      BY <3>3, <3>5
  <2>5. d \in Nat /\ d > 0 /\ d >= s.start
    BY <1>2
  <2>6. d >= t + s.interval
    BY <1>2
  <2> HIDE DEF d, s
  <2>7. /\ k \in TickerRec /\ k.job = b.job /\ k.ticks = b.ticks /\ k.stopped = b.stopped
    BY <2>3, <2>5, <1>1 DEF TickerRec, Stages
  <2>8. OnTime(k, t)
    BY <2>3, <2>4, <2>5, <2>6, <1>1, <1>2 DEF OnTime, Repeats, s
  <2> QED
    BY <2>7, <2>8
<1> QED
  BY <1>5, <1>6

----------------------------------------------------------------------------
(***************************************************************************)
(* Steps.                                                                  *)
(***************************************************************************)

\* What the types say of each ticker.
LEMMA TickerFacts ==
  ASSUME Typed
  PROVE  /\ Len(ticker) \in Nat /\ DOMAIN ticker = 1..Len(ticker)
         /\ \A n \in DOMAIN ticker : ticker[n] \in TickerRec /\ ticker[n].job \in Job
         /\ now \in Nat /\ now > 0
<1>1. Len(ticker) \in Nat /\ DOMAIN ticker = 1..Len(ticker)
  BY LenProperties DEF Typed
<1>2. \A n \in DOMAIN ticker : ticker[n] \in TickerRec
  BY <1>1, ElementOfSeq DEF Typed
<1>3. now \in Nat /\ now > 0
  BY DEF Typed
<1> QED
  BY <1>1, <1>2, <1>3 DEF TickerRec

\* One ticker changes.
LEMMA TickerExcept ==
  ASSUME Typed, NEW n \in DOMAIN ticker, NEW k \in TickerRec,
         ticker' = [ticker EXCEPT ![n] = k]
  PROVE  /\ ticker' \in Seq(TickerRec) /\ Len(ticker') = Len(ticker)
         /\ DOMAIN ticker' = DOMAIN ticker
         /\ ticker'[n] = k /\ \A m \in DOMAIN ticker : m # n => ticker'[m] = ticker[m]
<1> DEFINE f == [ticker EXCEPT ![n] = k]
<1>1. n \in 1..Len(ticker)
  BY TickerFacts
<1>2. /\ f \in Seq(TickerRec) /\ Len(f) = Len(ticker)
      /\ \A m \in 1..Len(ticker) : f[m] = IF m = n THEN k ELSE ticker[m]
  BY <1>1, ExceptSeq DEF Typed
<1> HIDE DEF f
<1>3. DOMAIN f = 1..Len(f)
  BY <1>2, LenProperties
<1>4. ticker' = f
  BY DEF f
<1> QED
  BY <1>1, <1>2, <1>3, <1>4, TickerFacts

\* Time passes: what is late stays late.
LEMMA Later ==
  ASSUME TimerAssumption, NEW k \in TickerRec, NEW t \in Nat, NEW u \in Nat, t <= u, OnTime(k, t)
  PROVE  OnTime(k, u)
<1>1. /\ k.deadline \in Int /\ k.sched \in Schedules /\ k.ticks \in Nat
  BY DEF TickerRec
<1>2. k.sched.start \in Nat /\ k.sched.interval \in Nat
  BY <1>1, ScheduleFacts
<1>3. k.sched.interval * k.ticks \in Nat
  BY <1>1, <1>2
<1> DEFINE x == k.sched.interval * k.ticks
<1> HIDE DEF x
<1>4. ASSUME Repeats(k), k.pc = "next" PROVE u + k.sched.interval >= k.sched.start + x
  <2>1. t + k.sched.interval >= k.sched.start + x
    BY <1>4 DEF OnTime, x
  <2> QED
    BY <2>1, <1>2, <1>3 DEF x
<1>5. k.pc = "fire" => u >= k.deadline
  BY <1>1 DEF OnTime
<1> QED
  BY <1>4, <1>5 DEF OnTime, x

\* Jobs change.
LEMMA ChangeJobKeeps ==
  ASSUME TimerAssumption, IInv, NEW j \in Job,
         NEW s \in Schedules \cup {NoSchedule, Removed}, ChangeJob(j, s)
  PROVE  IInv'
<1> DEFINE e == [pc |-> "stop", job |-> j, sched |-> s]
<1>1. events \in Seq(EventRec) /\ e \in EventRec
  BY DEF IInv, Typed, EventRec
<1>2. events' = Append(events, e)
  BY DEF ChangeJob
<1> HIDE DEF e
<1>3. events' \in Seq(EventRec) /\ Len(events') = Len(events) + 1 /\ Len(events) \in Nat
  BY <1>1, <1>2, AppendProperties, LenProperties
<1>4. schedule' \in [Job -> Schedules \cup {NoSchedule}]
  BY DEF ChangeJob, IInv, Typed
<1>5. /\ now' = now /\ handler' = handler /\ waiters' = waiters /\ ticker' = ticker
      /\ loop' = loop /\ nEvents' = nEvents + 1 /\ nEvents < MaxEvents /\ MaxEvents \in Nat
  BY DEF ChangeJob, TimerAssumption
<1>6. Typed'
  BY <1>3, <1>4, <1>5 DEF IInv, Typed
<1>7. Punctual' /\ OnlyRegisteredTick' /\ Registered'
  BY <1>5 DEF IInv, Punctual, OnlyRegisteredTick, Registered
<1> QED
  BY <1>6, <1>7 DEF IInv

\* The clock.
LEMMA TickKeeps ==
  ASSUME TimerAssumption, IInv, Tick
  PROVE  IInv'
<1>1. /\ UNCHANGED <<serviceVars, handler, waiters, ticker, loop>>
      /\ now' = now + 1 /\ now < MaxTime /\ MaxTime \in Nat
  BY DEF Tick, TimerAssumption
<1>2. Typed'
  BY <1>1 DEF IInv, Typed, serviceVars
<1>3. Punctual'
  <2> SUFFICES ASSUME NEW n \in DOMAIN ticker PROVE OnTime(ticker[n], now + 1)
    BY <1>1 DEF Punctual
  <2>1. /\ ticker[n] \in TickerRec /\ now \in Nat /\ now + 1 \in Nat /\ now <= now + 1
        /\ OnTime(ticker[n], now)
    BY TickerFacts DEF IInv, Punctual
  <2> QED
    BY <2>1, Later
<1>4. OnlyRegisteredTick' /\ Registered'
  BY <1>1 DEF IInv, OnlyRegisteredTick, Registered
<1> QED
  BY <1>2, <1>3, <1>4 DEF IInv

\* What is left of an event for the handler.
LEMMA AfterStopFacts ==
  ASSUME TimerAssumption, NEW e, e.pc = "stop",
         e \in [pc : {"stop"}, job : Job, sched : Schedules \cup {Removed}]
  PROVE  /\ AfterStop(e) \in HandlerRec /\ AfterStop(e).pc # "stop"
         /\ AfterStop(e).pc = "start" => AfterStop(e).job = e.job
<1>1. CASE e.sched = Removed
  BY <1>1 DEF AfterStop, HandlerRec, Idle
<1>2. CASE e.sched # Removed
  <2>1. e.sched \in Schedules /\ e.job \in Job
    BY <1>2
  <2>2. AfterStop(e) = [pc |-> "start", job |-> e.job, sched |-> e.sched]
    BY <1>2 DEF AfterStop
  <2> QED
    BY <2>1, <2>2 DEF HandlerRec
<1> QED
  BY <1>1, <1>2

\* A live ticker is not flagged while the handler waits for an event.
LEMMA IdleFacts ==
  ASSUME Registered, handler = Idle, NEW n \in DOMAIN ticker
  PROVE  ticker[n].stopped => ticker[n].pc = "ended"
BY DEF Registered, Idle

\* Flagging a ticker as stopped changes nothing else of it.
LEMMA FlagFacts ==
  ASSUME NEW k \in TickerRec, NEW t, OnTime(k, t)
  PROVE  LET f == [k EXCEPT !.stopped = TRUE]
         IN /\ f \in TickerRec /\ f.job = k.job /\ f.pc = k.pc /\ f.stopped
            /\ OnTime(f, t)
<1> DEFINE f == [k EXCEPT !.stopped = TRUE]
<1>1. f \in TickerRec
  BY DEF TickerRec
<1>2. /\ f.job = k.job /\ f.pc = k.pc /\ f.stopped /\ f.sched = k.sched
      /\ f.deadline = k.deadline /\ f.last = k.last /\ f.ticks = k.ticks
  BY DEF TickerRec
<1> HIDE DEF f
<1>3. OnTime(f, t)
  BY <1>2 DEF OnTime, Repeats
<1> QED
  BY <1>1, <1>2, <1>3 DEF f

\* The handler takes an event.
LEMMA HandleEventKeeps ==
  ASSUME TimerAssumption, IInv, HandleEvent
  PROVE  IInv'
<1> DEFINE e == Head(events)
           n == waiters[e.job]
<1>1. /\ handler = Idle /\ events # <<>> /\ events' = Tail(events)
      /\ UNCHANGED <<now, schedule, nEvents, loop>>
  BY DEF HandleEvent
<1>2. /\ e \in EventRec /\ Tail(events) \in Seq(EventRec)
      /\ Len(Tail(events)) = Len(events) - 1 /\ Len(events) \in Nat
  BY <1>1, HeadTailProperties, LenProperties DEF IInv, Typed
<1>3. events' \in Seq(EventRec) /\ Len(events') <= nEvents'
  BY <1>1, <1>2 DEF IInv, Typed
<1>4. e.pc = "stop" /\ e.job \in Job /\ n \in 0..Len(ticker)
  BY <1>2 DEF EventRec, IInv, Typed
<1>5. Concerns(e) => e \in [pc : {"stop"}, job : Job, sched : Schedules \cup {Removed}]
  BY <1>2 DEF Concerns, EventRec
<1>6. CASE ~Concerns(e) /\ UNCHANGED <<handler, waiters, ticker>>
  <2>1. Typed'
    BY <1>1, <1>3, <1>6 DEF IInv, Typed
  <2>2. Punctual' /\ OnlyRegisteredTick' /\ Registered'
    BY <1>1, <1>6 DEF IInv, Punctual, OnlyRegisteredTick, Registered
  <2> QED
    BY <2>1, <2>2 DEF IInv
<1>7. CASE /\ Concerns(e) /\ NothingToStop(e)
           /\ handler' = AfterStop(e) /\ UNCHANGED <<waiters, ticker>>
  <2>1. /\ handler' \in HandlerRec /\ handler'.pc # "stop"
        /\ handler'.pc = "start" => handler'.job = e.job
    BY <1>4, <1>5, <1>7, AfterStopFacts
  <2>2. n = 0
    BY <1>7 DEF NothingToStop
  <2>3. Typed'
    BY <1>1, <1>3, <1>7, <2>1 DEF IInv, Typed
  <2>4. Punctual' /\ OnlyRegisteredTick'
    BY <1>1, <1>7 DEF IInv, Punctual, OnlyRegisteredTick
  <2>5. Registered'
    BY <1>1, <1>7, <2>1, <2>2 DEF IInv, Registered, Idle
  <2> QED
    BY <2>3, <2>4, <2>5 DEF IInv
<1>8. CASE /\ Concerns(e) /\ ~NothingToStop(e) /\ ticker[n].stopped
           /\ handler' = AfterStop(e)
           /\ waiters' = [waiters EXCEPT ![e.job] = 0] /\ UNCHANGED ticker
  <2>1. /\ handler' \in HandlerRec /\ handler'.pc # "stop"
        /\ handler'.pc = "start" => handler'.job = e.job
    BY <1>4, <1>5, <1>8, AfterStopFacts
  <2>2. n # 0 /\ n \in DOMAIN ticker
    BY <1>4, <1>8, TickerFacts DEF NothingToStop, IInv
  <2>3. ticker[n].pc = "ended"
    BY <1>1, <1>8, <2>2, IdleFacts DEF IInv
  <2>4. waiters' \in [Job -> 0..Len(ticker)] /\ waiters \in [Job -> 0..Len(ticker)]
    <3> HIDE DEF e
    <3>1. waiters \in [Job -> 0..Len(ticker)] /\ Len(ticker) \in Nat
      BY TickerFacts DEF IInv, Typed
    <3>2. 0 \in 0..Len(ticker)
      BY <3>1
    <3> QED
      BY <1>8, <3>1, <3>2
  <2>5. waiters'[e.job] = 0 /\ \A j \in Job : j # e.job => waiters'[j] = waiters[j]
    BY <1>4, <1>8, <2>4
  <2>6. Typed'
    BY <1>1, <1>3, <1>8, <2>1, <2>4 DEF IInv, Typed
  <2>7. Punctual'
    BY <1>1, <1>8 DEF IInv, Punctual
  <2>8. OnlyRegisteredTick'
    <3> SUFFICES ASSUME NEW m \in DOMAIN ticker, ticker[m].pc # "ended"
                 PROVE  waiters'[ticker[m].job] = m
      BY <1>8 DEF OnlyRegisteredTick
    <3>1. waiters[ticker[m].job] = m /\ ticker[m].job \in Job
      BY TickerFacts DEF IInv, OnlyRegisteredTick
    <3>2. ticker[m].job # e.job
      BY <2>3, <3>1
    <3> QED
      BY <2>5, <3>1, <3>2
  <2>9. Registered'
    BY <1>1, <1>4, <1>8, <2>1, <2>5 DEF IInv, Registered, Idle
  <2> QED
    BY <2>6, <2>7, <2>8, <2>9 DEF IInv
<1>9. CASE /\ Concerns(e) /\ ~NothingToStop(e) /\ ~ticker[n].stopped
           /\ handler' = e
           /\ ticker' = [ticker EXCEPT ![n].stopped = TRUE] /\ UNCHANGED waiters
  <2>1. n # 0 /\ n \in DOMAIN ticker
    BY <1>4, <1>9, TickerFacts DEF NothingToStop, IInv
  <2> DEFINE k == [ticker[n] EXCEPT !.stopped = TRUE]
  <2>2. /\ k \in TickerRec /\ k.job = ticker[n].job /\ k.pc = ticker[n].pc /\ k.stopped
        /\ OnTime(k, now)
    BY <2>1, TickerFacts, FlagFacts DEF IInv, Punctual
  <2>3. ticker' = [ticker EXCEPT ![n] = k]
    BY <1>9
  <2> HIDE DEF k, n
  <2>4. /\ ticker' \in Seq(TickerRec) /\ Len(ticker') = Len(ticker)
        /\ DOMAIN ticker' = DOMAIN ticker
        /\ ticker'[n] = k /\ \A m \in DOMAIN ticker : m # n => ticker'[m] = ticker[m]
    BY <2>1, <2>2, <2>3, TickerExcept DEF IInv
  <2>5. handler' \in HandlerRec /\ handler'.pc = "stop" /\ handler'.job = e.job
    BY <1>4, <1>5, <1>9 DEF HandlerRec
  <2>6. Typed'
    BY <1>1, <1>3, <1>9, <2>4, <2>5 DEF IInv, Typed
  <2>7. Punctual'
    BY <1>1, <2>2, <2>4 DEF IInv, Punctual
  <2>8. OnlyRegisteredTick'
    BY <1>9, <2>2, <2>4 DEF IInv, OnlyRegisteredTick
  <2>9. Registered'
    <3>1. \A j \in Job : waiters[j] \in 0..Len(ticker)
      BY DEF IInv, Typed
    <3>2. \A j \in Job : waiters'[j] # 0 => ticker'[waiters'[j]].job = j
      <4> SUFFICES ASSUME NEW j \in Job, waiters[j] # 0 PROVE ticker'[waiters[j]].job = j
        BY <1>9
      <4>1. waiters[j] \in DOMAIN ticker /\ ticker[waiters[j]].job = j
        BY <3>1, TickerFacts DEF IInv, Registered
      <4> QED
        BY <4>1, <2>2, <2>4
    <3>3. \A m \in DOMAIN ticker' : ticker'[m].stopped /\ ticker'[m].pc # "ended" => m = n
      <4> SUFFICES ASSUME NEW m \in DOMAIN ticker, m # n, ticker[m].stopped
                   PROVE  ticker[m].pc = "ended"
        BY <2>4
      <4> QED
        BY <1>1, IdleFacts DEF IInv
    <3>4. waiters'[handler'.job] = n /\ ticker'[n].stopped
      BY <1>9, <2>2, <2>4, <2>5 DEF n
    <3> QED
      BY <2>1, <2>5, <3>2, <3>3, <3>4 DEF Registered
  <2> QED
    BY <2>6, <2>7, <2>8, <2>9 DEF IInv
<1> QED
  BY <1>6, <1>7, <1>8, <1>9 DEF HandleEvent

\* The handler's stop is received: the ticker is ended and leaves the pool.
LEMMA SendStopKeeps ==
  ASSUME TimerAssumption, IInv, SendStop
  PROVE  IInv'
<1> DEFINE j == handler.job
           n == waiters[j]
           k == [ticker[n] EXCEPT !.pc = "ended"]
<1>1. /\ handler.pc = "stop" /\ ticker[n].pc = "sleep"
      /\ ticker' = [ticker EXCEPT ![n] = k]
      /\ waiters' = [waiters EXCEPT ![j] = 0]
      /\ handler' = AfterStop(handler)
      /\ UNCHANGED <<now, serviceVars, loop>>
  BY DEF SendStop
<1>2. handler \in [pc : {"stop"}, job : Job, sched : Schedules \cup {Removed}]
  BY <1>1 DEF IInv, Typed, HandlerRec, Idle
<1>3. j \in Job /\ n \in 0..Len(ticker) /\ n # 0 /\ ticker[n].stopped
  BY <1>1, <1>2 DEF IInv, Typed, Registered
<1>4. n \in DOMAIN ticker
  BY <1>3, TickerFacts DEF IInv
<1>5. /\ handler' \in HandlerRec /\ handler'.pc # "stop"
      /\ handler'.pc = "start" => handler'.job = j
  BY <1>1, <1>2, AfterStopFacts
<1>6. k \in TickerRec /\ k.job = ticker[n].job /\ k.pc = "ended" /\ k.stopped
  BY <1>3, <1>4, TickerFacts DEF IInv, TickerRec, Stages
<1>7. OnTime(k, now)
  <2>1. ticker[n] \in TickerRec /\ OnTime(ticker[n], now)
    BY <1>4, TickerFacts DEF IInv, Punctual
  <2>2. k.sched = ticker[n].sched /\ k.ticks = ticker[n].ticks
    BY <2>1 DEF TickerRec
  <2> HIDE DEF k
  <2> QED
    BY <1>6, <2>1, <2>2 DEF OnTime, Repeats
<1> HIDE DEF k
<1>8. /\ ticker' \in Seq(TickerRec) /\ Len(ticker') = Len(ticker)
      /\ DOMAIN ticker' = DOMAIN ticker
      /\ ticker'[n] = k /\ \A m \in DOMAIN ticker : m # n => ticker'[m] = ticker[m]
  <2> HIDE DEF n
  <2> QED
    BY <1>1, <1>4, <1>6, TickerExcept DEF IInv
<1>9. waiters' \in [Job -> 0..Len(ticker)] /\ waiters \in [Job -> 0..Len(ticker)]
  <2> HIDE DEF j
  <2>1. waiters \in [Job -> 0..Len(ticker)] /\ Len(ticker) \in Nat
    BY TickerFacts DEF IInv, Typed
  <2>2. 0 \in 0..Len(ticker)
    BY <2>1
  <2> QED
    BY <1>1, <2>1, <2>2
<1>10. waiters'[j] = 0 /\ \A i \in Job : i # j => waiters'[i] = waiters[i]
  BY <1>1, <1>3, <1>9
<1>11. Typed'
  BY <1>1, <1>5, <1>8, <1>9 DEF IInv, Typed, serviceVars
<1>12. Punctual'
  BY <1>1, <1>7, <1>8 DEF IInv, Punctual
<1>13. \A m \in DOMAIN ticker : m # n /\ ticker[m].pc # "ended" =>
         ticker[m].job # j /\ ticker[m].job \in Job /\ waiters[ticker[m].job] = m
  BY TickerFacts DEF IInv, OnlyRegisteredTick
<1>14. OnlyRegisteredTick'
  BY <1>6, <1>8, <1>10, <1>13 DEF OnlyRegisteredTick
<1>15. Registered'
  <2>1. \A i \in Job : waiters'[i] # 0 => ticker'[waiters'[i]].job = i
    <3> SUFFICES ASSUME NEW i \in Job, i # j, waiters[i] # 0
                 PROVE  ticker'[waiters[i]].job = i
      BY <1>10
    <3>1. waiters[i] \in DOMAIN ticker /\ ticker[waiters[i]].job = i
      BY <1>9, TickerFacts DEF IInv, Registered
    <3> QED
      BY <3>1, <1>6, <1>8
  <2>2. \A m \in DOMAIN ticker' : ticker'[m].stopped => ticker'[m].pc = "ended"
    BY <1>1, <1>6, <1>8 DEF IInv, Registered
  <2> QED
    BY <1>5, <1>10, <2>1, <2>2 DEF Registered
<1> QED
  BY <1>11, <1>12, <1>14, <1>15 DEF IInv

\* A ticker is started.
LEMMA StartJobKeeps ==
  ASSUME TimerAssumption, IInv, StartJob
  PROVE  IInv'
<1> DEFINE j == handler.job
           k == WaitUntilNext(NewTicker(j, handler.sched), now)
           n == Len(ticker) + 1
<1>1. /\ handler.pc = "start" /\ handler' = Idle
      /\ ticker' = Append(ticker, k)
      /\ waiters' = [waiters EXCEPT ![j] = n]
      /\ UNCHANGED <<now, serviceVars, loop>>
  BY DEF StartJob
<1>2. j \in Job /\ handler.sched \in Schedules
  BY <1>1 DEF IInv, Typed, HandlerRec, Idle
<1>3. k \in TickerRec /\ k.job = j /\ OnTime(k, now) /\ (k.pc # "ended" => ~k.stopped)
  <2>1. now \in Nat /\ now > 0
    BY TickerFacts DEF IInv
  <2> HIDE DEF j
  <2> QED
    BY <1>2, <2>1, FirstWaitUntilNext
<1> HIDE DEF k
<1>4. waiters[j] = 0
  BY <1>1 DEF IInv, Registered
<1>5. /\ Len(ticker) \in Nat /\ DOMAIN ticker = 1..Len(ticker) /\ ticker \in Seq(TickerRec)
  BY TickerFacts DEF IInv, Typed
<1>6. /\ ticker' \in Seq(TickerRec) /\ Len(ticker') = n /\ ticker'[n] = k
      /\ \A m \in 1..Len(ticker) : ticker'[m] = ticker[m]
  BY <1>1, <1>3, <1>5, AppendProperties
<1>7. DOMAIN ticker' = 1..n
  BY <1>6, LenProperties
<1>8. waiters \in [Job -> 0..Len(ticker)]
  BY DEF IInv, Typed
<1>9. waiters'[j] = n /\ \A i \in Job : i # j => waiters'[i] = waiters[i]
  BY <1>1, <1>2, <1>8
<1>10. Typed'
  <2>1. waiters' \in [Job -> 0..n]
    <3>1. n \in 0..n /\ 0..Len(ticker) \subseteq 0..n
      BY <1>5
    <3> HIDE DEF j, n
    <3>2. waiters \in [Job -> 0..n]
      BY <3>1, <1>8
    <3> QED
      BY <1>1, <3>1, <3>2
  <2>2. loop' \in 0..n /\ handler' \in HandlerRec
    BY <1>1, <1>5 DEF IInv, Typed, HandlerRec
  <2> QED
    BY <1>1, <1>6, <2>1, <2>2 DEF IInv, Typed, serviceVars
<1>11. Punctual'
  <2> SUFFICES ASSUME NEW m \in 1..n PROVE OnTime(ticker'[m], now)
    BY <1>1, <1>7 DEF Punctual
  <2>1. m = n \/ m \in 1..Len(ticker)
    BY <1>5
  <2> QED
    BY <2>1, <1>3, <1>5, <1>6 DEF IInv, Punctual
<1>12. OnlyRegisteredTick'
  <2> SUFFICES ASSUME NEW m \in 1..n, ticker'[m].pc # "ended"
               PROVE  waiters'[ticker'[m].job] = m
    BY <1>7 DEF OnlyRegisteredTick
  <2>1. CASE m = n
    BY <2>1, <1>3, <1>6, <1>9
  <2>2. CASE m \in 1..Len(ticker)
    <3>1. ticker'[m] = ticker[m] /\ waiters[ticker[m].job] = m /\ ticker[m].job \in Job
      BY <2>2, <1>5, <1>6, TickerFacts DEF IInv, OnlyRegisteredTick
    <3>2. ticker[m].job # j
      BY <3>1, <1>4, <2>2
    <3> QED
      BY <3>1, <3>2, <1>9
  <2> QED
    BY <2>1, <2>2, <1>5
<1>13. Registered'
  <2>1. \A i \in Job : waiters'[i] # 0 => ticker'[waiters'[i]].job = i
    <3> SUFFICES ASSUME NEW i \in Job, waiters'[i] # 0
                 PROVE  ticker'[waiters'[i]].job = i
      OBVIOUS
    <3>1. CASE i = j
      BY <3>1, <1>3, <1>6, <1>9
    <3>2. CASE i # j
      <4>1. waiters'[i] = waiters[i] /\ waiters[i] \in 1..Len(ticker)
        BY <3>2, <1>5, <1>8, <1>9
      <4>2. ticker[waiters[i]].job = i
        BY <4>1 DEF IInv, Registered
      <4> QED
        BY <4>1, <4>2, <1>6
    <3> QED
      BY <3>1, <3>2
  <2>2. \A m \in DOMAIN ticker' : ticker'[m].stopped => ticker'[m].pc = "ended"
    <3> SUFFICES ASSUME NEW m \in 1..n, ticker'[m].stopped PROVE ticker'[m].pc = "ended"
      BY <1>7
    <3>1. m = n \/ m \in 1..Len(ticker)
      BY <1>5
    <3> QED
      BY <3>1, <1>1, <1>3, <1>5, <1>6 DEF IInv, Registered
  <2>3. handler'.pc = "idle"
    BY <1>1 DEF Idle
  <2> QED
    BY <2>1, <2>2, <2>3 DEF Registered
<1> QED
  BY <1>10, <1>11, <1>12, <1>13 DEF IInv

\* A step of one live ticker: it keeps its job, and its flag unless it ends.
LEMMA TickerStepKeeps ==
  ASSUME TimerAssumption, IInv, NEW n \in DOMAIN ticker, NEW k \in TickerRec,
         ticker' = [ticker EXCEPT ![n] = k], ticker[n].pc # "ended",
         k.job = ticker[n].job, OnTime(k, now),
         k.pc # "ended" => k.stopped = ticker[n].stopped,
         UNCHANGED <<now, serviceVars, handler, waiters>>, loop' \in 0..Len(ticker)
  PROVE  IInv'
<1>1. /\ ticker' \in Seq(TickerRec) /\ Len(ticker') = Len(ticker)
      /\ DOMAIN ticker' = DOMAIN ticker
      /\ ticker'[n] = k /\ \A m \in DOMAIN ticker : m # n => ticker'[m] = ticker[m]
  BY TickerExcept DEF IInv
<1>2. Typed'
  BY <1>1 DEF IInv, Typed, serviceVars
<1>3. Punctual'
  BY <1>1 DEF IInv, Punctual
<1>4. OnlyRegisteredTick'
  BY <1>1 DEF IInv, OnlyRegisteredTick
<1>5. Registered'
  <2>1. \A i \in Job : waiters[i] # 0 => ticker'[waiters[i]].job = i
    <3> SUFFICES ASSUME NEW i \in Job, waiters[i] # 0 PROVE ticker'[waiters[i]].job = i
      OBVIOUS
    <3>1. waiters[i] \in DOMAIN ticker /\ ticker[waiters[i]].job = i
      BY TickerFacts DEF IInv, Typed, Registered
    <3> QED
      BY <3>1, <1>1
  <2>2. \A m \in DOMAIN ticker' : ticker'[m].stopped /\ ticker'[m].pc # "ended" =>
          handler.pc = "stop" /\ waiters[handler.job] = m
    BY <1>1 DEF IInv, Registered
  <2>3. handler.pc = "stop" => /\ waiters[handler.job] # 0
                               /\ ticker'[waiters[handler.job]].stopped
    <3> SUFFICES ASSUME handler.pc = "stop"
                 PROVE  /\ waiters[handler.job] # 0
                        /\ ticker'[waiters[handler.job]].stopped
      OBVIOUS
    <3>1. waiters[handler.job] # 0 /\ ticker[waiters[handler.job]].stopped
      BY DEF IInv, Registered
    <3>2. handler.job \in Job
      BY DEF IInv, Typed, HandlerRec, Idle
    <3>3. waiters[handler.job] \in DOMAIN ticker
      BY <3>1, <3>2, TickerFacts DEF IInv, Typed
    <3>4. k.stopped \/ k.pc # "ended"
      BY DEF OnTime
    <3> QED
      BY <3>1, <3>3, <3>4, <1>1
  <2> QED
    BY <2>1, <2>2, <2>3 DEF IInv, Registered
<1> QED
  BY <1>2, <1>3, <1>4, <1>5 DEF IInv

\* A ticker wakes.
LEMMA FireKeeps ==
  ASSUME TimerAssumption, IInv, NEW n \in DOMAIN ticker, Fire(n)
  PROVE  IInv'
<1> DEFINE b == ticker[n]
           k == [b EXCEPT !.pc = "fire"]
<1>1. /\ b.pc = "sleep" /\ now >= b.deadline /\ ticker' = [ticker EXCEPT ![n] = k]
      /\ UNCHANGED <<now, serviceVars, handler, waiters, loop>>
  BY DEF Fire
<1>2. b \in TickerRec /\ OnTime(b, now)
  BY TickerFacts DEF IInv, Punctual
<1> HIDE DEF b
<1>3. /\ k \in TickerRec /\ k.job = b.job /\ k.stopped = b.stopped /\ k.pc = "fire"
      /\ k.sched = b.sched /\ k.deadline = b.deadline /\ k.last = b.last /\ k.ticks = b.ticks
  BY <1>2 DEF TickerRec, Stages
<1> HIDE DEF k
<1>4. OnTime(k, now)
  BY <1>1, <1>2, <1>3 DEF OnTime, Repeats
<1>5. loop' \in 0..Len(ticker)
  BY <1>1 DEF IInv, Typed
<1> QED
  BY <1>1, <1>3, <1>4, <1>5, TickerStepKeeps DEF b

\* A tick is sent.
LEMMA SendEventKeeps ==
  ASSUME TimerAssumption, IInv, NEW n \in DOMAIN ticker, SendEvent(n)
  PROVE  IInv'
<1> DEFINE b == ticker[n]
           k == [b EXCEPT !.pc = "next", !.ticks = b.ticks + 1]
<1>1. /\ b.pc = "fire" /\ ticker' = [ticker EXCEPT ![n] = k] /\ loop' = n
      /\ UNCHANGED <<now, serviceVars, handler, waiters>>
  BY DEF SendEvent
<1>2. b \in TickerRec /\ OnTime(b, now) /\ now \in Nat
  BY TickerFacts DEF IInv, Punctual
<1> HIDE DEF b
<1>3. /\ k \in TickerRec /\ k.job = b.job /\ k.stopped = b.stopped /\ k.pc = "next"
      /\ k.sched = b.sched /\ k.deadline = b.deadline /\ k.last = b.last
      /\ k.ticks = b.ticks + 1
  <2>1. b.ticks \in Nat /\ b.ticks + 1 \in Nat
    BY <1>2 DEF TickerRec
  <2> DEFINE c == b.ticks + 1
  <2>2. c \in Nat /\ k = [b EXCEPT !.pc = "next", !.ticks = c]
    BY <2>1
  <2> HIDE DEF c, k
  <2>3. k.ticks = c
    BY <1>2, <2>2 DEF TickerRec
  <2>4. /\ k \in TickerRec /\ k.job = b.job /\ k.stopped = b.stopped /\ k.pc = "next"
        /\ k.sched = b.sched /\ k.deadline = b.deadline /\ k.last = b.last
    BY <1>2, <2>2 DEF TickerRec, Stages
  <2> QED
    BY <2>3, <2>4 DEF c
<1> HIDE DEF k
<1>4. /\ b.sched.start \in Nat /\ b.sched.interval \in Nat /\ b.sched.repeat \in Nat
      /\ b.ticks \in Nat /\ b.deadline \in Int
  BY <1>2, ScheduleFacts DEF TickerRec
<1>5. OnTime(k, now)
  <2>1. k.pc # "ended" /\ k.pc \notin {"sleep", "fire"} /\ k.deadline > 0
    BY <1>1, <1>2, <1>3 DEF OnTime
  <2>2. ASSUME Repeats(b)
        PROVE  /\ k.ticks <= k.sched.repeat + 1
               /\ now + b.sched.interval >= b.sched.start + b.sched.interval * (b.ticks + 1)
    <3>1. /\ b.ticks <= b.sched.repeat /\ now >= b.deadline
          /\ b.deadline >= b.sched.start + b.sched.interval * b.ticks
      BY <1>1, <1>2, <2>2 DEF OnTime
    <3>2. b.sched.interval * (b.ticks + 1) = b.sched.interval * b.ticks + b.sched.interval
      <4> DEFINE i == b.sched.interval
                 c == b.ticks
      <4>1. i \in Nat /\ c \in Nat
        BY <1>4
      <4> HIDE DEF i, c
      <4>2. i * (c + 1) = i * c + i
        BY <4>1
      <4> QED
        BY <4>2 DEF i, c
    <3>3. b.sched.interval * b.ticks \in Nat
      BY <1>4
    <3> QED
      BY <1>2, <1>3, <1>4, <3>1, <3>2, <3>3
  <2> QED
    BY <1>3, <2>1, <2>2 DEF OnTime, Repeats
<1>6. loop' \in 0..Len(ticker)
  BY <1>1, TickerFacts DEF IInv
<1> QED
  BY <1>1, <1>3, <1>5, <1>6, TickerStepKeeps DEF b

\* The goroutine of the producer has published.
LEMMA PublishedKeeps ==
  ASSUME TimerAssumption, IInv, Published
  PROVE  IInv'
<1>1. loop' = 0 /\ UNCHANGED <<now, serviceVars, handler, waiters, ticker>>
  BY DEF Published
<1>2. Typed'
  BY <1>1, TickerFacts DEF IInv, Typed, serviceVars
<1>3. Punctual' /\ OnlyRegisteredTick' /\ Registered'
  BY <1>1 DEF IInv, Punctual, OnlyRegisteredTick, Registered
<1> QED
  BY <1>2, <1>3 DEF IInv

\* A ticker goes on after a tick.
LEMMA AgainKeeps ==
  ASSUME TimerAssumption, IInv, NEW n \in DOMAIN ticker, Again(n)
  PROVE  IInv'
<1> DEFINE b == ticker[n]
           k == WaitUntilNext([b EXCEPT !.last = now], now)
<1>1. /\ b.pc = "next" /\ now > b.sched.start /\ ticker' = [ticker EXCEPT ![n] = k]
      /\ UNCHANGED <<now, serviceVars, handler, waiters, loop>>
  BY DEF Again
<1>2. b \in TickerRec /\ OnTime(b, now) /\ now \in Nat
  BY TickerFacts DEF IInv, Punctual
<1> HIDE DEF b
<1>3. /\ k \in TickerRec /\ k.job = b.job /\ OnTime(k, now)
      /\ k.pc # "ended" => k.stopped = b.stopped
  BY <1>1, <1>2, NextWaitUntilNext
<1> HIDE DEF k
<1>4. loop' \in 0..Len(ticker)
  BY <1>1 DEF IInv, Typed
<1> QED
  BY <1>1, <1>3, <1>4, TickerStepKeeps DEF b

----------------------------------------------------------------------------
(***************************************************************************)
(* The theorems.                                                           *)
(***************************************************************************)

\* No ticker and no event at the start.
LEMMA InitIInv == ASSUME TimerAssumption, Init PROVE IInv
<1>1. /\ now = 1 /\ events = <<>> /\ nEvents = 0 /\ handler = Idle /\ ticker = <<>>
      /\ loop = 0 /\ schedule = [j \in Job |-> NoSchedule]
      /\ waiters = [j \in Job |-> 0]
  BY DEF Init
<1>2. <<>> \in Seq(EventRec) /\ <<>> \in Seq(TickerRec) /\ Len(<<>>) = 0 /\ DOMAIN <<>> = {}
  OBVIOUS
<1>3. Typed
  BY <1>1, <1>2 DEF Typed, HandlerRec, TimerAssumption
<1>4. Punctual /\ OnlyRegisteredTick
  BY <1>1, <1>2 DEF Punctual, OnlyRegisteredTick
<1>5. Registered
  BY <1>1, <1>2 DEF Registered, Idle
<1> QED
  BY <1>3, <1>4, <1>5 DEF IInv

\* Every step keeps the inductive invariant.
LEMMA NextIInv == ASSUME TimerAssumption, IInv, [Next]_vars PROVE IInv'
<1>1. ASSUME NEW j \in Job, NEW s \in Schedules \cup {NoSchedule, Removed}, ChangeJob(j, s)
      PROVE  IInv'
  BY <1>1, ChangeJobKeeps
<1>2. CASE Tick
  BY <1>2, TickKeeps
<1>3. CASE Handler
  BY <1>3, HandleEventKeeps, SendStopKeeps, StartJobKeeps DEF Handler
<1>4. CASE Published
  BY <1>4, PublishedKeeps
<1>5. ASSUME NEW n \in DOMAIN ticker, Ticking(n) PROVE IInv'
  BY <1>5, FireKeeps, SendEventKeeps, AgainKeeps DEF Ticking
<1>6. CASE UNCHANGED vars
  BY <1>6 DEF vars, IInv, Typed, Punctual, OnlyRegisteredTick, Registered
<1> QED
  BY <1>1, <1>2, <1>3, <1>4, <1>5, <1>6 DEF Next

\* The inductive invariant holds in every state.
THEOREM Invariance == ASSUME TimerAssumption PROVE Spec => []IInv
<1>1. Init => IInv
  BY InitIInv
<1>2. IInv /\ [Next]_vars => IInv'
  BY NextIInv
<1> QED
  BY <1>1, <1>2, PTL DEF Spec

\* The state of the timer service has its types.
THEOREM TypeCorrect == ASSUME TimerAssumption PROVE Spec => []TypeOK
<1>1. ASSUME IInv PROVE TypeOK
  <2>1. handler.pc \in {"idle", "stop", "start"}
    BY <1>1 DEF IInv, Typed, HandlerRec, Idle
  <2>2. ASSUME NEW n \in DOMAIN ticker
        PROVE  /\ ticker[n].pc \in {"sleep", "fire", "next", "ended"}
               /\ ticker[n].pc # "ended" => ticker[n].deadline > 0
               /\ ticker[n].pc = "ended" => ticker[n].stopped
    BY <1>1, TickerFacts DEF IInv, Punctual, OnTime, TickerRec, Stages
  <2> QED
    BY <1>1, <2>1, <2>2 DEF IInv, Typed, TypeOK
<1> QED
  BY <1>1, Invariance, PTL

\* A job has one live ticker at most, the registered one, however updates,
\* removals and late goroutines interleave.
THEOREM OneTicker == ASSUME TimerAssumption PROVE Spec => []OnlyRegisteredTick
<1>1. IInv => OnlyRegisteredTick
  BY DEF IInv
<1> QED
  BY <1>1, Invariance, PTL

\* A schedule with R repetitions fires at most R times after the first.
THEOREM RepetitionsKept == ASSUME TimerAssumption PROVE Spec => []RepeatRespected
<1>1. IInv => RepeatRespected
  BY DEF IInv, Punctual, OnTime, Repeats, RepeatRespected
<1> QED
  BY <1>1, Invariance, PTL

\* A ticker fires after its schedule starts, and an interval after its last
\* tick, however late its goroutines are.
THEOREM TicksSpaced == ASSUME TimerAssumption PROVE Spec => Spaced
<1> DEFINE Due(n) == /\ now >= ticker[n].sched.start
                     /\ ticker[n].last > 0 => now >= ticker[n].last + ticker[n].sched.interval
           Step == \A n \in DOMAIN ticker : ticker'[n].ticks > ticker[n].ticks => Due(n)
<1>1. ASSUME TimerAssumption, IInv, Next PROVE Step
  <2> SUFFICES ASSUME NEW n \in DOMAIN ticker, ticker'[n].ticks > ticker[n].ticks
               PROVE  Due(n)
    OBVIOUS
  <2>1. /\ ticker[n] \in TickerRec /\ ticker[n].ticks \in Nat /\ Typed
        /\ \A m \in DOMAIN ticker : ticker[m] \in TickerRec
    BY <1>1, TickerFacts DEF IInv, TickerRec
  <2>2. ASSUME NEW m \in DOMAIN ticker, SendEvent(m) PROVE Due(n)
    <3>1. CASE m = n
      <4>1. ticker[n].pc = "fire" /\ OnTime(ticker[n], now)
        BY <1>1, <2>2, <3>1 DEF SendEvent, IInv, Punctual
      <4>2. /\ ticker[n].deadline \in Int /\ ticker[n].sched.start \in Nat
            /\ ticker[n].sched.interval \in Nat /\ ticker[n].last \in Nat /\ now \in Nat
        BY <1>1, <2>1, ScheduleFacts, TickerFacts DEF TickerRec
      <4> QED
        BY <4>1, <4>2 DEF OnTime
    <3>2. CASE m # n
      BY <2>1, <2>2, <3>2 DEF SendEvent
    <3> QED
      BY <3>1, <3>2
  <2>3. ASSUME NEW m \in DOMAIN ticker, Fire(m) PROVE FALSE
    BY <2>1, <2>3 DEF Fire, TickerRec
  <2>4. ASSUME NEW m \in DOMAIN ticker, Again(m) PROVE FALSE
    <3> DEFINE k == WaitUntilNext([ticker[m] EXCEPT !.last = now], now)
    <3>1. k.ticks = ticker[m].ticks
      BY <1>1, <2>4, TickerFacts, NextWaitUntilNext DEF Again, IInv, Punctual
    <3>2. ticker' = [ticker EXCEPT ![m] = k]
      BY <2>4 DEF Again
    <3> HIDE DEF k
    <3> QED
      BY <2>1, <3>1, <3>2
  <2>5. CASE SendStop
    <3> DEFINE m == waiters[handler.job]
    <3>1. ticker' = [ticker EXCEPT ![m].pc = "ended"]
      BY <2>5 DEF SendStop
    <3> HIDE DEF m
    <3> QED
      BY <2>1, <3>1 DEF TickerRec
  <2>6. CASE HandleEvent
    <3> DEFINE m == waiters[Head(events).job]
    <3>1. ticker' = ticker \/ ticker' = [ticker EXCEPT ![m].stopped = TRUE]
      BY <2>6 DEF HandleEvent
    <3> HIDE DEF m
    <3> QED
      BY <2>1, <3>1 DEF TickerRec
  <2>7. CASE StartJob
    <3> DEFINE k == WaitUntilNext(NewTicker(handler.job, handler.sched), now)
    <3>1. ticker' = Append(ticker, k)
      BY <2>7 DEF StartJob
    <3> HIDE DEF k
    <3>2. ticker'[n] = ticker[n]
      <4>1. ticker \in Seq(TickerRec) /\ n \in 1..Len(ticker)
        BY <2>1, TickerFacts DEF Typed
      <4> QED
        BY <3>1, <4>1
    <3> QED
      BY <2>1, <3>2
  <2>8. CASE Tick \/ Published \/ \E j \in Job : \E s \in Schedules \cup {NoSchedule, Removed} :
               ChangeJob(j, s)
    <3>1. ticker' = ticker
      BY <2>8 DEF Tick, Published, ChangeJob
    <3> QED
      BY <2>1, <3>1
  <2> QED
    BY <1>1, <2>2, <2>3, <2>4, <2>5, <2>6, <2>7, <2>8 DEF Next, Handler, Ticking
<1>2. IInv /\ [Next]_vars => [Step]_vars
  BY <1>1
<1> QED
  BY <1>2, Invariance, PTL DEF Spec, Spaced

=============================================================================
