-------------------------- MODULE DispatcherProofs --------------------------
(***************************************************************************)
(* Proofs about Dispatcher, for any jobs, any concurrency and any number   *)
(* of dispatchers: a worker is given one runnable at a time, a worker that *)
(* comes back finds room in the pool, and the gauge of active workers is   *)
(* exact and bounded.                                                      *)
(***************************************************************************)
EXTENDS Dispatcher, FiniteSetTheorems, FunctionTheorems, SequenceTheorems, TLAPS

States == {"none", "active", "inactive"}

Stages == {"register", "select", "busy", "stopped"}

DispRec == [job : Job, loop : BOOLEAN, quit : BOOLEAN, active : Int]

\* The worker that a runnable was given to, or will be handed to.
On(r) == <<place[r].d, place[r].w>>

\* The runnables that count as active on d.
Running(d) == {r \in Runnable : place[r].st \in {"running", "finishing"} /\ place[r].d = d}

EventsTyped ==
  /\ store \in [Job -> States] /\ defs \in [Job -> States]
  /\ putsLeft \in [Job -> Nat] /\ trigger \in [Job -> Nat]
  /\ config \in [Job -> Seq(States)]

\* Until the runs are counted, the gauge of a dispatcher is any integer.
PoolTyped ==
  /\ disp \in Seq(DispRec)
  /\ current \in [Job -> 0..Len(disp)] /\ main \in 0..Len(disp)
  /\ worker \in [UNION {Workers(d) : d \in DOMAIN disp} -> Stages]
  /\ pool \in [DOMAIN disp -> SUBSET DOMAIN worker]
  /\ \A d \in DOMAIN disp : pool[d] \subseteq Workers(d)
  /\ stopping \subseteq DOMAIN worker

\* A runnable on its way to a dispatcher or with it names an existing one, and
\* one on a worker names a worker of that dispatcher.
PlaceTyped ==
  /\ place \in [Runnable -> [st : Places, d : 0..Len(disp), w : Nat]]
  /\ \A r \in Runnable :
       /\ place[r].st \notin {"new", "pending"} => place[r].d \in DOMAIN disp
       /\ place[r].st \in OnWorker => On(r) \in Workers(place[r].d)

\* The workers in a pool are free: they wait for a runnable, or have stopped.
PoolIsFree ==
  \A d \in DOMAIN disp : \A x \in pool[d] : worker[x] \in {"select", "stopped"}

\* A worker out of the pool that waits was taken for a runnable, and one that
\* holds a runnable is busy with it.
HoldersAreBusy ==
  \A r \in Runnable :
    /\ place[r].st = "assigned" => worker[On(r)] \in {"select", "stopped"}
    /\ place[r].st \in {"held", "running", "finishing"} => worker[On(r)] = "busy"

\* The gauge counts the runs, whose number is finite.
GaugeCounts ==
  \A d \in DOMAIN disp : /\ IsFiniteSet(Running(d))
                         /\ disp[d].active = Cardinality(Running(d))

\* The inductive invariant.
IInv ==
  /\ EventsTyped /\ PoolTyped /\ PlaceTyped
  /\ PoolIsFree /\ HoldersAreBusy /\ OneRunnablePerWorker
  /\ GaugeCounts

----------------------------------------------------------------------------
(***************************************************************************)
(* Sequences of dispatchers, and records of places.                        *)
(***************************************************************************)

\* A function over 1..n is a sequence of length n.
LEMMA FunctionIsSeq ==
  ASSUME NEW S, NEW n \in Nat, NEW f \in [1..n -> S]
  PROVE  f \in Seq(S) /\ Len(f) = n
OBVIOUS

\* Flagging, stopping or counting on one dispatcher leaves the others alone,
\* and every job where it is.
LEMMA DispExcept ==
  ASSUME NEW ds \in Seq(DispRec), NEW d \in DOMAIN ds, NEW e \in DispRec, e.job = ds[d].job
  PROVE  /\ [ds EXCEPT ![d] = e] \in Seq(DispRec)
         /\ Len([ds EXCEPT ![d] = e]) = Len(ds)
         /\ DOMAIN [ds EXCEPT ![d] = e] = DOMAIN ds
         /\ [ds EXCEPT ![d] = e][d] = e
         /\ \A c \in DOMAIN ds : /\ c # d => [ds EXCEPT ![d] = e][c] = ds[c]
                                 /\ [ds EXCEPT ![d] = e][c].job = ds[c].job
BY ExceptSeq, LenProperties

\* The dispatcher told to quit keeps its job and its gauge.
LEMMA StoppedFacts ==
  ASSUME disp \in Seq(DispRec), NEW d \in DOMAIN disp
  PROVE  /\ Stopped(d) \in Seq(DispRec) /\ Len(Stopped(d)) = Len(disp)
         /\ DOMAIN Stopped(d) = DOMAIN disp
         /\ \A c \in DOMAIN disp : /\ Stopped(d)[c].job = disp[c].job
                                   /\ Stopped(d)[c].active = disp[c].active
<1> DEFINE e == [disp[d] EXCEPT !.quit = TRUE]
<1>1. disp[d] \in DispRec
  BY LenProperties, ElementOfSeq
<1>2. e \in DispRec /\ e.job = disp[d].job /\ e.active = disp[d].active
  BY <1>1 DEF DispRec
<1>3. Stopped(d) = [disp EXCEPT ![d] = e]
  BY DEF Stopped
<1> HIDE DEF e
<1> QED
  BY <1>2, <1>3, DispExcept

\* A dispatcher whose loop has returned does too.
LEMMA LoopEnds ==
  ASSUME disp \in Seq(DispRec), NEW d \in DOMAIN disp,
         disp' = [disp EXCEPT ![d].loop = FALSE]
  PROVE  /\ disp' \in Seq(DispRec) /\ Len(disp') = Len(disp) /\ DOMAIN disp' = DOMAIN disp
         /\ \A c \in DOMAIN disp : disp'[c].job = disp[c].job /\ disp'[c].active = disp[c].active
<1> DEFINE e == [disp[d] EXCEPT !.loop = FALSE]
<1>1. disp[d] \in DispRec
  BY LenProperties, ElementOfSeq
<1>2. e \in DispRec /\ e.job = disp[d].job /\ e.active = disp[d].active
  BY <1>1 DEF DispRec
<1>3. disp' = [disp EXCEPT ![d] = e]
  OBVIOUS
<1> DEFINE ds == [disp EXCEPT ![d] = e]
<1> HIDE DEF e
<1>4. /\ ds \in Seq(DispRec) /\ Len(ds) = Len(disp) /\ DOMAIN ds = DOMAIN disp /\ ds[d] = e
      /\ \A c \in DOMAIN disp : /\ c # d => ds[c] = disp[c]
                                /\ ds[c].job = disp[c].job
  BY <1>2, DispExcept
<1> HIDE DEF ds
<1>5. disp' = ds
  BY <1>3 DEF ds
<1> QED
  BY <1>2, <1>4, <1>5

\* A value received from activeChan changes the gauge by it, and nothing else.
LEMMA ActiveReceivedFacts ==
  ASSUME disp \in Seq(DispRec), NEW d \in DOMAIN disp, NEW delta \in Int,
         ActiveReceived(d, delta)
  PROVE  /\ disp' \in Seq(DispRec) /\ Len(disp') = Len(disp) /\ DOMAIN disp' = DOMAIN disp
         /\ disp'[d].active = disp[d].active + delta
         /\ \A c \in DOMAIN disp : /\ disp'[c].job = disp[c].job
                                   /\ c # d => disp'[c].active = disp[c].active
<1> DEFINE e == [disp[d] EXCEPT !.active = @ + delta]
<1>1. disp[d] \in DispRec
  BY LenProperties, ElementOfSeq
<1>2. e \in DispRec /\ e.job = disp[d].job /\ e.active = disp[d].active + delta
  BY <1>1 DEF DispRec
<1>3. disp' = [disp EXCEPT ![d] = e]
  BY DEF ActiveReceived
<1> HIDE DEF e
<1> QED
  BY <1>2, <1>3, DispExcept

\* The workers of a dispatcher carry its number, and are finitely many.
LEMMA WorkersFacts ==
  ASSUME DispatcherAssumption, disp \in Seq(DispRec), NEW d \in DOMAIN disp
  PROVE  /\ MaxWorker(disp[d].job) \in Nat
         /\ IsFiniteSet(Workers(d)) /\ Cardinality(Workers(d)) = MaxWorker(disp[d].job)
         /\ \A x \in Workers(d) : x = <<d, x[2]>> /\ x[1] = d /\ x[2] \in Nat
<1> DEFINE n == MaxWorker(disp[d].job)
<1>1. disp[d].job \in Job
  <2>1. disp[d] \in DispRec
    BY LenProperties, ElementOfSeq
  <2> QED
    BY <2>1 DEF DispRec
<1>2. n \in Nat
  BY <1>1 DEF MaxWorker, DispatcherAssumption
<1>3. Workers(d) = {d} \X (1..n)
  BY DEF Workers
<1> HIDE DEF n
<1>4. IsFiniteSet({d}) /\ Cardinality({d}) = 1
  BY FS_Singleton
<1>5. IsFiniteSet(1..n) /\ Cardinality(1..n) = n
  BY <1>2, FS_Interval
<1>6. /\ IsFiniteSet({d} \X (1..n))
      /\ Cardinality({d} \X (1..n)) = Cardinality({d}) * Cardinality(1..n)
  BY <1>4, <1>5, FS_Product
<1>7. \A x \in Workers(d) : x = <<d, x[2]>> /\ x[1] = d /\ x[2] \in Nat
  BY <1>2, <1>3
<1> QED
  BY <1>2, <1>3, <1>4, <1>5, <1>6, <1>7 DEF n

\* Starting a dispatcher next to ds, which has the jobs of disp, changes none
\* of the dispatchers and workers there are.
LEMMA RunFacts ==
  ASSUME DispatcherAssumption, PoolTyped, NEW j \in Job, NEW ds \in Seq(DispRec),
         NEW n, n = Len(disp) + 1,
         DOMAIN ds = DOMAIN disp, Len(ds) = Len(disp),
         \A d \in DOMAIN disp : ds[d].job = disp[d].job,
         Run(j, ds)
  PROVE  /\ disp' \in Seq(DispRec) /\ Len(disp') = n /\ DOMAIN disp' = DOMAIN disp \cup {n}
         /\ n \notin DOMAIN disp /\ DOMAIN disp \subseteq Nat
         /\ \A d \in DOMAIN disp : disp'[d] = ds[d] /\ Workers(d)' = Workers(d)
         /\ disp'[n].active = 0
         /\ pool' \in [DOMAIN disp' -> SUBSET DOMAIN worker'] /\ pool'[n] = {}
         /\ \A d \in DOMAIN disp : pool'[d] = pool[d]
         /\ worker' \in [UNION {Workers(d)' : d \in DOMAIN disp'} -> Stages]
         /\ \A x \in DOMAIN worker : worker'[x] = worker[x]
         /\ \A x \in DOMAIN worker' \ DOMAIN worker : worker'[x] = "register"
         /\ DOMAIN worker \subseteq DOMAIN worker'
         /\ current' = [current EXCEPT ![j] = n]
<1> DEFINE e == NewDispatcher(j)
<1>1. Len(disp) \in Nat /\ DOMAIN disp = 1..Len(disp) /\ DOMAIN ds = 1..Len(disp)
  BY LenProperties DEF PoolTyped
<1>2. e \in DispRec /\ e.job = j /\ e.active = 0
  BY DEF NewDispatcher, DispRec
<1>3. /\ disp' = Append(ds, e) /\ pool' = Append(pool, {})
      /\ current' = [current EXCEPT ![j] = n]
  BY DEF Run
<1> HIDE DEF e
<1>4. /\ disp' \in Seq(DispRec) /\ Len(disp') = n
      /\ DOMAIN disp' = 1..n
      /\ \A d \in DOMAIN disp : disp'[d] = ds[d]
      /\ disp'[n] = e
  <2>1. /\ disp' \in Seq(DispRec) /\ Len(disp') = Len(ds) + 1
        /\ \A d \in 1..Len(ds) : disp'[d] = ds[d]
        /\ disp'[Len(ds) + 1] = e
    BY <1>2, <1>3, AppendProperties
  <2>2. DOMAIN disp' = 1..Len(disp')
    BY <2>1, LenProperties
  <2> QED
    BY <2>1, <2>2, <1>1
<1>5. DOMAIN disp' = DOMAIN disp \cup {n} /\ n \notin DOMAIN disp /\ DOMAIN disp \subseteq Nat
  BY <1>1, <1>4
<1>6. pool \in Seq(SUBSET DOMAIN worker) /\ Len(pool) = Len(disp)
  <2>1. pool \in [DOMAIN disp -> SUBSET DOMAIN worker]
    BY DEF PoolTyped
  <2> HIDE DEF PoolTyped
  <2> QED
    BY <2>1, <1>1, FunctionIsSeq
<1>7. DOMAIN pool' = 1..n /\ pool'[n] = {} /\ \A d \in DOMAIN disp : pool'[d] = pool[d]
  BY <1>1, <1>3, <1>6
<1>8. \A d \in DOMAIN disp : Workers(d)' = Workers(d)
  BY <1>4 DEF Workers
<1>9. Workers(n)' = {n} \X (1..MaxWorker(j))
  BY <1>2, <1>4 DEF Workers, MaxWorker
<1>10. worker' = [x \in DOMAIN worker \cup Workers(n)' |->
                    IF x \in Workers(n)' THEN "register" ELSE worker[x]]
  BY <1>1, <1>9 DEF Run
<1>11. DOMAIN worker' = UNION {Workers(d)' : d \in DOMAIN disp'}
  BY <1>5, <1>8, <1>10 DEF PoolTyped
<1>12. \A x \in DOMAIN worker : x \notin Workers(n)'
  <2> SUFFICES ASSUME NEW x \in DOMAIN worker, x \in Workers(n)' PROVE FALSE
    OBVIOUS
  <2>1. PICK d \in DOMAIN disp : x \in Workers(d)
    BY DEF PoolTyped
  <2>2. x[1] = d
    BY <2>1, WorkersFacts DEF PoolTyped
  <2>3. x[1] = n
    BY <1>9
  <2> QED
    BY <2>2, <2>3, <1>5
<1>13. worker' \in [UNION {Workers(d)' : d \in DOMAIN disp'} -> Stages]
  BY <1>10, <1>11 DEF PoolTyped, Stages
<1>14. /\ \A x \in DOMAIN worker : worker'[x] = worker[x]
       /\ \A x \in DOMAIN worker' \ DOMAIN worker : worker'[x] = "register"
       /\ DOMAIN worker \subseteq DOMAIN worker'
  BY <1>10, <1>12
<1>15. pool' \in [DOMAIN disp' -> SUBSET DOMAIN worker']
  <2>1. pool' \in Seq(SUBSET DOMAIN worker)
    BY <1>3, <1>6, AppendProperties
  <2>2. pool' \in [1..n -> SUBSET DOMAIN worker]
    BY <2>1, <1>7, LenProperties
  <2> QED
    BY <2>2, <1>4, <1>14
<1> QED
  BY <1>2, <1>3, <1>4, <1>5, <1>7, <1>8, <1>13, <1>14, <1>15

----------------------------------------------------------------------------
(***************************************************************************)
(* Steps that hand nothing to a worker.                                    *)
(***************************************************************************)

\* The place of one runnable changes; dispatchers are only added.
LEMMA PlaceStep ==
  ASSUME PlaceTyped, Len(disp) \in Nat, Len(disp') \in Nat, Len(disp) <= Len(disp'),
         DOMAIN disp \subseteq DOMAIN disp',
         \A d \in DOMAIN disp : Workers(d)' = Workers(d),
         NEW r \in Runnable, NEW p \in [st : Places, d : 0..Len(disp'), w : Nat],
         p.st \notin {"new", "pending"} => p.d \in DOMAIN disp',
         \A d \in DOMAIN disp' : p.st \in OnWorker /\ d = p.d => <<p.d, p.w>> \in Workers(d)',
         place' = [place EXCEPT ![r] = p]
  PROVE  /\ PlaceTyped'
         /\ place'[r] = p /\ On(r)' = <<p.d, p.w>>
         /\ \A q \in Runnable : q # r => place'[q] = place[q] /\ On(q)' = On(q)
<1>1. /\ place' \in [Runnable -> [st : Places, d : 0..Len(disp'), w : Nat]]
      /\ place'[r] = p /\ \A q \in Runnable : q # r => place'[q] = place[q]
  BY DEF PlaceTyped
<1>2. On(r)' = <<p.d, p.w>> /\ \A q \in Runnable : q # r => On(q)' = On(q)
  BY <1>1 DEF On
<1>3. ASSUME NEW q \in Runnable
      PROVE  /\ place'[q].st \notin {"new", "pending"} => place'[q].d \in DOMAIN disp'
             /\ place'[q].st \in OnWorker => (On(q) \in Workers(place[q].d))'
  <2>1. CASE q = r
    <3>1. place'[q] = p /\ On(q)' = <<p.d, p.w>>
      BY <2>1, <1>1, <1>2
    <3>2. p.st \in OnWorker => p.d \in DOMAIN disp'
      BY DEF OnWorker
    <3>3. p.st \in OnWorker => <<p.d, p.w>> \in Workers(p.d)'
      BY <3>2
    <3> QED
      BY <3>1, <3>3 DEF Workers
  <2>2. CASE q # r
    BY <2>2, <1>1, <1>2 DEF PlaceTyped, OnWorker, Workers
  <2> QED
    BY <2>1, <2>2
<1> QED
  BY <1>1, <1>2, <1>3 DEF PlaceTyped

\* Nothing moves and no dispatcher goes.
LEMMA PlaceSame ==
  ASSUME PlaceTyped, Len(disp) \in Nat, Len(disp') \in Nat, Len(disp) <= Len(disp'),
         DOMAIN disp \subseteq DOMAIN disp',
         \A d \in DOMAIN disp : Workers(d)' = Workers(d),
         place' = place
  PROVE  PlaceTyped' /\ \A q \in Runnable : On(q)' = On(q)
BY DEF PlaceTyped, On, OnWorker

\* The runs of a dispatcher are the same if no runnable starts or ends one.
LEMMA RunningSame ==
  ASSUME NEW d,
         \A r \in Runnable :
           (place'[r].st \in {"running", "finishing"} /\ place'[r].d = d)
             <=> (place[r].st \in {"running", "finishing"} /\ place[r].d = d)
  PROVE  Running(d)' = Running(d)
BY DEF Running

\* A step that changes no pool, no worker and no gauge, and moves runnables
\* only outside workers, keeps the invariant; a new dispatcher has an empty
\* pool and no run.
LEMMA OutsideWorkers ==
  ASSUME IInv, PlaceTyped',
         DOMAIN disp \subseteq DOMAIN disp',
         \A d \in DOMAIN disp : /\ Workers(d)' = Workers(d) /\ pool'[d] = pool[d]
                                /\ disp'[d].active = disp[d].active,
         \A d \in DOMAIN disp' \ DOMAIN disp : pool'[d] = {} /\ disp'[d].active = 0,
         \A x \in DOMAIN worker : worker'[x] = worker[x],
         \A r \in Runnable : \/ place'[r] = place[r]
                             \/ place[r].st \notin OnWorker /\ place'[r].st \notin OnWorker
  PROVE  PoolIsFree' /\ HoldersAreBusy' /\ OneRunnablePerWorker' /\ GaugeCounts'
<1>1. ASSUME NEW r \in Runnable, place'[r].st \in OnWorker
      PROVE  /\ place'[r] = place[r] /\ On(r)' = On(r)
             /\ place[r].d \in DOMAIN disp /\ On(r) \in DOMAIN worker
  <2>1. place'[r] = place[r]
    BY <1>1
  <2>2. place[r].d \in DOMAIN disp /\ On(r) \in Workers(place[r].d)
    BY <1>1, <2>1 DEF IInv, PlaceTyped, OnWorker
  <2> QED
    BY <2>1, <2>2 DEF On, IInv, PoolTyped
<1>2. PoolIsFree'
  <2> SUFFICES ASSUME NEW d \in DOMAIN disp', NEW x \in pool'[d]
               PROVE  worker'[x] \in {"select", "stopped"}
    BY DEF PoolIsFree
  <2>1. d \in DOMAIN disp /\ x \in pool[d]
    OBVIOUS
  <2>2. x \in DOMAIN worker
    BY <2>1 DEF IInv, PoolTyped
  <2> QED
    BY <2>1, <2>2 DEF IInv, PoolIsFree
<1>3. HoldersAreBusy'
  BY <1>1 DEF HoldersAreBusy, OnWorker, IInv
<1>4. OneRunnablePerWorker'
  BY <1>1 DEF OneRunnablePerWorker, OnWorker, IInv, On
<1>5. GaugeCounts'
  <2> SUFFICES ASSUME NEW d \in DOMAIN disp'
               PROVE  /\ IsFiniteSet(Running(d)')
                      /\ disp'[d].active = Cardinality(Running(d)')
    BY DEF GaugeCounts
  <2>1. Running(d)' = Running(d)
    <3>1. \A r \in Runnable :
            (place'[r].st \in {"running", "finishing"} /\ place'[r].d = d)
              <=> (place[r].st \in {"running", "finishing"} /\ place[r].d = d)
      BY DEF OnWorker
    <3> QED
      BY <3>1, RunningSame
  <2>2. CASE d \in DOMAIN disp
    BY <2>1, <2>2 DEF IInv, GaugeCounts
  <2>3. CASE d \notin DOMAIN disp
    <3>1. Running(d) = {}
      BY <2>3 DEF Running, IInv, PlaceTyped
    <3> QED
      BY <2>1, <2>3, <3>1, FS_EmptySet
  <2> QED
    BY <2>2, <2>3
<1> QED
  BY <1>2, <1>3, <1>4, <1>5

\* What the invariant says of the dispatchers there are.
LEMMA DispFacts ==
  ASSUME PoolTyped
  PROVE  /\ Len(disp) \in Nat /\ DOMAIN disp = 1..Len(disp)
         /\ \A d \in DOMAIN disp : disp[d] \in DispRec /\ disp[d].active \in Int
<1>1. Len(disp) \in Nat /\ DOMAIN disp = 1..Len(disp)
  BY LenProperties DEF PoolTyped
<1>2. \A d \in DOMAIN disp : disp[d] \in DispRec
  BY <1>1, ElementOfSeq DEF PoolTyped
<1> QED
  BY <1>1, <1>2 DEF DispRec

\* Dispatchers, workers and runnables are left alone.
LEMMA Undisturbing ==
  ASSUME IInv, UNCHANGED <<dispVars, main, place>>
  PROVE  /\ PoolTyped' /\ PlaceTyped'
         /\ PoolIsFree' /\ HoldersAreBusy' /\ OneRunnablePerWorker' /\ GaugeCounts'
<1> USE DEF IInv, dispVars
<1>1. PoolTyped'
  BY DEF PoolTyped, Workers
<1>2. PlaceTyped'
  BY DEF PlaceTyped, On, Workers
<1>3. PoolIsFree' /\ HoldersAreBusy'
  BY DEF PoolIsFree, HoldersAreBusy, On
<1>4. OneRunnablePerWorker'
  BY DEF OneRunnablePerWorker
<1>5. GaugeCounts'
  BY DEF GaugeCounts, Running
<1> QED
  BY <1>1, <1>2, <1>3, <1>4, <1>5

\* The jobs service appends an event for the subscriber.
LEMMA PutJobKeeps ==
  ASSUME DispatcherAssumption, IInv, NEW j \in Job, NEW s \in {"active", "inactive"},
         PutJob(j, s)
  PROVE  IInv'
<1>1. EventsTyped'
  <2>1. config[j] \in Seq(States) /\ s \in States
    BY DEF IInv, EventsTyped, States
  <2>2. Append(config[j], s) \in Seq(States)
    BY <2>1, AppendProperties
  <2>3. config' \in [Job -> Seq(States)]
    BY <2>2 DEF PutJob, IInv, EventsTyped
  <2>4. store' \in [Job -> States] /\ putsLeft' \in [Job -> Nat] /\ trigger' \in [Job -> Nat]
    BY <2>1 DEF PutJob, IInv, EventsTyped
  <2> QED
    BY <2>3, <2>4 DEF PutJob, IInv, EventsTyped
<1> QED
  BY <1>1, Undisturbing DEF PutJob, IInv

\* Deleting a job publishes an event too.
LEMMA DeleteJobKeeps ==
  ASSUME DispatcherAssumption, IInv, NEW j \in Job, DeleteJob(j)
  PROVE  IInv'
<1>1. EventsTyped'
  <2>1. config[j] \in Seq(States) /\ "none" \in States
    BY DEF IInv, EventsTyped, States
  <2>2. Append(config[j], "none") \in Seq(States)
    BY <2>1, AppendProperties
  <2> QED
    BY <2>1, <2>2 DEF DeleteJob, IInv, EventsTyped
<1> QED
  BY <1>1, Undisturbing DEF DeleteJob, IInv

\* A dispatcher added next to ds keeps everything that is not about events.
LEMMA RunKeeps ==
  ASSUME DispatcherAssumption, IInv, NEW j \in Job, NEW ds \in Seq(DispRec),
         DOMAIN ds = DOMAIN disp, Len(ds) = Len(disp),
         \A d \in DOMAIN disp : ds[d].job = disp[d].job /\ ds[d].active = disp[d].active,
         Run(j, ds), stopping' = stopping, main' \in 0..Len(disp'), PlaceTyped',
         \A r \in Runnable : \/ place'[r] = place[r]
                             \/ place[r].st \notin OnWorker /\ place'[r].st \notin OnWorker
  PROVE  /\ PoolTyped'
         /\ PoolIsFree' /\ HoldersAreBusy' /\ OneRunnablePerWorker' /\ GaugeCounts'
<1> DEFINE n == Len(disp) + 1
<1>1. PoolTyped
  BY DEF IInv
<1>2. /\ disp' \in Seq(DispRec) /\ Len(disp') = n /\ DOMAIN disp' = DOMAIN disp \cup {n}
      /\ n \notin DOMAIN disp /\ DOMAIN disp \subseteq Nat
      /\ \A d \in DOMAIN disp : disp'[d] = ds[d] /\ Workers(d)' = Workers(d)
      /\ disp'[n].active = 0
      /\ pool' \in [DOMAIN disp' -> SUBSET DOMAIN worker'] /\ pool'[n] = {}
      /\ \A d \in DOMAIN disp : pool'[d] = pool[d]
      /\ worker' \in [UNION {Workers(d)' : d \in DOMAIN disp'} -> Stages]
      /\ \A x \in DOMAIN worker : worker'[x] = worker[x]
      /\ DOMAIN worker \subseteq DOMAIN worker'
      /\ current' = [current EXCEPT ![j] = n]
  BY <1>1, RunFacts
<1>3. Len(disp) \in Nat
  BY <1>1, DispFacts
<1> HIDE DEF n
<1>4. PoolTyped'
  <2>1. current' \in [Job -> 0..Len(disp')]
    BY <1>1, <1>2, <1>3 DEF PoolTyped, n
  <2>2. \A d \in DOMAIN disp' : pool'[d] \subseteq Workers(d)'
    BY <1>1, <1>2 DEF PoolTyped
  <2>3. stopping' \subseteq DOMAIN worker'
    BY <1>1, <1>2 DEF PoolTyped
  <2> QED
    BY <1>2, <2>1, <2>2, <2>3 DEF PoolTyped
<1> QED
  BY <1>2, <1>4, OutsideWorkers

\* A job event stops, removes or replaces a dispatcher; nothing of its workers
\* and runnables changes in that step.
LEMMA JobsChangeEventKeeps ==
  ASSUME DispatcherAssumption, IInv, NEW j \in Job, JobsChangeEvent(j)
  PROVE  IInv'
<1>1. EventsTyped'
  <2>1. config[j] \in Seq(States) /\ config[j] # <<>>
    BY DEF IInv, EventsTyped, JobsChangeEvent
  <2>2. Head(config[j]) \in States /\ Tail(config[j]) \in Seq(States)
    BY <2>1, HeadTailProperties
  <2> QED
    BY <2>2 DEF IInv, EventsTyped, JobsChangeEvent
<1>2. /\ place' = place /\ main' = main /\ stopping' = stopping
  BY DEF JobsChangeEvent
<1>3. PoolTyped /\ PlaceTyped /\ Len(disp) \in Nat /\ DOMAIN disp = 1..Len(disp)
  BY DispFacts DEF IInv
<1>4. CASE UNCHANGED <<current, disp, pool, worker>>
  BY <1>1, <1>2, <1>4, Undisturbing DEF IInv, dispVars
<1> DEFINE old == current[j]
<1>5. ASSUME old # 0
      PROVE  /\ Stopped(old) \in Seq(DispRec) /\ Len(Stopped(old)) = Len(disp)
             /\ DOMAIN Stopped(old) = DOMAIN disp
             /\ \A c \in DOMAIN disp : /\ Stopped(old)[c].job = disp[c].job
                                       /\ Stopped(old)[c].active = disp[c].active
  <2>1. old \in DOMAIN disp
    BY <1>3, <1>5 DEF PoolTyped
  <2> QED
    BY <2>1, <1>3, StoppedFacts DEF PoolTyped
<1>6. CASE /\ old # 0 /\ disp' = Stopped(old)
           /\ current' = [current EXCEPT ![j] = 0] /\ UNCHANGED <<pool, worker>>
  <2>1. /\ disp' \in Seq(DispRec) /\ Len(disp') = Len(disp) /\ DOMAIN disp' = DOMAIN disp
        /\ \A d \in DOMAIN disp : /\ Workers(d)' = Workers(d)
                                  /\ disp'[d].active = disp[d].active
    BY <1>5, <1>6 DEF Workers
  <2>2. PoolTyped'
    BY <2>1, <1>2, <1>3, <1>6 DEF PoolTyped
  <2>3. PlaceTyped'
    BY <2>1, <1>2, <1>3, PlaceSame
  <2>4. PoolIsFree' /\ HoldersAreBusy' /\ OneRunnablePerWorker' /\ GaugeCounts'
    BY <2>1, <2>3, <1>2, <1>6, OutsideWorkers
  <2> QED
    BY <1>1, <2>2, <2>3, <2>4 DEF IInv
<1>7. CASE old # 0 /\ Run(j, Stopped(old))
  <2> DEFINE ds == Stopped(old)
  <2>1. /\ ds \in Seq(DispRec) /\ Len(ds) = Len(disp) /\ DOMAIN ds = DOMAIN disp
        /\ \A c \in DOMAIN disp : ds[c].job = disp[c].job /\ ds[c].active = disp[c].active
    BY <1>5, <1>7
  <2>2. Run(j, ds)
    BY <1>7
  <2> HIDE DEF ds, old
  <2>3. /\ Len(disp') = Len(disp) + 1 /\ DOMAIN disp \subseteq DOMAIN disp'
        /\ \A d \in DOMAIN disp : Workers(d)' = Workers(d)
    BY <2>1, <2>2, <1>3, RunFacts
  <2>4. PlaceTyped' /\ main' \in 0..Len(disp')
    BY <2>3, <1>2, <1>3, PlaceSame DEF PoolTyped
  <2>5. PoolTyped' /\ PoolIsFree' /\ HoldersAreBusy' /\ OneRunnablePerWorker' /\ GaugeCounts'
    BY <2>1, <2>2, <2>4, <1>2, RunKeeps
  <2> QED
    BY <1>1, <2>4, <2>5 DEF IInv
<1> QED
  BY <1>4, <1>6, <1>7 DEF JobsChangeEvent

\* Nothing of the dispatchers changes, and one runnable moves outside workers.
LEMMA MoveOutside ==
  ASSUME IInv, UNCHANGED dispVars, main' \in 0..Len(disp),
         NEW r \in Runnable, NEW p \in [st : Places, d : 0..Len(disp), w : Nat],
         place' = [place EXCEPT ![r] = p],
         place[r].st \notin OnWorker, p.st \notin OnWorker,
         p.st \notin {"new", "pending"} => p.d \in DOMAIN disp
  PROVE  /\ PoolTyped' /\ PlaceTyped'
         /\ PoolIsFree' /\ HoldersAreBusy' /\ OneRunnablePerWorker' /\ GaugeCounts'
<1>1. PoolTyped /\ PlaceTyped /\ Len(disp) \in Nat
  BY DispFacts DEF IInv
<1>2. /\ disp' = disp /\ pool' = pool /\ worker' = worker /\ current' = current
      /\ stopping' = stopping /\ \A d \in DOMAIN disp : Workers(d)' = Workers(d)
  BY DEF dispVars, Workers
<1>3. PoolTyped'
  BY <1>1, <1>2 DEF PoolTyped
<1>4. /\ PlaceTyped' /\ place'[r] = p
      /\ \A q \in Runnable : q # r => place'[q] = place[q]
  <2>1. /\ Len(disp') \in Nat /\ Len(disp) <= Len(disp') /\ DOMAIN disp \subseteq DOMAIN disp'
        /\ p \in [st : Places, d : 0..Len(disp'), w : Nat]
        /\ p.st \notin {"new", "pending"} => p.d \in DOMAIN disp'
    BY <1>1, <1>2
  <2> QED
    BY <2>1, <1>1, <1>2, PlaceStep
<1> QED
  BY <1>2, <1>3, <1>4, OutsideWorkers

\* The runnables of a job are among all runnables, and so are chained ones.
LEMMA RunnableFacts ==
  ASSUME DispatcherAssumption
  PROVE  /\ \A j \in Job : Root[j] \subseteq Runnable
         /\ \A r \in Runnable : Child[r] \subseteq Runnable
<1>1. \A j \in Job : Root[j] \subseteq Runnable
  BY DEF Runnable
<1>2. Runnable = DOMAIN Child
  BY DEF DispatcherAssumption
<1>3. ASSUME NEW r \in DOMAIN Child, NEW c \in Child[r] PROVE c \in Runnable
  <2> DEFINE chained == UNION {Child[q] : q \in DOMAIN Child}
             roots == UNION {Root[j] : j \in Job}
  <2>1. c \in chained
    OBVIOUS
  <2>2. Runnable = roots \cup chained
    BY DEF Runnable
  <2> HIDE DEF chained, roots
  <2> QED
    BY <2>1, <2>2
<1> QED
  BY <1>1, <1>2, <1>3

\* A trigger puts a new runnable in the queue, or is skipped.
LEMMA TimerEventKeeps ==
  ASSUME DispatcherAssumption, IInv, NEW j \in Job, TimerEvent(j)
  PROVE  IInv'
<1>1. EventsTyped'
  BY DEF IInv, EventsTyped, TimerEvent
<1>2. UNCHANGED <<dispVars, main>>
  BY DEF TimerEvent
<1>3. CASE UNCHANGED place
  BY <1>1, <1>2, <1>3, Undisturbing DEF IInv
<1>4. ASSUME NEW r \in Root[j], place[r] = New,
             place' = [place EXCEPT ![r] = At("pending", 0, 0)]
      PROVE  IInv'
  <2> DEFINE p == At("pending", 0, 0)
  <2>1. r \in Runnable
    BY RunnableFacts
  <2>2. main' \in 0..Len(disp) /\ Len(disp) \in Nat
    BY <1>2, DispFacts DEF IInv, PoolTyped
  <2>3. /\ p \in [st : Places, d : 0..Len(disp), w : Nat] /\ p.st = "pending"
        /\ p.st \notin OnWorker /\ place[r].st \notin OnWorker
    BY <1>4, <2>2 DEF At, New, Places, OnWorker
  <2>4. place' = [place EXCEPT ![r] = p]
    BY <1>4
  <2> HIDE DEF p
  <2> QED
    BY <1>1, <1>2, <2>1, <2>2, <2>3, <2>4, MoveOutside DEF IInv
<1> QED
  BY <1>3, <1>4 DEF TimerEvent

\* The listener looks a dispatcher up, or makes one, and goes to send to it.
LEMMA ListenToMainQueueKeeps ==
  ASSUME DispatcherAssumption, IInv, NEW j \in Job, NEW r \in Root[j],
         ListenToMainQueue(j, r)
  PROVE  IInv'
<1> DEFINE n == current'[j]
           p == At("forward", n, 0)
<1>1. EventsTyped'
  BY DEF IInv, EventsTyped, ListenToMainQueue, eventVars
<1>2. PoolTyped /\ PlaceTyped /\ Len(disp) \in Nat /\ DOMAIN disp = 1..Len(disp)
  BY DispFacts DEF IInv
<1>3. /\ r \in Runnable /\ main' = n /\ stopping' = stopping
      /\ place[r].st \notin OnWorker
  BY RunnableFacts DEF ListenToMainQueue, OnWorker
<1>4. place' = [place EXCEPT ![r] = p]
  BY DEF ListenToMainQueue
<1>5. ASSUME NEW len \in Nat, n \in 1..len
      PROVE  /\ p \in [st : Places, d : 0..len, w : Nat] /\ p.d = n
             /\ p.st = "forward" /\ p.st \notin OnWorker
  BY <1>5 DEF At, Places, OnWorker
<1> HIDE DEF p
<1>6. CASE current[j] # 0 /\ UNCHANGED <<current, disp, pool, worker>>
  <2>1. n \in 1..Len(disp)
    BY <1>2, <1>6 DEF PoolTyped
  <2>2. UNCHANGED dispVars /\ main' \in 0..Len(disp)
    BY <2>1, <1>2, <1>3, <1>6 DEF dispVars
  <2> QED
    BY <2>1, <2>2, <1>1, <1>2, <1>3, <1>4, <1>5, MoveOutside DEF IInv
<1>7. CASE Run(j, disp)
  <2>1. /\ Len(disp') = Len(disp) + 1 /\ DOMAIN disp' = DOMAIN disp \cup {Len(disp) + 1}
        /\ \A d \in DOMAIN disp : Workers(d)' = Workers(d)
        /\ current' = [current EXCEPT ![j] = Len(disp) + 1]
    <3> DEFINE k == Len(disp) + 1
    <3>1. k = Len(disp) + 1 /\ disp \in Seq(DispRec)
      BY <1>2 DEF PoolTyped
    <3> HIDE DEF k
    <3>2. /\ Len(disp') = k /\ DOMAIN disp' = DOMAIN disp \cup {k}
          /\ \A d \in DOMAIN disp : Workers(d)' = Workers(d)
          /\ current' = [current EXCEPT ![j] = k]
      BY <3>1, <1>2, <1>7, RunFacts
    <3> QED
      BY <3>1, <3>2
  <2>2. n = Len(disp) + 1 /\ n \in 1..Len(disp') /\ n \in DOMAIN disp' /\ Len(disp') \in Nat
    BY <2>1, <1>2 DEF PoolTyped
  <2>3. main' \in 0..Len(disp')
    BY <2>2, <1>3
  <2> HIDE DEF n
  <2>4. /\ p \in [st : Places, d : 0..Len(disp'), w : Nat] /\ p.d = n
        /\ p.st \notin OnWorker
    BY <2>2, <1>5
  <2>5. /\ PlaceTyped' /\ place'[r] = p
        /\ \A q \in Runnable : q # r => place'[q] = place[q]
    <3>1. /\ Len(disp) <= Len(disp') /\ DOMAIN disp \subseteq DOMAIN disp'
          /\ p.d \in DOMAIN disp'
      BY <2>1, <2>2, <2>4, <1>2
    <3>2. /\ \A d \in DOMAIN disp : Workers(d)' = Workers(d)
          /\ Len(disp) \in Nat /\ Len(disp') \in Nat /\ r \in Runnable /\ PlaceTyped
      BY <2>1, <2>2, <1>2, <1>3
    <3>3. /\ p.st \notin {"new", "pending"} => p.d \in DOMAIN disp'
          /\ \A d \in DOMAIN disp' : p.st \in OnWorker /\ d = p.d => <<p.d, p.w>> \in Workers(d)'
      BY <3>1, <2>4
    <3>4. PlaceTyped' /\ place'[r] = p /\ \A q \in Runnable : q # r => place'[q] = place[q]
      BY <3>1, <3>2, <3>3, <2>4, <1>4, PlaceStep
    <3> QED
      BY <3>4
  <2>6. PoolTyped' /\ PoolIsFree' /\ HoldersAreBusy' /\ OneRunnablePerWorker' /\ GaugeCounts'
    BY <2>3, <2>4, <2>5, <1>2, <1>3, <1>7, RunKeeps DEF PoolTyped
  <2> QED
    BY <1>1, <2>5, <2>6 DEF IInv
<1> QED
  BY <1>6, <1>7 DEF ListenToMainQueue, GetDispatcherForJob

\* A runnable received from JobQueue waits for a worker.
LEMMA ReceiveKeeps ==
  ASSUME DispatcherAssumption, IInv, NEW r \in Runnable, Receive(r)
  PROVE  IInv'
<1> DEFINE p == [place[r] EXCEPT !.st = "intake"]
<1>1. EventsTyped' /\ UNCHANGED dispVars
  BY DEF IInv, EventsTyped, Receive, eventVars
<1>2. PoolTyped /\ PlaceTyped /\ Len(disp) \in Nat
  BY DispFacts DEF IInv
<1>3. main' \in 0..Len(disp)
  BY <1>2 DEF Receive, PoolTyped
<1>4. /\ p \in [st : Places, d : 0..Len(disp), w : Nat] /\ p.d = place[r].d
      /\ p.st = "intake" /\ p.d \in DOMAIN disp
  BY <1>2 DEF PlaceTyped, Places, Receive
<1>5. place[r].st \notin OnWorker /\ p.st \notin OnWorker
  BY <1>4 DEF Receive, OnWorker
<1>6. place' = [place EXCEPT ![r] = p]
  BY DEF Receive
<1> HIDE DEF p
<1> QED
  BY <1>1, <1>3, <1>4, <1>5, <1>6, MoveOutside DEF IInv

\* A chained runnable is offered to the dispatcher that runs its parent.
LEMMA ChainKeeps ==
  ASSUME DispatcherAssumption, IInv, NEW r \in Runnable, NEW c \in Child[r], Chain(r, c)
  PROVE  IInv'
<1> DEFINE p == At("offered", place[r].d, 0)
<1>1. EventsTyped' /\ UNCHANGED dispVars
  BY DEF IInv, EventsTyped, Chain, eventVars
<1>2. PoolTyped /\ PlaceTyped /\ Len(disp) \in Nat
  BY DispFacts DEF IInv
<1>3. main' \in 0..Len(disp)
  BY <1>2 DEF Chain, PoolTyped
<1>4. c \in Runnable /\ place[c].st \notin OnWorker
  BY RunnableFacts DEF Chain, New, At, OnWorker
<1>5. /\ p \in [st : Places, d : 0..Len(disp), w : Nat] /\ p.d = place[r].d
      /\ p.st = "offered" /\ p.d \in DOMAIN disp /\ p.st \notin OnWorker
  BY <1>2 DEF PlaceTyped, Places, Chain, At, OnWorker
<1>6. place' = [place EXCEPT ![c] = p]
  BY DEF Chain
<1> HIDE DEF p
<1> QED
  BY <1>1, <1>3, <1>4, <1>5, <1>6, MoveOutside DEF IInv

\* The loop of a dispatcher returns, and all its workers are told to stop.
LEMMA QuitKeeps ==
  ASSUME DispatcherAssumption, IInv, NEW d \in Dispatchers, Quit(d)
  PROVE  IInv'
<1>1. EventsTyped' /\ place' = place /\ pool' = pool /\ worker' = worker
      /\ current' = current /\ main' = main
  BY DEF IInv, EventsTyped, Quit, eventVars
<1>2. PoolTyped /\ PlaceTyped /\ Len(disp) \in Nat /\ d \in DOMAIN disp
  BY DispFacts DEF IInv, Dispatchers
<1>3. /\ disp' \in Seq(DispRec) /\ Len(disp') = Len(disp) /\ DOMAIN disp' = DOMAIN disp
      /\ \A c \in DOMAIN disp : /\ Workers(c)' = Workers(c)
                                /\ disp'[c].active = disp[c].active
  BY <1>2, LoopEnds DEF PoolTyped, Quit, Workers
<1>4. PoolTyped'
  <2>1. stopping' \subseteq DOMAIN worker'
    BY <1>1, <1>2 DEF Quit, PoolTyped
  <2> QED
    BY <1>1, <1>2, <1>3, <2>1 DEF PoolTyped
<1>5. PlaceTyped'
  BY <1>1, <1>2, <1>3, PlaceSame
<1> QED
  BY <1>1, <1>3, <1>4, <1>5, OutsideWorkers DEF IInv

----------------------------------------------------------------------------
(***************************************************************************)
(* Steps of the workers.                                                   *)
(***************************************************************************)

\* The worker of a runnable that is on one exists.
LEMMA OnFacts ==
  ASSUME DispatcherAssumption, PoolTyped, PlaceTyped,
         NEW r \in Runnable, place[r].st \in OnWorker
  PROVE  /\ place[r].d \in DOMAIN disp /\ On(r) \in Workers(place[r].d)
         /\ On(r) \in DOMAIN worker
<1>1. place[r].d \in DOMAIN disp /\ On(r) \in Workers(place[r].d)
  BY DEF PlaceTyped, OnWorker
<1> QED
  BY <1>1 DEF PoolTyped

\* A worker is of one dispatcher only.
LEMMA WorkerOf ==
  ASSUME DispatcherAssumption, PoolTyped, NEW x \in DOMAIN worker
  PROVE  /\ x = <<x[1], x[2]>> /\ x[1] \in DOMAIN disp /\ x[2] \in Nat
         /\ x \in Workers(x[1])
<1>1. PICK d \in DOMAIN disp : x \in Workers(d)
  BY DEF PoolTyped
<1>2. x = <<d, x[2]>> /\ x[1] = d /\ x[2] \in Nat
  BY <1>1, WorkersFacts DEF PoolTyped
<1> QED
  BY <1>1, <1>2

\* Changing the status of one runnable keeps its worker and its dispatcher.
LEMMA StatusFacts ==
  ASSUME PoolTyped, PlaceTyped, NEW r \in Runnable, NEW s \in Places,
         place[r].st \in OnWorker, DOMAIN disp' = DOMAIN disp, Len(disp') = Len(disp),
         \A d \in DOMAIN disp : Workers(d)' = Workers(d),
         place' = [place EXCEPT ![r].st = s]
  PROVE  /\ PlaceTyped'
         /\ place'[r].st = s /\ place'[r].d = place[r].d /\ place'[r].w = place[r].w
         /\ \A q \in Runnable : On(q)' = On(q) /\ place'[q].d = place[q].d
         /\ \A q \in Runnable : q # r => place'[q] = place[q]
<1> DEFINE p == [place[r] EXCEPT !.st = s]
<1>1. Len(disp) \in Nat
  BY DispFacts
<1>2. place[r] \in [st : Places, d : 0..Len(disp), w : Nat]
  BY DEF PlaceTyped
<1>3. place[r].d \in DOMAIN disp /\ On(r) \in Workers(place[r].d)
  BY DEF PlaceTyped, OnWorker
<1>4. /\ p \in [st : Places, d : 0..Len(disp), w : Nat]
      /\ p.st = s /\ p.d = place[r].d /\ p.w = place[r].w
  BY <1>2
<1>5. place' = [place EXCEPT ![r] = p]
  OBVIOUS
<1> HIDE DEF p
<1>6. \A d \in DOMAIN disp' : d = p.d => <<p.d, p.w>> \in Workers(d)'
  BY <1>3, <1>4 DEF On
<1>7. /\ PlaceTyped' /\ place'[r] = p /\ On(r)' = <<p.d, p.w>>
      /\ \A q \in Runnable : q # r => place'[q] = place[q] /\ On(q)' = On(q)
  <2>1. Len(disp) <= Len(disp') /\ Len(disp') \in Nat /\ DOMAIN disp \subseteq DOMAIN disp'
        /\ p \in [st : Places, d : 0..Len(disp'), w : Nat] /\ p.d \in DOMAIN disp'
    BY <1>1, <1>3, <1>4
  <2> QED
    BY <2>1, <1>1, <1>5, <1>6, PlaceStep
<1> QED
  BY <1>4, <1>7 DEF On

\* An intake goroutine takes a free worker out of the pool for its runnable.
LEMMA TakeWorkerKeeps ==
  ASSUME DispatcherAssumption, IInv, NEW r \in Runnable, NEW x \in DOMAIN worker,
         TakeWorker(r, x)
  PROVE  IInv'
<1> DEFINE d == place[r].d
           p == At("assigned", x[1], x[2])
<1>1. /\ EventsTyped' /\ disp' = disp /\ current' = current /\ worker' = worker
      /\ stopping' = stopping /\ main' = main
  BY DEF IInv, EventsTyped, TakeWorker, eventVars
<1>2. PoolTyped /\ PlaceTyped /\ Len(disp) \in Nat
  BY DispFacts DEF IInv
<1>3. place[r].st = "intake" /\ d \in DOMAIN disp /\ x \in pool[d]
  BY <1>2 DEF TakeWorker, PlaceTyped
<1>4. x = <<d, x[2]>> /\ x[1] = d /\ x[2] \in Nat /\ x \in Workers(d)
  BY <1>2, <1>3, WorkersFacts DEF PoolTyped
<1>5. pool' = [pool EXCEPT ![d] = @ \ {x}]
  BY DEF TakeWorker, Taken
<1>6. worker[x] \in {"select", "stopped"}
  BY <1>3 DEF IInv, PoolIsFree
<1>7. /\ \A c \in DOMAIN disp : Workers(c)' = Workers(c) /\ pool'[c] \subseteq pool[c]
      /\ x \notin pool'[d]
  BY <1>1, <1>2, <1>3, <1>5 DEF Workers, PoolTyped
<1>8. PoolTyped'
  BY <1>1, <1>2, <1>3, <1>5, <1>7 DEF PoolTyped
<1>9. /\ p \in [st : Places, d : 0..Len(disp), w : Nat]
      /\ p.st = "assigned" /\ p.d = d /\ p.w = x[2] /\ <<p.d, p.w>> = x
  BY <1>2, <1>3, <1>4 DEF At, Places, PlaceTyped
<1>10. place' = [place EXCEPT ![r] = p]
  BY DEF TakeWorker
<1> HIDE DEF p
<1>11. /\ PlaceTyped' /\ place'[r] = p /\ On(r)' = x
       /\ \A q \in Runnable : q # r => place'[q] = place[q] /\ On(q)' = On(q)
  <2>1. /\ Len(disp') = Len(disp) /\ DOMAIN disp' = DOMAIN disp
        /\ \A c \in DOMAIN disp' : c = p.d => <<p.d, p.w>> \in Workers(c)'
    BY <1>1, <1>4, <1>7, <1>9
  <2>2. /\ Len(disp') \in Nat /\ Len(disp) <= Len(disp') /\ DOMAIN disp \subseteq DOMAIN disp'
        /\ p \in [st : Places, d : 0..Len(disp'), w : Nat] /\ p.d \in DOMAIN disp'
        /\ \A c \in DOMAIN disp : Workers(c)' = Workers(c)
    BY <1>1, <1>2, <1>3, <1>7, <1>9
  <2> QED
    BY <2>1, <2>2, <1>2, <1>9, <1>10, PlaceStep
<1>12. PoolIsFree'
  BY <1>1, <1>7 DEF IInv, PoolIsFree
<1>13. HoldersAreBusy'
  BY <1>1, <1>6, <1>9, <1>11 DEF IInv, HoldersAreBusy
<1>14. ASSUME NEW q \in Runnable, q # r, place[q].st \in OnWorker PROVE On(q) # x
  <2> SUFFICES ASSUME On(q) = x PROVE FALSE
    OBVIOUS
  <2>1. place[q].d = d
    BY <1>4 DEF On
  <2> QED
    BY <2>1, <1>3, <1>14 DEF IInv, OneRunnablePerWorker, On
<1>15. OneRunnablePerWorker'
  <2>1. ASSUME NEW q \in Runnable, NEW t \in Runnable, q # t,
               place'[q].st \in OnWorker, place'[t].st \in OnWorker
        PROVE  On(q)' # On(t)'
    BY <2>1, <1>11, <1>14 DEF IInv, OneRunnablePerWorker, On
  <2>2. ASSUME NEW q \in Runnable, place'[q].st \in OnWorker
        PROVE  On(q)' \notin pool'[place'[q].d]
    <3>1. CASE q = r
      BY <3>1, <1>7, <1>9, <1>11
    <3>2. CASE q # r
      <4>1. place[q].d \in DOMAIN disp
        BY <2>2, <3>2, <1>11, <1>2, OnFacts
      <4> QED
        BY <2>2, <3>2, <4>1, <1>7, <1>11 DEF IInv, OneRunnablePerWorker, On
    <3> QED
      BY <3>1, <3>2
  <2> QED
    BY <2>1, <2>2 DEF OneRunnablePerWorker, On
<1>16. GaugeCounts'
  <2>1. \A c \in DOMAIN disp : Running(c)' = Running(c)
    BY <1>3, <1>9, <1>11, RunningSame
  <2> QED
    BY <2>1, <1>1 DEF IInv, GaugeCounts
<1> QED
  BY <1>1, <1>8, <1>11, <1>12, <1>13, <1>15, <1>16 DEF IInv

\* A runnable on a worker moves on, its status being s: the others stay where
\* they are, and no two of them come to share a worker.
LEMMA MoveOnWorker ==
  ASSUME DispatcherAssumption, IInv, PlaceTyped', NEW r \in Runnable,
         place[r].st \in OnWorker,
         \A q \in Runnable : On(q)' = On(q) /\ place'[q].d = place[q].d,
         \A q \in Runnable : q # r => place'[q] = place[q],
         \A d \in DOMAIN disp : pool'[d] = pool[d]
  PROVE  /\ OneRunnablePerWorker'
         /\ \A q \in Runnable : q # r /\ place[q].st \in OnWorker => On(q) # On(r)
<1>1. ASSUME NEW q \in Runnable, NEW t \in Runnable, q # t,
             place'[q].st \in OnWorker, place'[t].st \in OnWorker
      PROVE  On(q)' # On(t)'
  <2>1. place[q].st \in OnWorker /\ place[t].st \in OnWorker
    BY <1>1
  <2> QED
    BY <1>1, <2>1 DEF IInv, OneRunnablePerWorker, On
<1>2. ASSUME NEW q \in Runnable, place'[q].st \in OnWorker
      PROVE  On(q)' \notin pool'[place'[q].d]
  <2>1. place[q].st \in OnWorker
    BY <1>2
  <2>2. place[q].d \in DOMAIN disp
    BY <2>1, OnFacts DEF IInv
  <2> QED
    BY <2>1, <2>2 DEF IInv, OneRunnablePerWorker, On
<1>3. OneRunnablePerWorker'
  BY <1>1, <1>2 DEF OneRunnablePerWorker, On
<1>4. \A q \in Runnable : q # r /\ place[q].st \in OnWorker => On(q) # On(r)
  BY DEF IInv, OneRunnablePerWorker, On
<1> QED
  BY <1>3, <1>4

\* One worker changes its stage; the pools may change with it.
LEMMA WorkerSet ==
  ASSUME PoolTyped, disp' \in Seq(DispRec), DOMAIN disp' = DOMAIN disp, Len(disp') = Len(disp),
         \A d \in DOMAIN disp : Workers(d)' = Workers(d),
         current' = current, main' = main,
         NEW x \in DOMAIN worker, NEW v \in Stages, worker' = [worker EXCEPT ![x] = v],
         pool' \in [DOMAIN disp -> SUBSET DOMAIN worker],
         \A d \in DOMAIN disp : pool'[d] \subseteq Workers(d),
         stopping' \subseteq DOMAIN worker
  PROVE  /\ PoolTyped'
         /\ DOMAIN worker' = DOMAIN worker /\ worker'[x] = v
         /\ \A y \in DOMAIN worker : y # x => worker'[y] = worker[y]
<1>1. UNION {Workers(d)' : d \in DOMAIN disp'} = UNION {Workers(d) : d \in DOMAIN disp}
  OBVIOUS
<1>2. /\ worker' \in [UNION {Workers(d) : d \in DOMAIN disp} -> Stages]
      /\ DOMAIN worker' = DOMAIN worker /\ worker'[x] = v
      /\ \A y \in DOMAIN worker : y # x => worker'[y] = worker[y]
  BY DEF PoolTyped
<1> QED
  BY <1>1, <1>2 DEF PoolTyped

\* The worker of an assigned runnable receives it.
LEMMA HandOverKeeps ==
  ASSUME DispatcherAssumption, IInv, NEW r \in Runnable, HandOver(r)
  PROVE  IInv'
<1> DEFINE x == On(r)
<1>1. /\ EventsTyped' /\ disp' = disp /\ current' = current /\ pool' = pool
      /\ stopping' = stopping /\ main' = main
      /\ \A d \in DOMAIN disp : Workers(d)' = Workers(d)
  BY DEF IInv, EventsTyped, HandOver, eventVars, Workers
<1>2. /\ PoolTyped /\ PlaceTyped /\ place[r].st = "assigned" /\ "held" \in Places
      /\ place[r].st \in OnWorker
  BY DEF IInv, HandOver, Places, OnWorker
<1>3. /\ PlaceTyped' /\ place'[r].st = "held"
      /\ \A q \in Runnable : On(q)' = On(q) /\ place'[q].d = place[q].d
      /\ \A q \in Runnable : q # r => place'[q] = place[q]
  BY <1>1, <1>2, StatusFacts DEF HandOver
<1>4. x \in DOMAIN worker /\ place[r].d \in DOMAIN disp
  BY <1>2, OnFacts
<1>5. worker' = [worker EXCEPT ![x] = "busy"]
  BY DEF HandOver, On
<1>6. /\ PoolTyped' /\ worker'[x] = "busy"
      /\ \A y \in DOMAIN worker : y # x => worker'[y] = worker[y]
  <2>1. "busy" \in Stages /\ disp' \in Seq(DispRec) /\ stopping' \subseteq DOMAIN worker
        /\ pool' \in [DOMAIN disp -> SUBSET DOMAIN worker]
        /\ \A d \in DOMAIN disp : pool'[d] \subseteq Workers(d)
    BY <1>1, <1>2 DEF PoolTyped, Stages
  <2> HIDE DEF x
  <2> QED
    BY <2>1, <1>1, <1>2, <1>4, <1>5, WorkerSet
<1>7. /\ OneRunnablePerWorker'
      /\ \A q \in Runnable : q # r /\ place[q].st \in OnWorker => On(q) # x
  BY <1>1, <1>2, <1>3, MoveOnWorker
<1>8. \A d \in DOMAIN disp : x \notin pool[d]
  <2> SUFFICES ASSUME NEW d \in DOMAIN disp, x \in pool[d] PROVE FALSE
    OBVIOUS
  <2>1. x \in Workers(d)
    BY <1>2 DEF PoolTyped
  <2>2. d = place[r].d
    BY <2>1, <1>2, WorkersFacts DEF PoolTyped, On
  <2> QED
    BY <2>2, <1>2 DEF IInv, OneRunnablePerWorker, On
<1> HIDE DEF x
<1>9. PoolIsFree'
  BY <1>1, <1>2, <1>6, <1>8 DEF IInv, PoolIsFree, PoolTyped
<1>10. HoldersAreBusy'
  <2> SUFFICES ASSUME NEW q \in Runnable
               PROVE  /\ place'[q].st = "assigned" => worker'[On(q)] \in {"select", "stopped"}
                      /\ place'[q].st \in {"held", "running", "finishing"}
                           => worker'[On(q)] = "busy"
    BY <1>3 DEF HoldersAreBusy
  <2>1. CASE q = r
    BY <2>1, <1>3, <1>6 DEF x
  <2>2. CASE q # r /\ place[q].st \in OnWorker
    <3>1. On(q) # x /\ On(q) \in DOMAIN worker
      BY <2>2, <1>2, <1>7, OnFacts
    <3>2. worker'[On(q)] = worker[On(q)] /\ place'[q] = place[q]
      BY <3>1, <2>2, <1>3, <1>6
    <3> QED
      BY <3>2 DEF IInv, HoldersAreBusy
  <2>3. CASE q # r /\ place[q].st \notin OnWorker
    BY <2>3, <1>3 DEF OnWorker
  <2> QED
    BY <2>1, <2>2, <2>3
<1>11. GaugeCounts'
  <2>1. \A d \in DOMAIN disp : Running(d)' = Running(d)
    BY <1>2, <1>3, RunningSame
  <2> QED
    BY <2>1, <1>1 DEF IInv, GaugeCounts
<1> QED
  BY <1>1, <1>3, <1>6, <1>7, <1>9, <1>10, <1>11 DEF IInv

\* A worker reports itself active, and its runnable runs.
LEMMA StartRunKeeps ==
  ASSUME DispatcherAssumption, IInv, NEW r \in Runnable, StartRun(r)
  PROVE  IInv'
<1> DEFINE d == place[r].d
<1>1. /\ EventsTyped' /\ current' = current /\ pool' = pool /\ worker' = worker
      /\ stopping' = stopping /\ main' = main
  BY DEF IInv, EventsTyped, StartRun, eventVars
<1>2. /\ PoolTyped /\ PlaceTyped /\ place[r].st = "held" /\ "running" \in Places
      /\ place[r].st \in OnWorker
  BY DEF IInv, StartRun, Places, OnWorker
<1>3. d \in DOMAIN disp
  BY <1>2, OnFacts
<1>4. /\ disp' \in Seq(DispRec) /\ Len(disp') = Len(disp) /\ DOMAIN disp' = DOMAIN disp
      /\ disp'[d].active = disp[d].active + 1
      /\ \A c \in DOMAIN disp : /\ Workers(c)' = Workers(c)
                                /\ c # d => disp'[c].active = disp[c].active
  <2>1. ActiveReceived(d, 1) /\ 1 \in Int
    BY DEF StartRun
  <2> HIDE DEF d
  <2>2. /\ disp' \in Seq(DispRec) /\ Len(disp') = Len(disp) /\ DOMAIN disp' = DOMAIN disp
        /\ disp'[d].active = disp[d].active + 1
        /\ \A c \in DOMAIN disp : /\ disp'[c].job = disp[c].job
                                  /\ c # d => disp'[c].active = disp[c].active
    BY <2>1, <1>2, <1>3, ActiveReceivedFacts DEF PoolTyped
  <2> QED
    BY <2>2 DEF Workers
<1>5. /\ PlaceTyped' /\ place'[r].st = "running"
      /\ \A q \in Runnable : On(q)' = On(q) /\ place'[q].d = place[q].d
      /\ \A q \in Runnable : q # r => place'[q] = place[q]
  BY <1>2, <1>4, StatusFacts DEF StartRun
<1>6. PoolTyped'
  BY <1>1, <1>2, <1>4 DEF PoolTyped
<1>7. OneRunnablePerWorker'
  BY <1>1, <1>2, <1>5, MoveOnWorker
<1>8. PoolIsFree' /\ HoldersAreBusy'
  BY <1>1, <1>2, <1>4, <1>5 DEF IInv, PoolIsFree, HoldersAreBusy
<1>9. GaugeCounts'
  <2> SUFFICES ASSUME NEW c \in DOMAIN disp
               PROVE  /\ IsFiniteSet(Running(c)')
                      /\ disp'[c].active = Cardinality(Running(c)')
    BY <1>4 DEF GaugeCounts
  <2>1. IsFiniteSet(Running(c)) /\ disp[c].active = Cardinality(Running(c))
    BY DEF IInv, GaugeCounts
  <2>2. CASE c = d
    <3>1. Running(c)' = Running(c) \cup {r} /\ r \notin Running(c)
      BY <2>2, <1>2, <1>5 DEF Running
    <3> HIDE DEF d
    <3>2. /\ IsFiniteSet(Running(c) \cup {r})
          /\ Cardinality(Running(c) \cup {r}) = Cardinality(Running(c)) + 1
      BY <2>1, <3>1, FS_AddElement
    <3> QED
      BY <2>1, <2>2, <3>1, <3>2, <1>4
  <2>3. CASE c # d
    <3>1. Running(c)' = Running(c)
      BY <2>3, <1>5, RunningSame
    <3> QED
      BY <2>1, <2>3, <3>1, <1>4
  <2> QED
    BY <2>2, <2>3
<1> QED
  BY <1>1, <1>5, <1>6, <1>7, <1>8, <1>9 DEF IInv

\* RunAction returns; the run still counts.
LEMMA RunReturnsKeeps ==
  ASSUME DispatcherAssumption, IInv, NEW r \in Runnable, RunReturns(r)
  PROVE  IInv'
<1>1. /\ EventsTyped' /\ disp' = disp /\ current' = current /\ pool' = pool
      /\ worker' = worker /\ stopping' = stopping /\ main' = main
      /\ \A d \in DOMAIN disp : Workers(d)' = Workers(d)
  BY DEF IInv, EventsTyped, RunReturns, eventVars, dispVars, Workers
<1>2. /\ PoolTyped /\ PlaceTyped /\ place[r].st = "running" /\ "finishing" \in Places
      /\ place[r].st \in OnWorker
  BY DEF IInv, RunReturns, Places, OnWorker
<1>3. /\ PlaceTyped' /\ place'[r].st = "finishing"
      /\ \A q \in Runnable : On(q)' = On(q) /\ place'[q].d = place[q].d
      /\ \A q \in Runnable : q # r => place'[q] = place[q]
  BY <1>1, <1>2, StatusFacts DEF RunReturns
<1>4. PoolTyped'
  BY <1>1, <1>2 DEF PoolTyped
<1>5. OneRunnablePerWorker'
  BY <1>1, <1>2, <1>3, MoveOnWorker
<1>6. PoolIsFree' /\ HoldersAreBusy'
  BY <1>1, <1>2, <1>3 DEF IInv, PoolIsFree, HoldersAreBusy
<1>7. GaugeCounts'
  <2>1. \A d \in DOMAIN disp : Running(d)' = Running(d)
    BY <1>2, <1>3, RunningSame
  <2> QED
    BY <2>1, <1>1 DEF IInv, GaugeCounts
<1> QED
  BY <1>1, <1>3, <1>4, <1>5, <1>6, <1>7 DEF IInv

\* A worker reports the end of its run and goes back to register.
LEMMA FinishRunKeeps ==
  ASSUME DispatcherAssumption, IInv, NEW r \in Runnable, FinishRun(r)
  PROVE  IInv'
<1> DEFINE d == place[r].d
           x == On(r)
<1>1. /\ EventsTyped' /\ current' = current /\ pool' = pool
      /\ stopping' = stopping /\ main' = main
  BY DEF IInv, EventsTyped, FinishRun, eventVars
<1>2. /\ PoolTyped /\ PlaceTyped /\ place[r].st = "finishing" /\ "done" \in Places
      /\ place[r].st \in OnWorker
  BY DEF IInv, FinishRun, Places, OnWorker
<1>3. d \in DOMAIN disp /\ x \in DOMAIN worker /\ x \in Workers(d)
  BY <1>2, OnFacts
<1>4. /\ disp' \in Seq(DispRec) /\ Len(disp') = Len(disp) /\ DOMAIN disp' = DOMAIN disp
      /\ disp'[d].active = disp[d].active - 1
      /\ \A c \in DOMAIN disp : /\ Workers(c)' = Workers(c)
                                /\ c # d => disp'[c].active = disp[c].active
  <2>1. ActiveReceived(d, -1) /\ -1 \in Int
    BY DEF FinishRun
  <2> HIDE DEF d
  <2>2. /\ disp' \in Seq(DispRec) /\ Len(disp') = Len(disp) /\ DOMAIN disp' = DOMAIN disp
        /\ disp'[d].active = disp[d].active + (-1)
        /\ \A c \in DOMAIN disp : /\ disp'[c].job = disp[c].job
                                  /\ c # d => disp'[c].active = disp[c].active
    BY <2>1, <1>2, <1>3, ActiveReceivedFacts DEF PoolTyped
  <2>3. disp[d].active \in Int
    BY <1>2, <1>3, DispFacts
  <2> QED
    BY <2>2, <2>3 DEF Workers
<1>5. /\ PlaceTyped' /\ place'[r].st = "done"
      /\ \A q \in Runnable : On(q)' = On(q) /\ place'[q].d = place[q].d
      /\ \A q \in Runnable : q # r => place'[q] = place[q]
  BY <1>2, <1>4, StatusFacts DEF FinishRun
<1>6. /\ PoolTyped' /\ worker'[x] = "register"
      /\ \A y \in DOMAIN worker : y # x => worker'[y] = worker[y]
  <2>1. worker' = [worker EXCEPT ![x] = "register"]
    BY DEF FinishRun, On
  <2>2. "register" \in Stages /\ stopping' \subseteq DOMAIN worker
        /\ pool' \in [DOMAIN disp -> SUBSET DOMAIN worker]
        /\ \A c \in DOMAIN disp : pool'[c] \subseteq Workers(c)
    BY <1>1, <1>2 DEF PoolTyped, Stages
  <2> HIDE DEF x, d
  <2> QED
    BY <2>1, <2>2, <1>1, <1>2, <1>3, <1>4, WorkerSet
<1>7. /\ OneRunnablePerWorker'
      /\ \A q \in Runnable : q # r /\ place[q].st \in OnWorker => On(q) # x
  BY <1>1, <1>2, <1>5, MoveOnWorker
<1>8. \A c \in DOMAIN disp : x \notin pool[c]
  <2> SUFFICES ASSUME NEW c \in DOMAIN disp, x \in pool[c] PROVE FALSE
    OBVIOUS
  <2>1. x \in Workers(c)
    BY <1>2 DEF PoolTyped
  <2>2. c = d
    BY <2>1, <1>2, WorkersFacts DEF PoolTyped, On
  <2> QED
    BY <2>2, <1>2 DEF IInv, OneRunnablePerWorker, On
<1> HIDE DEF x
<1>9. PoolIsFree'
  BY <1>1, <1>2, <1>4, <1>6, <1>8 DEF IInv, PoolIsFree, PoolTyped
<1>10. HoldersAreBusy'
  <2> SUFFICES ASSUME NEW q \in Runnable, place'[q].st \in OnWorker
               PROVE  /\ place'[q].st = "assigned" => worker'[On(q)] \in {"select", "stopped"}
                      /\ place'[q].st \in {"held", "running", "finishing"}
                           => worker'[On(q)] = "busy"
    BY <1>5 DEF HoldersAreBusy, OnWorker
  <2>1. q # r
    BY <1>5 DEF OnWorker
  <2>2. place'[q] = place[q] /\ place[q].st \in OnWorker
    BY <2>1, <1>5
  <2>3. On(q) # x /\ On(q) \in DOMAIN worker
    BY <2>1, <2>2, <1>2, <1>7, OnFacts
  <2> QED
    BY <2>2, <2>3, <1>6 DEF IInv, HoldersAreBusy
<1>11. GaugeCounts'
  <2> SUFFICES ASSUME NEW c \in DOMAIN disp
               PROVE  /\ IsFiniteSet(Running(c)')
                      /\ disp'[c].active = Cardinality(Running(c)')
    BY <1>4 DEF GaugeCounts
  <2>1. IsFiniteSet(Running(c)) /\ disp[c].active = Cardinality(Running(c))
    BY DEF IInv, GaugeCounts
  <2>2. CASE c = d
    <3>1. Running(c)' = Running(c) \ {r} /\ r \in Running(c)
      BY <2>2, <1>2, <1>5 DEF Running
    <3> HIDE DEF d
    <3>2. /\ IsFiniteSet(Running(c) \ {r})
          /\ Cardinality(Running(c) \ {r}) = Cardinality(Running(c)) - 1
      BY <2>1, <3>1, FS_RemoveElement
    <3> QED
      BY <2>1, <2>2, <3>1, <3>2, <1>4
  <2>3. CASE c # d
    <3>1. Running(c)' = Running(c)
      BY <2>3, <1>2, <1>5, RunningSame
    <3> QED
      BY <2>1, <2>3, <3>1, <1>4
  <2> QED
    BY <2>2, <2>3
<1> QED
  BY <1>1, <1>5, <1>6, <1>7, <1>9, <1>10, <1>11 DEF IInv

\* A worker sends its channel to the pool and waits.
LEMMA RegisterKeeps ==
  ASSUME DispatcherAssumption, IInv, NEW x \in DOMAIN worker, Register(x)
  PROVE  IInv'
<1> DEFINE c == x[1]
<1>1. /\ EventsTyped' /\ disp' = disp /\ current' = current /\ place' = place
      /\ stopping' = stopping /\ main' = main
      /\ \A d \in DOMAIN disp : Workers(d)' = Workers(d)
  BY DEF IInv, EventsTyped, Register, eventVars, Workers
<1>2. PoolTyped /\ PlaceTyped /\ worker[x] = "register" /\ Len(disp) \in Nat
  BY DispFacts DEF IInv, Register
<1>3. c \in DOMAIN disp /\ x \in Workers(c)
  BY <1>2, WorkerOf
<1>4. pool' = [pool EXCEPT ![c] = @ \cup {x}] /\ worker' = [worker EXCEPT ![x] = "select"]
  BY DEF Register
<1> HIDE DEF c
<1>5. /\ pool' \in [DOMAIN disp -> SUBSET DOMAIN worker]
      /\ \A d \in DOMAIN disp : /\ pool'[d] \subseteq Workers(d)
                                /\ pool'[d] \subseteq pool[d] \cup {x}
  BY <1>2, <1>3, <1>4 DEF PoolTyped
<1>6. /\ PoolTyped' /\ worker'[x] = "select"
      /\ \A y \in DOMAIN worker : y # x => worker'[y] = worker[y]
  <2>1. "select" \in Stages /\ disp' \in Seq(DispRec) /\ stopping' \subseteq DOMAIN worker
    BY <1>1, <1>2 DEF PoolTyped, Stages
  <2> QED
    BY <2>1, <1>1, <1>2, <1>4, <1>5, WorkerSet
<1>7. PlaceTyped' /\ \A q \in Runnable : On(q)' = On(q)
  BY <1>1, <1>2, PlaceSame
<1>8. \A q \in Runnable : place[q].st \in OnWorker => On(q) # x /\ On(q) \in DOMAIN worker
  <2> SUFFICES ASSUME NEW q \in Runnable, place[q].st \in OnWorker
               PROVE  On(q) # x /\ On(q) \in DOMAIN worker
    OBVIOUS
  <2>1. worker[On(q)] # "register"
    BY DEF IInv, HoldersAreBusy, OnWorker
  <2> QED
    BY <2>1, <1>2, OnFacts
<1>9. PoolIsFree'
  <2> SUFFICES ASSUME NEW d \in DOMAIN disp, NEW y \in pool'[d]
               PROVE  worker'[y] \in {"select", "stopped"}
    BY <1>1 DEF PoolIsFree
  <2>1. CASE y = x
    BY <2>1, <1>6
  <2>2. CASE y # x
    <3>1. y \in pool[d] /\ y \in DOMAIN worker
      BY <2>2, <1>2, <1>5 DEF PoolTyped
    <3> QED
      BY <3>1, <2>2, <1>6 DEF IInv, PoolIsFree
  <2> QED
    BY <2>1, <2>2
<1>10. HoldersAreBusy'
  <2> SUFFICES ASSUME NEW q \in Runnable, place[q].st \in OnWorker
               PROVE  worker'[On(q)] = worker[On(q)]
    BY <1>1, <1>7 DEF IInv, HoldersAreBusy, OnWorker
  <2> QED
    BY <1>6, <1>8
<1>11. OneRunnablePerWorker'
  <2>1. ASSUME NEW q \in Runnable, place[q].st \in OnWorker
        PROVE  On(q) \notin pool'[place[q].d]
    <3>1. place[q].d \in DOMAIN disp /\ On(q) # x /\ On(q) \notin pool[place[q].d]
      BY <2>1, <1>2, <1>8, OnFacts DEF IInv, OneRunnablePerWorker, On
    <3> QED
      BY <3>1, <1>5
  <2> QED
    BY <2>1, <1>1 DEF IInv, OneRunnablePerWorker, On
<1>12. GaugeCounts'
  BY <1>1 DEF IInv, GaugeCounts, Running
<1> QED
  BY <1>1, <1>6, <1>7, <1>9, <1>10, <1>11, <1>12 DEF IInv

\* A worker that waits is told to stop, and leaves its channel where it is.
LEMMA WorkerQuitKeeps ==
  ASSUME DispatcherAssumption, IInv, NEW x \in DOMAIN worker, WorkerQuit(x)
  PROVE  IInv'
<1>1. /\ EventsTyped' /\ disp' = disp /\ current' = current /\ place' = place
      /\ pool' = pool /\ main' = main
      /\ \A d \in DOMAIN disp : Workers(d)' = Workers(d)
  BY DEF IInv, EventsTyped, WorkerQuit, eventVars, Workers
<1>2. PoolTyped /\ PlaceTyped /\ worker[x] = "select" /\ Len(disp) \in Nat
  BY DispFacts DEF IInv, WorkerQuit
<1>3. /\ PoolTyped' /\ worker'[x] = "stopped"
      /\ \A y \in DOMAIN worker : y # x => worker'[y] = worker[y]
  <2>1. "stopped" \in Stages /\ disp' \in Seq(DispRec) /\ stopping' \subseteq DOMAIN worker
        /\ pool' \in [DOMAIN disp -> SUBSET DOMAIN worker]
        /\ \A d \in DOMAIN disp : pool'[d] \subseteq Workers(d)
    BY <1>1, <1>2 DEF PoolTyped, Stages, WorkerQuit
  <2>2. worker' = [worker EXCEPT ![x] = "stopped"]
    BY DEF WorkerQuit
  <2> QED
    BY <2>1, <2>2, <1>1, <1>2, WorkerSet
<1>4. PlaceTyped' /\ \A q \in Runnable : On(q)' = On(q)
  BY <1>1, <1>2, PlaceSame
<1>5. PoolIsFree'
  BY <1>1, <1>2, <1>3 DEF IInv, PoolIsFree, PoolTyped
<1>6. HoldersAreBusy'
  <2> SUFFICES ASSUME NEW q \in Runnable
               PROVE  /\ place[q].st = "assigned" => worker'[On(q)] \in {"select", "stopped"}
                      /\ place[q].st \in {"held", "running", "finishing"}
                           => worker'[On(q)] = "busy"
    BY <1>1, <1>4 DEF HoldersAreBusy
  <2>1. CASE place[q].st \in OnWorker
    <3>1. On(q) \in DOMAIN worker
      BY <2>1, <1>2, OnFacts
    <3> QED
      BY <3>1, <1>2, <1>3 DEF IInv, HoldersAreBusy
  <2> QED
    BY <2>1 DEF OnWorker
<1>7. OneRunnablePerWorker' /\ GaugeCounts'
  BY <1>1 DEF IInv, OneRunnablePerWorker, GaugeCounts, Running
<1> QED
  BY <1>1, <1>3, <1>4, <1>5, <1>6, <1>7 DEF IInv

----------------------------------------------------------------------------
(***************************************************************************)
(* The theorems.                                                           *)
(***************************************************************************)

\* After Subscriber.Init the dispatchers of the known jobs are idle.
LEMMA InitIInv ==
  ASSUME DispatcherAssumption, Init
  PROVE  IInv
<1> DEFINE n == Cardinality(Known)
<1>1. n \in Nat
  BY FS_CardinalityType DEF DispatcherAssumption
<1> HIDE DEF n
<1>2. PICK s \in Bijection(1..n, Known) :
        /\ disp = [d \in DOMAIN s |-> NewDispatcher(s[d])]
        /\ current = [j \in Job |-> IF j \in Known THEN CHOOSE d \in DOMAIN s : s[d] = j ELSE 0]
        /\ worker = [x \in UNION {{d} \X (1..MaxWorker(s[d])) : d \in DOMAIN s} |-> "register"]
  BY DEF Init, n
<1>3. s \in [1..n -> Known] /\ \A j \in Known : \E d \in 1..n : s[d] = j
  BY DEF Bijection, Surjection, Injection
<1>4. /\ pool = [d \in DOMAIN disp |-> {}] /\ stopping = {} /\ main = 0
      /\ place = [r \in Runnable |-> New]
  BY DEF Init
<1>5. \A d \in 1..n : NewDispatcher(s[d]) \in DispRec /\ NewDispatcher(s[d]).job = s[d]
                      /\ NewDispatcher(s[d]).active = 0
  BY <1>3 DEF NewDispatcher, DispRec, DispatcherAssumption
<1>6. disp \in [1..n -> DispRec]
  BY <1>2, <1>3, <1>5
<1>7. disp \in Seq(DispRec) /\ Len(disp) = n /\ DOMAIN disp = 1..n
  BY <1>1, <1>6, FunctionIsSeq
<1>8. \A d \in 1..n : disp[d].job = s[d] /\ disp[d].active = 0
  BY <1>2, <1>3, <1>5
<1>9. EventsTyped
  BY DEF Init, EventsTyped, States, DispatcherAssumption
<1>10. PoolTyped
  <2>1. current \in [Job -> 0..n]
    <3>1. \A j \in Known : (CHOOSE d \in 1..n : s[d] = j) \in 1..n
      BY <1>3
    <3>2. DOMAIN s = 1..n /\ 0 \in 0..n /\ 1..n \subseteq 0..n
      BY <1>1, <1>3
    <3>3. current = [j \in Job |-> IF j \in Known THEN CHOOSE d \in 1..n : s[d] = j ELSE 0]
      BY <3>2, <1>2
    <3> QED
      BY <3>1, <3>2, <3>3
  <2>2. \A d \in 1..n : Workers(d) = {d} \X (1..MaxWorker(s[d]))
    BY <1>8 DEF Workers
  <2>3. UNION {Workers(d) : d \in DOMAIN disp}
          = UNION {{d} \X (1..MaxWorker(s[d])) : d \in DOMAIN s}
    <3>1. DOMAIN s = 1..n
      BY <1>3
    <3>2. \A x : x \in UNION {Workers(d) : d \in 1..n}
                  <=> x \in UNION {{d} \X (1..MaxWorker(s[d])) : d \in 1..n}
      BY <2>2, Zenon
    <3> QED
      BY <3>1, <3>2, <1>7
  <2>4. worker \in [UNION {Workers(d) : d \in DOMAIN disp} -> Stages]
    BY <2>3, <1>2 DEF Stages
  <2> QED
    BY <2>1, <2>4, <1>1, <1>4, <1>7 DEF PoolTyped
<1>11. \A r \in Runnable : place[r].st = "new" /\ place[r].d = 0 /\ place[r].w = 0
  BY <1>4 DEF New, At
<1>12. PlaceTyped
  <2>1. New \in [st : Places, d : 0..Len(disp), w : Nat]
    BY <1>1, <1>7 DEF New, At, Places
  <2> QED
    BY <2>1, <1>4, <1>11 DEF PlaceTyped, OnWorker
<1>13. PoolIsFree /\ HoldersAreBusy /\ OneRunnablePerWorker
  BY <1>4, <1>11 DEF PoolIsFree, HoldersAreBusy, OneRunnablePerWorker, OnWorker
<1>14. GaugeCounts
  <2>1. \A d : Running(d) = {}
    BY <1>11 DEF Running
  <2> QED
    BY <2>1, <1>7, <1>8, FS_EmptySet DEF GaugeCounts
<1> QED
  BY <1>9, <1>10, <1>12, <1>13, <1>14 DEF IInv

\* Every step of the service and of its environment keeps the invariant.
LEMMA NextIInv ==
  ASSUME DispatcherAssumption, IInv, [Next]_vars
  PROVE  IInv'
<1>1. CASE Environment
  BY <1>1, PutJobKeeps, DeleteJobKeeps DEF Environment
<1>2. CASE \E j \in Job : JobsChangeEvent(j) \/ TimerEvent(j)
  BY <1>2, JobsChangeEventKeeps, TimerEventKeeps
<1>3. CASE \E j \in Job : \E r \in Root[j] : ListenToMainQueue(j, r)
  BY <1>3, ListenToMainQueueKeeps
<1>4. CASE \E r \in Runnable : Receive(r) \/ HandOver(r) \/ StartRun(r)
  BY <1>4, ReceiveKeeps, HandOverKeeps, StartRunKeeps
<1>5. CASE \E r \in Runnable : \/ RunReturns(r) \/ FinishRun(r)
                               \/ \E c \in Child[r] : Chain(r, c)
  BY <1>5, RunReturnsKeeps, FinishRunKeeps, ChainKeeps
<1>6. CASE \E r \in Runnable, x \in DOMAIN worker : TakeWorker(r, x)
  BY <1>6, TakeWorkerKeeps
<1>7. CASE \E d \in Dispatchers : Quit(d)
  BY <1>7, QuitKeeps
<1>8. CASE \E x \in DOMAIN worker : Register(x) \/ WorkerQuit(x)
  BY <1>8, RegisterKeeps, WorkerQuitKeeps
<1>9. CASE UNCHANGED vars
  <2>1. EventsTyped' /\ UNCHANGED <<dispVars, main, place>>
    BY <1>9 DEF vars, dispVars, IInv, EventsTyped
  <2> QED
    BY <2>1, Undisturbing DEF IInv
<1> QED
  BY <1>1, <1>2, <1>3, <1>4, <1>5, <1>6, <1>7, <1>8, <1>9 DEF Next, System

\* Whatever the order in which events, intake goroutines, workers and Stop run,
\* the inductive invariant holds.
THEOREM Invariance == Spec => []IInv
<1>1. Init => IInv
  BY InitIInv, DispatcherAssumption
<1>2. IInv /\ [Next]_vars => IInv'
  BY NextIInv, DispatcherAssumption
<1> QED
  BY <1>1, <1>2, PTL DEF Spec

\* The multiplexer never hands a worker a second runnable, and the channel of a
\* worker that has one is not in the pool.
THEOREM OneAtATime == Spec => []OneRunnablePerWorker
<1>1. IInv => OneRunnablePerWorker
  BY DEF IInv
<1> QED
  BY <1>1, Invariance, PTL

\* A worker that goes round its loop never blocks on the pool: the pool holds
\* workers of this dispatcher only, and not that one.
THEOREM RoomInPool == Spec => []RegisterHasRoom
<1>1. ASSUME IInv, NEW x \in DOMAIN worker, worker[x] = "register"
      PROVE  Cardinality(pool[x[1]]) < MaxWorker(disp[x[1]].job)
  <2> DEFINE d == x[1]
  <2>1. PoolTyped /\ d \in DOMAIN disp /\ x \in Workers(d)
    BY <1>1, WorkerOf, DispatcherAssumption DEF IInv
  <2>2. pool[d] \subseteq Workers(d) \ {x}
    BY <2>1, <1>1 DEF IInv, PoolTyped, PoolIsFree
  <2> HIDE DEF d
  <2>3. /\ IsFiniteSet(Workers(d)) /\ Cardinality(Workers(d)) = MaxWorker(disp[d].job)
        /\ MaxWorker(disp[d].job) \in Nat
    BY <2>1, WorkersFacts, DispatcherAssumption DEF PoolTyped
  <2>4. /\ IsFiniteSet(Workers(d) \ {x})
        /\ Cardinality(Workers(d) \ {x}) = MaxWorker(disp[d].job) - 1
    BY <2>1, <2>3, FS_RemoveElement
  <2>5. IsFiniteSet(pool[d]) /\ Cardinality(pool[d]) <= Cardinality(Workers(d) \ {x})
    BY <2>2, <2>4, FS_Subset
  <2>6. Cardinality(pool[d]) \in Nat
    BY <2>5, FS_CardinalityType
  <2> QED
    BY <2>3, <2>4, <2>5, <2>6 DEF d
<1>2. IInv => RegisterHasRoom
  BY <1>1 DEF RegisterHasRoom
<1> QED
  BY <1>2, Invariance, PTL

\* The runs of a dispatcher are on different workers of it.
LEMMA RunsFitWorkers ==
  ASSUME DispatcherAssumption, IInv, NEW d \in DOMAIN disp
  PROVE  /\ Cardinality(Running(d)) \in Nat
         /\ Cardinality(Running(d)) <= MaxWorker(disp[d].job)
<1> DEFINE f == [r \in Running(d) |-> On(r)]
<1>1. \A r \in Running(d) : /\ r \in Runnable /\ place[r].st \in OnWorker
                            /\ On(r) \in Workers(d)
  BY DEF Running, OnWorker, IInv, PlaceTyped
<1>2. f \in [Running(d) -> Workers(d)]
  BY <1>1
<1>3. \A r, q \in Running(d) : f[r] = f[q] => r = q
  BY <1>1 DEF IInv, OneRunnablePerWorker, On
<1>4. f \in Injection(Running(d), Workers(d))
  <2> HIDE DEF f
  <2> QED
    BY <1>2, <1>3, Fun_IsInj
<1>5. /\ IsFiniteSet(Workers(d)) /\ Cardinality(Workers(d)) = MaxWorker(disp[d].job)
  BY WorkersFacts DEF IInv, PoolTyped
<1> HIDE DEF f
<1>6. /\ IsFiniteSet(Running(d))
      /\ Cardinality(Running(d)) <= Cardinality(Workers(d))
  BY <1>4, <1>5, FS_Injection
<1> QED
  BY <1>5, <1>6, FS_CardinalityType

\* The gauge that UpdateActiveWorkers reports is the number of runs, and no
\* dispatcher runs more than MaxConcurrency of them.
THEOREM GaugeCorrect == Spec => []ActiveIsRunning
<1>1. ASSUME IInv, NEW d \in DOMAIN disp
      PROVE  /\ disp[d].active = Cardinality(Running(d))
             /\ disp[d].active <= MaxWorker(disp[d].job)
  <2>1. disp[d].active = Cardinality(Running(d))
    BY <1>1 DEF IInv, GaugeCounts
  <2> QED
    BY <2>1, <1>1, RunsFitWorkers, DispatcherAssumption
<1>2. IInv => ActiveIsRunning
  BY <1>1 DEF ActiveIsRunning, Running
<1> QED
  BY <1>2, Invariance, PTL

\* Every variable keeps its type; the gauge is never negative.
THEOREM TypeCorrect == Spec => []TypeOK
<1>1. ASSUME IInv PROVE TypeOK
  <2>1. EventsTyped /\ PoolTyped /\ PlaceTyped
    BY <1>1 DEF IInv
  <2>2. disp \in Seq([job : Job, loop : BOOLEAN, quit : BOOLEAN, active : Nat])
    <3> DEFINE S == [job : Job, loop : BOOLEAN, quit : BOOLEAN, active : Nat]
    <3>1. Len(disp) \in Nat /\ DOMAIN disp = 1..Len(disp) /\ disp \in [1..Len(disp) -> DispRec]
      BY <2>1, LenProperties DEF PoolTyped
    <3>2. ASSUME NEW d \in 1..Len(disp) PROVE disp[d] \in S
      <4>1. disp[d].active \in Nat
        BY <1>1, <3>1, <3>2, RunsFitWorkers, DispatcherAssumption DEF IInv, GaugeCounts
      <4>2. disp[d] \in DispRec
        BY <3>1, <3>2
      <4> QED
        BY <4>1, <4>2 DEF DispRec
    <3> HIDE DEF S
    <3>3. disp \in [1..Len(disp) -> S]
      BY <3>1, <3>2
    <3>4. disp \in Seq(S)
      BY <3>1, <3>3, FunctionIsSeq
    <3> QED
      BY <3>4 DEF S
  <2> QED
    BY <2>1, <2>2 DEF TypeOK, EventsTyped, PoolTyped, PlaceTyped, States, Stages
<1>2. IInv => TypeOK
  BY <1>1
<1> QED
  BY <1>2, Invariance, PTL

\* A worker whose dispatcher's loop has returned cannot report itself active,
\* so what it holds is not run.
THEOREM NothingStartsLate == Spec => StoppedStartsNothing
<1> DEFINE Step == \A r \in Runnable :
             place[r].st # "running" /\ place'[r].st = "running" => disp[place[r].d].loop
<1>1. ASSUME IInv, [Next]_vars, NEW r \in Runnable,
             place[r].st # "running", place'[r].st = "running"
      PROVE  disp[place[r].d].loop
  <2>1. place \in [Runnable -> [st : Places, d : 0..Len(disp), w : Nat]]
    BY <1>1 DEF IInv, PlaceTyped
  <2>2. PICK q \in Runnable : StartRun(q)
    <3>1. CASE place' = place
      BY <3>1, <1>1
    <3>2. CASE \E q \in Runnable : \E p : place' = [place EXCEPT ![q] = p] /\ p.st # "running"
      BY <3>2, <2>1, <1>1
    <3>3. CASE \E q \in Runnable, t \in Places : /\ t # "running"
                                                 /\ place' = [place EXCEPT ![q].st = t]
      BY <3>3, <2>1, <1>1
    <3>4. ASSUME NEW j \in Job, JobsChangeEvent(j) \/ TimerEvent(j)
          PROVE  \/ place' = place
                 \/ \E q \in Runnable : \E p : place' = [place EXCEPT ![q] = p] /\ p.st # "running"
      <4>1. CASE JobsChangeEvent(j)
        BY <4>1 DEF JobsChangeEvent
      <4>2. CASE TimerEvent(j)
        <5>1. At("pending", 0, 0).st # "running"
          BY DEF At
        <5> QED
          BY <4>2, <5>1, RunnableFacts, DispatcherAssumption DEF TimerEvent
      <4> QED
        BY <3>4, <4>1, <4>2
    <3>5. ASSUME NEW j \in Job, NEW q \in Root[j], ListenToMainQueue(j, q)
          PROVE  \E t \in Runnable : \E p : place' = [place EXCEPT ![t] = p] /\ p.st # "running"
      <4>1. At("forward", current'[j], 0).st # "running"
        BY DEF At
      <4> QED
        BY <3>5, <4>1, RunnableFacts, DispatcherAssumption DEF ListenToMainQueue
    <3>6. ASSUME NEW q \in Runnable,
                 \/ Receive(q) \/ HandOver(q) \/ RunReturns(q) \/ FinishRun(q)
          PROVE  \E t \in Runnable, s \in Places : s # "running"
                                                   /\ place' = [place EXCEPT ![t].st = s]
      BY <3>6 DEF Receive, HandOver, RunReturns, FinishRun, Places
    <3>7. ASSUME NEW q \in Runnable, NEW c \in Child[q], Chain(q, c)
          PROVE  \E t \in Runnable : \E p : place' = [place EXCEPT ![t] = p] /\ p.st # "running"
      <4>1. At("offered", place[q].d, 0).st # "running"
        BY DEF At
      <4> QED
        BY <3>7, <4>1, RunnableFacts, DispatcherAssumption DEF Chain
    <3>8. ASSUME NEW q \in Runnable, NEW x \in DOMAIN worker, TakeWorker(q, x)
          PROVE  \E t \in Runnable : \E p : place' = [place EXCEPT ![t] = p] /\ p.st # "running"
      <4>1. At("assigned", x[1], x[2]).st # "running"
        BY DEF At
      <4> QED
        BY <3>8, <4>1 DEF TakeWorker
    <3>9. CASE Environment
      BY <3>9, <3>1 DEF Environment, PutJob, DeleteJob
    <3>10. CASE \/ \E d \in Dispatchers : Quit(d)
                \/ \E x \in DOMAIN worker : Register(x) \/ WorkerQuit(x)
      BY <3>10, <3>1 DEF Quit, Register, WorkerQuit
    <3>11. CASE UNCHANGED vars
      BY <3>11, <3>1 DEF vars
    <3>12. CASE \E d \in Runnable : StartRun(d)
      BY <3>12
    <3> QED
      BY <1>1, <3>1, <3>2, <3>3, <3>4, <3>5, <3>6, <3>7, <3>8, <3>9, <3>10, <3>11, <3>12
      DEF Next, System
  <2>3. q = r
    BY <2>1, <2>2, <1>1 DEF StartRun
  <2> QED
    BY <2>2, <2>3 DEF StartRun, ActiveReceived
<1>2. IInv /\ [Next]_vars => Step
  BY <1>1
<1> QED
  BY <1>2, Invariance, PTL DEF Spec, StoppedStartsNothing
=============================================================================
