--------------------------- MODULE TaskRunProofs ---------------------------
(***************************************************************************)
(* Proofs about TaskRun, for every job and every bound: paths are never    *)
(* reused, Task.RC counts the runnables that are not known to be over, and *)
(* a Finished task has no action running.                                  *)
(***************************************************************************)
EXTENDS TaskRun, FiniteSetTheorems, TLAPS

\* TypeOK without its claim on RC, which only the counting argument gives.
Typed ==
  /\ status \in Status
  /\ stored \in Status \cup {"none"}
  /\ started \in BOOLEAN /\ ended \in BOOLEAN /\ inflight \in BOOLEAN
  /\ frame \in [DOMAIN frame -> Frames]
  /\ loop \in [DOMAIN loop -> Loops]
  /\ run \in [DOMAIN run -> Runnables]
  /\ LoopPaths /\ RunPaths /\ FramePaths

\* The inductive invariant.
IInv ==
  /\ Typed
  /\ IsFiniteSet(DOMAIN run)
  /\ RC \in Int
  /\ RCCountsLive
  /\ FinishedMeansIdle

USE DEF Root

----------------------------------------------------------------------------
(***************************************************************************)
(* Functions that grow.                                                    *)
(***************************************************************************)

\* Put stays within a function type.
LEMMA PutType ==
  ASSUME NEW S, NEW D, NEW f \in [D -> S], NEW x, NEW v \in S
  PROVE  Put(f, x, v) \in [DOMAIN Put(f, x, v) -> S]
BY DEF Put

\* Replacing the call of a frame changes nothing else.
LEMMA CallingFacts ==
  ASSUME frame \in [DOMAIN frame -> Frames], NEW f \in DOMAIN frame,
         NEW c \in {"next", "block", "split", "select", "out"}
  PROVE  /\ DOMAIN Calling(f, c) = DOMAIN frame
         /\ Calling(f, c) \in [DOMAIN frame -> Frames]
         /\ Calling(f, c)[f].call = c
         /\ \A g \in DOMAIN frame :
              /\ Calling(f, c)[g].acts = frame[g].acts /\ Calling(f, c)[g].i = frame[g].i
              /\ g # f => Calling(f, c)[g] = frame[g]
BY DEF Calling, Frames

\* Going on to the next action changes only that frame's index and call.
LEMMA NextActionFacts ==
  ASSUME frame \in [DOMAIN frame -> Frames], NEW f \in DOMAIN frame
  PROVE  /\ DOMAIN NextAction(f) = DOMAIN frame
         /\ NextAction(f) \in [DOMAIN frame -> Frames]
         /\ NextAction(f)[f].call = "next" /\ NextAction(f)[f].i = frame[f].i + 1
         /\ \A g \in DOMAIN frame :
              /\ NextAction(f)[g].acts = frame[g].acts
              /\ g # f => NextAction(f)[g] = frame[g]
<1>1. frame[f].acts \in Seq(Action) /\ frame[f].i \in Nat
  BY DEF Frames
<1> QED
  BY <1>1 DEF NextAction, Frames

----------------------------------------------------------------------------
(***************************************************************************)
(* Every step keeps types and paths.                                       *)
(***************************************************************************)

\* A frame starts the loop of its next action under a path not used before.
LEMMA ApplyFiltersTyped ==
  ASSUME ActionsAssumption, BehaviourAssumption, Typed,
         NEW f \in DOMAIN frame, ApplyFilters(f)
  PROVE  Typed'
<1> DEFINE l == CurrentLoop(f)
           new == [pc |-> "select", enqueued |-> 0, out |-> 0, done |-> FALSE]
<1>1. PICK c \in {"block", "split", "select", "out"} : frame' = Calling(f, c)
  <2>1. frame[f] \in Frames
    BY DEF Typed
  <2>2. Current(f) \in Action
    BY <2>1 DEF ApplyFilters, Current, Frames
  <2> QED
    BY <2>2 DEF ApplyFilters, AfterFilters, BehaviourAssumption
<1>2. /\ frame' \in [DOMAIN frame' -> Frames] /\ DOMAIN frame' = DOMAIN frame
      /\ frame'[f].call = c
      /\ \A g \in DOMAIN frame : /\ frame'[g].acts = frame[g].acts
                                 /\ frame'[g].i = frame[g].i
                                 /\ g # f => frame'[g] = frame[g]
  BY <1>1, CallingFacts DEF Typed
<1>3. /\ frame[f].call = "next" /\ frame[f].i \in 1..Len(frame[f].acts)
      /\ frame[f].i \in Nat
  BY DEF ApplyFilters, Typed, Frames
<1>4. l \notin DOMAIN loop
  <2> SUFFICES ASSUME l \in DOMAIN loop PROVE FALSE
    OBVIOUS
  <2>1. l[1] = f /\ l[2] = frame[f].i
    BY DEF CurrentLoop
  <2> QED
    BY <2>1, <1>3 DEF Typed, LoopPaths
<1>5. /\ DOMAIN loop' = DOMAIN loop \cup {l} /\ loop'[l] = new
      /\ \A k \in DOMAIN loop : loop'[k] = loop[k]
  <2> HIDE DEF l, new
  <2>1. loop' = Put(loop, l, new)
    BY DEF ApplyFilters, l, new
  <2> QED
    BY <2>1, <1>4 DEF Put
<1>6. loop' \in [DOMAIN loop' -> Loops]
  <2> new \in Loops
    BY DEF Loops
  <2> QED
    BY PutType DEF ApplyFilters, Typed
<1>7. LoopPaths'
  <2>1. ASSUME NEW k \in DOMAIN loop'
        PROVE  /\ k = <<k[1], k[2]>> /\ k[1] \in DOMAIN frame'
               /\ k[2] \in 1..Len(frame'[k[1]].acts)
               /\ \/ k[2] < frame'[k[1]].i
                  \/ k[2] = frame'[k[1]].i /\ frame'[k[1]].call # "next"
    <3>1. CASE k \in DOMAIN loop
      BY <3>1, <1>2 DEF Typed, LoopPaths
    <3>2. CASE k = l
      BY <3>2, <1>2, <1>3 DEF CurrentLoop
    <3> QED
      BY <3>1, <3>2, <1>5
  <2>2. ASSUME NEW g \in DOMAIN frame', frame'[g].call # "next"
        PROVE  <<g, frame'[g].i>> \in DOMAIN loop'
    BY <2>2, <1>2, <1>5 DEF CurrentLoop, Typed, LoopPaths
  <2> QED
    BY <2>1, <2>2 DEF LoopPaths, CurrentLoop
<1>8. RunPaths'
  BY <1>5 DEF RunPaths, Typed, ApplyFilters
<1>9. FramePaths'
  <2>1. ASSUME NEW k \in DOMAIN loop, Answered(k) PROVE Answered(k)'
    BY <2>1, <1>2, <1>3 DEF Answered, Typed, LoopPaths
  <2> QED
    BY <2>1, <1>2, <1>5 DEF FramePaths, Typed, ApplyFilters
<1> QED
  BY <1>2, <1>6, <1>7, <1>8, <1>9 DEF Typed, ApplyFilters, taskVars

\* When frame f goes on within or past its current action, perhaps adding
\* the frame of that action's failed filter, the paths stay right.
LEMMA MovedOnPaths ==
  ASSUME Typed, NEW f \in DOMAIN frame, frame[f].call # "next",
         DOMAIN frame \subseteq DOMAIN frame',
         \A g \in DOMAIN frame' \ DOMAIN frame :
            g = <<CurrentLoop(f), 0>> /\ frame'[g].call = "next",
         \A g \in DOMAIN frame : /\ frame'[g].acts = frame[g].acts
                                 /\ g # f => frame'[g] = frame[g],
         \/ frame'[f].i = frame[f].i /\ frame'[f].call \in {"select", "out"}
         \/ frame'[f].i = frame[f].i + 1 /\ frame'[f].call = "next",
         DOMAIN loop' = DOMAIN loop, UNCHANGED run
  PROVE  LoopPaths' /\ FramePaths'
<1>1. frame[f].i \in Nat
  BY DEF Typed, Frames
<1>2. \A k \in DOMAIN loop : k[2] \in Nat
  BY DEF Typed, LoopPaths
<1>3. LoopPaths'
  <2>1. ASSUME NEW k \in DOMAIN loop
        PROVE  /\ k = <<k[1], k[2]>> /\ k[1] \in DOMAIN frame'
               /\ k[2] \in 1..Len(frame'[k[1]].acts)
               /\ \/ k[2] < frame'[k[1]].i
                  \/ k[2] = frame'[k[1]].i /\ frame'[k[1]].call # "next"
    <3>1. CASE k[1] = f
      BY <3>1, <1>1, <1>2 DEF Typed, LoopPaths
    <3>2. CASE k[1] # f
      BY <3>2 DEF Typed, LoopPaths
    <3> QED
      BY <3>1, <3>2
  <2>2. ASSUME NEW g \in DOMAIN frame', frame'[g].call # "next"
        PROVE  <<g, frame'[g].i>> \in DOMAIN loop'
    BY <2>2 DEF CurrentLoop, Typed, LoopPaths
  <2> QED
    BY <2>1, <2>2 DEF LoopPaths, CurrentLoop
<1>4. ASSUME NEW k \in DOMAIN loop, Answered(k) PROVE Answered(k)'
  BY <1>4, <1>1, <1>2 DEF Answered, Typed, LoopPaths
<1> PICK l : l = <<f, frame[f].i>>
  OBVIOUS
<1>5. l = CurrentLoop(f) /\ l \in DOMAIN loop /\ Answered(l)'
  <2>1. l[1] = f /\ l[2] = frame[f].i
    OBVIOUS
  <2> QED
    BY <2>1, <1>1 DEF Typed, LoopPaths, CurrentLoop, Answered
<1>6. ASSUME NEW g \in DOMAIN frame' \ {Root}
      PROVE  /\ g = <<g[1], g[2]>>
             /\ \/ g \in DOMAIN run' /\ g[2] # 0 /\ run'[g].pc \in {"dispatch", "saveFinished", "over"}
                \/ g[2] = 0 /\ g[1] \in DOMAIN loop' /\ Answered(g[1])'
  <2>1. CASE g \in DOMAIN frame
    BY <2>1, <1>4 DEF FramePaths, Typed
  <2>2. CASE g \notin DOMAIN frame
    <3>1. g = <<l, 0>> /\ g[1] = l /\ g[2] = 0
      BY <2>2, <1>5
    <3> QED
      BY <3>1, <1>5
  <2> QED
    BY <2>1, <2>2
<1> QED
  BY <1>3, <1>6 DEF FramePaths

\* The message of a blocked or excluded input is answered exactly once.
LEMMA FilterFailedTyped ==
  ASSUME ActionsAssumption, BehaviourAssumption, Typed,
         NEW f \in DOMAIN frame, FilterFailed(f)
  PROVE  Typed'
<1> DEFINE l == CurrentLoop(f)
           x == <<l, 0>>
           nested == OnFail[Current(f)]
           left == IF frame[f].call = "block" THEN NextAction(f)
                   ELSE Calling(f, AfterFilters(Current(f)))
<1>1. /\ frame[f].call \in {"block", "split"} /\ l \in DOMAIN loop
      /\ loop[l].pc = "select" /\ loop[l] \in Loops
      /\ frame[f].i \in Nat
  BY DEF FilterFailed, Typed, LoopPaths, Frames
<1>2. Current(f) \in Action
  BY <1>1 DEF Typed, LoopPaths, Current, CurrentLoop, Frames
<1>3. /\ AfterFilters(Current(f)) \in {"select", "out"}
      /\ nested \in Seq(Action)
  BY <1>2 DEF AfterFilters, ActionsAssumption
<1>4. /\ DOMAIN left = DOMAIN frame /\ left \in [DOMAIN frame -> Frames]
      /\ \A g \in DOMAIN frame : left[g].acts = frame[g].acts /\ (g # f => left[g] = frame[g])
      /\ \/ left[f].i = frame[f].i /\ left[f].call \in {"select", "out"}
         \/ left[f].i = frame[f].i + 1 /\ left[f].call = "next"
  <2>1. CASE frame[f].call = "block"
    BY <2>1, NextActionFacts DEF Typed
  <2>2. CASE frame[f].call # "block"
    BY <2>2, <1>3, CallingFacts DEF Typed
  <2> QED
    BY <2>1, <2>2
<1>5. x \notin DOMAIN frame
  <2> SUFFICES ASSUME x \in DOMAIN frame PROVE FALSE
    OBVIOUS
  <2>1. x # Root /\ x[2] = 0 /\ x[1] = l
    OBVIOUS
  <2>2. l[1] = f /\ l[2] = frame[f].i
    BY DEF CurrentLoop
  <2>3. Answered(l)
    BY <2>1 DEF Typed, FramePaths
  <2> QED
    BY <2>2, <2>3, <1>1 DEF Answered
<1>6. /\ frame' \in [DOMAIN frame' -> Frames]
      /\ \/ DOMAIN frame' = DOMAIN frame
         \/ DOMAIN frame' = DOMAIN frame \cup {x} /\ frame'[x].call = "next"
      /\ \A g \in DOMAIN frame : frame'[g] = left[g]
  <2>1. CASE frame' = left
    <3>1. DOMAIN frame' = DOMAIN frame
      BY <2>1, <1>4
    <3>2. frame' \in [DOMAIN frame -> Frames]
      BY <2>1, <1>4
    <3>3. \A g \in DOMAIN frame : frame'[g] = left[g]
      BY <2>1
    <3> QED
      BY <3>1, <3>2, <3>3
  <2>2. CASE frame' = Put(left, x, NewFrame(nested))
    <3>1. NewFrame(nested) \in Frames /\ NewFrame(nested).call = "next"
      BY <1>3 DEF NewFrame, Frames
    <3> HIDE DEF left, x, nested
    <3> QED
      BY <2>2, <3>1, <1>4, <1>5 DEF Put
  <2> QED
    BY <2>1, <2>2 DEF FilterFailed
<1>7. /\ DOMAIN loop' = DOMAIN loop /\ loop' \in [DOMAIN loop' -> Loops]
      /\ \A k \in DOMAIN loop : loop'[k].enqueued >= loop[k].enqueued
      /\ \A k \in DOMAIN loop : k # l => loop'[k] = loop[k]
  <2>1. Blocked(f) \in BOOLEAN
    BY DEF Blocked
  <2>2. PICK p \in {"select", "failing"}, n \in {loop[l].enqueued, loop[l].enqueued + 1} :
          loop' = [loop EXCEPT ![l].done = Blocked(f), ![l].pc = p, ![l].enqueued = n]
    <3>1. CASE loop' = [loop EXCEPT ![l].done = Blocked(f)]
      BY <3>1, <1>1 DEF Typed, Loops
    <3>2. CASE loop' = [loop EXCEPT ![l].done = Blocked(f), ![l].pc = "failing",
                                    ![l].enqueued = @ + 1]
      BY <3>2
    <3> QED
      BY <3>1, <3>2 DEF FilterFailed
  <2>3. loop[l].enqueued \in Nat /\ n \in Nat /\ n >= loop[l].enqueued
    BY <1>1 DEF Loops
  <2> HIDE DEF l
  <2>4. /\ DOMAIN loop' = DOMAIN loop /\ loop' \in [DOMAIN loop' -> Loops]
        /\ loop'[l].enqueued >= loop[l].enqueued
        /\ \A k \in DOMAIN loop : k # l => loop'[k] = loop[k]
    BY <2>1, <2>2, <2>3, <1>1 DEF Typed, Loops
  <2>5. ASSUME NEW k \in DOMAIN loop PROVE loop'[k].enqueued >= loop[k].enqueued
    <3>1. CASE k = l
      BY <3>1, <2>4
    <3>2. CASE k # l
      <4>1. loop[k].enqueued \in Nat
        BY DEF Typed, Loops
      <4> QED
        BY <3>2, <4>1, <2>4
    <3> QED
      BY <3>1, <3>2
  <2> QED
    BY <2>4, <2>5
<1>8. UNCHANGED <<taskVars, RC, run, inflight, stored>>
  BY DEF FilterFailed
<1>9. RunPaths'
  <2>1. ASSUME NEW r \in DOMAIN run
        PROVE  r[2] <= loop'[r[1]].enqueued \/ loop'[r[1]].pc \in {"pushfake", "closed"}
    <3>1. r[1] \in DOMAIN loop /\ r[2] \in Nat /\ loop[r[1]].enqueued \in Nat /\ loop'[r[1]].enqueued \in Nat
      BY <1>7 DEF Typed, RunPaths, Loops
    <3>2. CASE r[1] = l
      <4>1. r[2] <= loop[l].enqueued
        BY <3>2, <1>1 DEF Typed, RunPaths
      <4> QED
        BY <3>1, <3>2, <4>1, <1>7
    <3>3. CASE r[1] # l
      BY <3>1, <3>3, <1>7 DEF Typed, RunPaths
    <3> QED
      BY <3>2, <3>3
  <2> QED
    BY <2>1, <1>7, <1>8 DEF RunPaths, Typed
<1>10. LoopPaths' /\ FramePaths'
  <2>1. \A g \in DOMAIN frame' \ DOMAIN frame : g = <<CurrentLoop(f), 0>> /\ frame'[g].call = "next"
    BY <1>6
  <2>2. DOMAIN frame \subseteq DOMAIN frame'
    BY <1>6
  <2>3. \A g \in DOMAIN frame : frame'[g].acts = frame[g].acts /\ (g # f => frame'[g] = frame[g])
    BY <1>4, <1>6
  <2>4. \/ frame'[f].i = frame[f].i /\ frame'[f].call \in {"select", "out"}
        \/ frame'[f].i = frame[f].i + 1 /\ frame'[f].call = "next"
    BY <1>4, <1>6
  <2> HIDE DEF l, x, left, nested
  <2> QED
    BY <2>1, <2>2, <2>3, <2>4, <1>1, <1>7, <1>8, MovedOnPaths
<1> QED
  BY <1>6, <1>7, <1>8, <1>9, <1>10 DEF Typed, taskVars

\* Loops that keep their counter, and do not leave their last act, keep
\* runnables numbered.
LEMMA LoopsMovedOn ==
  ASSUME Typed, DOMAIN loop' = DOMAIN loop, UNCHANGED run,
         \A k \in DOMAIN loop :
            /\ loop'[k].enqueued = loop[k].enqueued
            /\ \/ loop[k].pc \notin {"pushfake", "closed"}
               \/ loop'[k].pc \in {"pushfake", "closed"}
  PROVE  RunPaths'
BY DEF Typed, RunPaths

\* Selectors resolve into messages to come, without numbering any runnable.
LEMMA ResolveSelectorsTyped ==
  ASSUME ActionsAssumption, BehaviourAssumption, Typed,
         NEW f \in DOMAIN frame, ResolveSelectors(f)
  PROVE  Typed'
<1> DEFINE l == CurrentLoop(f)
<1>1. /\ frame[f].call = "select" /\ l \in DOMAIN loop /\ loop[l] \in Loops
      /\ frame[f].i \in Nat
  BY DEF ResolveSelectors, Typed, LoopPaths, Frames
<1>2. PICK n \in 0..MaxSelect :
          \/ /\ frame' = NextAction(f)
             /\ loop' = [loop EXCEPT ![l].out = n, ![l].done = NoObjectLeft(n)]
          \/ /\ frame' = NextAction(f)
             /\ loop' = [loop EXCEPT ![l].done = TRUE]
          \/ /\ frame' = Calling(f, "out")
             /\ UNCHANGED loop
  BY DEF ResolveSelectors
<1>3. n \in Nat /\ NoObjectLeft(n) \in BOOLEAN
  BY DEF BehaviourAssumption, NoObjectLeft
<1>4. UNCHANGED <<taskVars, RC, run, inflight, stored>>
  BY DEF ResolveSelectors
<1>5. /\ frame' \in [DOMAIN frame' -> Frames] /\ DOMAIN frame' = DOMAIN frame
      /\ \A g \in DOMAIN frame : frame'[g].acts = frame[g].acts /\ (g # f => frame'[g] = frame[g])
      /\ \/ frame'[f].i = frame[f].i /\ frame'[f].call \in {"select", "out"}
         \/ frame'[f].i = frame[f].i + 1 /\ frame'[f].call = "next"
  <2>1. CASE frame' = NextAction(f)
    BY <2>1, NextActionFacts DEF Typed
  <2>2. CASE frame' = Calling(f, "out")
    BY <2>2, CallingFacts DEF Typed
  <2> QED
    BY <1>2, <2>1, <2>2
<1> HIDE DEF l
<1>6. /\ loop' \in [DOMAIN loop' -> Loops] /\ DOMAIN loop' = DOMAIN loop
      /\ \A k \in DOMAIN loop : loop'[k].enqueued = loop[k].enqueued /\ loop'[k].pc = loop[k].pc
  <2>1. CASE loop' = [loop EXCEPT ![l].out = n, ![l].done = NoObjectLeft(n)]
    BY <2>1, <1>1, <1>3 DEF Typed, Loops
  <2>2. CASE loop' = [loop EXCEPT ![l].done = TRUE]
    BY <2>2, <1>1 DEF Typed, Loops
  <2>3. CASE UNCHANGED loop
    BY <2>3 DEF Typed
  <2> QED
    BY <1>2, <2>1, <2>2, <2>3
<1>7. RunPaths'
  BY <1>4, <1>6, LoopsMovedOn
<1>8. LoopPaths' /\ FramePaths'
  BY <1>1, <1>4, <1>5, <1>6, MovedOnPaths
<1> QED
  BY <1>4, <1>5, <1>6, <1>7, <1>8 DEF Typed, taskVars

\* The message is handed over before it is counted.
LEMMA SendMessageTyped ==
  ASSUME Typed, NEW f \in DOMAIN frame, SendMessage(f)
  PROVE  Typed'
<1> DEFINE l == CurrentLoop(f)
<1>1. /\ frame[f].call = "out" /\ l \in DOMAIN loop /\ loop[l] \in Loops
      /\ loop[l].pc = "select"
  BY DEF SendMessage, Typed, LoopPaths
<1>2. /\ frame' = NextAction(f)
      /\ loop' = [loop EXCEPT ![l].pc = "got", ![l].done = TRUE]
      /\ UNCHANGED <<taskVars, RC, run, inflight, stored>>
  BY DEF SendMessage
<1>3. /\ frame' \in [DOMAIN frame' -> Frames] /\ DOMAIN frame' = DOMAIN frame
      /\ \A g \in DOMAIN frame : frame'[g].acts = frame[g].acts /\ (g # f => frame'[g] = frame[g])
      /\ frame'[f].i = frame[f].i + 1 /\ frame'[f].call = "next"
  BY <1>2, NextActionFacts DEF Typed
<1> HIDE DEF l
<1>4. /\ loop' \in [DOMAIN loop' -> Loops] /\ DOMAIN loop' = DOMAIN loop
      /\ \A k \in DOMAIN loop : /\ loop'[k].enqueued = loop[k].enqueued
                                /\ k # l => loop'[k].pc = loop[k].pc
  BY <1>1, <1>2 DEF Typed, Loops
<1>5. RunPaths'
  BY <1>1, <1>2, <1>4, LoopsMovedOn
<1>6. LoopPaths' /\ FramePaths'
  BY <1>1, <1>2, <1>3, <1>4, MovedOnPaths
<1> QED
  BY <1>2, <1>3, <1>4, <1>5, <1>6 DEF Typed, taskVars

\* Steps of a loop that neither create a runnable nor touch a frame.
LEMMA LoopMovesTyped ==
  ASSUME Typed, NEW l \in DOMAIN loop,
         FanOut(l) \/ FailDispatched(l) \/ (LoopDone(l) /\ ~NothingStarted(l))
  PROVE  Typed'
<1>1. loop[l] \in Loops
  BY DEF Typed
<1>2. /\ loop' \in [DOMAIN loop' -> Loops] /\ DOMAIN loop' = DOMAIN loop
      /\ loop[l].pc \in {"select", "failing"}
      /\ \A k \in DOMAIN loop : /\ loop'[k].enqueued = loop[k].enqueued
                                /\ k # l => loop'[k].pc = loop[k].pc
  <2>1. CASE FanOut(l)
    <3>1. loop[l].out - 1 \in Nat /\ NoObjectLeft(loop[l].out - 1) \in BOOLEAN
      BY <2>1, <1>1 DEF FanOut, Loops, NoObjectLeft
    <3> QED
      BY <2>1, <3>1, <1>1 DEF FanOut, Typed, Loops
  <2>2. CASE FailDispatched(l)
    BY <2>2, <1>1 DEF FailDispatched, Typed, Loops
  <2>3. CASE LoopDone(l) /\ ~NothingStarted(l)
    BY <2>3, <1>1 DEF LoopDone, Typed, Loops
  <2> QED
    BY <2>1, <2>2, <2>3
<1>3. UNCHANGED <<taskVars, frame, run, inflight, stored>>
  BY DEF FanOut, FailDispatched, LoopDone
<1>4. RunPaths'
  BY <1>2, <1>3, LoopsMovedOn
<1>5. LoopPaths' /\ FramePaths'
  BY <1>2, <1>3 DEF Typed, LoopPaths, FramePaths, CurrentLoop, Answered
<1> QED
  BY <1>2, <1>3, <1>4, <1>5 DEF Typed, taskVars

\* A runnable created under the next number of its loop is a new one.
LEMMA CreateTyped ==
  ASSUME ActionsAssumption, Typed, NEW l \in DOMAIN loop,
         NEW a \in Action, NEW p \in {"push", "pushfake"}, NEW n \in Nat,
         loop[l].pc \in {"select", "got"},
         loop' = [loop EXCEPT ![l].pc = p, ![l].enqueued = n],
         \/ p = "push" /\ n = loop[l].enqueued + 1
         \/ p = "pushfake" /\ n = 0 /\ loop[l].enqueued = 0,
         run' = Put(run, <<l, loop[l].enqueued + 1>>, [act |-> a, pc |-> "created"]),
         UNCHANGED <<taskVars, frame, inflight, stored>>
  PROVE  /\ <<l, loop[l].enqueued + 1>> \notin DOMAIN run
         /\ DOMAIN run' = DOMAIN run \cup {<<l, loop[l].enqueued + 1>>}
         /\ run'[<<l, loop[l].enqueued + 1>>].pc = "created"
         /\ \A r \in DOMAIN run : run'[r] = run[r]
         /\ Typed'
<1> DEFINE e == loop[l].enqueued
           x == <<l, e + 1>>
<1>1. loop[l] \in Loops /\ e \in Nat
  BY DEF Typed, Loops
<1>2. x \notin DOMAIN run
  <2> SUFFICES ASSUME x \in DOMAIN run PROVE FALSE
    OBVIOUS
  <2>1. x[1] = l /\ x[2] = e + 1
    OBVIOUS
  <2>2. x[2] <= e
    BY <2>1 DEF Typed, RunPaths
  <2> QED
    BY <1>1, <2>1, <2>2
<1>3. /\ loop' \in [DOMAIN loop' -> Loops] /\ DOMAIN loop' = DOMAIN loop
      /\ loop'[l].pc = p /\ loop'[l].enqueued = n
      /\ \A k \in DOMAIN loop : k # l => loop'[k] = loop[k]
  <2> p \in {"select", "failing", "got", "push", "pushfake", "closed"}
    OBVIOUS
  <2> QED
    BY <1>1 DEF Typed, Loops
<1>4. /\ DOMAIN run' = DOMAIN run \cup {x}
      /\ run'[x] = [act |-> a, pc |-> "created"]
      /\ \A r \in DOMAIN run : run'[r] = run[r]
  <2> HIDE DEF x
  <2> QED
    BY <1>2 DEF Put, x
<1>5. run' \in [DOMAIN run' -> Runnables]
  <2>1. [act |-> a, pc |-> "created"] \in Runnables
    BY DEF Runnables, Counted
  <2> HIDE DEF x
  <2>2. run \in [DOMAIN run -> Runnables]
    BY DEF Typed
  <2> QED
    BY <2>1, <2>2 DEF Put, x
<1>6. RunPaths'
  <2>1. ASSUME NEW r \in DOMAIN run
        PROVE  /\ r = <<r[1], r[2]>> /\ r[1] \in DOMAIN loop' /\ r[2] \in Nat \ {0}
               /\ r[2] <= loop'[r[1]].enqueued \/ loop'[r[1]].pc \in {"pushfake", "closed"}
    <3>1. r = <<r[1], r[2]>> /\ r[1] \in DOMAIN loop /\ r[2] \in Nat \ {0}
      BY DEF Typed, RunPaths
    <3>2. CASE r[1] = l
      <4>1. r[2] <= e
        BY <3>2 DEF Typed, RunPaths
      <4> QED
        BY <3>1, <3>2, <4>1, <1>1, <1>3
    <3>3. CASE r[1] # l
      BY <3>1, <3>3, <1>3 DEF Typed, RunPaths
    <3> QED
      BY <3>2, <3>3
  <2>2. /\ x = <<x[1], x[2]>> /\ x[1] \in DOMAIN loop' /\ x[2] \in Nat \ {0}
        /\ x[2] <= loop'[x[1]].enqueued \/ loop'[x[1]].pc \in {"pushfake", "closed"}
    BY <1>1, <1>3
  <2> QED
    BY <2>1, <2>2, <1>4 DEF RunPaths
<1>7. LoopPaths' /\ FramePaths'
  BY <1>3, <1>4 DEF Typed, LoopPaths, FramePaths, CurrentLoop, Answered
<1>8. Typed'
  BY <1>3, <1>5, <1>6, <1>7 DEF Typed, taskVars
<1>9. run'[x].pc = "created"
  BY <1>4
<1> QED
  BY <1>2, <1>4, <1>8, <1>9

\* CreateChild, and the fake action of LoopDone, create a new runnable.
LEMMA CreateStep ==
  ASSUME ActionsAssumption, Typed, NEW l \in DOMAIN loop,
         CreateChild(l) \/ (LoopDone(l) /\ NothingStarted(l))
  PROVE  /\ <<l, loop[l].enqueued + 1>> \notin DOMAIN run
         /\ DOMAIN run' = DOMAIN run \cup {<<l, loop[l].enqueued + 1>>}
         /\ run'[<<l, loop[l].enqueued + 1>>].pc = "created"
         /\ \A r \in DOMAIN run : run'[r] = run[r]
         /\ Typed'
<1>1. loop[l] \in Loops /\ loop[l].enqueued \in Nat
  BY DEF Typed, Loops
<1>2. CASE CreateChild(l)
  <2>1. frame[l[1]].acts[l[2]] \in Action
    BY DEF Typed, LoopPaths, Frames
  <2>2. /\ loop[l].pc = "got"
        /\ loop' = [loop EXCEPT ![l].pc = "push", ![l].enqueued = loop[l].enqueued + 1]
        /\ run' = Put(run, <<l, loop[l].enqueued + 1>>,
                      [act |-> frame[l[1]].acts[l[2]], pc |-> "created"])
        /\ UNCHANGED <<taskVars, frame, inflight, stored>>
    BY <1>2 DEF CreateChild
  <2>3. loop[l].enqueued + 1 \in Nat
    BY <1>1
  <2> QED
    BY <2>1, <2>2, <2>3, CreateTyped
<1>3. CASE LoopDone(l) /\ NothingStarted(l)
  <2>1. /\ loop[l].pc = "select" /\ loop[l].enqueued = 0
        /\ run' = Put(run, <<l, loop[l].enqueued + 1>>, [act |-> Ignored, pc |-> "created"])
        /\ UNCHANGED <<taskVars, frame, inflight, stored>>
    BY <1>3 DEF LoopDone, NothingStarted
  <2>2. loop' = [loop EXCEPT ![l].pc = "pushfake", ![l].enqueued = 0]
    <3>1. loop' = [loop EXCEPT ![l].pc = "pushfake"]
      BY <1>3 DEF LoopDone
    <3> QED
      BY <3>1, <2>1, <1>1 DEF Typed, Loops
  <2>3. Ignored \in Action
    BY DEF ActionsAssumption
  <2> PICK n \in Nat, p \in {"push", "pushfake"} : n = 0 /\ p = "pushfake"
    OBVIOUS
  <2>4. loop' = [loop EXCEPT ![l].pc = p, ![l].enqueued = n]
    BY <2>2
  <2> QED
    BY <2>1, <2>3, <2>4, CreateTyped
<1> QED
  BY <1>2, <1>3

\* What moving a runnable on changes.
LEMMA GotoFacts ==
  ASSUME Typed, NEW r \in DOMAIN run, NEW p \in Counted \cup Uncounted, Goto(r, p)
  PROVE  /\ DOMAIN run' = DOMAIN run /\ run' \in [DOMAIN run' -> Runnables]
         /\ run'[r].pc = p /\ run'[r].act = run[r].act
         /\ \A q \in DOMAIN run : q # r => run'[q] = run[q]
<1>1. run[r] \in Runnables
  BY DEF Typed
<1> QED
  BY <1>1 DEF Goto, Typed, Runnables

Returned == {"dispatch", "saveFinished", "over"}

\* Moving a runnable on keeps the paths.
LEMMA GotoTyped ==
  ASSUME Typed, NEW r \in DOMAIN run, NEW p \in Counted \cup Uncounted, Goto(r, p),
         run[r].pc \in Returned => p \in Returned,
         UNCHANGED <<frame, loop>>
  PROVE  /\ run' \in [DOMAIN run' -> Runnables]
         /\ LoopPaths' /\ RunPaths' /\ FramePaths'
<1>1. /\ DOMAIN run' = DOMAIN run /\ run' \in [DOMAIN run' -> Runnables]
      /\ run'[r].pc = p /\ run'[r].act = run[r].act
      /\ \A q \in DOMAIN run : q # r => run'[q] = run[q]
  BY GotoFacts
<1>2. LoopPaths' /\ RunPaths'
  BY <1>1 DEF Typed, LoopPaths, RunPaths, CurrentLoop
<1>3. \A f \in DOMAIN run : run[f].pc \in Returned => run'[f].pc \in Returned
  BY <1>1
<1>4. FramePaths'
  BY <1>1, <1>3 DEF Typed, FramePaths, Answered, Returned
<1> QED
  BY <1>1, <1>2, <1>4

\* Queue <- child lets the loop go on.
LEMMA EnqueueTyped ==
  ASSUME Typed, NEW r \in DOMAIN run, Enqueue(r)
  PROVE  Typed'
<1> DEFINE l == r[1]
<1>1. /\ l \in DOMAIN loop /\ loop[l] \in Loops
      /\ run[r].pc = "created" /\ Goto(r, "queued")
      /\ "queued" \in Counted \cup Uncounted
      /\ UNCHANGED <<taskVars, RC, frame, inflight, stored>>
  BY DEF Enqueue, Goto, Typed, RunPaths, Counted
<1>2. /\ DOMAIN run' = DOMAIN run /\ run' \in [DOMAIN run' -> Runnables]
      /\ run'[r].pc = "queued"
      /\ \A q \in DOMAIN run : q # r => run'[q] = run[q]
  BY <1>1, GotoFacts
<1>3. PICK p \in {"select", "closed"} :
         /\ loop' = [loop EXCEPT ![l].pc = p]
         /\ loop[l].pc \in {"push"} \/ p = "closed"
  BY DEF Enqueue
<1> HIDE DEF l
<1>4. /\ loop' \in [DOMAIN loop' -> Loops] /\ DOMAIN loop' = DOMAIN loop
      /\ loop'[l].pc = p
      /\ \A k \in DOMAIN loop : /\ loop'[k].enqueued = loop[k].enqueued
                                /\ k # l => loop'[k].pc = loop[k].pc
  BY <1>1, <1>3 DEF Typed, Loops
<1>5. RunPaths'
  <2>1. ASSUME NEW k \in DOMAIN loop, loop[k].pc \in {"pushfake", "closed"}
        PROVE  loop'[k].pc \in {"pushfake", "closed"}
    <3>1. CASE k = l
      BY <3>1, <2>1, <1>3, <1>4
    <3>2. CASE k # l
      BY <3>2, <2>1, <1>4
    <3> QED
      BY <3>1, <3>2
  <2> QED
    BY <2>1, <1>2, <1>4 DEF Typed, RunPaths
<1>6. LoopPaths'
  BY <1>1, <1>4 DEF Typed, LoopPaths, CurrentLoop
<1>7. FramePaths'
  <2>1. \A f \in DOMAIN run : run[f].pc \in Returned => run'[f].pc \in Returned
    BY <1>1, <1>2 DEF Returned
  <2> QED
    BY <2>1, <1>1, <1>2, <1>4 DEF Typed, FramePaths, Answered, Returned
<1> QED
  BY <1>1, <1>2, <1>4, <1>5, <1>6, <1>7 DEF Typed, taskVars

\* An action that returns without error gets a frame of its own.
LEMMA RunReturnsTyped ==
  ASSUME ActionsAssumption, Typed, NEW r \in DOMAIN run, RunReturns(r)
  PROVE  Typed'
<1>1. /\ run[r].pc = "running" /\ run[r] \in Runnables
      /\ UNCHANGED <<taskVars, loop, inflight, stored>>
  BY DEF RunReturns, Typed
<1>2. CASE Goto(r, "error") /\ UNCHANGED frame
  <2>1. "error" \in Counted \cup Uncounted /\ run[r].pc \notin Returned
    BY <1>1 DEF Uncounted, Returned
  <2>2. /\ run' \in [DOMAIN run' -> Runnables] /\ LoopPaths' /\ RunPaths' /\ FramePaths'
    BY <2>1, <1>1, <1>2, GotoTyped
  <2> QED
    BY <2>2, <1>1, <1>2 DEF Typed, taskVars
<1>3. CASE /\ Goto(r, "dispatch")
           /\ frame' = Put(frame, r, NewFrame(IF run[r].act \in BreakAfter
                                              THEN <<>> ELSE Chained[run[r].act]))
  <2> DEFINE new == NewFrame(IF run[r].act \in BreakAfter
                             THEN <<>> ELSE Chained[run[r].act])
  <2>1. new \in Frames /\ new.call = "next"
    BY <1>1 DEF ActionsAssumption, Runnables, NewFrame, Frames
  <2>2. r = <<r[1], r[2]>> /\ r[2] \in Nat \ {0}
    BY DEF Typed, RunPaths
  <2>3. r \notin DOMAIN frame
    <3>1. r # Root
      <4>1. \A a, b : <<a, b>> # <<>>
        OBVIOUS
      <4> QED
        BY <4>1, <2>2
    <3> QED
      BY <3>1, <2>2, <1>1 DEF Typed, FramePaths
  <2> HIDE DEF new
  <2>4. /\ DOMAIN frame' = DOMAIN frame \cup {r} /\ frame'[r] = new
        /\ \A f \in DOMAIN frame : frame'[f] = frame[f]
    BY <1>3, <2>3 DEF Put, new
  <2>5. frame' \in [DOMAIN frame' -> Frames]
    BY <2>1, <2>4, <1>3 DEF Put, Typed
  <2>6. /\ DOMAIN run' = DOMAIN run /\ run' \in [DOMAIN run' -> Runnables]
        /\ run'[r].pc = "dispatch"
        /\ \A q \in DOMAIN run : q # r => run'[q] = run[q]
    <3> "dispatch" \in Counted \cup Uncounted
      BY DEF Uncounted
    <3> QED
      BY <1>3, GotoFacts
  <2>7. LoopPaths' /\ RunPaths'
    BY <2>1, <2>4, <2>6, <1>1 DEF Typed, LoopPaths, RunPaths, CurrentLoop
  <2>8. FramePaths'
    <3>1. \A k \in DOMAIN loop : Answered(k) => Answered(k)'
      BY <2>4 DEF Answered, Typed, LoopPaths
    <3>2. ASSUME NEW f \in DOMAIN frame \ {Root}
          PROVE  /\ f = <<f[1], f[2]>>
                 /\ \/ f \in DOMAIN run' /\ f[2] # 0 /\ run'[f].pc \in Returned
                    \/ f[2] = 0 /\ f[1] \in DOMAIN loop' /\ Answered(f[1])'
      BY <3>1, <2>3, <2>6, <1>1 DEF Typed, FramePaths, Returned
    <3> QED
      BY <3>2, <2>2, <2>4, <2>6 DEF FramePaths, Returned
  <2> QED
    BY <2>5, <2>6, <2>7, <2>8, <1>1 DEF Typed, taskVars
<1> QED
  BY <1>2, <1>3 DEF RunReturns

\* Steps of a runnable that only move it on, and may write the task.
LEMMA RunMovesTyped ==
  ASSUME Typed, NEW r \in DOMAIN run,
         NotFound(r) \/ StartAction(r) \/ Save(r) \/ Panic(r) \/ SetError(r) \/ Finish(r)
  PROVE  Typed'
<1>1. PICK p \in Counted \cup Uncounted :
         Goto(r, p) /\ (run[r].pc \in Returned => p \in Returned)
  <2>1. CASE NotFound(r) \/ StartAction(r) \/ Panic(r) \/ SetError(r)
    BY <2>1 DEF NotFound, StartAction, Panic, SetError, Counted, Uncounted, Returned
  <2>2. CASE Save(r)
    BY <2>2 DEF Save, AfterSave, Counted, Uncounted, Returned
  <2>3. CASE Finish(r)
    BY <2>3 DEF Finish, AfterFinish, Uncounted, Returned
  <2> QED
    BY <2>1, <2>2, <2>3
<1>2. UNCHANGED <<frame, loop, stored>>
  BY DEF NotFound, StartAction, Save, Panic, SetError, Finish
<1>3. /\ status' \in Status /\ started' \in BOOLEAN /\ ended' \in BOOLEAN
      /\ inflight' \in BOOLEAN
  BY DEF Typed, Status, taskVars, FinishedUnlessBusy,
         NotFound, StartAction, Save, Panic, SetError, Finish
<1>4. run' \in [DOMAIN run' -> Runnables] /\ LoopPaths' /\ RunPaths' /\ FramePaths'
  BY <1>1, <1>2, GotoTyped
<1> QED
  BY <1>2, <1>3, <1>4 DEF Typed

\* The steps of the three kinds of goroutine, and the client's, keep types.
LEMMA NextTyped ==
  ASSUME ActionsAssumption, BehaviourAssumption, Typed, Next
  PROVE  Typed'
<1>1. CASE \E f \in DOMAIN frame : FrameStep(f)
  BY <1>1, ApplyFiltersTyped, FilterFailedTyped, ResolveSelectorsTyped, SendMessageTyped
     DEF FrameStep
<1>2. CASE \E l \in DOMAIN loop : LoopStep(l)
  BY <1>2, LoopMovesTyped, CreateStep DEF LoopStep
<1>3. CASE \E r \in DOMAIN run : RunStep(r)
  BY <1>3, EnqueueTyped, RunReturnsTyped, RunMovesTyped DEF RunStep
<1>4. CASE ClientReads
  BY <1>4 DEF ClientReads, Typed, taskVars, LoopPaths, RunPaths, FramePaths,
              CurrentLoop, Answered
<1>5. CASE Terminated
  BY <1>5 DEF Terminated, vars, Typed, LoopPaths, RunPaths, FramePaths,
              CurrentLoop, Answered
<1> QED
  BY <1>1, <1>2, <1>3, <1>4, <1>5 DEF Next

----------------------------------------------------------------------------
(***************************************************************************)
(* Counting: RC follows the set of live runnables step by step.            *)
(***************************************************************************)

\* Live is finite when there are finitely many runnables.
LEMMA LiveFinite ==
  ASSUME IsFiniteSet(DOMAIN run)
  PROVE  IsFiniteSet(Live) /\ Cardinality(Live) \in Nat
BY FS_Subset, FS_CardinalityType DEF Live

\* Moving a runnable between two counted, or two uncounted, places.
LEMMA SameLive ==
  ASSUME Typed, NEW r \in DOMAIN run, NEW p \in Counted \cup Uncounted, Goto(r, p),
         run[r].pc \in Counted <=> p \in Counted
  PROVE  Live' = Live /\ DOMAIN run' = DOMAIN run
BY GotoFacts DEF Live

\* CreateChild and the fake action add one live runnable to the counter.
LEMMA CreateCounted ==
  ASSUME ActionsAssumption, Typed, IsFiniteSet(DOMAIN run), RCCountsLive,
         NEW l \in DOMAIN loop, CreateChild(l) \/ (LoopDone(l) /\ NothingStarted(l))
  PROVE  IsFiniteSet(DOMAIN run') /\ RCCountsLive'
<1> DEFINE x == <<l, loop[l].enqueued + 1>>
<1>1. /\ x \notin DOMAIN run /\ DOMAIN run' = DOMAIN run \cup {x}
      /\ run'[x].pc = "created"
      /\ \A r \in DOMAIN run : run'[r] = run[r]
  BY CreateStep
<1>2. RC' = RC + 1
  BY DEF CreateChild, LoopDone, Added
<1> HIDE DEF x
<1>3. Live' = Live \cup {x} /\ x \notin Live
  BY <1>1 DEF Live, Counted
<1>4. Cardinality(Live') = Cardinality(Live) + 1
  BY <1>3, LiveFinite, FS_AddElement
<1>5. IsFiniteSet(DOMAIN run')
  BY <1>1, FS_AddElement
<1> QED
  BY <1>2, <1>4, <1>5 DEF RCCountsLive

\* Done(1) removes one.
LEMMA ReturnCounted ==
  ASSUME Typed, IsFiniteSet(DOMAIN run), RCCountsLive,
         NEW r \in DOMAIN run, RunReturns(r)
  PROVE  IsFiniteSet(DOMAIN run') /\ RCCountsLive'
<1>1. PICK p \in {"error", "dispatch"} : Goto(r, p)
  BY DEF RunReturns
<1>2. p \in Uncounted /\ p \notin Counted /\ run[r].pc \in Counted /\ RC' = RC - 1
  BY DEF RunReturns, Counted, Uncounted, Done
<1>3. Live' = Live \ {r} /\ r \in Live /\ DOMAIN run' = DOMAIN run
  BY <1>1, <1>2, GotoFacts DEF Live
<1>4. Cardinality(Live') = Cardinality(Live) - 1
  BY <1>3, LiveFinite, FS_RemoveElement
<1> QED
  BY <1>2, <1>3, <1>4 DEF RCCountsLive

\* Every other step of a runnable leaves both alone.
LEMMA OthersCounted ==
  ASSUME Typed, RCCountsLive, IsFiniteSet(DOMAIN run), NEW r \in DOMAIN run,
         \/ Enqueue(r) \/ NotFound(r) \/ StartAction(r) \/ Save(r)
         \/ Panic(r) \/ SetError(r) \/ Finish(r)
  PROVE  IsFiniteSet(DOMAIN run') /\ RCCountsLive'
<1>1. PICK p \in Counted \cup Uncounted :
         Goto(r, p) /\ (run[r].pc \in Counted <=> p \in Counted)
  <2>1. CASE Enqueue(r) \/ NotFound(r) \/ StartAction(r) \/ Panic(r) \/ SetError(r)
    BY <2>1 DEF Enqueue, Goto, NotFound, StartAction, Panic, SetError, Counted, Uncounted
  <2>2. CASE Save(r)
    BY <2>2 DEF Save, AfterSave, Counted, Uncounted
  <2>3. CASE Finish(r)
    BY <2>3 DEF Finish, AfterFinish, Counted, Uncounted
  <2> QED
    BY <2>1, <2>2, <2>3
<1>2. RC' = RC
  BY DEF Enqueue, NotFound, StartAction, Save, Panic, SetError, Finish
<1>3. Live' = Live /\ DOMAIN run' = DOMAIN run
  BY <1>1, SameLive
<1> QED
  BY <1>2, <1>3 DEF RCCountsLive

----------------------------------------------------------------------------
(***************************************************************************)
(* A Finished task is idle.                                                *)
(***************************************************************************)

Active == {"saveRunning", "running", "savePanic", "panicked"}

\* An empty counter means that no runnable is live, hence none is active.
LEMMA ZeroMeansIdle ==
  ASSUME IsFiniteSet(DOMAIN run), RCCountsLive, RC <= 0
  PROVE  \A r \in DOMAIN run : run[r].pc \notin Active
<1>1. Cardinality(Live) = 0
  BY LiveFinite DEF RCCountsLive
<1>2. Live = {}
  BY <1>1, LiveFinite, FS_EmptySet
<1> QED
  BY <1>2 DEF Live, Active, Counted

\* No step of a runnable brings about an active runnable of a Finished task:
\* the start of an action leaves Finished, and SetStatus only reaches it when
\* the counter is empty.
LEMMA RunStepIdle ==
  ASSUME Typed, IsFiniteSet(DOMAIN run), RC \in Int, RCCountsLive, FinishedMeansIdle,
         NEW r \in DOMAIN run, RunStep(r)
  PROVE  FinishedMeansIdle'
<1> SUFFICES ASSUME status' = "Finished", NEW q \in DOMAIN run'
             PROVE  run'[q].pc \notin Active
  BY DEF FinishedMeansIdle, Active
<1>1. PICK p \in Counted \cup Uncounted :
         /\ Goto(r, p) /\ (p \in Active => run[r].pc \in Active \/ status' = "Running")
         /\ \/ status' \in {status, "Running", "Error"}
            \/ RC <= 0 /\ p \notin Active
  <2>1. CASE Enqueue(r) \/ NotFound(r) \/ StartAction(r) \/ Panic(r) \/ SetError(r)
    BY <2>1 DEF Enqueue, Goto, NotFound, StartAction, Panic, SetError,
                Counted, Uncounted, Active, taskVars
  <2>2. CASE Save(r)
    BY <2>2 DEF Save, AfterSave, Counted, Uncounted, Active, taskVars
  <2>3. CASE RunReturns(r)
    BY <2>3 DEF RunReturns, Counted, Uncounted, Active, taskVars
  <2>4. CASE Finish(r)
    <3>1. PICK p \in {"over", "saveFinished"} : Goto(r, p)
      BY <2>4 DEF Finish, AfterFinish
    <3>2. status' = status \/ status' = "Running" \/ RC <= 0
      BY <2>4 DEF Finish, FinishedUnlessBusy, taskVars
    <3> QED
      BY <3>1, <3>2 DEF Uncounted, Active
  <2> QED
    BY <2>1, <2>2, <2>3, <2>4 DEF RunStep
<1>2. /\ DOMAIN run' = DOMAIN run /\ run'[r].pc = p
      /\ \A k \in DOMAIN run : k # r => run'[k] = run[k]
  BY <1>1, GotoFacts
<1>3. CASE RC <= 0 /\ p \notin Active
  BY <1>2, <1>3, ZeroMeansIdle
<1>4. CASE status' \in {status, "Running", "Error"}
  BY <1>1, <1>2, <1>4 DEF FinishedMeansIdle, Active
<1> QED
  BY <1>1, <1>3, <1>4

----------------------------------------------------------------------------
(***************************************************************************)
(* What the status, the end time and the store say of the runnables.       *)
(***************************************************************************)

\* A runnable that wrote its last status set the end time, a delegated one
\* excepted; a task is Queued until an action starts, Running as long as a
\* runnable is on its way (or was delegated), in Error once one failed; and
\* the store has the status, or will be sent it.
EndedOnce ==
  \A r \in DOMAIN run :
    (\/ run[r].pc \in {"saveError", "failed"}
     \/ run[r].pc \in {"saveFinished", "over"} /\ run[r].act \notin Delegated) => ended

QueuedIsNew ==
  status = "Queued" => \A r \in DOMAIN run : run[r].pc \in {"created", "queued", "lost"}

RunningIsBusy ==
  status = "Running" =>
    \E r \in DOMAIN run :
      \/ run[r].pc \in Counted \cup {"error", "dispatch"}
      \/ run[r].pc = "over" /\ run[r].act \in Delegated

ErrorIsKnown ==
  status = "Error" =>
    \E r \in DOMAIN run : run[r].pc \in {"savePanic", "panicked", "saveError", "failed"}

StoreIsTold ==
  status # "Queued" =>
    stored = status \/ inflight \/ \E r \in DOMAIN run : run[r].pc \in DOMAIN AfterSave

Settling == EndedOnce /\ QueuedIsNew /\ RunningIsBusy /\ ErrorIsKnown /\ StoreIsTold

\* A counter above zero has a runnable to show for it.
LEMMA PositiveMeansBusy ==
  ASSUME IsFiniteSet(DOMAIN run), RCCountsLive, RC > 0
  PROVE  \E r \in DOMAIN run : run[r].pc \in Counted
<1>1. Live # {}
  BY FS_EmptySet DEF RCCountsLive
<1> QED
  BY <1>1 DEF Live

\* Steps that leave the task as it is: a runnable is enqueued, not found,
\* saved, or returns.
LEMMA QuietRunSettling ==
  ASSUME Typed, Settling, NEW r \in DOMAIN run,
         Enqueue(r) \/ NotFound(r) \/ Save(r) \/ RunReturns(r)
  PROVE  Settling'
<1>1. PICK p \in Counted \cup Uncounted :
         /\ Goto(r, p)
         /\ \/ run[r].pc = "created" /\ p = "queued" /\ UNCHANGED inflight
            \/ run[r].pc = "queued" /\ p = "lost" /\ UNCHANGED inflight
            \/ run[r].pc = "running" /\ p \in {"error", "dispatch"} /\ UNCHANGED inflight
            \/ run[r].pc = "saveRunning" /\ p = "running" /\ inflight' = TRUE
            \/ run[r].pc = "savePanic" /\ p = "panicked" /\ inflight' = TRUE
            \/ run[r].pc = "saveError" /\ p = "failed" /\ inflight' = TRUE
            \/ run[r].pc = "saveFinished" /\ p = "over" /\ inflight' = TRUE
  BY DEF Enqueue, NotFound, Save, RunReturns, Goto, AfterSave, Counted, Uncounted
<1>2. UNCHANGED <<status, ended, stored>>
  BY DEF Enqueue, NotFound, Save, RunReturns, taskVars
<1>3. /\ DOMAIN run' = DOMAIN run /\ run'[r].pc = p /\ run'[r].act = run[r].act
      /\ \A q \in DOMAIN run : q # r => run'[q] = run[q]
  BY <1>1, GotoFacts
<1>4. EndedOnce'
  BY <1>1, <1>2, <1>3 DEF Settling, EndedOnce
<1>5. QueuedIsNew'
  BY <1>1, <1>2, <1>3 DEF Settling, QueuedIsNew
<1>6. RunningIsBusy'
  <2> SUFFICES ASSUME status = "Running" PROVE RunningIsBusy'
    BY <1>2 DEF RunningIsBusy
  <2>1. PICK q \in DOMAIN run : \/ run[q].pc \in Counted \cup {"error", "dispatch"}
                                \/ run[q].pc = "over" /\ run[q].act \in Delegated
    BY DEF Settling, RunningIsBusy
  <2>2. CASE q = r
    BY <2>1, <2>2, <1>1, <1>3 DEF RunningIsBusy, Counted
  <2>3. CASE q # r
    BY <2>1, <2>3, <1>3 DEF RunningIsBusy
  <2> QED
    BY <2>2, <2>3
<1>7. ErrorIsKnown'
  <2> SUFFICES ASSUME status = "Error" PROVE ErrorIsKnown'
    BY <1>2 DEF ErrorIsKnown
  <2>1. PICK q \in DOMAIN run : run[q].pc \in {"savePanic", "panicked", "saveError", "failed"}
    BY DEF Settling, ErrorIsKnown
  <2>2. CASE q = r
    BY <2>1, <2>2, <1>1, <1>3 DEF ErrorIsKnown
  <2>3. CASE q # r
    BY <2>1, <2>3, <1>3 DEF ErrorIsKnown
  <2> QED
    BY <2>2, <2>3
<1>8. StoreIsTold'
  <2> SUFFICES ASSUME status # "Queued", stored # status, inflight' # TRUE
               PROVE  \E q \in DOMAIN run' : run'[q].pc \in DOMAIN AfterSave
    BY <1>2 DEF StoreIsTold
  <2>1. run[r].pc \notin DOMAIN AfterSave /\ UNCHANGED inflight
    BY <1>1 DEF AfterSave
  <2>2. PICK q \in DOMAIN run : run[q].pc \in DOMAIN AfterSave
    BY <2>1 DEF Settling, StoreIsTold, Typed
  <2> QED
    BY <2>1, <2>2, <1>3
<1> QED
  BY <1>4, <1>5, <1>6, <1>7, <1>8 DEF Settling

\* Steps that write the status of the task: each is followed by a Save of the
\* same runnable, but for a delegated one, which writes nothing.
LEMMA WritingRunSettling ==
  ASSUME Typed, IsFiniteSet(DOMAIN run), RCCountsLive, RC \in Int, Settling,
         NEW r \in DOMAIN run, StartAction(r) \/ Panic(r) \/ SetError(r) \/ Finish(r)
  PROVE  Settling'
<1>1. PICK p \in Counted \cup Uncounted : Goto(r, p) /\
         \/ /\ p = "saveRunning" /\ status' = "Running" /\ UNCHANGED ended
            /\ run[r].pc = "queued"
         \/ /\ p = "savePanic" /\ status' = "Error" /\ UNCHANGED ended
            /\ run[r].pc = "running"
         \/ /\ p = "saveError" /\ status' = "Error" /\ ended' = TRUE
            /\ run[r].pc = "error"
         \/ /\ p = "saveFinished" /\ run[r].pc = "dispatch" /\ ended' = TRUE
            /\ status' = "Finished" \/ (status' = "Running" /\ RC > 0)
         \/ /\ p = "over" /\ run[r].pc = "dispatch" /\ run[r].act \in Delegated
            /\ UNCHANGED <<status, ended>>
  BY DEF StartAction, Panic, SetError, Finish, AfterFinish, FinishedUnlessBusy,
         taskVars, Counted, Uncounted
<1>2. UNCHANGED <<inflight, stored>>
  BY DEF StartAction, Panic, SetError, Finish
<1>3. /\ DOMAIN run' = DOMAIN run /\ run'[r].pc = p /\ run'[r].act = run[r].act
      /\ \A q \in DOMAIN run : q # r => run'[q] = run[q]
  BY <1>1, GotoFacts
<1>4. EndedOnce'
  BY <1>1, <1>3 DEF Settling, EndedOnce
<1>5. QueuedIsNew'
  <2>1. status' = "Queued" => run[r].pc = "dispatch" /\ status = "Queued"
    BY <1>1
  <2> QED
    BY <2>1 DEF Settling, QueuedIsNew
<1>6. RunningIsBusy'
  <2>1. CASE p = "saveRunning"
    BY <2>1, <1>3 DEF RunningIsBusy, Counted
  <2>2. CASE p = "over"
    BY <2>2, <1>1, <1>3 DEF RunningIsBusy
  <2>3. CASE p = "saveFinished"
    <3> SUFFICES ASSUME RC > 0 PROVE RunningIsBusy'
      BY <2>3, <1>1 DEF RunningIsBusy
    <3>1. PICK q \in DOMAIN run : run[q].pc \in Counted
      BY PositiveMeansBusy
    <3>2. q # r
      BY <3>1, <2>3, <1>1 DEF Counted
    <3> QED
      BY <3>1, <3>2, <1>3 DEF RunningIsBusy
  <2>4. CASE p \in {"savePanic", "saveError"}
    BY <2>4, <1>1 DEF RunningIsBusy
  <2> QED
    BY <2>1, <2>2, <2>3, <2>4, <1>1
<1>7. ErrorIsKnown'
  <2>1. CASE p \in {"savePanic", "saveError"}
    BY <2>1, <1>3 DEF ErrorIsKnown
  <2>2. CASE p \in {"saveRunning", "saveFinished"}
    BY <2>2, <1>1 DEF ErrorIsKnown
  <2>3. CASE p = "over"
    <3> SUFFICES ASSUME status = "Error" PROVE ErrorIsKnown'
      BY <2>3, <1>1 DEF ErrorIsKnown
    <3>1. PICK q \in DOMAIN run : run[q].pc \in {"savePanic", "panicked", "saveError", "failed"}
      BY DEF Settling, ErrorIsKnown
    <3>2. q # r
      BY <3>1, <2>3, <1>1
    <3> QED
      BY <3>1, <3>2, <1>3 DEF ErrorIsKnown
  <2> QED
    BY <2>1, <2>2, <2>3, <1>1
<1>8. StoreIsTold'
  <2>1. CASE p # "over"
    <3>1. p \in DOMAIN AfterSave
      BY <2>1, <1>1 DEF AfterSave
    <3> QED
      BY <3>1, <1>3 DEF StoreIsTold
  <2>2. CASE p = "over"
    <3> SUFFICES ASSUME status # "Queued", stored # status, inflight # TRUE
                 PROVE  \E q \in DOMAIN run' : run'[q].pc \in DOMAIN AfterSave
      BY <2>2, <1>1, <1>2 DEF StoreIsTold
    <3>1. PICK q \in DOMAIN run : run[q].pc \in DOMAIN AfterSave
      BY DEF Settling, StoreIsTold, Typed
    <3>2. run[r].pc \notin DOMAIN AfterSave
      BY <2>2, <1>1 DEF AfterSave
    <3> QED
      BY <3>1, <3>2, <1>3
  <2> QED
    BY <2>1, <2>2
<1> QED
  BY <1>4, <1>5, <1>6, <1>7, <1>8 DEF Settling

\* A new runnable is only another one on its way.
LEMMA CreateSettling ==
  ASSUME ActionsAssumption, Typed, Settling, NEW l \in DOMAIN loop,
         CreateChild(l) \/ (LoopDone(l) /\ NothingStarted(l))
  PROVE  Settling'
<1> DEFINE x == <<l, loop[l].enqueued + 1>>
<1>1. /\ x \notin DOMAIN run /\ DOMAIN run' = DOMAIN run \cup {x}
      /\ run'[x].pc = "created"
      /\ \A r \in DOMAIN run : run'[r] = run[r]
  BY CreateStep
<1>2. UNCHANGED <<status, ended, inflight, stored>>
  BY DEF CreateChild, LoopDone, taskVars
<1> HIDE DEF x
<1>3. EndedOnce' /\ QueuedIsNew'
  BY <1>1, <1>2 DEF Settling, EndedOnce, QueuedIsNew
<1>4. RunningIsBusy' /\ ErrorIsKnown' /\ StoreIsTold'
  BY <1>1, <1>2 DEF Settling, RunningIsBusy, ErrorIsKnown, StoreIsTold
<1> QED
  BY <1>3, <1>4 DEF Settling

\* Every step keeps what is known of the status.
LEMMA NextSettling ==
  ASSUME ActionsAssumption, IInv, Settling, [Next]_vars
  PROVE  Settling'
<1> USE DEF IInv
<1>1. CASE UNCHANGED <<status, ended, inflight, stored, run>>
  BY <1>1 DEF Settling, EndedOnce, QueuedIsNew, RunningIsBusy, ErrorIsKnown, StoreIsTold
<1>2. CASE \E f \in DOMAIN frame : FrameStep(f)
  BY <1>1, <1>2 DEF FrameStep, ApplyFilters, FilterFailed, ResolveSelectors,
                    SendMessage, taskVars
<1>3. CASE \E l \in DOMAIN loop : LoopStep(l)
  BY <1>1, <1>3, CreateSettling DEF LoopStep, FanOut, FailDispatched, LoopDone, taskVars
<1>4. CASE \E r \in DOMAIN run : RunStep(r)
  BY <1>4, QuietRunSettling, WritingRunSettling DEF RunStep
<1>5. CASE ClientReads
  BY <1>5 DEF ClientReads, taskVars, Settling, EndedOnce, QueuedIsNew, RunningIsBusy,
              ErrorIsKnown, StoreIsTold
<1>6. CASE Terminated \/ UNCHANGED vars
  BY <1>1, <1>6 DEF Terminated, vars, taskVars
<1> QED
  BY <1>2, <1>3, <1>4, <1>5, <1>6 DEF Next

\* When everything returned and every runnable ran to its end, no runnable is
\* left to account for Running, nor for a positive counter.
LEMMA SettlingSettles ==
  ASSUME IInv, Settling
  PROVE  SettledStatus
<1> SUFFICES ASSUME Quiescent, RanToTheEnd
             PROVE  /\ RC = 0 /\ ended
                    /\ status \in {"Finished", "Error"} /\ stored = status
                    /\ (\A r \in DOMAIN run : run[r].pc = "over") => status = "Finished"
  BY DEF SettledStatus
<1>1. PICK q \in DOMAIN run : TRUE
  BY DEF RanToTheEnd
<1>2. \A r \in DOMAIN run : run[r].pc \in {"over", "failed"} /\ run[r].act \notin Delegated
  BY DEF RanToTheEnd
<1>3. RC = 0
  <2>1. Live = {}
    BY <1>2 DEF Live, Counted
  <2> QED
    BY <2>1, FS_EmptySet DEF IInv, RCCountsLive
<1>4. ended
  BY <1>1, <1>2 DEF Settling, EndedOnce
<1>5. status # "Queued"
  BY <1>1, <1>2 DEF Settling, QueuedIsNew
<1>6. status # "Running"
  BY <1>2 DEF Settling, RunningIsBusy, Counted
<1>7. (\A r \in DOMAIN run : run[r].pc = "over") => status # "Error"
  BY DEF Settling, ErrorIsKnown
<1>8. stored = status
  <2>1. ~inflight
    BY DEF Quiescent
  <2>2. \A r \in DOMAIN run : run[r].pc \notin DOMAIN AfterSave
    BY <1>2 DEF AfterSave
  <2> QED
    BY <2>1, <2>2, <1>5 DEF Settling, StoreIsTold
<1>9. status \in Status
  BY DEF IInv, Typed
<1> QED
  BY <1>3, <1>4, <1>5, <1>6, <1>7, <1>8, <1>9 DEF Status

----------------------------------------------------------------------------
(***************************************************************************)
(* A manual run reports: every root action leaves a runnable that reports. *)
(***************************************************************************)

\* The root actions, and the one spawned to update the status, have an
\* implementation, and no root action has actions for failed filters: those
\* count as enqueued without creating a runnable themselves.
RootsReport ==
  /\ Ignored \in Registered
  /\ \A k \in 1..Len(RootActions) :
       RootActions[k] \in Registered /\ OnFail[RootActions[k]] = <<>>

Closing == {"pushfake", "closed"}

\* The root frame walks the job's actions and leaves a loop for each; such a
\* loop has its first runnable once it counted one, or is past its last act
\* in a manual run; and what it creates is never lost.
Reporting ==
  /\ Root \in DOMAIN frame /\ frame[Root].acts = RootActions
  /\ \A k \in 1..Len(RootActions) : k < frame[Root].i => <<Root, k>> \in DOMAIN loop
  /\ \A l \in DOMAIN loop :
       /\ l[1] = Root
       /\ loop[l].enqueued > 0 \/ (Manual /\ loop[l].pc \in Closing)
       => <<l, 1>> \in DOMAIN run
  /\ \A r \in DOMAIN run : r[1][1] = Root => run[r].act \in Registered /\ run[r].pc # "lost"

\* What a step may do to the root frame, its loops and their runnables.
LEMMA ReportingKept ==
  ASSUME ActionsAssumption, Typed, Reporting,
         DOMAIN run \subseteq DOMAIN run',
         \A r \in DOMAIN run' : r[1][1] = Root => run'[r].act \in Registered /\ run'[r].pc # "lost",
         Root \in DOMAIN frame', frame'[Root].acts = frame[Root].acts,
         \/ frame'[Root].i = frame[Root].i
         \/ frame'[Root].i = frame[Root].i + 1 /\ frame[Root].call # "next",
         DOMAIN loop \subseteq DOMAIN loop',
         \A l \in DOMAIN loop' : l[1] = Root =>
           \/ loop'[l].enqueued = 0 /\ loop'[l].pc = "select"
           \/ <<l, 1>> \in DOMAIN run'
           \/ /\ l \in DOMAIN loop /\ loop'[l].enqueued = loop[l].enqueued
              /\ Manual /\ loop'[l].pc \in Closing => loop[l].pc \in Closing
  PROVE  Reporting'
<1>1. frame[Root].i \in Nat
  BY DEF Reporting, Typed, Frames
<1>2. ASSUME NEW k \in 1..Len(RootActions), k < frame'[Root].i
      PROVE  <<Root, k>> \in DOMAIN loop'
  <2>1. Len(RootActions) \in Nat
    BY DEF ActionsAssumption
  <2>2. k < frame[Root].i \/ (k = frame[Root].i /\ frame[Root].call # "next")
    BY <1>1, <1>2, <2>1
  <2>3. CASE k < frame[Root].i
    BY <2>3 DEF Reporting
  <2>4. CASE k = frame[Root].i /\ frame[Root].call # "next"
    BY <2>4 DEF Typed, LoopPaths, CurrentLoop, Reporting
  <2> QED
    BY <2>2, <2>3, <2>4
<1>3. ASSUME NEW l \in DOMAIN loop', l[1] = Root,
             loop'[l].enqueued > 0 \/ (Manual /\ loop'[l].pc \in Closing)
      PROVE  <<l, 1>> \in DOMAIN run'
  <2>1. ~(loop'[l].enqueued = 0 /\ loop'[l].pc = "select")
    BY <1>3 DEF Closing
  <2>2. CASE /\ l \in DOMAIN loop /\ loop'[l].enqueued = loop[l].enqueued
             /\ Manual /\ loop'[l].pc \in Closing => loop[l].pc \in Closing
    BY <1>3, <2>2 DEF Reporting
  <2> QED
    BY <1>3, <2>1, <2>2
<1> QED
  BY <1>2, <1>3 DEF Reporting

\* Frame f replaced or gone on, the root frame goes on at most by one, when it is f.
LEMMA MovedRoot ==
  ASSUME Typed, NEW f \in DOMAIN frame, Root \in DOMAIN frame,
         NEW left, left = NextAction(f) \/ \E c : left = Calling(f, c)
  PROVE  /\ DOMAIN left = DOMAIN frame
         /\ left[Root].acts = frame[Root].acts
         /\ left[Root].i = frame[Root].i \/ (f = Root /\ left[Root].i = frame[Root].i + 1)
<1>1. frame \in [DOMAIN frame -> Frames]
  BY DEF Typed
<1>2. CASE left = NextAction(f)
  BY <1>1, <1>2, NextActionFacts
<1>3. ASSUME NEW c, left = Calling(f, c)
      PROVE  /\ DOMAIN left = DOMAIN frame
             /\ left[Root].acts = frame[Root].acts /\ left[Root].i = frame[Root].i
  BY <1>1, <1>3 DEF Calling, Frames
<1> QED
  BY <1>2, <1>3

\* Dispatch and ToMessages on the side of a frame.
LEMMA FrameReporting ==
  ASSUME ActionsAssumption, BehaviourAssumption, RootsReport, Typed, Reporting,
         NEW f \in DOMAIN frame, FrameStep(f)
  PROVE  Reporting'
<1> DEFINE l == CurrentLoop(f)
<1>0. Root \in DOMAIN frame
  BY DEF Reporting
<1>1. run' = run
  BY DEF FrameStep, ApplyFilters, FilterFailed, ResolveSelectors, SendMessage
<1>2. l[1] = f /\ (frame[f].call # "next" => l \in DOMAIN loop)
  BY DEF CurrentLoop, Typed, LoopPaths
<1>3. CASE ApplyFilters(f)
  <2>1. PICK c : frame' = Calling(f, c)
    BY <1>3 DEF ApplyFilters
  <2>2. /\ Root \in DOMAIN frame' /\ frame'[Root].acts = frame[Root].acts
        /\ frame'[Root].i = frame[Root].i
    BY <2>1 DEF Calling, Reporting, Typed, Frames
  <2>3. loop' = Put(loop, l, [pc |-> "select", enqueued |-> 0, out |-> 0, done |-> FALSE])
    BY <1>3 DEF ApplyFilters
  <2> HIDE DEF l
  <2>4. /\ DOMAIN loop \subseteq DOMAIN loop'
        /\ \A k \in DOMAIN loop' :
              \/ loop'[k].enqueued = 0 /\ loop'[k].pc = "select"
              \/ k \in DOMAIN loop /\ loop'[k] = loop[k]
    BY <2>3 DEF Put
  <2> QED
    BY <1>1, <2>2, <2>4, ReportingKept DEF Reporting
<1>4. CASE FilterFailed(f)
  <2>1. /\ frame[f].call # "next" /\ loop[l].pc = "select"
        /\ loop[l] \in Loops /\ frame[f].i \in 1..Len(frame[f].acts)
    BY <1>2, <1>4 DEF FilterFailed, Typed, LoopPaths, CurrentLoop, Frames
  <2>2. f = Root => OnFail[Current(f)] = <<>>
    BY <2>1 DEF RootsReport, Reporting, Current
  <2>3. PICK left, x :
          /\ left = NextAction(f) \/ \E c : left = Calling(f, c)
          /\ frame' = left \/ (x # Root /\ \E v : frame' = Put(left, x, v))
    <3>1. \A a, b : <<a, b>> # Root
      OBVIOUS
    <3> QED
      BY <3>1, <1>4 DEF FilterFailed
  <2>4. /\ DOMAIN left = DOMAIN frame
        /\ left[Root].acts = frame[Root].acts
        /\ left[Root].i = frame[Root].i \/ (f = Root /\ left[Root].i = frame[Root].i + 1)
    BY <1>0, <2>3, MovedRoot
  <2>5. /\ Root \in DOMAIN frame' /\ frame'[Root] = left[Root]
    BY <2>3, <2>4 DEF Put, Reporting
  <2>6. /\ DOMAIN loop' = DOMAIN loop
        /\ \A k \in DOMAIN loop : k # l => loop'[k] = loop[k]
        /\ f = Root => loop'[l].enqueued = loop[l].enqueued /\ loop'[l].pc = loop[l].pc
    BY <1>2, <1>4, <2>1, <2>2 DEF FilterFailed, Typed, Loops
  <2> HIDE DEF l
  <2> QED
    BY <1>1, <1>2, <2>1, <2>4, <2>5, <2>6, ReportingKept DEF Reporting
<1>5. CASE ResolveSelectors(f) \/ SendMessage(f)
  <2>1. /\ frame[f].call # "next" /\ loop[l] \in Loops
        /\ frame[f].call = "out" => loop[l].pc = "select"
    BY <1>2, <1>5 DEF ResolveSelectors, SendMessage, Typed
  <2>2. frame' = NextAction(f) \/ frame' = Calling(f, "out")
    BY <1>5 DEF ResolveSelectors, SendMessage
  <2>3. /\ DOMAIN frame' = DOMAIN frame
        /\ frame'[Root].acts = frame[Root].acts
        /\ frame'[Root].i = frame[Root].i \/ (f = Root /\ frame'[Root].i = frame[Root].i + 1)
    BY <1>0, <2>2, MovedRoot
  <2>4. /\ DOMAIN loop' = DOMAIN loop
        /\ \A k \in DOMAIN loop : k # l => loop'[k] = loop[k]
        /\ loop'[l].enqueued = loop[l].enqueued
        /\ loop'[l].pc \in Closing => loop[l].pc \in Closing
    <3> l \in DOMAIN loop /\ loop \in [DOMAIN loop -> Loops]
      BY <1>2, <2>1 DEF Typed
    <3>1. CASE ResolveSelectors(f)
      <4>1. \/ UNCHANGED loop
            \/ loop' = [loop EXCEPT ![l].done = TRUE]
            \/ \E n \in 0..MaxSelect :
                  loop' = [loop EXCEPT ![l].out = n, ![l].done = NoObjectLeft(n)]
        BY <3>1 DEF ResolveSelectors
      <4> HIDE DEF l
      <4>2. CASE UNCHANGED loop
        BY <4>2
      <4>3. CASE loop' = [loop EXCEPT ![l].done = TRUE]
        BY <4>3 DEF Loops
      <4>4. ASSUME NEW n \in 0..MaxSelect,
                   loop' = [loop EXCEPT ![l].out = n, ![l].done = NoObjectLeft(n)]
            PROVE  /\ DOMAIN loop' = DOMAIN loop
                   /\ \A k \in DOMAIN loop : k # l => loop'[k] = loop[k]
                   /\ loop'[l].enqueued = loop[l].enqueued /\ loop'[l].pc = loop[l].pc
        BY <4>4 DEF Loops
      <4> QED
        BY <4>1, <4>2, <4>3, <4>4
    <3>2. CASE SendMessage(f)
      <4>1. loop' = [loop EXCEPT ![l].pc = "got", ![l].done = TRUE]
        BY <3>2 DEF SendMessage
      <4> HIDE DEF l
      <4> QED
        BY <4>1 DEF Loops, Closing
    <3> QED
      BY <1>5, <3>1, <3>2
  <2> HIDE DEF l
  <2> QED
    BY <1>1, <1>2, <2>1, <2>3, <2>4, ReportingKept DEF Reporting
<1> QED
  BY <1>3, <1>4, <1>5 DEF FrameStep

\* A loop of the root frame gets its first runnable from its first message,
\* or in its last act.
LEMMA LoopReporting ==
  ASSUME ActionsAssumption, RootsReport, Typed, Reporting,
         NEW l \in DOMAIN loop, LoopStep(l)
  PROVE  Reporting'
<1>1. loop[l] \in Loops /\ loop[l].enqueued \in Nat /\ UNCHANGED frame
  BY DEF Typed, Loops, LoopStep, FanOut, CreateChild, FailDispatched, LoopDone
<1>2. CASE CreateChild(l) \/ (LoopDone(l) /\ NothingStarted(l))
  <2> DEFINE x == <<l, loop[l].enqueued + 1>>
  <2>1. /\ x \notin DOMAIN run /\ DOMAIN run' = DOMAIN run \cup {x}
        /\ run'[x].pc = "created"
        /\ \A r \in DOMAIN run : run'[r] = run[r]
    BY <1>2, CreateStep
  <2>2. /\ DOMAIN loop' = DOMAIN loop
        /\ \A k \in DOMAIN loop : k # l => loop'[k] = loop[k]
    BY <1>2 DEF CreateChild, LoopDone, Typed
  <2>3. l[1] = Root => run'[x].act \in Registered
    <3>1. CASE CreateChild(l)
      <4>1. run'[x] = [act |-> frame[l[1]].acts[l[2]], pc |-> "created"]
        BY <3>1 DEF CreateChild, Put
      <4>2. l[1] = Root => frame[l[1]].acts[l[2]] \in Registered
        BY DEF Typed, LoopPaths, Reporting, RootsReport
      <4> HIDE DEF x
      <4> QED
        BY <4>1, <4>2
    <3>2. CASE LoopDone(l) /\ NothingStarted(l)
      <4>1. run'[x] = [act |-> Ignored, pc |-> "created"]
        <5>1. loop[l].enqueued = 0
          BY <3>2 DEF NothingStarted
        <5> QED
          BY <3>2, <5>1 DEF LoopDone, Put
      <4> HIDE DEF x
      <4> QED
        BY <4>1 DEF RootsReport
    <3> QED
      BY <1>2, <3>1, <3>2
  <2>4. l[1] = Root => <<l, 1>> \in DOMAIN run'
    <3>1. CASE loop[l].enqueued = 0
      BY <3>1, <2>1
    <3>2. CASE loop[l].enqueued > 0
      BY <3>2, <2>1 DEF Reporting
    <3> QED
      BY <3>1, <3>2, <1>1
  <2>5. x[1] = l
    OBVIOUS
  <2> HIDE DEF x
  <2>6. \A r \in DOMAIN run' : r[1][1] = Root => run'[r].act \in Registered /\ run'[r].pc # "lost"
    BY <2>1, <2>3, <2>5 DEF Reporting
  <2> QED
    BY <1>1, <2>1, <2>2, <2>4, <2>6, ReportingKept DEF Reporting
<1>3. CASE FanOut(l) \/ FailDispatched(l) \/ (LoopDone(l) /\ ~NothingStarted(l))
  <2>1. run' = run
    BY <1>3 DEF FanOut, FailDispatched, LoopDone
  <2>2. /\ DOMAIN loop' = DOMAIN loop
        /\ \A k \in DOMAIN loop : k # l => loop'[k] = loop[k]
        /\ loop'[l].enqueued = loop[l].enqueued
    BY <1>1, <1>3 DEF FanOut, FailDispatched, LoopDone, Typed, Loops
  <2>3. loop'[l].pc \in {"got", "select"} \/ ~NothingStarted(l)
    BY <1>1, <1>3 DEF FanOut, FailDispatched, Typed, Loops
  <2>4. l[1] = Root =>
          \/ <<l, 1>> \in DOMAIN run'
          \/ Manual /\ loop'[l].pc \in Closing => loop[l].pc \in Closing
    <3>1. CASE loop'[l].pc \in {"got", "select"}
      BY <3>1 DEF Closing
    <3>2. CASE ~NothingStarted(l)
      BY <3>2, <1>1, <2>1 DEF NothingStarted, Reporting
    <3> QED
      BY <2>3, <3>1, <3>2
  <2> QED
    BY <1>1, <2>1, <2>2, <2>4, ReportingKept DEF Reporting
<1> QED
  BY <1>2, <1>3 DEF LoopStep

\* A runnable of a root loop moves on without being lost; its loop may end
\* when the queue took it.
LEMMA RunReporting ==
  ASSUME ActionsAssumption, RootsReport, Typed, Reporting,
         NEW r \in DOMAIN run, RunStep(r)
  PROVE  Reporting'
<1>1. PICK p \in Counted \cup Uncounted :
         Goto(r, p) /\ (p = "lost" => run[r].act \notin Registered)
  <2>1. CASE Enqueue(r) \/ NotFound(r) \/ StartAction(r) \/ Panic(r) \/ SetError(r)
    BY <2>1 DEF Enqueue, Goto, NotFound, StartAction, Panic, SetError, Counted, Uncounted
  <2>2. CASE Save(r)
    BY <2>2 DEF Save, AfterSave, Counted, Uncounted
  <2>3. CASE RunReturns(r) \/ Finish(r)
    BY <2>3 DEF RunReturns, Finish, AfterFinish, Counted, Uncounted
  <2> QED
    BY <2>1, <2>2, <2>3 DEF RunStep
<1>2. /\ DOMAIN run' = DOMAIN run /\ run'[r].pc = p /\ run'[r].act = run[r].act
      /\ \A q \in DOMAIN run : q # r => run'[q] = run[q]
  BY <1>1, GotoFacts
<1>3. \A q \in DOMAIN run' : q[1][1] = Root => run'[q].act \in Registered /\ run'[q].pc # "lost"
  BY <1>1, <1>2 DEF Reporting
<1>4. r = <<r[1], r[2]>> /\ r[1] \in DOMAIN loop /\ r[2] \in Nat \ {0}
  BY DEF Typed, RunPaths
<1>5. Root \in DOMAIN frame' /\ frame'[Root] = frame[Root]
  <2>1. r # Root
    <3>1. \A a, b : <<a, b>> # Root
      OBVIOUS
    <3> QED
      BY <3>1, <1>4
  <2>2. frame' = frame \/ \E v : frame' = Put(frame, r, v)
    BY DEF RunStep, Enqueue, NotFound, StartAction, Save, RunReturns, Panic, SetError, Finish
  <2> QED
    BY <2>1, <2>2 DEF Put, Reporting
<1>6. CASE Enqueue(r)
  <2> DEFINE l == r[1]
  <2>1. /\ DOMAIN loop' = DOMAIN loop
        /\ \A k \in DOMAIN loop : k # l => loop'[k] = loop[k]
        /\ loop'[l].enqueued = loop[l].enqueued
    BY <1>4, <1>6 DEF Enqueue, Typed, Loops
  <2>2. l[1] = Root =>
          \/ <<l, 1>> \in DOMAIN run
          \/ Manual /\ loop'[l].pc \in Closing => loop[l].pc \in Closing
    <3> SUFFICES ASSUME l[1] = Root, Manual, loop[l].pc \notin Closing
                 PROVE  <<l, 1>> \in DOMAIN run
      OBVIOUS
    <3>1. r[2] <= loop[l].enqueued
      BY DEF Typed, RunPaths, Closing
    <3>2. loop[l].enqueued > 0
      <4>1. loop[l].enqueued \in Nat
        BY <1>4 DEF Typed, Loops
      <4> QED
        BY <3>1, <4>1, <1>4
    <3> QED
      BY <3>2, <1>4 DEF Reporting
  <2> HIDE DEF l
  <2> QED
    BY <1>2, <1>3, <1>5, <2>1, <2>2, ReportingKept
<1>7. CASE ~Enqueue(r)
  <2>1. loop' = loop
    BY <1>7 DEF RunStep, NotFound, StartAction, Save, RunReturns, Panic, SetError, Finish
  <2> QED
    BY <1>2, <1>3, <1>5, <2>1, ReportingKept
<1> QED
  BY <1>6, <1>7

\* Every step keeps what is known of the root frame.
LEMMA NextReporting ==
  ASSUME ActionsAssumption, BehaviourAssumption, RootsReport, IInv, Reporting, [Next]_vars
  PROVE  Reporting'
<1> USE DEF IInv
<1>1. CASE UNCHANGED <<frame, loop, run>>
  BY <1>1 DEF Reporting
<1>2. CASE ClientReads \/ Terminated \/ UNCHANGED vars
  BY <1>1, <1>2 DEF ClientReads, Terminated, vars
<1> QED
  BY <1>2, FrameReporting, LoopReporting, RunReporting DEF Next

\* When everything returned, the first runnable of the first root action has
\* reported.
LEMMA ReportingReports ==
  ASSUME ActionsAssumption, RootsReport, IInv, Settling, Reporting
  PROVE  ManualRunReports
<1> SUFFICES ASSUME Manual, Quiescent, RootActions # <<>>
             PROVE  stored # "none"
  BY DEF ManualRunReports
<1> DEFINE l == <<Root, 1>>
           r == <<l, 1>>
<1>1. l \in DOMAIN loop
  <2>0. Root \in DOMAIN frame
    BY DEF Reporting
  <2>1. frame[Root].i > Len(RootActions) /\ frame[Root].i \in Nat
    BY <2>0 DEF Quiescent, FrameEnded, Reporting, IInv, Typed, Frames
  <2>2. Len(RootActions) \in Nat \ {0}
    BY DEF ActionsAssumption
  <2>3. 1 \in 1..Len(RootActions) /\ 1 < frame[Root].i
    BY <2>1, <2>2
  <2> QED
    BY <2>3 DEF Reporting
<1>2. l[1] = Root /\ r[1] = l
  OBVIOUS
<1> HIDE DEF l
<1>3. r \in DOMAIN run
  BY <1>1, <1>2 DEF Quiescent, Closing, Reporting
<1> HIDE DEF r
<1>4. run[r].pc \in {"panicked", "failed", "over"}
  BY <1>2, <1>3 DEF Quiescent, Final, Reporting
<1>5. status # "Queued"
  BY <1>3, <1>4 DEF Settling, QueuedIsNew
<1>6. stored = status
  BY <1>5 DEF Quiescent, Final, AfterSave, Settling, StoreIsTold
<1> QED
  BY <1>6 DEF IInv, Typed, Status

----------------------------------------------------------------------------
(***************************************************************************)
(* The inductive invariant and the theorems.                               *)
(***************************************************************************)

\* A new task satisfies the invariant: nothing has been counted yet.
LEMMA InitIInv == ASSUME ActionsAssumption, Init PROVE IInv
<1>1. Typed
  <2>1. NewFrame(RootActions) \in Frames /\ NewFrame(RootActions).call = "next"
    BY DEF NewFrame, Frames, ActionsAssumption
  <2>2. /\ DOMAIN loop = {} /\ DOMAIN run = {} /\ DOMAIN frame = {Root}
        /\ frame \in [DOMAIN frame -> Frames] /\ frame[Root].call = "next"
        /\ loop \in [DOMAIN loop -> Loops] /\ run \in [DOMAIN run -> Runnables]
    BY <2>1 DEF Init
  <2>3. LoopPaths /\ RunPaths /\ FramePaths
    BY <2>2 DEF LoopPaths, RunPaths, FramePaths
  <2> QED
    BY <2>2, <2>3 DEF Init, Typed, Status
<1>2. DOMAIN run = {} /\ Live = {}
  BY DEF Init, Live
<1> QED
  BY <1>1, <1>2, FS_EmptySet DEF Init, IInv, RCCountsLive, FinishedMeansIdle

\* Every step keeps it.
LEMMA NextIInv ==
  ASSUME ActionsAssumption, BehaviourAssumption, IInv, [Next]_vars
  PROVE  IInv'
<1> USE DEF IInv
<1>1. CASE Next
  <2>1. Typed'
    BY <1>1, NextTyped
  <2>2. /\ IsFiniteSet(DOMAIN run') /\ RCCountsLive' /\ FinishedMeansIdle'
    <3>1. CASE UNCHANGED <<status, RC, run>>
      BY <3>1 DEF RCCountsLive, FinishedMeansIdle, Live
    <3>2. ASSUME NEW l \in DOMAIN loop,
                 CreateChild(l) \/ (LoopDone(l) /\ NothingStarted(l))
          PROVE  IsFiniteSet(DOMAIN run') /\ RCCountsLive' /\ FinishedMeansIdle'
      <4>1. UNCHANGED status
        BY <3>2 DEF CreateChild, LoopDone, taskVars
      <4> QED
        BY <3>2, <4>1, CreateCounted, CreateStep DEF FinishedMeansIdle
    <3>3. CASE \E r \in DOMAIN run : RunStep(r)
      BY <3>3, ReturnCounted, OthersCounted, RunStepIdle DEF RunStep
    <3>4. CASE \E f \in DOMAIN frame : FrameStep(f)
      BY <3>4, <3>1 DEF FrameStep, ApplyFilters, FilterFailed, ResolveSelectors,
                        SendMessage, taskVars
    <3>5. CASE \E l \in DOMAIN loop : LoopStep(l)
      BY <3>5, <3>1, <3>2 DEF LoopStep, FanOut, FailDispatched, LoopDone, taskVars
    <3>6. CASE ClientReads \/ Terminated
      BY <3>6, <3>1 DEF ClientReads, Terminated, vars, taskVars
    <3> QED
      BY <1>1, <3>3, <3>4, <3>5, <3>6 DEF Next
  <2>3. RC' \in Int
    <3>1. IsFiniteSet(DOMAIN run)' /\ RCCountsLive'
      BY <2>2
    <3>2. Cardinality(Live)' \in Nat
      BY <2>2, FS_Subset, FS_CardinalityType DEF Live
    <3> QED
      BY <3>1, <3>2 DEF RCCountsLive
  <2> QED
    BY <2>1, <2>2, <2>3
<1>2. CASE UNCHANGED vars
  BY <1>2 DEF vars, Typed, LoopPaths, RunPaths, FramePaths, CurrentLoop, Answered,
              RCCountsLive, Live, FinishedMeansIdle
<1> QED
  BY <1>1, <1>2

\* The invariant holds in every reachable state of every job.
THEOREM Invariance == Spec => []IInv
<1>1. Init => IInv
  BY InitIInv, ActionsAssumption
<1>2. IInv /\ [Next]_vars => IInv'
  BY NextIInv, ActionsAssumption, BehaviourAssumption
<1> QED
  BY <1>1, <1>2, PTL DEF Spec

\* Types, and the uniqueness of action paths (NewRunnable, Dispatch).
THEOREM TypeCorrect == Spec => []TypeOK
<1>1. IInv => TypeOK
  BY LiveFinite DEF IInv, Typed, TypeOK, RCCountsLive
<1> QED
  BY <1>1, Invariance, PTL

\* Task.RC is the number of runnables Add(1) counted and Done(1) did not.
THEOREM CounterCorrect == Spec => []RCCountsLive
<1>1. IInv => RCCountsLive
  BY DEF IInv
<1> QED
  BY <1>1, Invariance, PTL

\* While a task is Finished, no action of it runs and none has panicked.
THEOREM FinishedCorrect == Spec => []FinishedMeansIdle
<1>1. IInv => FinishedMeansIdle
  BY DEF IInv
<1> QED
  BY <1>1, Invariance, PTL

\* Once everything returned, a task whose actions all ran is Finished or in
\* Error, has its end time, and its status reached the jobs service
\* (SetStatus, SetEndTime and Save in RunAction).
THEOREM StatusSettles == Spec => []SettledStatus
<1>1. Init => Settling
  BY DEF Init, Settling, EndedOnce, QueuedIsNew, RunningIsBusy, ErrorIsKnown, StoreIsTold
<1>2. IInv /\ Settling /\ [Next]_vars => Settling'
  BY NextSettling, ActionsAssumption
<1>3. IInv /\ Settling => SettledStatus
  BY SettlingSettles
<1> QED
  BY <1>1, <1>2, <1>3, Invariance, PTL DEF Spec

\* A manual or scheduled run reports some status before it is over, when no
\* root action lacks an implementation or has actions for failed filters
\* (the fake action of Dispatch, runnable.go).
THEOREM EveryManualRunReports ==
  ASSUME RootsReport PROVE Spec => []ManualRunReports
<1>1. Init => Settling /\ Reporting
  BY DEF Init, NewFrame, Settling, EndedOnce, QueuedIsNew, RunningIsBusy, ErrorIsKnown,
         StoreIsTold, Reporting
<1>2. IInv /\ Settling /\ Reporting /\ [Next]_vars => Settling' /\ Reporting'
  BY NextSettling, NextReporting, ActionsAssumption, BehaviourAssumption
<1>3. IInv /\ Settling /\ Reporting => ManualRunReports
  BY ReportingReports, ActionsAssumption
<1> QED
  BY <1>1, <1>2, <1>3, Invariance, PTL DEF Spec
=============================================================================
