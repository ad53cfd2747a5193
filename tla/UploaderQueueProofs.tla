------------------------ MODULE UploaderQueueProofs ------------------------
(***************************************************************************)
(* The store implements TransferQueue: what happens to files the user does *)
(* not stop and that are sent in one request, step by step, when no file   *)
(* is refused or one file is sent at a time.                               *)
(***************************************************************************)
EXTENDS UploaderProofs

\* What the loop of processNext still has to send.
Pending == IF Runs("send") THEN Head(todo).of ELSE {}
Unsent(f) == Shown(f) /\ status[f] \in {"new", "pause"}

NoSend(q) == \A k \in 1..Len(q) : q[k].do # "send"

\* The call takes a file out of the tree.
Takes(c, f) == c.do = "detach" /\ \A i \in c.of : f \in Below(i)
Leaves(q, f) == \E k \in 1..Len(q) : Takes(q[k], f)

\* Files that are aborted leave next.
Follows(q) ==
  \A k \in 1..Len(q) : q[k].do = "abort" =>
     \A f \in Steady \cap q[k].of : k < Len(q) /\ Takes(q[k + 1], f)

\* Sessions become ready, then the files of _processing are sent again.
Resumes(q) ==
  \/ Len(q) > 0 /\ q[1].do = "resume"
  \/ Len(q) > 1 /\ q[1].do = "ready" /\ q[2].do = "resume"

\* There is room for what is still to be sent, and none of it is being sent.
Room ==
  /\ Follows(todo)
  /\ ~Idle => NoSend(Rest)
  /\ \A f \in Pending : f \in File /\ Unsent(f) /\ (f \in Steady => processing[f] = 0)
  /\ Cardinality(Pending) + Cardinality(transfer) <= Slots

\* A file that is being sent is not queued again: its status may only say so
\* during a pause, or before the handler that stopped or restarts it ends.
FileOK(f) ==
  /\ processing[f] <= 1
  /\ processing[f] > 0 /\ Unsent(f) => paused \/ Resumes(todo)
  /\ processing[f] > 0 /\ Shown(f) /\ status[f] = "error" => Leaves(todo, f)
  /\ sess[SessionOf[f]] = "none" => SessionOf[f] \notin sessions /\ processing[f] = 0

QInv == Room /\ \A f \in Steady : FileOK(f)

----------------------------------------------------------------------------
(***************************************************************************)
(* Sequences of calls.                                                     *)
(***************************************************************************)

\* A call before the others.
LEMMA Cons ==
  ASSUME NEW q \in Seq(Call), NEW c \in Call
  PROVE  LET p == <<c>> \o q
         IN /\ Len(p) = Len(q) + 1 /\ p[1] = c
            /\ \A k \in 1..Len(q) : p[k + 1] = q[k]
            /\ \A k \in 1..Len(p) : k = 1 \/ (k - 1 \in 1..Len(q) /\ p[k] = q[k - 1])
OBVIOUS

\* What a push adds.
LEMMA PushKeeps ==
  ASSUME NEW q \in Seq(Call), NEW c \in Call
  PROVE  LET p == Push(c, q)
         IN /\ NoSend(q) /\ c.do # "send" => NoSend(p)
            /\ \A f : Leaves(q, f) => Leaves(p, f)
            /\ \A f : Takes(c, f) => Leaves(p, f)
            /\ Follows(q) /\ (c.do = "abort" => \A f \in Steady \cap c.of : Len(q) > 0 /\ Takes(q[1], f))
               => Follows(p)
<1> DEFINE p == <<c>> \o q
<1>1. CASE Push(c, q) = q
  <2>1. c.do \notin Loops \/ c.of # {} => q = p BY <1>1 DEF Push
  <2>2. Len(p) = Len(q) + 1 /\ Len(q) \in Nat BY Cons
  <2>3. c.do \in Loops BY <2>1, <2>2
  <2> QED BY <1>1, <2>3 DEF Takes, Loops, Clearable
<1>2. CASE Push(c, q) = p
  <2>1. /\ Len(p) = Len(q) + 1 /\ p[1] = c /\ Len(q) \in Nat
        /\ \A k \in 1..Len(q) : p[k + 1] = q[k]
        /\ \A k \in 1..Len(p) : k = 1 \/ (k - 1 \in 1..Len(q) /\ p[k] = q[k - 1])
    BY Cons
  <2> HIDE DEF p
  <2>2. NoSend(q) /\ c.do # "send" => NoSend(p) BY <2>1 DEF NoSend
  <2>3. ASSUME NEW f, Leaves(q, f) PROVE Leaves(p, f)
    <3>1. PICK k \in 1..Len(q) : Takes(q[k], f) BY <2>3 DEF Leaves
    <3>2. k + 1 \in 1..Len(p) /\ Takes(p[k + 1], f) BY <2>1, <3>1
    <3> QED BY <3>2 DEF Leaves
  <2>4. ASSUME NEW f, Takes(c, f) PROVE Leaves(p, f)
    <3>1. 1 \in 1..Len(p) BY <2>1
    <3> QED BY <3>1, <2>1, <2>4 DEF Leaves
  <2>5. ASSUME Follows(q), c.do = "abort" => \A f \in Steady \cap c.of : Len(q) > 0 /\ Takes(q[1], f)
        PROVE  Follows(p)
    <3> SUFFICES ASSUME NEW k \in 1..Len(p), p[k].do = "abort", NEW f \in Steady \cap p[k].of
                 PROVE  k < Len(p) /\ Takes(p[k + 1], f)
      BY DEF Follows
    <3>1. CASE k = 1 BY <2>1, <2>5, <3>1
    <3>2. CASE k # 1
      <4>1. k - 1 \in 1..Len(q) /\ p[k] = q[k - 1] BY <2>1, <3>2
      <4>2. k - 1 < Len(q) /\ Takes(q[(k - 1) + 1], f) BY <2>5, <4>1 DEF Follows
      <4>3. (k - 1) + 1 \in 1..Len(q) /\ (k - 1) + 1 = k BY <2>1, <4>1, <4>2
      <4> QED BY <2>1, <4>2, <4>3
    <3> QED BY <3>1, <3>2
  <2> QED BY <1>2, <2>2, <2>3, <2>4, <2>5
<1> QED BY <1>1, <1>2 DEF Push

\* What is left when the head is popped.
LEMMA RestKeeps ==
  ASSUME TypeOK, ~Idle
  PROVE  /\ todo[1] = Head(todo) /\ Len(todo) \in Nat \ {0}
         /\ NoSend(todo) <=> (Head(todo).do # "send" /\ NoSend(Rest))
         /\ \A f : Leaves(todo, f) => Takes(Head(todo), f) \/ Leaves(Rest, f)
         /\ Follows(todo) => Follows(Rest)
         /\ Follows(todo) /\ Head(todo).do = "abort"
            => \A f \in Steady \cap Head(todo).of : Len(Rest) > 0 /\ Takes(Rest[1], f)
<1>1. todo \in Seq(Call) /\ todo # <<>> BY DEF TypeOK, Idle
<1>2. /\ todo[1] = Head(todo) /\ Len(todo) \in Nat \ {0} /\ Len(Rest) = Len(todo) - 1
      /\ \A k \in 1..Len(Rest) : Rest[k] = todo[k + 1]
  BY <1>1 DEF Rest
<1> DEFINE q == todo
           r == Rest
<1>3. /\ q[1] = Head(q) /\ Len(q) \in Nat \ {0} /\ Len(r) = Len(q) - 1
      /\ \A k \in 1..Len(r) : r[k] = q[k + 1]
      /\ \A k \in 1..Len(q) : k = 1 \/ (k - 1 \in 1..Len(r) /\ q[k] = r[k - 1])
  BY <1>2
<1> HIDE DEF q, r
<1>4. NoSend(q) => Head(q).do # "send"
  <2>1. 1 \in 1..Len(q) BY <1>3
  <2> QED BY <1>3, <2>1 DEF NoSend
<1>5. NoSend(q) => NoSend(r)
  <2>1. \A k \in 1..Len(r) : k + 1 \in 1..Len(q) BY <1>3
  <2> QED BY <1>3, <2>1 DEF NoSend
<1>6. Head(q).do # "send" /\ NoSend(r) => NoSend(q) BY <1>3 DEF NoSend
<1>7. ASSUME NEW f, Leaves(q, f) PROVE Takes(Head(q), f) \/ Leaves(r, f)
  <2>1. PICK k \in 1..Len(q) : Takes(q[k], f) BY <1>7 DEF Leaves
  <2> QED BY <1>3, <2>1 DEF Leaves
<1>8. ASSUME Follows(q), NEW k \in 1..Len(r), r[k].do = "abort", NEW f \in Steady \cap r[k].of
      PROVE  k < Len(r) /\ Takes(r[k + 1], f)
  <2>1. k + 1 \in 1..Len(q) /\ r[k] = q[k + 1] BY <1>3
  <2>2. k + 1 < Len(q) /\ Takes(q[(k + 1) + 1], f) BY <1>8, <2>1 DEF Follows
  <2>3. k + 1 \in 1..Len(r) BY <1>3, <2>2
  <2> QED BY <1>3, <2>2, <2>3
<1>9. ASSUME Follows(q), Head(q).do = "abort", NEW f \in Steady \cap Head(q).of
      PROVE  Len(r) > 0 /\ Takes(r[1], f)
  <2>1. 1 \in 1..Len(q) BY <1>3
  <2>2. 1 < Len(q) /\ Takes(q[1 + 1], f) BY <1>3, <1>9, <2>1 DEF Follows
  <2>3. 1 \in 1..Len(r) BY <1>3, <2>2
  <2> QED BY <1>3, <2>2, <2>3
<1>10. Follows(q) => Follows(r) BY <1>8 DEF Follows
<1> QED BY <1>3, <1>4, <1>5, <1>6, <1>7, <1>9, <1>10 DEF q, r

\* A loop that goes on.
LEMMA OthersKeeps ==
  ASSUME TypeOK, ~Idle, NEW x
  PROVE  /\ Others(x) \in Seq(Call)
         /\ NoSend(Rest) /\ Head(todo).do # "send" => NoSend(Others(x))
         /\ \A f : Leaves(Rest, f) => Leaves(Others(x), f)
         /\ Follows(todo) => Follows(Others(x))
<1> DEFINE c == To(Head(todo).do, {y \in Head(todo).of : Place[x] < Place[y]})
<1>1. Rest \in Seq(Call) /\ c \in Call /\ Others(x) \in Seq(Call) BY RestTypes, CallTypes
<1>2. c.do = Head(todo).do /\ c.of \subseteq Head(todo).of BY DEF To
<1>3. Others(x) = Push(c, Rest) BY DEF Others
<1> HIDE DEF c
<1> QED BY <1>1, <1>2, <1>3, PushKeeps, RestKeeps

----------------------------------------------------------------------------
(***************************************************************************)
(* _processing and the files of getNexts.                                  *)
(***************************************************************************)

\* _processing is finite, and has an entry for each transfer.
LEMMA EntriesOfTransfers ==
  ASSUME TypeOK, Books
  PROVE  /\ Length \in Nat /\ Cardinality(transfer) \in Nat /\ Cardinality(transfer) <= Length
         /\ Length = 0 => \A f \in File : processing[f] = 0
<1> DEFINE of(i) == {i} \X (1..processing[i])
           all == {of(i) : i \in Item}
<1>1. /\ processing \in [Item -> Nat] /\ IsFiniteSet(transfer) /\ \A t \in transfer : t.f \in File
      /\ \A f \in File : processing[f] = Cardinality(Transfers(f))
  BY DEF TypeOK, Books, CountsTransfers
<1>2. IsFiniteSet(Entries)
  <2>1. ASSUME NEW S \in all PROVE IsFiniteSet(S)
    <3>1. PICK i \in Item : S = {i} \X (1..processing[i]) BY <2>1
    <3>2. processing[i] \in Int /\ 1 \in Int BY <1>1
    <3>3. IsFiniteSet(1..processing[i]) BY <3>2, FS_Interval
    <3>4. IsFiniteSet({i}) BY FS_Singleton
    <3> QED BY <3>1, <3>3, <3>4, FS_Product
  <2>2. IsFiniteSet(Item) BY UploaderAssumption, FS_Union DEF Item
  <2>3. IsFiniteSet(all)
    <3> DEFINE g == [i \in Item |-> of(i)]
    <3>1. g \in Surjection(Item, all) BY DEF Surjection
    <3> QED BY <2>2, <3>1, FS_Surjection
  <2> QED BY <2>1, <2>3, FS_UNION DEF Entries
<1>3. Length \in Nat /\ Cardinality(transfer) \in Nat BY <1>1, <1>2, FS_CardinalityType DEF Length
<1>4. Cardinality(transfer) <= Length
  <2> DEFINE Rank(f) == CHOOSE g : g \in Injection(Transfers(f), 1..processing[f])
             h == [t \in transfer |-> <<t.f, Rank(t.f)[t]>>]
  <2>1. ASSUME NEW f \in File PROVE Rank(f) \in Injection(Transfers(f), 1..processing[f])
    <3>1. IsFiniteSet(Transfers(f)) BY <1>1, FS_Subset DEF Transfers
    <3>2. f \in Item /\ processing[f] \in Nat /\ processing[f] = Cardinality(Transfers(f))
      BY <1>1 DEF Item
    <3>3. IsFiniteSet(1..processing[f]) /\ Cardinality(1..processing[f]) = processing[f]
      BY <3>2, FS_Interval
    <3>4. ExistsBijection(Transfers(f), 1..processing[f]) BY <3>1, <3>2, <3>3, FS_SameCardinalityBij
    <3>5. \E g : g \in Injection(Transfers(f), 1..processing[f])
      BY <3>4 DEF ExistsBijection, Bijection
    <3> QED BY <3>5
  <2> HIDE DEF Rank
  <2>2. \A t \in transfer : /\ t.f \in Item /\ Rank(t.f)[t] \in 1..processing[t.f]
                            /\ \A u \in transfer : u.f = t.f /\ Rank(t.f)[u] = Rank(t.f)[t] => u = t
    <3> TAKE t \in transfer
    <3>1. Rank(t.f) \in [Transfers(t.f) -> 1..processing[t.f]] /\ IsInjective(Rank(t.f))
      BY <1>1, <2>1 DEF Injection
    <3>2. \A u \in transfer : u.f = t.f => u \in Transfers(t.f) BY DEF Transfers
    <3> QED BY <1>1, <3>1, <3>2 DEF IsInjective, Item
  <2>3. \A t \in transfer : <<t.f, Rank(t.f)[t]>> \in Entries
    <3> TAKE t \in transfer
    <3>1. <<t.f, Rank(t.f)[t]>> \in of(t.f) /\ of(t.f) \in all BY <2>2
    <3> QED BY <3>1 DEF Entries
  <2>4. h \in [transfer -> Entries] BY <2>3
  <2>5. \A t, u \in transfer : h[t] = h[u] => t = u BY <2>2
  <2>6. h \in Injection(transfer, Entries)
    <3> HIDE DEF h
    <3> QED BY <2>4, <2>5 DEF Injection, IsInjective
  <2> HIDE DEF h
  <2> QED BY <1>2, <2>6, FS_Injection DEF Length
<1>5. ASSUME Length = 0, NEW f \in File PROVE processing[f] = 0
  <2>1. Entries = {} BY <1>2, <1>5, FS_EmptySet DEF Length
  <2>2. f \in Item /\ processing[f] \in Nat BY <1>1 DEF Item
  <2>3. of(f) \in all BY <2>2
  <2>4. of(f) \subseteq Entries BY <2>3 DEF Entries
  <2>5. processing[f] > 0 => <<f, 1>> \in of(f) BY <2>2
  <2> QED BY <2>1, <2>2, <2>4, <2>5
<1> QED BY <1>3, <1>4, <1>5

\* getNexts returns no more files than there are free slots.
LEMMA NextsFit ==
  ASSUME TypeOK, Length \in Nat
  PROVE  /\ IsFiniteSet(GetNexts) /\ Cardinality(GetNexts) \in Nat
         /\ GetNexts = {} \/ Cardinality(GetNexts) <= Slots - Length
<1>1. GetNexts \subseteq Queued /\ Queued \subseteq File BY DEF GetNexts, Queued
<1>2. IsFiniteSet(Queued) /\ IsFiniteSet(GetNexts) BY <1>1, UploaderAssumption, FS_Subset
<1>3. \A f \in Queued : Place[f] \in Nat /\ \A g \in Queued : Place[f] = Place[g] => f = g
  BY <1>1, UploaderAssumption DEF Item
<1>4. \A f \in Queued : IsFiniteSet(QueuedBefore(f)) /\ Cardinality(QueuedBefore(f)) \in Nat
  <2> TAKE f \in Queued
  <2>1. QueuedBefore(f) \subseteq Queued BY DEF QueuedBefore
  <2> QED BY <1>2, <2>1, FS_Subset, FS_CardinalityType
<1>5. ASSUME NEW f \in Queued, NEW g \in Queued, Place[f] < Place[g]
      PROVE  Cardinality(QueuedBefore(f)) < Cardinality(QueuedBefore(g))
  <2>1. f \in QueuedBefore(g) /\ f \notin QueuedBefore(f) BY <1>3, <1>5 DEF QueuedBefore
  <2>2. QueuedBefore(f) \subseteq QueuedBefore(g) BY <1>3, <1>5 DEF QueuedBefore
  <2>3. Cardinality(QueuedBefore(f)) <= Cardinality(QueuedBefore(g)) BY <1>4, <2>2, FS_Subset
  <2>4. Cardinality(QueuedBefore(f)) # Cardinality(QueuedBefore(g)) BY <1>4, <2>1, <2>2, FS_Subset
  <2> QED BY <1>4, <2>3, <2>4
<1>6. \A f, g \in Queued : Cardinality(QueuedBefore(f)) = Cardinality(QueuedBefore(g)) => f = g
  <2> TAKE f, g \in Queued
  <2>1. Place[f] < Place[g] \/ Place[g] < Place[f] \/ f = g BY <1>3
  <2> QED BY <1>4, <1>5, <2>1
<1>7. CASE GetNexts # {}
  <2> DEFINE m == Slots - Length
             h == [f \in GetNexts |-> Cardinality(QueuedBefore(f))]
  <2>1. \A f \in GetNexts : Cardinality(QueuedBefore(f)) < m BY DEF GetNexts
  <2>2. m \in Nat \ {0}
    <3>1. PICK f \in GetNexts : TRUE BY <1>7
    <3> QED BY <1>1, <1>4, <2>1, <3>1, UploaderAssumption
  <2> HIDE DEF m
  <2>3. \A f \in GetNexts : Cardinality(QueuedBefore(f)) \in 0..(m - 1) BY <1>1, <1>4, <2>1, <2>2
  <2>4. h \in [GetNexts -> 0..(m - 1)] BY <2>3
  <2>5. \A f, g \in GetNexts : h[f] = h[g] => f = g BY <1>1, <1>6
  <2> HIDE DEF h
  <2>6. h \in Injection(GetNexts, 0..(m - 1)) BY <2>4, <2>5 DEF Injection, IsInjective
  <2>7. IsFiniteSet(0..(m - 1)) /\ Cardinality(0..(m - 1)) = m BY <2>2, FS_Interval
  <2>8. Cardinality(GetNexts) <= m BY <2>6, <2>7, FS_Injection
  <2> QED BY <1>2, <2>8, FS_CardinalityType DEF m
<1> QED BY <1>2, <1>7, FS_CardinalityType

----------------------------------------------------------------------------
(***************************************************************************)
(* What a step may do to a file.                                           *)
(***************************************************************************)

Same(f) == status'[f] = status[f] /\ processing'[f] = processing[f] /\ started'[f] = started[f]

\* Nothing is forgotten about a file that is being sent.
Keeps(f) ==
  processing[f] > 0 /\ Shown(f) /\ Shown(f)' =>
    /\ paused \/ Resumes(todo) => paused' \/ Resumes(todo')
    /\ Leaves(todo, f) => Leaves(todo', f)

Starts(f) ==
  /\ Unsent(f) /\ processing[f] = 0 /\ processing'[f] = 1
  /\ status'[f] = "loading" /\ started'[f] = started[f] + 1
Refuses(f) ==
  /\ Unsent(f) /\ processing[f] = 0 /\ processing'[f] = 0
  /\ status'[f] = "error" /\ started'[f] = started[f]
Ends(f) ==
  /\ processing[f] = 1 /\ processing'[f] = 0 /\ status'[f] \in {"loaded", "error"}
  /\ started[f] > 0 /\ started'[f] = started[f]
Holds(f) ==
  /\ processing[f] > 0 /\ processing'[f] = processing[f]
  /\ status'[f] = "loading" \/ (paused' /\ status'[f] # "error")
Stops(f) ==
  /\ processing'[f] = processing[f] /\ started'[f] = started[f]
  /\ status[f] # "loaded" /\ status'[f] = "error" /\ Leaves(todo', f)
Returns(f) ==
  /\ processing[f] = 0 /\ processing'[f] = 0 /\ started'[f] = started[f]
  /\ status[f] = "error" /\ Shown(f) /\ status'[f] = "new"

Does(f) ==
  \/ Same(f) /\ Keeps(f)
  \/ Starts(f) \/ Refuses(f) \/ Ends(f) \/ Holds(f) \/ Stops(f) \/ Returns(f)

\* A session is dropped once, and what is removed does not come back.
Views(f) ==
  LET s == SessionOf[f]
  IN /\ sess[s] # "none" => sess'[s] # "none" /\ (Shown(f)' => Shown(f))
     /\ sess'[s] = "none" /\ s \in sessions' => s \in sessions

\* The files of the queue are neither folders nor multipart.
LEMMA SteadyFiles ==
  \A f \in Steady : f \in File /\ f \in Item /\ f \notin Folder /\ f \notin Big /\ f \notin Abortable
                   /\ SessionOf[f] \in Session
BY UploaderAssumption DEF Steady, Item

\* What the phase of a file is, from _processing instead of the transfers.
PhaseOf(f) ==
  IF processing[f] = 1 THEN "sending"
  ELSE IF status[f] = "loaded" /\ started[f] > 0 THEN "stored"
  ELSE IF status[f] = "error" /\ Shown(f) THEN "failed"
  ELSE IF sess[SessionOf[f]] # "none" /\ ~Shown(f) THEN "dropped"
  ELSE "waiting"

\* Both phases are the same.
LEMMA PhaseFound ==
  ASSUME CountsTransfers, NEW f \in Steady, processing[f] \in {0, 1}
  PROVE  Phase(f) = PhaseOf(f)
<1>1. Cardinality(Transfers(f)) = processing[f] BY SteadyFiles DEF CountsTransfers
<1>2. CASE processing[f] = 1 BY <1>1, <1>2 DEF Phase, PhaseOf
<1>3. CASE processing[f] = 0 BY <1>1, <1>3 DEF Phase, PhaseOf
<1> QED BY <1>2, <1>3

\* Whatever a step does to a file, it is a move of the queue.
LEMMA FileMoves ==
  ASSUME TypeOK, TypeOK', NEW f \in Steady, FileOK(f), Views(f), Does(f)
  PROVE  /\ FileOK(f)'
         /\ PhaseOf(f)' = PhaseOf(f) \/ <<PhaseOf(f), PhaseOf(f)'>> \in Queue!Moves
         /\ processing[f] \in {0, 1} /\ processing'[f] \in {0, 1}
<1>1. /\ processing[f] \in {0, 1} /\ started[f] \in Nat /\ processing'[f] \in Nat
      /\ Shown(f) => SessionOf[f] \in sessions
  BY SteadyFiles DEF TypeOK, FileOK, Shown
<1>2. processing'[f] \in {0, 1} BY <1>1 DEF Does, Same, Starts, Refuses, Ends, Holds, Stops, Returns
<1>3. sess'[SessionOf[f]] = "none" => SessionOf[f] \notin sessions' /\ processing'[f] = 0
  BY <1>1 DEF FileOK, Views, Does, Same, Starts, Refuses, Ends, Holds, Stops, Returns, Unsent
<1>4. processing'[f] > 0 /\ Unsent(f)' => paused' \/ Resumes(todo')
  BY <1>1, <1>2, <1>3 DEF FileOK, Views, Does, Same, Keeps, Starts, Refuses, Ends, Holds, Stops, Returns, Unsent
<1>5. processing'[f] > 0 /\ Shown(f)' /\ status'[f] = "error" => Leaves(todo', f)
  BY <1>1, <1>2, <1>3 DEF FileOK, Views, Does, Same, Keeps, Starts, Refuses, Ends, Holds, Stops, Returns, Unsent
<1>6. FileOK(f)' BY <1>2, <1>3, <1>4, <1>5 DEF FileOK
<1>7. PhaseOf(f)' = PhaseOf(f) \/ <<PhaseOf(f), PhaseOf(f)'>> \in Queue!Moves
  <2>1. CASE Same(f) BY <1>1, <1>2, <2>1 DEF Same, PhaseOf, FileOK, Views, Queue!Moves
  <2>2. CASE Starts(f) BY <1>1, <1>2, <2>2 DEF Starts, Unsent, PhaseOf, FileOK, Views, Queue!Moves
  <2>3. CASE Ends(f) BY <1>1, <1>2, <2>3 DEF Ends, PhaseOf, FileOK, Views, Queue!Moves
  <2>4. CASE Holds(f) BY <1>1, <1>2, <2>4 DEF Holds, PhaseOf, FileOK
  <2>5. CASE Stops(f) BY <1>1, <1>2, <2>5 DEF Stops, PhaseOf, FileOK, Views, Queue!Moves
  <2>6. CASE Returns(f) BY <1>1, <1>2, <2>6 DEF Returns, PhaseOf, FileOK, Views, Queue!Moves
  <2>7. CASE Refuses(f) BY <1>1, <1>2, <2>7 DEF Refuses, Unsent, PhaseOf, FileOK, Views, Queue!Moves
  <2> QED BY <2>1, <2>2, <2>3, <2>4, <2>5, <2>6, <2>7 DEF Does
<1> QED BY <1>1, <1>2, <1>6, <1>7

----------------------------------------------------------------------------
(***************************************************************************)
(* What steps of a handler, and those that begin one, have in common.      *)
(***************************************************************************)

\* Nothing is to be sent next: there is room if there are no more transfers.
LEMMA RoomLeft ==
  ASSUME todo' \in Seq(Call), NoSend(todo'), Follows(todo'),
         Cardinality(transfer') <= Slots, Cardinality(transfer') \in Nat
  PROVE  Room'
<1> DEFINE q == todo'
<1>1. q \in Seq(Call) /\ NoSend(q) OBVIOUS
<1> HIDE DEF q
<1>2. q # <<>> => Head(q).do # "send" /\ NoSend(Tail(q))
  <2> SUFFICES ASSUME q # <<>> PROVE Head(q).do # "send" /\ NoSend(Tail(q))
    OBVIOUS
  <2>1. /\ Len(q) \in Nat \ {0} /\ Head(q) = q[1] /\ Len(Tail(q)) = Len(q) - 1
        /\ \A k \in 1..Len(Tail(q)) : Tail(q)[k] = q[k + 1] /\ k + 1 \in 1..Len(q)
    BY <1>1
  <2>2. 1 \in 1..Len(q) BY <2>1
  <2> QED BY <1>1, <2>1, <2>2 DEF NoSend
<1>3. ~Idle' => Head(todo').do # "send" /\ NoSend(Rest') BY <1>2 DEF q, Idle, Rest
<1>4. Pending' = {} BY <1>3 DEF Pending, Runs
<1>5. Cardinality(Pending') = 0 BY <1>4, FS_EmptySet
<1> QED BY <1>3, <1>4, <1>5, UploaderAssumption DEF Room

\* Removing sessions and items, and other statuses of sessions.
LEMMA ViewsKept ==
  ASSUME sessions' \subseteq sessions, tree' \subseteq tree,
         \A s \in Session : sess[s] # "none" => sess'[s] # "none"
  PROVE  \A f \in Steady : Views(f)
BY SteadyFiles DEF Views, Shown

\* A file that a step leaves alone, and does not bring back.
LEMMA SameWhen ==
  /\ UNCHANGED <<status, processing, started>> => \A f : Same(f)
  /\ \A f : Same(f) /\ processing[f] = 0 => Does(f)
BY DEF Same, Does, Keeps

\* A handler that makes its next call keeps in mind what is left to do.
LEMMA RunKeeps ==
  ASSUME TypeOK, ~Idle, Head(todo).do \notin {"resume", "ready", "detach"}, paused' = paused,
         NEW f, Leaves(Rest, f) => Leaves(todo', f)
  PROVE  Keeps(f)
<1>1. ~Resumes(todo) BY RestKeeps DEF Resumes
<1>2. Leaves(todo, f) => Leaves(Rest, f) BY RestKeeps DEF Takes
<1> QED BY <1>1, <1>2 DEF Keeps

\* When no handler is under way nothing is left to do.
LEMMA IdleKeeps ==
  ASSUME Idle, paused => paused' \/ Resumes(todo')
  PROVE  \A f : Keeps(f) /\ ~Leaves(todo, f) /\ ~Resumes(todo)
<1>1. Len(todo) = 0 BY DEF Idle
<1>2. \A f : ~Leaves(todo, f) /\ ~Resumes(todo) BY <1>1 DEF Leaves, Resumes
<1> QED BY <1>2 DEF Keeps

\* Calls that neither send nor abort.
Plain(q) == q \in Seq(Call) /\ \A k \in 1..Len(q) : q[k].do \notin {"send", "abort"}

\* Handlers that begin with such calls.
LEMMA PlainCalls ==
  /\ \A q : Plain(q) => NoSend(q) /\ Follows(q)
  /\ Plain(<<>>)
  /\ \A c \in Call : c.do \notin {"send", "abort"} => Plain(<<c>>)
  /\ \A c, d \in Call : c.do \notin {"send", "abort"} /\ d.do \notin {"send", "abort"} => Plain(<<c, d>>)
  /\ \A c \in Call : \A q : Plain(q) /\ c.do \notin {"send", "abort"} => Plain(Push(c, q))
<1>1. \A q : Plain(q) => NoSend(q) /\ Follows(q) BY DEF Plain, NoSend, Follows
<1>2. Plain(<<>>) BY DEF Plain
<1>3. \A c \in Call : c.do \notin {"send", "abort"} => Plain(<<c>>) BY DEF Plain
<1>4. \A c, d \in Call : c.do \notin {"send", "abort"} /\ d.do \notin {"send", "abort"} => Plain(<<c, d>>)
  BY DEF Plain
<1>5. ASSUME NEW c \in Call, NEW q, Plain(q), c.do \notin {"send", "abort"} PROVE Plain(Push(c, q))
  <2>1. Push(c, q) \in Seq(Call) BY <1>5, PushTypes DEF Plain
  <2> DEFINE p == <<c>> \o q
  <2>2. /\ p[1] = c
        /\ \A k \in 1..Len(p) : k = 1 \/ (k - 1 \in 1..Len(q) /\ p[k] = q[k - 1])
    BY <1>5, Cons DEF Plain
  <2>3. Push(c, q) = q \/ Push(c, q) = p BY DEF Push
  <2> HIDE DEF p
  <2> QED BY <1>5, <2>1, <2>2, <2>3 DEF Plain
<1> QED BY <1>1, <1>2, <1>3, <1>4, <1>5

\* A transfer that ends, or moves on, leaves no more of them.
LEMMA FewerTransfers ==
  ASSUME IsFiniteSet(transfer), NEW t \in transfer,
         transfer' = transfer \ {t} \/ \E u : transfer' = (transfer \ {t}) \cup {u}
  PROVE  Cardinality(transfer') \in Nat /\ Cardinality(transfer') <= Cardinality(transfer)
<1>1. /\ IsFiniteSet(transfer \ {t}) /\ Cardinality(transfer \ {t}) = Cardinality(transfer) - 1
      /\ Cardinality(transfer) \in Nat
  BY FS_RemoveElement, FS_CardinalityType
<1>2. CASE transfer' = transfer \ {t} BY <1>1, <1>2, FS_CardinalityType
<1>3. ASSUME NEW u, transfer' = (transfer \ {t}) \cup {u} PROVE
        Cardinality(transfer') \in Nat /\ Cardinality(transfer') <= Cardinality(transfer)
  <2> DEFINE R == transfer \ {t}
  <2>1. IsFiniteSet(R) /\ Cardinality(R) = Cardinality(transfer) - 1 /\ transfer' = R \cup {u} BY <1>1, <1>3
  <2> HIDE DEF R
  <2>2. Cardinality(R \cup {u}) = IF u \in R THEN Cardinality(R) ELSE Cardinality(R) + 1
    BY <2>1, FS_AddElement
  <2>3. Cardinality(R) \in Nat BY <2>1, FS_CardinalityType
  <2> QED BY <1>1, <2>1, <2>2, <2>3
<1> QED BY <1>2, <1>3

\* There is always room for the transfers there are.
LEMMA RoomFor ==
  ASSUME IInv, QInv
  PROVE  /\ IsFiniteSet(transfer) /\ Cardinality(transfer) \in Nat /\ Cardinality(transfer) <= Slots
         /\ IsFiniteSet(Pending) /\ Cardinality(Pending) \in Nat
<1>1. Pending \subseteq File BY DEF QInv, Room
<1>2. IsFiniteSet(Pending) /\ Cardinality(Pending) \in Nat
  BY <1>1, UploaderAssumption, FS_Subset, FS_CardinalityType
<1>3. IsFiniteSet(transfer) /\ Cardinality(transfer) \in Nat BY FS_CardinalityType DEF IInv, Books
<1> QED BY <1>2, <1>3, UploaderAssumption DEF QInv, Room

\* A transfer that ends, and the others.
LEMMA CompleteDoes ==
  ASSUME IInv, QInv, NEW t \in transfer, NEW st \in {"loaded", "error"}, Complete(t, st), UNCHANGED started
  PROVE  \A f \in Steady : (f = t.f /\ Ends(f)) \/ (f # t.f /\ Same(f))
<1>1. TypeOK /\ ItemTypes /\ SendTypes /\ Books BY TypeParts DEF IInv
<1>2. t.f \in File BY <1>1 DEF SendTypes, Transfer
<1>3. processing[t.f] > 0 BY <1>1, <1>2, BooksRemoved DEF Complete
<1>4. started[t.f] > 0 BY <1>1, <1>2 DEF SendTypes
<1> SUFFICES ASSUME NEW f \in Steady PROVE (f = t.f /\ Ends(f)) \/ (f # t.f /\ Same(f))
  OBVIOUS
<1>5. f \in Item /\ processing[f] \in Nat /\ processing[f] <= 1
  BY <1>1, SteadyFiles DEF ItemTypes, QInv, FileOK
<1>6. /\ status'[f] = IF f = t.f THEN st ELSE status[f]
      /\ processing'[f] = IF f = t.f /\ processing[f] > 0 THEN processing[f] - 1 ELSE processing[f]
  BY <1>5 DEF Complete, SetStatus, Unmonitor
<1> QED BY <1>3, <1>4, <1>5, <1>6 DEF Ends, Same

----------------------------------------------------------------------------
(***************************************************************************)
(* The steps of a handler.                                                 *)
(***************************************************************************)

Steps == Room' /\ \A f \in Steady : Views(f) /\ Does(f)

\* processNext: what getNexts returns is not being sent, and there is room.
LEMMA ProcessNextSteps ==
  ASSUME IInv, TypeOK', QInv, ProcessNext
  PROVE  Steps
<1>1. /\ TypeOK /\ TypeOK' /\ Books /\ Room /\ ~Idle /\ Head(todo).do = "next"
      /\ UNCHANGED <<sessions, tree, transfer, started, paused>>
  BY DEF IInv, QInv, ProcessNext, Runs, sendVars
<1>2. /\ NoSend(Rest) /\ Follows(todo) /\ Follows(Rest) /\ Rest \in Seq(Call) /\ ~Resumes(todo)
  BY <1>1, RestKeeps, RestTypes DEF Room, Resumes
<1>3. \A f \in Steady : Views(f)
  <2>1. \A s \in Session : sess[s] # "none" => sess'[s] # "none" BY DEF ProcessNext
  <2> QED BY <1>1, <2>1, ViewsKept
<1>4. To("send", GetNexts) \in Call
  <2>1. GetNexts \subseteq Item \cup Session BY DEF GetNexts, Queued, Item
  <2> QED BY <2>1, CallTypes DEF Loops
<1>5. todo' = Rest \/ todo' = Push(To("send", GetNexts), Rest) BY DEF ProcessNext
<1>6. \A f \in Steady : Does(f)
  <2> TAKE f \in Steady
  <2>1. f \in Item /\ f \notin Folder BY SteadyFiles
  <2>2. Same(f)
    <3> DEFINE folders == UNION {NewFolders(s) : s \in sessions}
    <3>1. f \notin folders BY <2>1 DEF NewFolders
    <3>2. \/ UNCHANGED <<status, processing>>
          \/ SetStatus(folders, "loading") /\ Monitor(folders)
      BY DEF ProcessNext
    <3> HIDE DEF folders
    <3> QED BY <1>1, <2>1, <3>1, <3>2 DEF SetStatus, Monitor, Same
  <2>3. Leaves(Rest, f) => Leaves(todo', f) BY <1>2, <1>4, <1>5, PushKeeps
  <2>4. Keeps(f) BY <1>1, <2>3, RunKeeps
  <2> QED BY <2>2, <2>4 DEF Does
<1>7. Room'
  <2>1. IsFiniteSet(transfer) /\ Cardinality(transfer) \in Nat /\ Cardinality(transfer) <= Slots BY RoomFor
  <2>2. CASE todo' = Rest BY <1>1, <1>2, <2>1, <2>2, RoomLeft
  <2>3. CASE todo' # Rest
    <3> DEFINE c == To("send", GetNexts)
    <3>1. todo' = Push(c, Rest) /\ ~paused /\ UNCHANGED <<status, processing>>
      BY <2>3 DEF ProcessNext
    <3>2. todo' = <<c>> \o Rest /\ GetNexts # {} BY <2>3, <3>1 DEF Push, To, Loops
    <3>3. c.do = "send" /\ c.of = GetNexts BY DEF To
    <3> HIDE DEF c
    <3>4. ~Idle' /\ Head(todo') = c /\ Rest' = Rest
      <4>1. c \in Call BY <1>4 DEF c
      <4>2. \A q \in Seq(Call) : <<c>> \o q # <<>> /\ Head(<<c>> \o q) = c /\ Tail(<<c>> \o q) = q BY <4>1
      <4> QED BY <1>2, <3>2, <4>2 DEF Idle, Rest
    <3>5. Pending' = GetNexts BY <3>3, <3>4 DEF Pending, Runs
    <3>6. Follows(todo')
      <4>1. c.do # "abort" BY <3>3
      <4> QED BY <1>2, <1>4, <3>1, <4>1, PushKeeps DEF c
    <3>7. \A f \in Pending' : f \in File /\ Unsent(f)' /\ (f \in Steady => processing'[f] = 0)
      <4> TAKE f \in Pending'
      <4>1. f \in File /\ Unsent(f) BY <3>5 DEF GetNexts, Queued, Unsent
      <4>2. Unsent(f)' BY <1>1, <3>1, <4>1 DEF Unsent, Shown
      <4>3. ASSUME f \in Steady PROVE processing[f] = 0
        <5>1. processing[f] \in Nat BY <1>1, <4>1 DEF TypeOK, Item
        <5> QED BY <1>2, <3>1, <4>1, <4>3, <5>1 DEF QInv, FileOK
      <4> QED BY <3>1, <4>1, <4>2, <4>3
    <3>8. Cardinality(Pending') + Cardinality(transfer') <= Slots
      <4>1. Length \in Nat /\ Cardinality(transfer) <= Length BY <1>1, EntriesOfTransfers
      <4>2. Cardinality(GetNexts) \in Nat /\ Cardinality(GetNexts) <= Slots - Length
        BY <1>1, <3>2, <4>1, NextsFit
      <4> QED BY <1>1, <2>1, <3>5, <4>1, <4>2, UploaderAssumption
    <3> QED BY <1>2, <3>4, <3>6, <3>7, <3>8 DEF Room
  <2> QED BY <2>2, <2>3
<1> QED BY <1>3, <1>6, <1>7 DEF Steps

\* A file that was pending becomes a transfer; the loop goes on with the others.
LEMMA StartSteps ==
  ASSUME IInv, TypeOK', QInv, Process, NEW f \in File,
         f \in Head(todo).of, todo' = Others(f), SetStatus({f}, "loading"), Monitor({f}),
         started' = [started EXCEPT ![f] = @ + 1],
         transfer' = transfer \cup {[f |-> f, n |-> started[f] + 1, try |-> 1, st |-> "wait"]}
  PROVE  Steps
<1>1. /\ f \in Head(todo).of /\ todo' = Others(f) /\ SetStatus({f}, "loading") /\ Monitor({f})
      /\ started' = [started EXCEPT ![f] = @ + 1]
      /\ transfer' = transfer \cup {[f |-> f, n |-> started[f] + 1, try |-> 1, st |-> "wait"]}
  OBVIOUS
<1>2. /\ TypeOK /\ TypeOK' /\ Room /\ ~Idle /\ Head(todo).do = "send"
      /\ UNCHANGED <<sessions, sess, tree, paused>>
  BY DEF IInv, QInv, Process, Runs, sessionVars
<1>3. NoSend(Rest) /\ Follows(todo) /\ Rest \in Seq(Call) /\ Others(f) \in Seq(Call) /\ Follows(Others(f))
  BY <1>2, RestTypes, OthersKeeps DEF Room
<1>4. \A g \in Steady : Views(g) BY <1>2, ViewsKept
<1>5. Pending = Head(todo).of BY <1>2 DEF Pending, Runs
<1>6. f \in Pending /\ Unsent(f) /\ (f \in Steady => processing[f] = 0) BY <1>1, <1>2, <1>5 DEF Room
<1>7. \A g \in File : /\ status'[g] = IF g = f THEN "loading" ELSE status[g]
                      /\ processing'[g] = IF g = f THEN processing[g] + 1 ELSE processing[g]
                      /\ started'[g] = IF g = f THEN started[g] + 1 ELSE started[g]
  <2> TAKE g \in File
  <2>1. g \in Item /\ started \in [File -> Nat] BY <1>2 DEF Item, TypeOK
  <2> QED BY <1>1, <2>1 DEF SetStatus, Monitor
<1>8. \A g \in Steady : Does(g)
  <2> TAKE g \in Steady
  <2>1. g \in File BY SteadyFiles
  <2>2. CASE g = f BY <1>6, <1>7, <2>1, <2>2 DEF Starts, Does
  <2>3. CASE g # f
    <3>1. Leaves(Rest, g) => Leaves(todo', g) BY <1>1, <1>2, OthersKeeps
    <3>2. Keeps(g) BY <1>2, <3>1, RunKeeps
    <3> QED BY <1>7, <2>1, <2>3, <3>2 DEF Same, Does
  <2> QED BY <2>2, <2>3
<1>9. IsFiniteSet(transfer) /\ Cardinality(transfer) \in Nat /\ IsFiniteSet(Pending) /\ Cardinality(Pending) \in Nat
  BY RoomFor
<1>10. Cardinality(transfer') \in Nat /\ Cardinality(transfer') <= Cardinality(transfer) + 1
  <2> DEFINE u == [f |-> f, n |-> started[f] + 1, try |-> 1, st |-> "wait"]
  <2>1. transfer' = transfer \cup {u} BY <1>1
  <2> HIDE DEF u
  <2>2. Cardinality(transfer') = IF u \in transfer THEN Cardinality(transfer) ELSE Cardinality(transfer) + 1
    BY <1>9, <2>1, FS_AddElement
  <2> QED BY <1>9, <2>2
<1> DEFINE left == {y \in Head(todo).of : Place[f] < Place[y]}
           c == To("send", left)
<1>11. /\ IsFiniteSet(left) /\ Cardinality(left) \in Nat /\ Cardinality(left) <= Cardinality(Pending) - 1
       /\ f \notin left /\ left \subseteq Pending
  <2>1. Place[f] \in Nat BY UploaderAssumption DEF Item
  <2>2. left \subseteq Pending \ {f} /\ f \notin left BY <1>5, <2>1
  <2>3. IsFiniteSet(Pending \ {f}) /\ Cardinality(Pending \ {f}) = Cardinality(Pending) - 1
    BY <1>6, <1>9, FS_RemoveElement
  <2> QED BY <2>2, <2>3, FS_Subset, FS_CardinalityType
<1>12. todo' = Push(c, Rest) BY <1>1, <1>2 DEF Others
<1>13. c.do = "send" /\ c.of = left BY DEF To
<1>14. c \in Call
  <2>1. left \subseteq Item \cup Session BY <1>2, RestTypes
  <2> QED BY <2>1, CallTypes DEF Loops
<1>15. Follows(todo') /\ todo' \in Seq(Call) BY <1>1, <1>3
<1> HIDE DEF left, c
<1>16. CASE left = {}
  <2>1. todo' = Rest BY <1>12, <1>13, <1>16 DEF Push, Loops
  <2>2. Cardinality(transfer') <= Slots
    <3>1. Cardinality(Pending) + Cardinality(transfer) <= Slots /\ Cardinality(Pending) >= 1
      BY <1>2, <1>9, <1>11 DEF Room
    <3> QED BY <1>9, <1>10, <3>1, UploaderAssumption
  <2>3. Room' BY <1>3, <1>10, <1>15, <2>1, <2>2, RoomLeft
  <2> QED BY <1>4, <1>8, <2>3 DEF Steps
<1>17. CASE left # {}
  <2>1. todo' = <<c>> \o Rest BY <1>12, <1>13, <1>17 DEF Push
  <2>2. ~Idle' /\ Head(todo') = c /\ Rest' = Rest
    <3>1. \A q \in Seq(Call) : <<c>> \o q # <<>> /\ Head(<<c>> \o q) = c /\ Tail(<<c>> \o q) = q BY <1>14
    <3> QED BY <1>3, <2>1, <3>1 DEF Idle, Rest
  <2>3. Pending' = left BY <1>13, <2>2 DEF Pending, Runs
  <2>4. \A g \in Pending' : g \in File /\ Unsent(g)' /\ (g \in Steady => processing'[g] = 0)
    <3> TAKE g \in Pending'
    <3>1. g # f /\ g \in File /\ Unsent(g) /\ (g \in Steady => processing[g] = 0)
      BY <1>2, <1>11, <2>3 DEF Room
    <3>2. status'[g] = status[g] /\ processing'[g] = processing[g] BY <1>7, <3>1
    <3> QED BY <1>2, <3>1, <3>2 DEF Unsent, Shown
  <2>5. Cardinality(Pending') + Cardinality(transfer') <= Slots
    <3>1. Cardinality(Pending) + Cardinality(transfer) <= Slots BY <1>2 DEF Room
    <3> QED BY <1>9, <1>10, <1>11, <2>3, <3>1, UploaderAssumption
  <2>6. Room' BY <1>3, <1>15, <2>2, <2>4, <2>5 DEF Room
  <2> QED BY <1>4, <1>8, <2>6 DEF Steps
<1> QED BY <1>16, <1>17

\* The only file that was pending is refused: processNext is called again.
LEMMA RefuseSteps ==
  ASSUME Slots = 1, IInv, TypeOK', QInv, Process, NEW f \in File,
         f \in Head(todo).of, todo' = Push(CallNext, Others(f)), SetStatus({f}, "error"),
         UNCHANGED <<processing, transfer, started>>
  PROVE  Steps
<1>1. /\ TypeOK /\ TypeOK' /\ Room /\ ~Idle /\ Head(todo).do = "send"
      /\ UNCHANGED <<sessions, sess, tree, paused>>
  BY DEF IInv, QInv, Process, Runs, sessionVars
<1>2. NoSend(Rest) /\ Follows(Rest) /\ Rest \in Seq(Call) BY <1>1, RestTypes, RestKeeps DEF Room
<1>3. \A g \in Steady : Views(g) BY <1>1, ViewsKept
<1>4. Pending = Head(todo).of BY <1>1 DEF Pending, Runs
<1>5. Unsent(f) /\ (f \in Steady => processing[f] = 0) BY <1>1, <1>4 DEF Room
<1>6. Others(f) = Rest
  <2>1. IsFiniteSet(Pending) /\ Cardinality(Pending) \in Nat /\ Cardinality(transfer) \in Nat BY RoomFor
  <2>2. Cardinality(Pending) + Cardinality(transfer) <= Slots BY <1>1 DEF Room
  <2>3. IsFiniteSet(Pending \ {f}) /\ Cardinality(Pending \ {f}) = Cardinality(Pending) - 1
    BY <1>4, <2>1, FS_RemoveElement
  <2>4. Cardinality(Pending \ {f}) \in Nat BY <2>3, FS_CardinalityType
  <2>5. Cardinality(Pending \ {f}) = 0 BY <2>1, <2>2, <2>3, <2>4
  <2>6. Pending \ {f} = {} BY <2>3, <2>5, FS_EmptySet
  <2>7. Place[f] \in Nat BY UploaderAssumption DEF Item
  <2>8. {y \in Head(todo).of : Place[f] < Place[y]} = {} BY <1>4, <2>6, <2>7
  <2>9. To(Head(todo).do, {}).do \in Loops /\ To(Head(todo).do, {}).of = {} BY <1>1 DEF To, Loops
  <2> QED BY <2>8, <2>9 DEF Others, Push
<1>7. CallNext \in Call /\ CallNext.do = "next" BY CallTypes DEF CallNext, To
<1>8. /\ NoSend(todo') /\ Follows(todo') /\ todo' \in Seq(Call)
      /\ \A g : Leaves(Rest, g) => Leaves(todo', g)
  BY <1>2, <1>6, <1>7, PushKeeps, PushTypes
<1>9. Room' BY <1>8, RoomFor, RoomLeft
<1>10. ASSUME NEW g \in Steady PROVE Does(g)
  <2>1. g \in Item BY SteadyFiles
  <2>2. status'[g] = IF g = f THEN "error" ELSE status[g] BY <2>1 DEF SetStatus
  <2>3. CASE g = f BY <1>5, <2>2, <2>3 DEF Refuses, Does
  <2>4. CASE g # f
    <3>1. Keeps(g) BY <1>1, <1>8, RunKeeps
    <3> QED BY <2>2, <2>4, <3>1 DEF Same, Does
  <2> QED BY <2>3, <2>4
<1> QED BY <1>3, <1>9, <1>10 DEF Steps

\* The loop of processNext visits a file that was pending.
LEMMA ProcessSteps ==
  ASSUME Refused = {} \/ Slots = 1, IInv, TypeOK', QInv, Process
  PROVE  Steps
<1>1. PICK f \in File :
        /\ f \in Head(todo).of
        /\ \/ /\ f \in Refused /\ SetStatus({f}, "error")
              /\ todo' = Push(CallNext, Others(f))
              /\ UNCHANGED <<processing, transfer, started>>
           \/ /\ SetStatus({f}, "loading") /\ Monitor({f})
              /\ started' = [started EXCEPT ![f] = @ + 1]
              /\ transfer' = transfer \cup {[f |-> f, n |-> started[f] + 1, try |-> 1, st |-> "wait"]}
              /\ todo' = Others(f)
  BY DEF Process, Visits, First
<1>2. CASE f \in Refused BY <1>1, <1>2, RefuseSteps, StartSteps
<1>3. CASE f \notin Refused BY <1>1, <1>3, StartSteps
<1> QED BY <1>2, <1>3

\* A session that becomes ready, while resume goes on or before anything is sent.
LEMMA SetReadySteps ==
  ASSUME IInv, TypeOK', QInv, SetReady
  PROVE  Steps
<1>1. PICK s \in Session :
        /\ sess' = [sess EXCEPT ![s] = "ready"]
        /\ todo' = IF AutoStart /\ Length = 0 /\ ~paused THEN Push(CallNext, Others(s)) ELSE Others(s)
  BY DEF SetReady
<1>2. /\ TypeOK /\ TypeOK' /\ Books /\ Room /\ ~Idle /\ Head(todo).do \in {"ready", "prepared"}
      /\ UNCHANGED <<sessions, tree, transfer, started, paused, status, processing>>
  BY DEF IInv, QInv, SetReady, Runs, sendVars
<1>3. NoSend(Rest) /\ Follows(todo) /\ Rest \in Seq(Call) BY <1>2, RestTypes DEF Room
<1>4. /\ Others(s) \in Seq(Call) /\ NoSend(Others(s)) /\ Follows(Others(s))
      /\ \A f : Leaves(Rest, f) => Leaves(Others(s), f)
  BY <1>2, <1>3, OthersKeeps
<1>5. CallNext \in Call /\ CallNext.do = "next" BY CallTypes DEF CallNext, To
<1>6. LET p == Push(CallNext, Others(s))
      IN NoSend(p) /\ Follows(p) /\ \A f : Leaves(Others(s), f) => Leaves(p, f)
  BY <1>4, <1>5, PushKeeps
<1>7. /\ NoSend(todo') /\ Follows(todo') /\ todo' \in Seq(Call)
      /\ \A f : Leaves(Rest, f) => Leaves(todo', f)
  BY <1>1, <1>2, <1>4, <1>6 DEF TypeOK
<1>8. Room' BY <1>2, <1>7, RoomFor, RoomLeft
<1>9. \A f \in Steady : Views(f)
  <2>1. \A r \in Session : sess[r] # "none" => sess'[r] # "none" BY <1>1, <1>2 DEF TypeOK
  <2> QED BY <1>2, <2>1, ViewsKept
<1>10. \A f \in Steady : Does(f)
  <2> SUFFICES ASSUME NEW f \in Steady, processing[f] # 0 PROVE Keeps(f)
    BY <1>2, SameWhen DEF Does
  <2>1. Leaves(todo, f) => Leaves(todo', f)
    BY <1>2, <1>7, RestKeeps DEF Takes
  <2>2. Length # 0
    BY <1>2, EntriesOfTransfers, SteadyFiles
  <2>3. todo' = Others(s) BY <1>1, <2>2
  <2>4. Resumes(todo) => Resumes(todo')
    <3> SUFFICES ASSUME Resumes(todo) PROVE Resumes(todo')
      OBVIOUS
    <3>1. Len(Rest) > 0 /\ Rest[1].do = "resume" /\ Head(todo).do = "ready"
      <4>1. todo \in Seq(Call) /\ todo # <<>> BY <1>2 DEF TypeOK, Idle
      <4>2. todo[1] = Head(todo) BY <4>1
      <4>3. Len(todo) > 1 /\ todo[2].do = "resume" /\ Head(todo).do = "ready" BY <1>2, <4>2 DEF Resumes
      <4> QED BY <4>1, <4>3 DEF Rest
    <3> DEFINE c == To(Head(todo).do, {y \in Head(todo).of : Place[s] < Place[y]})
    <3>2. Others(s) = Push(c, Rest) /\ c.do = "ready" /\ c \in Call
      BY <1>2, <3>1, RestTypes, CallTypes DEF Others, To
    <3> HIDE DEF c
    <3>3. CASE todo' = Rest BY <3>1, <3>3 DEF Resumes
    <3>4. CASE todo' = <<c>> \o Rest
      <4>1. /\ Len(todo') = Len(Rest) + 1 /\ Len(Rest) \in Nat /\ todo'[1] = c
            /\ \A k \in 1..Len(Rest) : todo'[k + 1] = Rest[k]
        BY <1>3, <3>2, <3>4, Cons
      <4>2. Len(todo') > 1 /\ todo'[2] = Rest[1] BY <3>1, <4>1
      <4> QED BY <3>1, <3>2, <4>1, <4>2 DEF Resumes
    <3> QED BY <2>3, <3>2, <3>3, <3>4 DEF Push
  <2> QED BY <1>2, <2>1, <2>4 DEF Keeps
<1> QED BY <1>8, <1>9, <1>10 DEF Steps

\* resume: what is being sent shows that it is.
LEMMA ResumeHeldSteps ==
  ASSUME IInv, TypeOK', QInv, ResumeHeld
  PROVE  Steps
<1>1. /\ TypeOK /\ TypeOK' /\ Room /\ ~Idle /\ Head(todo).do = "resume" /\ todo' = Rest
      /\ UNCHANGED <<sessions, sess, tree, transfer, started, processing>>
  BY DEF IInv, QInv, ResumeHeld, Runs, sendVars, sessionVars
<1>2. NoSend(todo') /\ Follows(todo') /\ todo' \in Seq(Call) BY <1>1, RestKeeps DEF Room, TypeOK
<1>3. Room' BY <1>1, <1>2, RoomFor, RoomLeft
<1>4. \A f \in Steady : Views(f) BY <1>1, ViewsKept
<1>5. ASSUME NEW f \in Steady PROVE Does(f)
  <2>1. f \in Item /\ f \in File /\ processing[f] \in Nat BY <1>1, SteadyFiles DEF TypeOK
  <2>2. status'[f] = IF f \in Held THEN "loading" ELSE status[f] BY <2>1 DEF ResumeHeld, SetStatus
  <2>3. CASE processing[f] > 0 BY <1>1, <2>1, <2>2, <2>3 DEF Holds, Held, Does
  <2>4. CASE processing[f] = 0 BY <1>1, <2>1, <2>2, <2>4, SameWhen DEF Held, Same
  <2> QED BY <2>1, <2>3, <2>4
<1> QED BY <1>3, <1>4, <1>5 DEF Steps

\* A file of the queue is only aborted to leave the tree.
LEMMA AbortSteps ==
  ASSUME IInv, TypeOK', QInv, Abort
  PROVE  Steps
<1>1. PICK f \in File :
       /\ f \in Head(todo).of
       /\ \/ status[f] = "loaded" /\ todo' = Others(f) /\ UNCHANGED <<status, processing, transfer>>
          \/ /\ status[f] # "loaded" /\ SetStatus({f}, "error") /\ todo' = Others(f)
             /\ UNCHANGED <<processing, transfer>>
          \/ \E t \in Handled(f) : /\ f \in Big /\ Moved(t, "aborting") /\ SetStatus({f}, "error")
                                  /\ todo' = Others(f) /\ UNCHANGED processing
          \/ \E t \in Handled(f) : Complete(t, "error") /\ todo' = Push(CallNext, Others(f))
  BY DEF Abort, Visits, First
<1>2. /\ TypeOK /\ TypeOK' /\ Room /\ ~Idle /\ Head(todo).do = "abort"
      /\ UNCHANGED <<sessions, sess, tree, started, paused>>
  BY DEF IInv, QInv, Abort, Runs, sessionVars
<1>3. NoSend(Rest) /\ Follows(todo) BY <1>2 DEF Room
<1>4. /\ Others(f) \in Seq(Call) /\ NoSend(Others(f)) /\ Follows(Others(f))
      /\ \A g : Leaves(Rest, g) => Leaves(Others(f), g)
  BY <1>2, <1>3, OthersKeeps
<1>5. CallNext \in Call /\ CallNext.do = "next" BY CallTypes DEF CallNext, To
<1>6. LET p == Push(CallNext, Others(f))
      IN NoSend(p) /\ Follows(p) /\ \A g : Leaves(Others(f), g) => Leaves(p, g)
  BY <1>4, <1>5, PushKeeps
<1>7. todo' = Others(f) \/ todo' = Push(CallNext, Others(f)) BY <1>1
<1>8. NoSend(todo') /\ Follows(todo') /\ \A g : Leaves(Rest, g) => Leaves(todo', g)
  BY <1>4, <1>6, <1>7
<1>9. IsFiniteSet(transfer) /\ Cardinality(transfer) \in Nat /\ Cardinality(transfer) <= Slots BY RoomFor
<1>10. Cardinality(transfer') \in Nat /\ Cardinality(transfer') <= Cardinality(transfer)
  <2>1. CASE UNCHANGED transfer BY <1>9, <2>1
  <2>2. CASE \E t \in Handled(f) : Moved(t, "aborting") \/ Complete(t, "error")
    <3>1. PICK t \in transfer : Moved(t, "aborting") \/ Complete(t, "error") BY <2>2 DEF Handled
    <3> QED BY <1>9, <3>1, FewerTransfers DEF Moved, Complete
  <2> QED BY <1>1, <2>1, <2>2
<1>11. Room'
  <2>1. Cardinality(transfer') <= Slots BY <1>9, <1>10, UploaderAssumption
  <2> QED BY <1>2, <1>8, <1>10, <2>1, RoomLeft DEF TypeOK
<1>12. \A g \in Steady : Views(g) BY <1>2, ViewsKept
<1>13. ASSUME NEW g \in Steady PROVE Does(g)
  <2>1. g \in Item /\ g \in File /\ g \notin Big BY SteadyFiles
  <2>2. Keeps(g) BY <1>2, <1>8, RunKeeps
  <2>3. g = f => Leaves(todo', g)
    <3> SUFFICES ASSUME g = f PROVE Leaves(todo', g)
      OBVIOUS
    <3>1. Len(Rest) > 0 /\ Takes(Rest[1], g) BY <1>1, <1>2, <1>3, RestKeeps
    <3>2. Len(Rest) \in Nat BY <1>2, RestTypes
    <3>3. Leaves(Rest, g) BY <3>1, <3>2 DEF Leaves
    <3> QED BY <1>8, <3>3
  <2>4. CASE UNCHANGED <<status, processing, transfer>>
    BY <1>2, <2>2, <2>4 DEF Same, Does
  <2>5. CASE status[f] # "loaded" /\ SetStatus({f}, "error") /\ UNCHANGED processing
    <3>1. status'[g] = IF g = f THEN "error" ELSE status[g] BY <2>1, <2>5 DEF SetStatus
    <3> QED BY <1>2, <2>2, <2>3, <2>5, <3>1 DEF Same, Stops, Does
  <2>6. CASE f \in Big /\ SetStatus({f}, "error") /\ UNCHANGED processing
    <3>1. status'[g] = status[g] BY <2>1, <2>6 DEF SetStatus
    <3> QED BY <1>2, <2>2, <2>6, <3>1 DEF Same, Does
  <2>7. CASE \E t \in Handled(f) : Complete(t, "error")
    <3>1. PICK t \in transfer : Complete(t, "error") BY <2>7 DEF Handled
    <3>2. (g = t.f /\ Ends(g)) \/ (g # t.f /\ Same(g)) BY <1>2, <3>1, CompleteDoes
    <3> QED BY <2>2, <3>2 DEF Does
  <2> QED BY <1>1, <2>4, <2>5, <2>6, <2>7
<1> QED BY <1>11, <1>12, <1>13 DEF Steps

\* The tree: what is aborted leaves next, and what leaves is no longer shown.
LEMMA TreeSteps ==
  ASSUME IInv, TypeOK', QInv, RemoveChild \/ Detach \/ ClearStatus \/ ClearedAll
  PROVE  Steps
<1>1. /\ TypeOK /\ TypeOK' /\ Room /\ ~Idle /\ Rest \in Seq(Call)
      /\ UNCHANGED <<sess, transfer, started, status, processing>>
      /\ sessions' \subseteq sessions /\ tree' \subseteq tree
  BY RestTypes DEF IInv, QInv, RemoveChild, Detach, ClearStatus, ClearedAll, Runs, sendVars, sessionVars
<1>2. NoSend(Rest) /\ Follows(todo) /\ Follows(Rest) BY <1>1, RestKeeps DEF Room
<1>3. \A f \in Steady : Views(f) BY <1>1, ViewsKept
<1>4. NoSend(todo') /\ Follows(todo') /\ \A f : Leaves(Rest, f) => Leaves(todo', f)
  <2>1. CASE todo' = Rest BY <1>2, <2>1
  <2>2. ASSUME NEW i \in Head(todo).of, Head(todo).do # "send",
               todo' = Push(To("abort", Below(i) \cap File \cap tree), Push(To("detach", {i}), Others(i)))
        PROVE  NoSend(todo') /\ Follows(todo') /\ \A f : Leaves(Rest, f) => Leaves(todo', f)
    <3> DEFINE out == To("abort", Below(i) \cap File \cap tree)
               off == To("detach", {i})
               q == Others(i)
    <3>1. /\ out \in Call /\ out.do = "abort" /\ out.of = Below(i) \cap File \cap tree
          /\ off \in Call /\ off.do = "detach" /\ off.of = {i}
      <4>1. {i} \subseteq Item \cup Session /\ Below(i) \cap File \cap tree \subseteq Item \cup Session
        BY <1>1, <2>2, RestTypes DEF Item
      <4> QED BY <4>1, CallTypes DEF To, Loops
    <3>2. /\ q \in Seq(Call) /\ NoSend(q) /\ Follows(q) /\ \A f : Leaves(Rest, f) => Leaves(q, f)
      BY <1>1, <1>2, <2>2, OthersKeeps
    <3>3. \A f \in out.of : Takes(off, f) BY <3>1 DEF Takes
    <3>4. Push(off, q) = <<off>> \o q BY <3>1 DEF Push, Loops, Clearable
    <3> HIDE DEF out, off, q
    <3>5. /\ Push(off, q) \in Seq(Call) /\ NoSend(Push(off, q)) /\ Follows(Push(off, q))
          /\ \A f : Leaves(q, f) => Leaves(Push(off, q), f)
      BY <3>1, <3>2, PushKeeps, PushTypes
    <3>6. Len(Push(off, q)) > 0 /\ Push(off, q)[1] = off
      <4>1. Len(<<off>> \o q) = Len(q) + 1 /\ Len(q) \in Nat /\ (<<off>> \o q)[1] = off BY <3>1, <3>2, Cons
      <4> QED BY <3>4, <4>1
    <3>7. todo' = Push(out, Push(off, q)) BY <2>2 DEF out, off, q
    <3> QED BY <3>1, <3>2, <3>3, <3>5, <3>6, <3>7, PushKeeps
  <2>3. ASSUME NEW f \in Head(todo).of, Head(todo).do # "send", todo' = Push(To("remove", {f}), Others(f))
        PROVE  NoSend(todo') /\ Follows(todo') /\ \A g : Leaves(Rest, g) => Leaves(todo', g)
    <3> DEFINE c == To("remove", {f})
               q == Others(f)
    <3>1. c \in Call /\ c.do = "remove" /\ todo' = Push(c, q)
      BY <1>1, <2>3, RestTypes, CallTypes DEF Loops, To
    <3>2. /\ q \in Seq(Call) /\ NoSend(q) /\ Follows(q) /\ \A g : Leaves(Rest, g) => Leaves(q, g)
      BY <1>1, <1>2, <2>3, OthersKeeps
    <3> HIDE DEF c, q
    <3> QED BY <3>1, <3>2, PushKeeps
  <2>4. CASE RemoveChild BY <2>1, <2>2, <2>4 DEF RemoveChild, Runs
  <2>5. CASE ClearStatus BY <2>1, <2>3, <2>5 DEF ClearStatus, Runs, Clearable
  <2>6. CASE Detach \/ ClearedAll BY <2>1, <2>6 DEF Detach, ClearedAll
  <2> QED BY <2>4, <2>5, <2>6
<1>5. Room' BY <1>1, <1>4, RoomFor, RoomLeft DEF TypeOK
<1>6. ASSUME NEW f \in Steady PROVE Keeps(f)
  <2>1. CASE RemoveChild \/ ClearStatus
    <3>1. /\ Head(todo).do \notin {"resume", "ready", "detach"} /\ paused' = paused
      BY <2>1 DEF RemoveChild, ClearStatus, Runs, Clearable
    <3> QED BY <1>1, <1>4, <3>1, RunKeeps
  <2>2. CASE ClearedAll BY <2>2 DEF ClearedAll, Keeps, Shown
  <2>3. CASE Detach
    <3>1. PICK i \in Item : i \in Head(todo).of /\ tree' = tree \ Below(i) BY <2>3 DEF Detach
    <3>2. Takes(Head(todo), f) => ~Shown(f)' BY <3>1 DEF Takes, Shown
    <3>3. Leaves(todo, f) /\ Shown(f)' => Leaves(todo', f) BY <1>1, <1>4, <3>2, RestKeeps
    <3>4. ~Resumes(todo) BY <1>1, <2>3, RestKeeps DEF Detach, Runs, Resumes
    <3> QED BY <2>3, <3>3, <3>4 DEF Detach, Keeps
  <2> QED BY <2>1, <2>2, <2>3
<1>7. \A f \in Steady : Does(f) BY <1>1, <1>6 DEF Same, Does
<1> QED BY <1>3, <1>5, <1>7 DEF Steps

----------------------------------------------------------------------------
(***************************************************************************)
(* The user, the server and timers.                                        *)
(***************************************************************************)

\* A handler that begins with plain calls, and leaves the transfers alone.
LEMMA PlainRoom ==
  ASSUME IInv, QInv, Plain(todo'), UNCHANGED transfer
  PROVE  Room'
BY PlainCalls, RoomFor, RoomLeft DEF Plain

\* Calls of the user's handlers are plain.
LEMMA Plains ==
  /\ Plain(<<CallNext>>)
  /\ \A S : S \subseteq Item \cup Session =>
       /\ Plain(<<To("prepared", S)>>) /\ Plain(<<To("remove", S)>>)
       /\ Plain(Push(To("ready", S), <<To("resume", {}), CallNext>>))
       /\ \A R : R \subseteq Item \cup Session =>
            Plain(Push(To("new", R), Push(To("remove", S), <<To("cleared", {})>>)))
       /\ \A st \in {"loaded", "error"} : Plain(Push(To(st, S), <<>>))
<1>1. CallNext \in Call /\ CallNext.do = "next" BY CallTypes DEF CallNext, To
<1>2. \A S : S \subseteq Item \cup Session =>
        \A do \in {"prepared", "remove", "ready", "resume", "cleared", "new", "loaded", "error"} :
          To(do, S) \in Call /\ To(do, S).do \notin {"send", "abort"}
  BY CallTypes DEF Loops, Clearable, To
<1>3. {} \subseteq Item \cup Session OBVIOUS
<1>4. Plain(<<CallNext>>) BY <1>1, PlainCalls
<1>5. ASSUME NEW S, S \subseteq Item \cup Session
      PROVE  /\ Plain(<<To("prepared", S)>>) /\ Plain(<<To("remove", S)>>)
             /\ Plain(Push(To("ready", S), <<To("resume", {}), CallNext>>))
             /\ \A st \in {"loaded", "error"} : Plain(Push(To(st, S), <<>>))
  <2>1. Plain(<<To("prepared", S)>>) /\ Plain(<<To("remove", S)>>) BY <1>2, <1>5, PlainCalls
  <2>2. Plain(<<To("resume", {}), CallNext>>) BY <1>1, <1>2, <1>3, PlainCalls
  <2>3. Plain(Push(To("ready", S), <<To("resume", {}), CallNext>>)) BY <1>2, <1>5, <2>2, PlainCalls
  <2>4. \A st \in {"loaded", "error"} : Plain(Push(To(st, S), <<>>)) BY <1>2, <1>5, PlainCalls
  <2> QED BY <2>1, <2>3, <2>4
<1>6. ASSUME NEW S, S \subseteq Item \cup Session, NEW R, R \subseteq Item \cup Session
      PROVE  Plain(Push(To("new", R), Push(To("remove", S), <<To("cleared", {})>>)))
  <2>1. Plain(<<To("cleared", {})>>) BY <1>2, <1>3, PlainCalls
  <2>2. Plain(Push(To("remove", S), <<To("cleared", {})>>)) BY <1>2, <1>6, <2>1, PlainCalls
  <2> QED BY <1>2, <1>6, <2>2, PlainCalls
<1> QED BY <1>4, <1>5, <1>6

\* A session is dropped before anything of it is sent.
LEMMA DropSteps ==
  ASSUME IInv, TypeOK', QInv, NEW s \in Session, Drop(s)
  PROVE  Steps
<1>1. /\ TypeOK /\ TypeOK' /\ Idle /\ sess[s] = "none" /\ sessions' = sessions \cup {s}
      /\ sess' = [sess EXCEPT ![s] = "analyse"] /\ tree' = tree \cup {i \in Item : SessionOf[i] = s}
      /\ todo' = IF Policy = "overwrite" THEN <<To("prepared", {s})>> ELSE <<>>
      /\ UNCHANGED <<transfer, started, status, processing, paused>>
  BY DEF IInv, Drop, sendVars
<1>2. Plain(todo') BY <1>1, Plains, PlainCalls
<1>3. Room' BY <1>1, <1>2, PlainRoom
<1>4. ASSUME NEW f \in Steady PROVE Views(f)
  <2>1. SessionOf[f] \in Session /\ sess \in [Session -> {"none", "analyse", "confirm", "ready", "folders", "loading"}]
    BY <1>1, SteadyFiles DEF TypeOK
  <2>2. CASE SessionOf[f] = s BY <1>1, <2>1, <2>2 DEF Views
  <2>3. CASE SessionOf[f] # s BY <1>1, <2>1, <2>3 DEF Views, Shown
  <2> QED BY <2>2, <2>3
<1>5. \A f \in Steady : Does(f) BY <1>1, IdleKeeps DEF Same, Does
<1> QED BY <1>3, <1>4, <1>5 DEF Steps

\* The other actions of the user that leave items alone.
LEMMA UserCallsSteps ==
  ASSUME IInv, TypeOK', QInv,
         \/ \E p \in Policies : DialogSubmit(p)
         \/ DialogCancel \/ Resume
         \/ \E f \in File : StopItem(f)
         \/ \E i \in Item : RemoveItem(i)
         \/ \E st \in {"all", "loaded", "error"} : Clear(st)
  PROVE  Steps
<1>1. /\ TypeOK /\ TypeOK' /\ Idle
      /\ UNCHANGED <<transfer, started, status, processing, tree>> /\ sessions' \subseteq sessions
  BY DEF IInv, DialogSubmit, DialogCancel, Resume, StopItem, RemoveItem, Clear, Begin, sessionVars, sendVars
<1>2. sessions \subseteq Item \cup Session /\ Confirming \subseteq Item \cup Session
  BY <1>1 DEF TypeOK, Confirming
<1>3. \A f \in Steady : Views(f)
  <2>1. \A s \in Session : sess[s] # "none" => sess'[s] # "none"
    <3>1. \/ UNCHANGED sess
          \/ sess' = [s \in Session |-> IF s \in Confirming THEN "analyse" ELSE sess[s]]
      BY DEF DialogSubmit, DialogCancel, Resume, StopItem, RemoveItem, Clear, Begin, sessionVars
    <3> QED BY <3>1
  <2> QED BY <1>1, <2>1, ViewsKept
<1> DEFINE Begun == /\ todo' \in Seq(Call) /\ NoSend(todo') /\ Follows(todo')
                    /\ paused => paused' \/ Resumes(todo')
<1>4. Begun
  <2>1. CASE DialogCancel \/ \E p \in Policies : DialogSubmit(p)
    <3>1. UNCHANGED paused BY <2>1 DEF DialogCancel, DialogSubmit
    <3>2. todo' = <<>> \/ todo' = <<To("prepared", Confirming)>> BY <2>1 DEF DialogCancel, DialogSubmit, Idle
    <3>3. Plain(todo') BY <1>2, <3>2, Plains, PlainCalls
    <3> QED BY <3>1, <3>3, PlainCalls DEF Plain
  <2>2. CASE Resume
    <3>1. todo' = Push(To("ready", sessions), <<To("resume", {}), CallNext>>) BY <2>2 DEF Resume
    <3>2. Plain(todo') BY <1>2, <3>1, Plains
    <3>3. Resumes(todo')
      <4> DEFINE a == To("ready", sessions)
                 b == To("resume", {})
      <4>1. a \in Call /\ b \in Call /\ CallNext \in Call /\ a.do = "ready" /\ b.do = "resume"
        BY <1>2, CallTypes DEF CallNext, To, Loops
      <4>2. todo' = <<b, CallNext>> \/ todo' = <<a>> \o <<b, CallNext>> BY <3>1 DEF Push
      <4> HIDE DEF a, b
      <4>3. <<b, CallNext>> \in Seq(Call) /\ Len(<<b, CallNext>>) = 2 /\ <<b, CallNext>>[1] = b BY <4>1
      <4>4. CASE todo' = <<b, CallNext>> BY <4>1, <4>3, <4>4 DEF Resumes
      <4>5. CASE todo' = <<a>> \o <<b, CallNext>>
        <5> DEFINE q == <<b, CallNext>>
        <5>1. q \in Seq(Call) /\ Len(q) = 2 /\ q[1] = b /\ todo' = <<a>> \o q BY <4>3, <4>5
        <5> HIDE DEF q
        <5>2. Len(todo') = Len(q) + 1 /\ todo'[1] = a /\ \A k \in 1..Len(q) : todo'[k + 1] = q[k]
          BY <4>1, <5>1, Cons
        <5>3. Len(todo') > 1 /\ todo'[2] = b BY <5>1, <5>2
        <5> QED BY <4>1, <5>2, <5>3 DEF Resumes
      <4> QED BY <4>2, <4>4, <4>5
    <3> QED BY <3>2, <3>3, PlainCalls DEF Plain
  <2>3. ASSUME NEW f \in File, StopItem(f) PROVE Begun
    <3> DEFINE c == To("abort", {f})
    <3>1. todo' = <<c>> /\ UNCHANGED paused /\ f \notin Steady BY <2>3 DEF StopItem, Begin, Steady
    <3>2. c \in Call /\ c.do = "abort" /\ c.of = {f} BY CallTypes DEF Loops, To, Item
    <3> HIDE DEF c
    <3>3. todo' \in Seq(Call) /\ Len(todo') = 1 /\ todo'[1] = c BY <3>1, <3>2
    <3> QED BY <3>1, <3>2, <3>3 DEF NoSend, Follows
  <2>4. ASSUME NEW i \in Item, RemoveItem(i) PROVE Begun
    <3>1. todo' = <<To("remove", {i})>> /\ UNCHANGED paused BY <2>4 DEF RemoveItem, Begin
    <3>2. Plain(todo')
      <4>1. {i} \subseteq Item \cup Session OBVIOUS
      <4> QED BY <3>1, <4>1, Plains
    <3> QED BY <3>1, <3>2, PlainCalls DEF Plain
  <2>5. ASSUME NEW st \in {"all", "loaded", "error"}, Clear(st) PROVE Begun
    <3> DEFINE files == {f \in File : Shown(f)}
               items == {i \in Item : Shown(i)}
    <3>1. files \subseteq Item \cup Session /\ items \subseteq Item \cup Session BY DEF Item
    <3>2. /\ \/ todo' = Push(To("new", files), Push(To("remove", items), <<To("cleared", {})>>))
             \/ todo' = Push(To("loaded", files), <<>>)
             \/ todo' = Push(To("error", files), <<>>)
          /\ UNCHANGED paused
      BY <2>5 DEF Clear, Begin
    <3> HIDE DEF files, items
    <3>3. Plain(todo') BY <3>1, <3>2, Plains
    <3> QED BY <3>2, <3>3, PlainCalls DEF Plain
  <2> QED BY <2>1, <2>2, <2>3, <2>4, <2>5
<1>5. Room' BY <1>1, <1>4, RoomFor, RoomLeft
<1>6. \A f \in Steady : Does(f) BY <1>1, <1>4, IdleKeeps DEF Same, Does
<1> QED BY <1>3, <1>5, <1>6 DEF Steps

\* A pause touches what is being sent; a retry what failed and is not.
LEMMA FilesStatusSteps ==
  ASSUME IInv, TypeOK', QInv, Pause \/ \E f \in File : RetryItem(f)
  PROVE  Steps
<1>1. /\ TypeOK /\ TypeOK' /\ Idle /\ todo \in Seq(Call)
      /\ UNCHANGED <<sessions, sess, tree, transfer, started, processing>> /\ (paused => paused')
  BY DEF IInv, TypeOK, Pause, RetryItem, Begin, sessionVars, sendVars
<1>2. \A f : Keeps(f) /\ ~Leaves(todo, f) BY <1>1, IdleKeeps
<1>3. \A f \in Steady : Views(f) BY <1>1, ViewsKept
<1>4. Plain(todo')
  <2>1. todo' = <<>> \/ todo' = <<CallNext>> BY DEF Pause, RetryItem, Begin, Idle
  <2> QED BY <2>1, Plains, PlainCalls
<1>5. Room' BY <1>1, <1>4, PlainRoom
<1>6. ASSUME Pause, NEW f \in Steady PROVE Does(f)
  <2>1. f \in Item /\ processing[f] \in Nat /\ (f \in Held <=> processing[f] > 0)
    BY <1>1, SteadyFiles DEF TypeOK, Held
  <2>2. status'[f] = IF f \in Held THEN PausedStatus(f) ELSE status[f] BY <1>6, <2>1 DEF Pause
  <2>3. PausedStatus(f) # "error" BY DEF PausedStatus
  <2>4. paused' BY <1>6 DEF Pause
  <2>5. CASE f \in Held BY <1>1, <2>1, <2>2, <2>3, <2>4, <2>5 DEF Holds, Does
  <2>6. CASE f \notin Held BY <1>1, <1>2, <2>1, <2>2, <2>6 DEF Same, Does
  <2> QED BY <2>5, <2>6
<1>7. ASSUME NEW g \in File, RetryItem(g), NEW f \in Steady PROVE Does(f)
  <2>1. f \in Item /\ processing[f] \in Nat BY <1>1, SteadyFiles DEF TypeOK
  <2>2. status'[f] = IF f = g THEN "new" ELSE status[f] BY <1>7, <2>1 DEF RetryItem, SetStatus
  <2>3. CASE f = g
    <3>1. Shown(f) /\ status[f] = "error" BY <1>7, <2>3 DEF RetryItem
    <3>2. processing[f] = 0 BY <1>2, <2>1, <3>1 DEF QInv, FileOK
    <3> QED BY <1>1, <2>2, <2>3, <3>1, <3>2 DEF Returns, Does
  <2>4. CASE f # g BY <1>1, <1>2, <2>2, <2>4 DEF Same, Does
  <2> QED BY <2>3, <2>4
<1> QED BY <1>3, <1>5, <1>6, <1>7 DEF Steps

\* Answers to preparations and about folders.
LEMMA AnswersSteps ==
  ASSUME IInv, TypeOK', QInv,
         \/ \E s \in Session : StatNodes(s) \/ Renamed(s) \/ StatFails(s)
         \/ \E ds \in creating : FoldersCreated(ds) \/ FoldersFail(ds)
  PROVE  Steps
<1>1. /\ TypeOK /\ TypeOK' /\ Idle
      /\ UNCHANGED <<sessions, tree, transfer, started, paused>>
  BY DEF IInv, StatNodes, Renamed, StatFails, FoldersCreated, FoldersFail, sendVars, sessionVars
<1>2. \A f \in Steady : Views(f)
  <2>1. \A s \in Session : sess[s] # "none" => sess'[s] # "none"
    <3>1. UNCHANGED sess \/ \E s \in Session : sess' = [sess EXCEPT ![s] = "confirm"]
      BY DEF StatNodes, Renamed, StatFails, FoldersCreated, FoldersFail, sessionVars
    <3>2. sess \in [Session -> {"none", "analyse", "confirm", "ready", "folders", "loading"}] BY <1>1 DEF TypeOK
    <3> QED BY <3>1, <3>2
  <2> QED BY <1>1, <2>1, ViewsKept
<1>3. Plain(todo')
  <2>1. todo' = <<>> \/ todo' = <<CallNext>> \/ \E s \in Session : todo' = <<To("prepared", {s})>>
    BY DEF StatNodes, Renamed, StatFails, FoldersCreated, FoldersFail, Idle
  <2>2. \A s \in Session : {s} \subseteq Item \cup Session OBVIOUS
  <2> QED BY <2>1, <2>2, Plains, PlainCalls
<1>4. Room' BY <1>1, <1>3, PlainRoom
<1>5. ASSUME NEW f \in Steady PROVE Does(f)
  <2>1. f \in Item /\ f \notin Folder BY SteadyFiles
  <2>2. /\ UNCHANGED status \/ \E I \in SUBSET Folder : SetStatus(I, "loaded")
        /\ UNCHANGED processing \/ \E I \in SUBSET Folder : Unmonitor(I)
    <3>1. \A ds \in creating : ds \in SUBSET Folder BY <1>1 DEF TypeOK
    <3> QED BY <3>1 DEF StatNodes, Renamed, StatFails, FoldersCreated, FoldersFail
  <2>3. status'[f] = status[f] BY <2>1, <2>2 DEF SetStatus
  <2>4. processing'[f] = processing[f] BY <2>1, <2>2 DEF Unmonitor
  <2>5. Keeps(f) BY <1>1, IdleKeeps
  <2> QED BY <1>1, <2>3, <2>4, <2>5 DEF Same, Does
<1> QED BY <1>2, <1>4, <1>5 DEF Steps

\* Answers to transfers, and their progress.
LEMMA TransferSteps ==
  ASSUME IInv, TypeOK', QInv, NEW t \in transfer,
         Sent(t) \/ TransferDone(t) \/ TransferFails(t) \/ PartProgress(t)
  PROVE  Steps
<1>1. /\ TypeOK /\ TypeOK' /\ Idle
      /\ UNCHANGED <<sessions, sess, tree, started, paused>>
  BY DEF IInv, Sent, TransferDone, TransferFails, Retry, Completes, PartProgress, sendVars, sessionVars
<1>2. \A f \in Steady : Views(f) BY <1>1, ViewsKept
<1>3. \/ \E st \in {"loaded", "error"} : Complete(t, st) /\ todo' = <<CallNext>>
      \/ /\ \E u : transfer' = (transfer \ {t}) \cup {u}
         /\ UNCHANGED <<status, processing, todo>>
      \/ /\ t.f \in Big
         /\ UNCHANGED status \/ SetStatus({t.f}, "pause")
         /\ UNCHANGED <<processing, transfer, todo>>
  <2>1. CASE Sent(t) BY <2>1 DEF Sent, Moved
  <2>2. CASE TransferDone(t) BY <2>2 DEF TransferDone, Completes
  <2>3. CASE TransferFails(t) BY <2>3 DEF TransferFails, Retry, Completes
  <2>4. CASE PartProgress(t) BY <2>4 DEF PartProgress, sendVars
  <2> QED BY <2>1, <2>2, <2>3, <2>4
<1>4. Plain(todo')
  <2>1. todo' = <<>> \/ todo' = <<CallNext>> BY <1>1, <1>3 DEF Idle
  <2> QED BY <2>1, Plains, PlainCalls
<1>5. Room'
  <2>1. IsFiniteSet(transfer) /\ Cardinality(transfer) \in Nat /\ Cardinality(transfer) <= Slots BY RoomFor
  <2>2. Cardinality(transfer') \in Nat /\ Cardinality(transfer') <= Cardinality(transfer)
    BY <1>3, <2>1, FewerTransfers DEF Complete
  <2>3. Cardinality(transfer') <= Slots BY <2>1, <2>2, UploaderAssumption
  <2> QED BY <1>4, <2>2, <2>3, PlainCalls, RoomLeft DEF Plain
<1>6. ASSUME NEW f \in Steady PROVE Does(f)
  <2>1. f \in Item /\ f \notin Big /\ Keeps(f) BY <1>1, SteadyFiles, IdleKeeps
  <2>2. CASE \E st \in {"loaded", "error"} : Complete(t, st)
    <3>1. (f = t.f /\ Ends(f)) \/ (f # t.f /\ Same(f)) BY <1>1, <2>2, CompleteDoes
    <3> QED BY <2>1, <3>1 DEF Does
  <2>3. CASE UNCHANGED <<status, processing>> BY <1>1, <2>1, <2>3 DEF Same, Does
  <2>4. CASE t.f \in Big /\ SetStatus({t.f}, "pause") /\ UNCHANGED processing
    <3>1. status'[f] = status[f] BY <2>1, <2>4 DEF SetStatus
    <3> QED BY <1>1, <2>1, <2>4, <3>1 DEF Same, Does
  <2> QED BY <1>3, <2>2, <2>3, <2>4
<1> QED BY <1>2, <1>5, <1>6 DEF Steps

----------------------------------------------------------------------------
(***************************************************************************)
(* Theorems.                                                               *)
(***************************************************************************)

QueuePhase == [f \in Steady |-> Phase(f)]
SlotsUsed == Cardinality({f \in Steady : Phase(f) = "sending"}) <= Slots

\* At the beginning nothing is sent, nor to be.
LEMMA InitQ == Init => QInv
<1> SUFFICES ASSUME Init PROVE QInv
  OBVIOUS
<1>1. Idle /\ Len(todo) = 0 /\ Pending = {} BY DEF Init, Idle, Pending, Runs
<1>2. transfer = {} /\ Cardinality(transfer) = 0 /\ Cardinality(Pending) = 0 BY <1>1, FS_EmptySet DEF Init
<1>3. Follows(todo) BY <1>1 DEF Follows
<1>4. Room BY <1>1, <1>2, <1>3, UploaderAssumption DEF Room
<1>5. \A f \in Steady : FileOK(f) BY SteadyFiles DEF Init, FileOK
<1> QED BY <1>4, <1>5 DEF QInv

\* Each step keeps the invariant of the queue, and moves files as it allows.
LEMMA StepQ ==
  ASSUME Refused = {} \/ Slots = 1, IInv, QInv, [Next]_vars
  PROVE  QInv' /\ \A f \in Steady : /\ processing[f] \in {0, 1} /\ processing'[f] \in {0, 1}
                                  /\ \/ PhaseOf(f)' = PhaseOf(f)
                                     \/ <<PhaseOf(f), PhaseOf(f)'>> \in Queue!Moves
<1>1. TypeOK /\ TypeOK' BY StepInv DEF IInv
<1>2. CASE Next
  <2>1. Steps
    <3>1. CASE Run
      BY <1>1, <3>1, ProcessNextSteps, ProcessSteps, SetReadySteps, ResumeHeldSteps, AbortSteps, TreeSteps DEF Run
    <3>2. CASE Users BY <1>1, <3>2, DropSteps, UserCallsSteps, FilesStatusSteps DEF Users
    <3>3. CASE Network BY <1>1, <3>3, AnswersSteps, TransferSteps DEF Network
    <3>4. CASE Progress BY <1>1, <3>4, TransferSteps DEF Progress
    <3> QED BY <1>2, <3>1, <3>2, <3>3, <3>4 DEF Next
  <2>2. Room' /\ \A f \in Steady : FileOK(f) /\ Views(f) /\ Does(f) BY <2>1 DEF Steps, QInv
  <2>3. \A f \in Steady : /\ FileOK(f)' /\ processing[f] \in {0, 1} /\ processing'[f] \in {0, 1}
                          /\ \/ PhaseOf(f)' = PhaseOf(f)
                             \/ <<PhaseOf(f), PhaseOf(f)'>> \in Queue!Moves
    BY <1>1, <2>2, FileMoves
  <2> QED BY <2>2, <2>3 DEF QInv
<1>3. CASE UNCHANGED vars
  <2>1. /\ sessions' = sessions /\ sess' = sess /\ tree' = tree /\ status' = status /\ processing' = processing
        /\ paused' = paused /\ transfer' = transfer /\ started' = started /\ todo' = todo
    BY <1>3 DEF vars, sessionVars, sendVars
  <2>2. Room' BY <2>1 DEF QInv, Room, Pending, Runs, Idle, Rest, Unsent, Shown
  <2>3. \A f \in Steady : FileOK(f)' BY <2>1 DEF QInv, FileOK, Unsent, Shown
  <2>4. \A f \in Steady : PhaseOf(f)' = PhaseOf(f) BY <2>1 DEF PhaseOf, Shown
  <2>5. \A f \in Steady : processing[f] \in {0, 1} BY <1>1, SteadyFiles DEF TypeOK, QInv, FileOK
  <2> QED BY <2>1, <2>2, <2>3, <2>4, <2>5 DEF QInv
<1> QED BY <1>2, <1>3

\* No more files of the queue are being sent than there are transfers, and slots.
LEMMA SlotsKept == IInv /\ QInv => SlotsUsed
<1> SUFFICES ASSUME IInv, QInv PROVE SlotsUsed
  OBVIOUS
<1> DEFINE S == {f \in Steady : Phase(f) = "sending"}
           h == [f \in S |-> CHOOSE t \in transfer : t.f = f]
<1>1. \A f \in S : \E t \in transfer : t.f = f
  <2> TAKE f \in S
  <2>1. processing[f] = 1 /\ f \in File
    <3>1. f \in Steady /\ f \in File /\ f \in Item BY SteadyFiles
    <3>2. processing[f] \in {0, 1} BY <3>1 DEF IInv, TypeOK, QInv, FileOK
    <3>3. PhaseOf(f) = "sending" BY <3>1, <3>2, PhaseFound DEF IInv, Books
    <3> QED BY <3>1, <3>3 DEF PhaseOf
  <2>2. Cardinality(Transfers(f)) = 1 BY <2>1 DEF IInv, Books, CountsTransfers
  <2>3. Transfers(f) # {} BY <2>2, FS_EmptySet
  <2> QED BY <2>3 DEF Transfers
<1>2. h \in [S -> transfer] /\ \A f \in S : h[f].f = f BY <1>1
<1> HIDE DEF h
<1>3. h \in Injection(S, transfer) BY <1>2 DEF Injection, IsInjective
<1>4. IsFiniteSet(transfer) /\ Cardinality(transfer) \in Nat /\ Cardinality(transfer) <= Slots BY RoomFor
<1> HIDE DEF S
<1>5. IsFiniteSet(S) /\ Cardinality(S) <= Cardinality(transfer) /\ Cardinality(S) \in Nat
  BY <1>3, <1>4, FS_Injection, FS_CardinalityType
<1>6. Cardinality(S) <= Slots BY <1>4, <1>5, UploaderAssumption
<1> QED BY <1>6 DEF S, SlotsUsed

\* Whatever happens to the other files, and to sessions and folders, each step
\* of the store is a step of the queue for the files the user does not stop and
\* that are sent in one request: sent by one transfer at a time, next to at most
\* Slots - 1 others, and never again once stored.  A file that is refused calls
\* processNext inside the loop that visits it, which must have been its last.
THEOREM StepsOfTheQueue ==
  ASSUME Refused = {} \/ Slots = 1
  PROVE  Spec => Queue!Init /\ [][Queue!Next]_QueuePhase
<1>1. Init => Queue!Init
  <2> SUFFICES ASSUME Init, NEW f \in Steady PROVE Phase(f) = "waiting"
    BY DEF Queue!Init
  <2>1. f \in File /\ f \in Item /\ SessionOf[f] \in Session BY SteadyFiles
  <2>2. Cardinality(Transfers(f)) = 0
    <3>1. Transfers(f) = {} BY DEF Init, Transfers
    <3> QED BY <3>1, FS_EmptySet
  <2> QED BY <2>1, <2>2 DEF Init, Phase
<1>2. IInv /\ QInv /\ [Next]_vars => IInv' /\ QInv' BY StepInv, StepQ
<1>3. (IInv /\ QInv)' => SlotsUsed' BY SlotsKept, PTL
<1>4. IInv /\ QInv /\ [Next]_vars => [Queue!Next]_QueuePhase
  <2> SUFFICES ASSUME IInv, QInv, [Next]_vars PROVE Queue!Next
    OBVIOUS
  <2>1. IInv' /\ QInv' BY <1>2
  <2>2. \A f \in Steady :
          /\ Phase(f) = PhaseOf(f) /\ Phase(f)' = PhaseOf(f)'
          /\ PhaseOf(f)' = PhaseOf(f) \/ <<PhaseOf(f), PhaseOf(f)'>> \in Queue!Moves
    <3> TAKE f \in Steady
    <3>1. /\ processing[f] \in {0, 1} /\ processing'[f] \in {0, 1}
          /\ PhaseOf(f)' = PhaseOf(f) \/ <<PhaseOf(f), PhaseOf(f)'>> \in Queue!Moves
      BY StepQ
    <3>2. Phase(f) = PhaseOf(f) BY <3>1, PhaseFound DEF IInv, Books
    <3>3. Phase(f)' = PhaseOf(f)'
      <4>1. Cardinality(Transfers(f)') = processing'[f] BY <2>1, SteadyFiles DEF IInv, Books, CountsTransfers
      <4> QED BY <3>1, <4>1 DEF Phase, PhaseOf
    <3> QED BY <3>1, <3>2, <3>3
  <2>3. \A f \in Steady : Phase(f)' \in Queue!Phases
    BY <2>2 DEF PhaseOf, Queue!Phases
  <2>4. SlotsUsed' BY <2>1, <1>3
  <2>5. [f \in Steady |-> Phase(f)]' \in [Steady -> Queue!Phases] BY <2>3
  <2>6. Queue!Cardinality(Queue!Sending') <= Slots
    <3>1. Queue!Sending' = {f \in Steady : Phase(f)' = "sending"} BY DEF Queue!Sending
    <3>2. \A S : Queue!Cardinality(S) = Cardinality(S) BY DEF Queue!Cardinality, Cardinality
    <3> QED BY <2>4, <3>1, <3>2 DEF SlotsUsed
  <2>7. \A f \in Steady : \/ [g \in Steady |-> Phase(g)]'[f] = [g \in Steady |-> Phase(g)][f]
                          \/ <<[g \in Steady |-> Phase(g)][f], [g \in Steady |-> Phase(g)]'[f]>> \in Queue!Moves
    BY <2>2
  <2> QED BY <2>5, <2>6, <2>7 DEF Queue!Next
<1> QED BY <1>1, <1>2, <1>4, InitInv, InitQ, PTL DEF Spec

\* The store implements the queue, once transfers come to an end: Settles is what
\* the run upload_queue checks under the fairness of Spec.
THEOREM Implementation ==
  ASSUME Refused = {} \/ Slots = 1
  PROVE  Spec /\ Settles => ImplementsQueue
<1>1. ASSUME NEW f \in Steady
      PROVE  Settles => (QueuePhase[f] = "sending" ~> QueuePhase[f] # "sending")
  <2>1. transfer = {} => QueuePhase[f] # "sending"
    <3> SUFFICES ASSUME transfer = {} PROVE Phase(f) # "sending"
      BY DEF QueuePhase
    <3>1. Transfers(f) = {} BY DEF Transfers
    <3>2. Cardinality(Transfers(f)) = 0 BY <3>1, FS_EmptySet
    <3> QED BY <3>2 DEF Phase
  <2> QED BY <2>1, PTL DEF Settles
<1>2. Settles => Queue!Live BY <1>1 DEF Queue!Live, QueuePhase
<1> QED BY <1>2, StepsOfTheQueue, PTL DEF ImplementsQueue, Queue!Spec, QueuePhase
=============================================================================
