--------------------------- MODULE UploaderProofs ---------------------------
(***************************************************************************)
(* Theorems about Uploader: its types, and one entry of _processing for    *)
(* each transfer, in every reachable state.                                *)
(***************************************************************************)
EXTENDS Uploader, FiniteSetTheorems, TLAPS

Of(T, f) == {t \in T : t.f = f}
Distinct(T) == \A t, u \in T : t.f = u.f /\ t.n = u.n => t = u
Transfer == [f : File, n : Nat, try : 1..MaxRetries, st : {"wait", "sent", "aborting"}]

\* Transfers are told apart by file and number, and each has its entry.
Books == IsFiniteSet(transfer) /\ Distinct(transfer) /\ CountsTransfers

\* A folder is asked for once.
FoldersOnce ==
  /\ \A d \in Folder : status[d] = "new" => processing[d] = 0
  /\ \A g, h \in creating : g = h \/ g \cap h = {}

IInv == TypeOK /\ Books /\ FoldersOnce

----------------------------------------------------------------------------

\* The transfers of a file among finitely many are finitely many.
LEMMA OfFinite ==
  ASSUME NEW T, IsFiniteSet(T), NEW f
  PROVE  IsFiniteSet(Of(T, f)) /\ Cardinality(Of(T, f)) \in Nat
<1>1. Of(T, f) \subseteq T BY DEF Of
<1> QED BY <1>1, FS_Subset, FS_CardinalityType

\* A transfer more counts for its file.
LEMMA OfAdded ==
  ASSUME NEW T, IsFiniteSet(T), NEW u, u \notin T, NEW f
  PROVE  /\ IsFiniteSet(T \cup {u})
         /\ Cardinality(Of(T \cup {u}, f)) = Cardinality(Of(T, f)) + (IF u.f = f THEN 1 ELSE 0)
<1>1. IsFiniteSet(T \cup {u}) BY FS_AddElement
<1>2. CASE u.f = f
  <2>1. Of(T \cup {u}, f) = Of(T, f) \cup {u} /\ u \notin Of(T, f) BY <1>2 DEF Of
  <2> QED BY <1>1, <1>2, <2>1, OfFinite, FS_AddElement
<1>3. CASE u.f # f
  <2>1. Of(T \cup {u}, f) = Of(T, f) BY <1>3 DEF Of
  <2> QED BY <1>1, <1>3, <2>1, OfFinite
<1> QED BY <1>2, <1>3

\* A transfer less no longer counts.
LEMMA OfRemoved ==
  ASSUME NEW T, IsFiniteSet(T), NEW t \in T, NEW f
  PROVE  /\ IsFiniteSet(T \ {t})
         /\ Cardinality(Of(T \ {t}, f)) = Cardinality(Of(T, f)) - (IF t.f = f THEN 1 ELSE 0)
<1>1. IsFiniteSet(T \ {t}) BY FS_RemoveElement
<1>2. CASE t.f = f
  <2>1. Of(T \ {t}, f) = Of(T, f) \ {t} /\ t \in Of(T, f) BY <1>2 DEF Of
  <2> QED BY <1>1, <1>2, <2>1, OfFinite, FS_RemoveElement
<1>3. CASE t.f # f
  <2>1. Of(T \ {t}, f) = Of(T, f) BY <1>3 DEF Of
  <2> QED BY <1>1, <1>3, <2>1, OfFinite
<1> QED BY <1>2, <1>3

\* A transfer that moves on still counts for its file.
LEMMA OfReplaced ==
  ASSUME NEW T, IsFiniteSet(T), Distinct(T), NEW t \in T, NEW u, u.f = t.f, u.n = t.n, NEW f
  PROVE  LET R == (T \ {t}) \cup {u}
         IN /\ IsFiniteSet(R) /\ Distinct(R)
            /\ Cardinality(Of(R, f)) = Cardinality(Of(T, f))
<1>1. u \notin T \ {t} BY DEF Distinct
<1>2. /\ IsFiniteSet(T \ {t})
      /\ Cardinality(Of(T \ {t}, f)) = Cardinality(Of(T, f)) - (IF t.f = f THEN 1 ELSE 0)
  BY OfRemoved
<1>3. /\ IsFiniteSet((T \ {t}) \cup {u})
      /\ Cardinality(Of((T \ {t}) \cup {u}, f)) = Cardinality(Of(T \ {t}, f)) + (IF u.f = f THEN 1 ELSE 0)
  BY <1>1, <1>2, OfAdded
<1>4. Distinct((T \ {t}) \cup {u}) BY DEF Distinct
<1>5. Cardinality(Of(T, f)) \in Nat BY OfFinite
<1> QED BY <1>2, <1>3, <1>4, <1>5

\* Calls are what todo holds.
LEMMA CallTypes ==
  ASSUME NEW do \in Loops \cup {"next", "resume", "detach", "cleared"}, NEW S, S \subseteq Item \cup Session
  PROVE  To(do, S) \in Call
BY DEF To, Call

\* A call is put before the others.
LEMMA PushTypes ==
  ASSUME NEW c \in Call, NEW calls \in Seq(Call)
  PROVE  Push(c, calls) \in Seq(Call) /\ (c.do \notin Loops => Push(c, calls) # <<>>)
BY DEF Push

\* What is left to do when the head is popped, and when its loop goes on.
LEMMA RestTypes ==
  ASSUME TypeOK, ~Idle
  PROVE  /\ Rest \in Seq(Call) /\ Head(todo) \in Call
         /\ Head(todo).do \in Loops \cup {"next", "resume", "detach", "cleared"}
         /\ Head(todo).of \subseteq Item \cup Session
         /\ \A x : Others(x) \in Seq(Call)
<1>1. todo \in Seq(Call) /\ todo # <<>> BY DEF TypeOK, Idle
<1>2. Rest \in Seq(Call) /\ Head(todo) \in Call BY <1>1 DEF Rest
<1>3. /\ Head(todo).do \in Loops \cup {"next", "resume", "detach", "cleared"}
      /\ Head(todo).of \subseteq Item \cup Session
  BY <1>2 DEF Call
<1>4. ASSUME NEW x PROVE Others(x) \in Seq(Call)
  <2>1. To(Head(todo).do, {y \in Head(todo).of : Place[x] < Place[y]}) \in Call
    BY <1>3, CallTypes
  <2> QED BY <2>1, <1>2, PushTypes DEF Others
<1> QED BY <1>2, <1>3, <1>4

----------------------------------------------------------------------------
(***************************************************************************)
(* The parts of the type invariant, and what is kept when they are left    *)
(* alone.                                                                  *)
(***************************************************************************)

SessionTypes ==
  /\ sessions \subseteq Session /\ prepared \subseteq Session /\ tree \subseteq Item
  /\ sess \in [Session -> {"none", "analyse", "confirm", "ready", "folders", "loading"}]
  /\ prep \in [Session -> Policies \cup {"none", "renaming"}]

Statuses == {"new", "loading", "loaded", "error", "pause", "cannot-pause", "multi-pause"}

ItemTypes ==
  /\ status \in [Item -> Statuses]
  /\ \A d \in Folder : status[d] \in {"new", "loading", "loaded"}
  /\ processing \in [Item -> Nat] /\ \A d \in Folder : processing[d] <= 1
  /\ UNION creating \subseteq Folder /\ \A d \in UNION creating : processing[d] = 1

SendTypes ==
  /\ transfer \subseteq Transfer
  /\ \A t \in transfer : t.n \in 1..started[t.f]
  /\ started \in [File -> Nat] /\ xhr \in [File -> Nat \X Nat] /\ aborted \in [File -> BOOLEAN]

OtherTypes ==
  /\ paused \in BOOLEAN /\ faults \in 0..MaxFaults
  /\ part \in [File -> {"none", "loading", "cannot"}]

\* The type invariant in parts.
LEMMA TypeParts ==
  /\ TypeOK <=> SessionTypes /\ ItemTypes /\ SendTypes /\ OtherTypes /\ todo \in Seq(Call)
  /\ TypeOK' <=> SessionTypes' /\ ItemTypes' /\ SendTypes' /\ OtherTypes' /\ todo' \in Seq(Call)
BY DEF TypeOK, SessionTypes, ItemTypes, SendTypes, OtherTypes, Transfer, Statuses

\* Nothing happens to the parts whose variables are left alone.
LEMMA PartsKept ==
  /\ SessionTypes /\ UNCHANGED <<sessionVars, tree>> => SessionTypes'
  /\ ItemTypes /\ UNCHANGED <<status, processing, creating>> => ItemTypes'
  /\ SendTypes /\ UNCHANGED sendVars => SendTypes'
  /\ OtherTypes /\ UNCHANGED <<paused, faults, part>> => OtherTypes'
  /\ Books /\ UNCHANGED <<processing, transfer>> => Books'
BY DEF SessionTypes, ItemTypes, SendTypes, OtherTypes, Books, Distinct, CountsTransfers, Transfers,
       sessionVars, sendVars

\* The folders do not mind a change of other statuses.
LEMMA FoldersKept ==
  ASSUME FoldersOnce, UNCHANGED creating, \A d \in Folder : processing'[d] = processing[d],
         \A d \in Folder : status'[d] = "new" => status[d] = "new"
  PROVE  FoldersOnce'
BY DEF FoldersOnce

\* A status given to files, which are no folders.
LEMMA FilesGetStatus ==
  ASSUME ItemTypes, NEW I, I \subseteq File, NEW st \in Statuses, SetStatus(I, st),
         UNCHANGED <<processing, creating>>
  PROVE  ItemTypes' /\ (\A d \in Folder : status'[d] = status[d])
<1> DEFINE stat(i) == IF i \in I THEN st ELSE status[i]
<1>1. status' = [i \in Item |-> stat(i)] BY DEF SetStatus
<1>2. \A i \in Item : stat(i) \in Statuses BY DEF ItemTypes
<1>3. \A d \in Folder : d \in Item /\ stat(d) = status[d] BY UploaderAssumption DEF Item
<1> HIDE DEF stat
<1>4. status' \in [Item -> Statuses] /\ \A d \in Folder : status'[d] = status[d]
  BY <1>1, <1>2, <1>3
<1> QED BY <1>4 DEF ItemTypes

\* The books after a change of the transfers of one file.
LEMMA BooksAdded ==
  ASSUME Books, ItemTypes, NEW t, t.f \in File, t \notin transfer, Distinct(transfer \cup {t}),
         transfer' = transfer \cup {t}, Monitor({t.f})
  PROVE  Books'
<1>1. /\ IsFiniteSet(transfer')
      /\ \A f \in File : Cardinality(Of(transfer', f)) = Cardinality(Of(transfer, f)) + (IF t.f = f THEN 1 ELSE 0)
  BY OfAdded DEF Books
<1>2. \A f \in File : processing'[f] = processing[f] + (IF t.f = f THEN 1 ELSE 0)
  BY DEF Monitor, ItemTypes, Item
<1>3. \A f \in File : processing[f] = Cardinality(Of(transfer, f))
  BY DEF Books, CountsTransfers, Transfers, Of
<1>4. \A f \in File : processing'[f] = Cardinality(Of(transfer', f)) BY <1>1, <1>2, <1>3
<1> QED BY <1>1, <1>4 DEF Books, CountsTransfers, Transfers, Of

\* The books when a transfer ends.
LEMMA BooksRemoved ==
  ASSUME Books, ItemTypes, NEW t \in transfer, t.f \in File,
         transfer' = transfer \ {t}, Unmonitor({t.f})
  PROVE  Books' /\ processing[t.f] > 0
<1>1. /\ IsFiniteSet(transfer')
      /\ \A f \in File : Cardinality(Of(transfer', f)) = Cardinality(Of(transfer, f)) - (IF t.f = f THEN 1 ELSE 0)
  BY OfRemoved DEF Books
<1>2. \A f \in File : Cardinality(Of(transfer', f)) \in Nat BY <1>1, OfFinite
<1>3. \A f \in File : processing[f] = Cardinality(Of(transfer, f)) /\ processing[f] \in Nat
  BY DEF Books, CountsTransfers, Transfers, Of, ItemTypes, Item
<1>4. processing[t.f] > 0 BY <1>1, <1>2, <1>3
<1>5. \A f \in File : processing'[f] = processing[f] - (IF t.f = f THEN 1 ELSE 0)
  <2> TAKE f \in File
  <2>1. processing'[f] = IF f \in {t.f} /\ processing[f] > 0 THEN processing[f] - 1 ELSE processing[f]
    BY DEF Unmonitor, Item
  <2> QED BY <2>1, <1>3, <1>4
<1>6. Distinct(transfer') BY DEF Books, Distinct
<1>7. \A f \in File : processing'[f] = Cardinality(Of(transfer', f)) BY <1>1, <1>3, <1>5
<1> QED BY <1>1, <1>4, <1>6, <1>7 DEF Books, CountsTransfers, Transfers, Of

\* The books when a transfer moves on.
LEMMA BooksReplaced ==
  ASSUME Books, NEW t \in transfer, NEW u, u.f = t.f, u.n = t.n,
         transfer' = (transfer \ {t}) \cup {u}, UNCHANGED processing
  PROVE  Books'
<1>1. /\ IsFiniteSet(transfer') /\ Distinct(transfer')
      /\ \A f \in File : Cardinality(Of(transfer', f)) = Cardinality(Of(transfer, f))
  BY OfReplaced DEF Books
<1> QED BY <1>1 DEF Books, CountsTransfers, Transfers, Of

\* A transfer that moves on leaves the send variables of their types.
LEMMA SendsReplaced ==
  ASSUME SendTypes, NEW t \in transfer, NEW u \in Transfer, u.f = t.f, u.n = t.n,
         transfer' = (transfer \ {t}) \cup {u}, UNCHANGED started,
         xhr' \in [File -> Nat \X Nat], aborted' \in [File -> BOOLEAN]
  PROVE  SendTypes'
BY DEF SendTypes

\* The handle of an attempt that has ended.
LEMMA Released ==
  ASSUME SendTypes, NEW t \in transfer, Release(t)
  PROVE  xhr' \in [File -> Nat \X Nat]
<1>1. t.f \in File /\ Ended \in Nat \X Nat BY DEF SendTypes, Transfer, Ended
<1> QED BY <1>1 DEF Release, SendTypes

\* The entries of files come and go without an effect on folders.
LEMMA FoldersOfUnmonitor ==
  ASSUME ItemTypes, NEW f \in File, Unmonitor({f}) \/ Monitor({f}), NEW st \in Statuses, SetStatus({f}, st),
         UNCHANGED creating
  PROVE  /\ ItemTypes'
         /\ \A d \in Folder : status'[d] = status[d] /\ processing'[d] = processing[d]
<1> DEFINE stat(i) == IF i \in {f} THEN st ELSE status[i]
           less(i) == IF i \in {f} /\ processing[i] > 0 THEN processing[i] - 1 ELSE processing[i]
           more(i) == IF i \in {f} THEN processing[i] + 1 ELSE processing[i]
<1>1. status' = [i \in Item |-> stat(i)] BY DEF SetStatus
<1>2. \/ processing' = [i \in Item |-> less(i)]
      \/ processing' = [i \in Item |-> more(i)]
  BY DEF Unmonitor, Monitor
<1>3. \A i \in Item : stat(i) \in Statuses /\ less(i) \in Nat /\ more(i) \in Nat BY DEF ItemTypes
<1>4. \A d \in Folder : d \in Item /\ stat(d) = status[d] /\ less(d) = processing[d] /\ more(d) = processing[d]
  BY UploaderAssumption DEF Item
<1> HIDE DEF stat, less, more
<1>5. /\ status' \in [Item -> Statuses] /\ processing' \in [Item -> Nat]
      /\ \A d \in Folder : status'[d] = status[d] /\ processing'[d] = processing[d]
  BY <1>1, <1>2, <1>3, <1>4
<1> QED BY <1>5 DEF ItemTypes

\* A transfer that ends takes its entry with it.
LEMMA CompleteKeeps ==
  ASSUME ItemTypes, SendTypes, Books, FoldersOnce, NEW t \in transfer, NEW st \in {"loaded", "error"},
         Complete(t, st), UNCHANGED <<creating, started>>, aborted' \in [File -> BOOLEAN]
  PROVE  ItemTypes' /\ SendTypes' /\ Books' /\ FoldersOnce'
<1>1. t.f \in File /\ st \in Statuses BY DEF SendTypes, Transfer, Statuses
<1>2. Books' BY <1>1, BooksRemoved DEF Complete
<1>3. ItemTypes' /\ \A d \in Folder : status'[d] = status[d] /\ processing'[d] = processing[d]
  BY <1>1, FoldersOfUnmonitor DEF Complete
<1>4. FoldersOnce' BY <1>3, FoldersKept
<1>5. xhr' \in [File -> Nat \X Nat] BY Released DEF Complete
<1>6. SendTypes' BY <1>5 DEF SendTypes, Complete
<1> QED BY <1>2, <1>3, <1>4, <1>6

----------------------------------------------------------------------------
(***************************************************************************)
(* The steps of a handler.                                                 *)
(***************************************************************************)

\* processNext: the folders it asks for were not asked for yet.
LEMMA ProcessNextInv == IInv /\ ProcessNext => IInv'
<1> SUFFICES ASSUME IInv, ProcessNext PROVE IInv'
  OBVIOUS
<1> DEFINE folders == UNION {NewFolders(s) : s \in sessions}
<1>1. /\ TypeOK /\ SessionTypes /\ ItemTypes /\ SendTypes /\ OtherTypes /\ Books /\ FoldersOnce
      /\ ~Idle
  BY TypeParts DEF IInv, ProcessNext, Runs
<1>2. SessionTypes' BY <1>1 DEF ProcessNext, SessionTypes
<1>3. SendTypes' /\ OtherTypes' BY <1>1, PartsKept DEF ProcessNext
<1>4. todo' \in Seq(Call)
  <2>1. GetNexts \subseteq Item \cup Session BY DEF GetNexts, Queued, Item
  <2>2. To("send", GetNexts) \in Call BY <2>1, CallTypes DEF Loops
  <2> QED BY <1>1, <2>2, RestTypes, PushTypes DEF ProcessNext
<1>5. ItemTypes' /\ Books' /\ FoldersOnce'
  <2>1. CASE UNCHANGED <<status, processing, creating>>
    BY <1>1, <2>1, PartsKept, FoldersKept DEF ProcessNext, sendVars
  <2>2. CASE /\ SetStatus(folders, "loading") /\ Monitor(folders)
             /\ creating' = creating \cup {folders}
    <3>1. folders \subseteq Folder /\ \A d \in folders : status[d] = "new" BY DEF NewFolders
    <3>2. \A d \in folders : processing[d] = 0 BY <1>1, <3>1 DEF FoldersOnce
    <3>3. \A g \in creating : g \cap folders = {} BY <1>1, <3>2 DEF ItemTypes
    <3> DEFINE F == folders
               stat(i) == IF i \in F THEN "loading" ELSE status[i]
               more(i) == IF i \in F THEN processing[i] + 1 ELSE processing[i]
    <3>4. status' = [i \in Item |-> stat(i)] /\ processing' = [i \in Item |-> more(i)]
          /\ creating' = creating \cup {F}
      BY <2>2 DEF SetStatus, Monitor
    <3>5. F \subseteq Folder /\ (\A d \in F : processing[d] = 0) /\ (\A g \in creating : g \cap F = {})
      BY <3>1, <3>2, <3>3
    <3> HIDE DEF folders, F
    <3>6. /\ \A i \in Item : stat(i) \in Statuses /\ more(i) \in Nat
          /\ \A i \in Item : i \in F => stat(i) = "loading" /\ more(i) = 1
          /\ \A i \in Item : i \notin F => stat(i) = status[i] /\ more(i) = processing[i]
      BY <1>1, <3>5 DEF ItemTypes, Statuses, Item
    <3> HIDE DEF stat, more
    <3>7. /\ status' \in [Item -> Statuses] /\ processing' \in [Item -> Nat]
          /\ \A i \in Item : i \in F => status'[i] = "loading" /\ processing'[i] = 1
          /\ \A i \in Item : i \notin F => status'[i] = status[i] /\ processing'[i] = processing[i]
      BY <3>4, <3>6
    <3>8. \A d \in Folder : d \in Item BY DEF Item
    <3>9. UNION creating' \subseteq Folder /\ \A d \in UNION creating' : d \in F \/ d \in UNION creating
      BY <1>1, <3>4, <3>5 DEF ItemTypes
    <3>10. \A d \in Folder : status'[d] \in {"new", "loading", "loaded"} /\ processing'[d] <= 1
      BY <1>1, <3>7, <3>8 DEF ItemTypes
    <3>11. \A d \in UNION creating' : processing'[d] = 1
      BY <1>1, <3>7, <3>8, <3>9 DEF ItemTypes
    <3>12. ItemTypes' BY <3>7, <3>9, <3>10, <3>11 DEF ItemTypes
    <3>13. FoldersOnce'
      <4>1. \A d \in Folder : status'[d] = "new" => processing'[d] = 0
        BY <1>1, <3>7, <3>8 DEF FoldersOnce
      <4>2. \A g, h \in creating' : g = h \/ g \cap h = {}
        BY <1>1, <3>4, <3>5 DEF FoldersOnce
      <4> QED BY <4>1, <4>2 DEF FoldersOnce
    <3>14. Books'
      <4>1. \A f \in File : f \in Item /\ f \notin F BY <3>5, UploaderAssumption DEF Item
      <4>2. transfer' = transfer BY DEF ProcessNext, sendVars
      <4> QED BY <1>1, <4>1, <4>2, <3>7 DEF Books, CountsTransfers, Transfers, Distinct
    <3> QED BY <3>12, <3>13, <3>14
  <2> QED BY <2>1, <2>2 DEF ProcessNext
<1> QED BY <1>2, <1>3, <1>4, <1>5, TypeParts DEF IInv

\* A transfer that starts is new, and monitored at once.
LEMMA ProcessInv == IInv /\ Process => IInv'
<1> SUFFICES ASSUME IInv, Process PROVE IInv'
  OBVIOUS
<1>1. /\ TypeOK /\ SessionTypes /\ ItemTypes /\ SendTypes /\ OtherTypes /\ Books /\ FoldersOnce
      /\ ~Idle
  BY TypeParts DEF IInv, Process, Runs
<1>2. PICK f \in File :
       /\ Visits(f)
       /\ aborted' = [aborted EXCEPT ![f] = FALSE]
       /\ \/ /\ f \in Refused /\ SetStatus({f}, "error")
             /\ todo' = Push(CallNext, Others(f))
             /\ UNCHANGED <<processing, transfer, started>>
          \/ /\ f \notin Refused /\ SetStatus({f}, "loading") /\ Monitor({f})
             /\ started' = [started EXCEPT ![f] = @ + 1]
             /\ transfer' = transfer \cup {[f |-> f, n |-> started[f] + 1, try |-> 1, st |-> "wait"]}
             /\ todo' = Others(f)
  BY DEF Process
<1>3. SessionTypes' /\ OtherTypes' BY <1>1, PartsKept DEF Process
<1>4. todo' \in Seq(Call)
  BY <1>1, <1>2, RestTypes, PushTypes, CallTypes DEF CallNext
<1>5. aborted' \in [File -> BOOLEAN] /\ xhr' = xhr /\ creating' = creating
  BY <1>1, <1>2 DEF SendTypes, Process
<1>6. ItemTypes' /\ SendTypes' /\ Books' /\ FoldersOnce'
  <2>1. CASE SetStatus({f}, "error") /\ UNCHANGED <<processing, transfer, started>>
    <3>1. ItemTypes' /\ (\A d \in Folder : status'[d] = status[d])
      BY <1>1, <1>5, <2>1, FilesGetStatus DEF Statuses
    <3>2. FoldersOnce' BY <1>1, <1>5, <2>1, <3>1, FoldersKept
    <3>3. SendTypes' BY <1>1, <1>5, <2>1 DEF SendTypes
    <3> QED BY <1>1, <2>1, <3>1, <3>2, <3>3, PartsKept
  <2>2. CASE /\ SetStatus({f}, "loading") /\ Monitor({f})
             /\ started' = [started EXCEPT ![f] = @ + 1]
             /\ transfer' = transfer \cup {[f |-> f, n |-> started[f] + 1, try |-> 1, st |-> "wait"]}
    <3> DEFINE t == [f |-> f, n |-> started[f] + 1, try |-> 1, st |-> "wait"]
    <3>1. started[f] \in Nat /\ 1 \in 1..MaxRetries BY <1>1, UploaderAssumption DEF SendTypes
    <3>2. t \in Transfer /\ t.f = f /\ t.n = started[f] + 1 BY <3>1 DEF Transfer
    <3>3. \A u \in transfer : u.f \in File /\ u.n \in Nat /\ u.n <= started[u.f]
      BY <1>1 DEF SendTypes, Transfer
    <3>4. transfer' = transfer \cup {t} BY <2>2
    <3> HIDE DEF t
    <3>5. \A u \in transfer : u.f = t.f => u.n # t.n BY <3>1, <3>2, <3>3
    <3>6. t \notin transfer /\ Distinct(transfer \cup {t}) BY <1>1, <3>5 DEF Books, Distinct
    <3>7. Books' BY <1>1, <2>2, <3>2, <3>4, <3>6, BooksAdded
    <3>8. ItemTypes' /\ (\A d \in Folder : status'[d] = status[d] /\ processing'[d] = processing[d])
      BY <1>1, <1>5, <2>2, FoldersOfUnmonitor DEF Statuses
    <3>9. FoldersOnce' BY <1>1, <1>5, <3>8, FoldersKept
    <3>10. started' \in [File -> Nat] /\ started'[f] = started[f] + 1
           /\ \A g \in File : g # f => started'[g] = started[g]
      BY <1>1, <2>2 DEF SendTypes
    <3>11. \A u \in transfer' : u.n \in 1..started'[u.f]
      <4>1. t.n \in 1..started'[t.f] BY <3>1, <3>2, <3>10
      <4>2. ASSUME NEW u \in transfer PROVE u.n \in 1..started'[u.f]
        <5>1. u.n \in 1..started[u.f] /\ u.f \in File /\ started[u.f] \in Nat BY <1>1 DEF SendTypes, Transfer
        <5> QED BY <5>1, <3>10
      <4> QED BY <4>1, <4>2, <3>4
    <3>12. SendTypes' BY <1>1, <1>5, <3>2, <3>4, <3>10, <3>11 DEF SendTypes
    <3> QED BY <3>7, <3>8, <3>9, <3>12
  <2> QED BY <1>2, <2>1, <2>2
<1> QED BY <1>3, <1>4, <1>6, TypeParts DEF IInv

\* A session that becomes ready changes neither items nor transfers.
LEMMA SetReadyInv == IInv /\ SetReady => IInv'
<1> SUFFICES ASSUME IInv, SetReady PROVE IInv'
  OBVIOUS
<1>1. /\ TypeOK /\ SessionTypes /\ ItemTypes /\ SendTypes /\ OtherTypes /\ Books /\ FoldersOnce
      /\ ~Idle
  BY TypeParts DEF IInv, SetReady, Runs
<1>2. ItemTypes' /\ SendTypes' /\ OtherTypes' /\ Books' /\ FoldersOnce'
  BY <1>1, PartsKept, FoldersKept DEF SetReady, sendVars
<1>3. SessionTypes' BY <1>1 DEF SetReady, SessionTypes
<1>4. todo' \in Seq(Call)
  <2>1. CallNext \in Call BY CallTypes DEF CallNext
  <2> QED BY <1>1, <2>1, RestTypes, PushTypes DEF SetReady
<1> QED BY <1>2, <1>3, <1>4, TypeParts DEF IInv

\* resume: what it restarts are files.
LEMMA ResumeHeldInv == IInv /\ ResumeHeld => IInv'
<1> SUFFICES ASSUME IInv, ResumeHeld PROVE IInv'
  OBVIOUS
<1>1. /\ TypeOK /\ SessionTypes /\ ItemTypes /\ SendTypes /\ OtherTypes /\ Books /\ FoldersOnce
      /\ ~Idle
  BY TypeParts DEF IInv, ResumeHeld, Runs
<1>2. SessionTypes' /\ SendTypes' /\ OtherTypes' /\ Books'
  BY <1>1, PartsKept DEF ResumeHeld, sendVars
<1>3. ItemTypes' /\ \A d \in Folder : status'[d] = status[d]
  BY <1>1, FilesGetStatus DEF ResumeHeld, Held, Statuses
<1>4. FoldersOnce' BY <1>1, <1>3, FoldersKept DEF ResumeHeld
<1>5. todo' \in Seq(Call) BY <1>1, RestTypes DEF ResumeHeld
<1> QED BY <1>2, <1>3, <1>4, <1>5, TypeParts DEF IInv

\* A stop ends a transfer, or leaves it with its entry.
LEMMA AbortInv == IInv /\ Abort => IInv'
<1> SUFFICES ASSUME IInv, Abort PROVE IInv'
  OBVIOUS
<1>1. /\ TypeOK /\ SessionTypes /\ ItemTypes /\ SendTypes /\ OtherTypes /\ Books /\ FoldersOnce
      /\ ~Idle
  BY TypeParts DEF IInv, Abort, Runs
<1>2. SessionTypes' /\ OtherTypes' /\ creating' = creating /\ started' = started
  BY <1>1, PartsKept DEF Abort
<1>3. ItemTypes' /\ SendTypes' /\ Books' /\ FoldersOnce' /\ todo' \in Seq(Call)
  <2>0. PICK f \in File :
       /\ Visits(f)
       /\ \/ /\ status[f] = "loaded" /\ todo' = Others(f)
             /\ UNCHANGED <<status, processing, transfer, xhr, aborted>>
          \/ /\ status[f] # "loaded"
             /\ aborted' = [aborted EXCEPT ![f] = @ \/ xhr[f] # NoHandle]
             /\ \/ /\ Handled(f) = {} /\ SetStatus({f}, "error") /\ todo' = Others(f)
                   /\ UNCHANGED <<processing, transfer, xhr>>
                \/ \E t \in Handled(f) :
                   \/ /\ f \in Big /\ Moved(t, "aborting")
                      /\ SetStatus({f}, "error") /\ todo' = Others(f)
                      /\ UNCHANGED <<processing, xhr>>
                   \/ /\ f \notin Big /\ Complete(t, "error")
                      /\ todo' = Push(CallNext, Others(f))
    BY DEF Abort
  <2> DEFINE flag == aborted[f] \/ xhr[f] # NoHandle
  <2>1. Others(f) \in Seq(Call) /\ Push(CallNext, Others(f)) \in Seq(Call)
    BY <1>1, RestTypes, PushTypes, CallTypes DEF CallNext
  <2>2. CASE status[f] = "loaded" /\ todo' = Others(f) /\ UNCHANGED <<status, processing, transfer, xhr, aborted>>
    <3>1. ItemTypes' /\ SendTypes' /\ Books' BY <1>1, <1>2, <2>2, PartsKept DEF sendVars
    <3>2. FoldersOnce' BY <1>1, <1>2, <2>2, FoldersKept
    <3> QED BY <3>1, <3>2, <2>1, <2>2
  <2>3. CASE aborted' = [aborted EXCEPT ![f] = flag]
    <3>1. flag \in BOOLEAN BY <1>1 DEF SendTypes
    <3> HIDE DEF flag
    <3>2. aborted' \in [File -> BOOLEAN] BY <1>1, <2>3, <3>1 DEF SendTypes
    <3>3. CASE SetStatus({f}, "error") /\ todo' = Others(f) /\ UNCHANGED <<processing, transfer, xhr>>
      <4>1. ItemTypes' /\ \A d \in Folder : status'[d] = status[d]
        BY <1>1, <1>2, <3>3, FilesGetStatus DEF Statuses
      <4>2. FoldersOnce' BY <1>1, <1>2, <3>3, <4>1, FoldersKept
      <4>3. SendTypes' BY <1>1, <1>2, <3>2, <3>3 DEF SendTypes
      <4> QED BY <1>1, <2>1, <3>3, <4>1, <4>2, <4>3, PartsKept
    <3>4. CASE \E t \in Handled(f) : /\ Moved(t, "aborting") /\ SetStatus({f}, "error") /\ todo' = Others(f)
                                     /\ UNCHANGED <<processing, xhr>>
      <4>1. PICK t \in transfer : transfer' = (transfer \ {t}) \cup {[t EXCEPT !.st = "aborting"]}
        BY <3>4 DEF Handled, Moved
      <4>2. [t EXCEPT !.st = "aborting"] \in Transfer /\ [t EXCEPT !.st = "aborting"].f = t.f
            /\ [t EXCEPT !.st = "aborting"].n = t.n
        BY <1>1, <4>1 DEF SendTypes, Transfer
      <4>3. SendTypes' /\ Books'
        BY <1>1, <1>2, <3>2, <3>4, <4>1, <4>2, SendsReplaced, BooksReplaced DEF SendTypes
      <4>4. ItemTypes' /\ \A d \in Folder : status'[d] = status[d]
        BY <1>1, <1>2, <3>4, FilesGetStatus DEF Statuses
      <4>5. FoldersOnce' BY <1>1, <1>2, <3>4, <4>4, FoldersKept
      <4> QED BY <2>1, <3>4, <4>3, <4>4, <4>5
    <3>5. CASE \E t \in Handled(f) : Complete(t, "error") /\ todo' = Push(CallNext, Others(f))
      <4>1. PICK t \in transfer : Complete(t, "error") BY <3>5 DEF Handled
      <4>2. ItemTypes' /\ SendTypes' /\ Books' /\ FoldersOnce' BY <1>1, <1>2, <3>2, <4>1, CompleteKeeps
      <4> QED BY <2>1, <3>5, <4>2
    <3> QED BY <2>0, <2>2, <3>3, <3>4, <3>5
  <2> QED BY <2>0, <2>2, <2>3
<1> QED BY <1>2, <1>3, TypeParts DEF IInv

\* Handlers that make calls or look at the tree, and leave items and transfers.
LEMMA TreeInv == IInv /\ (RemoveChild \/ Detach \/ ClearStatus \/ ClearedAll) => IInv'
<1> SUFFICES ASSUME IInv, RemoveChild \/ Detach \/ ClearStatus \/ ClearedAll PROVE IInv'
  OBVIOUS
<1>1. /\ TypeOK /\ SessionTypes /\ ItemTypes /\ SendTypes /\ OtherTypes /\ Books /\ FoldersOnce
      /\ ~Idle
  BY TypeParts DEF IInv, RemoveChild, Detach, ClearStatus, ClearedAll, Runs
<1>2. ItemTypes' /\ SendTypes' /\ Books' /\ FoldersOnce'
  BY <1>1, PartsKept, FoldersKept DEF RemoveChild, Detach, ClearStatus, ClearedAll, sendVars
<1>3. OtherTypes' BY <1>1 DEF RemoveChild, Detach, ClearStatus, ClearedAll, OtherTypes
<1>4. SessionTypes' BY <1>1 DEF RemoveChild, Detach, ClearStatus, ClearedAll, SessionTypes, sessionVars
<1>5. todo' \in Seq(Call)
  <2>1. CASE RemoveChild
    <3>1. CASE todo' = Rest BY <1>1, <3>1, RestTypes
    <3>2. ASSUME NEW i \in Head(todo).of,
                 todo' = Push(To("abort", Below(i) \cap File \cap tree), Push(To("detach", {i}), Others(i)))
          PROVE  todo' \in Seq(Call)
      <4>1. i \in Item \cup Session /\ Below(i) \cap File \cap tree \subseteq Item \cup Session
        BY <1>1, <3>2, RestTypes DEF Item
      <4>2. To("detach", {i}) \in Call /\ To("abort", Below(i) \cap File \cap tree) \in Call
        BY <4>1, CallTypes DEF Loops
      <4> QED BY <1>1, <3>2, <4>2, RestTypes, PushTypes
    <3> QED BY <2>1, <3>1, <3>2 DEF RemoveChild
  <2>2. CASE ClearStatus
    <3>1. CASE todo' = Rest BY <1>1, <3>1, RestTypes
    <3>2. ASSUME NEW f \in Head(todo).of, todo' = Push(To("remove", {f}), Others(f))
          PROVE  todo' \in Seq(Call)
      <4>1. To("remove", {f}) \in Call BY <1>1, <3>2, RestTypes, CallTypes DEF Loops
      <4> QED BY <1>1, <3>2, <4>1, RestTypes, PushTypes
    <3> QED BY <2>2, <3>1, <3>2 DEF ClearStatus
  <2>3. CASE Detach \/ ClearedAll BY <1>1, <2>3, RestTypes DEF Detach, ClearedAll
  <2> QED BY <2>1, <2>2, <2>3
<1> QED BY <1>2, <1>3, <1>4, <1>5, TypeParts DEF IInv

----------------------------------------------------------------------------
(***************************************************************************)
(* The user, the server and timers.                                        *)
(***************************************************************************)

\* What a handler that begins has to do.
LEMMA Begins ==
  ASSUME todo = <<>>, NEW a \in Call, NEW b \in Call, NEW c \in Call
  PROVE  /\ <<>> \in Seq(Call) /\ <<a>> \in Seq(Call) /\ <<a, b>> \in Seq(Call)
         /\ Push(a, <<>>) \in Seq(Call) /\ Push(a, <<b, c>>) \in Seq(Call)
         /\ Push(a, Push(b, <<c>>)) \in Seq(Call)
<1>1. <<>> \in Seq(Call) /\ <<a>> \in Seq(Call) /\ <<a, b>> \in Seq(Call) /\ <<c>> \in Seq(Call) /\ <<b, c>> \in Seq(Call)
  OBVIOUS
<1> QED BY <1>1, PushTypes

\* Actions of the user that change neither items nor transfers.
LEMMA UserCallsInv ==
  ASSUME IInv,
         \/ \E s \in Session : Drop(s)
         \/ \E p \in Policies : DialogSubmit(p)
         \/ DialogCancel \/ Resume
         \/ \E f \in File : StopItem(f)
         \/ \E i \in Item : RemoveItem(i)
         \/ \E st \in {"all", "loaded", "error"} : Clear(st)
  PROVE  IInv'
<1>1. /\ TypeOK /\ SessionTypes /\ ItemTypes /\ SendTypes /\ OtherTypes /\ Books /\ FoldersOnce
      /\ todo \in Seq(Call)
  BY TypeParts DEF IInv
<1>2. \A S \in SUBSET (Item \cup Session) :
        /\ To("prepared", S) \in Call /\ To("ready", S) \in Call /\ To("remove", S) \in Call
        /\ To("abort", S) \in Call /\ To("new", S) \in Call /\ To("loaded", S) \in Call
        /\ To("error", S) \in Call /\ To("resume", S) \in Call /\ To("cleared", S) \in Call
        /\ CallNext \in Call
  BY CallTypes DEF Loops, Clearable, CallNext
<1>3. ASSUME NEW s \in Session, Drop(s) PROVE IInv'
  <2>1. ItemTypes' /\ SendTypes' /\ OtherTypes' /\ Books' /\ FoldersOnce'
    BY <1>1, <1>3, PartsKept, FoldersKept DEF Drop, sendVars
  <2>2. SessionTypes'
    <3>1. Policy \in Policies BY UploaderAssumption
    <3> QED BY <1>1, <1>3, <3>1 DEF Drop, SessionTypes
  <2>3. todo' \in Seq(Call) BY <1>2, <1>3, Begins DEF Drop, Idle
  <2> QED BY <2>1, <2>2, <2>3, TypeParts DEF IInv
<1>4. ASSUME NEW p \in Policies, DialogSubmit(p) PROVE IInv'
  <2>1. ItemTypes' /\ SendTypes' /\ OtherTypes' /\ Books' /\ FoldersOnce'
    BY <1>1, <1>4, PartsKept, FoldersKept DEF DialogSubmit, sendVars
  <2>2. SessionTypes' BY <1>1, <1>4 DEF DialogSubmit, SessionTypes
  <2>3. Confirming \subseteq Item \cup Session BY <1>1 DEF Confirming, SessionTypes
  <2>4. todo' \in Seq(Call) BY <1>1, <1>2, <1>4, <2>3, Begins DEF DialogSubmit, Idle
  <2> QED BY <2>1, <2>2, <2>4, TypeParts DEF IInv
<1>5. CASE DialogCancel
  <2>1. ItemTypes' /\ SendTypes' /\ OtherTypes' /\ Books' /\ FoldersOnce' /\ todo' = todo
    BY <1>1, <1>5, PartsKept, FoldersKept DEF DialogCancel, sendVars
  <2>2. SessionTypes' BY <1>1, <1>5 DEF DialogCancel, SessionTypes
  <2> QED BY <1>1, <2>1, <2>2, TypeParts DEF IInv
<1>6. CASE Resume
  <2>1. SessionTypes' /\ ItemTypes' /\ SendTypes' /\ Books' /\ FoldersOnce'
    BY <1>1, <1>6, PartsKept, FoldersKept DEF Resume, sendVars
  <2>2. OtherTypes' BY <1>1, <1>6 DEF Resume, OtherTypes
  <2>3. sessions \subseteq Item \cup Session BY <1>1 DEF SessionTypes
  <2>4. todo' \in Seq(Call) BY <1>2, <1>6, <2>3, Begins DEF Resume, Idle
  <2> QED BY <2>1, <2>2, <2>4, TypeParts DEF IInv
<1>7. ASSUME NEW calls \in Seq(Call), Begin(calls), UNCHANGED <<status, faults>> PROVE IInv'
  <2>1. SessionTypes' /\ ItemTypes' /\ SendTypes' /\ OtherTypes' /\ Books' /\ FoldersOnce'
    BY <1>1, <1>7, PartsKept, FoldersKept DEF Begin, sendVars
  <2>2. todo' \in Seq(Call) BY <1>7 DEF Begin
  <2> QED BY <2>1, <2>2, TypeParts DEF IInv
<1>8. ASSUME NEW f \in File, StopItem(f) PROVE IInv'
  <2>1. <<To("abort", {f})>> \in Seq(Call) BY <1>2, <1>8 DEF Item
  <2> QED BY <1>7, <1>8, <2>1 DEF StopItem
<1>9. ASSUME NEW i \in Item, RemoveItem(i) PROVE IInv'
  <2>1. <<To("remove", {i})>> \in Seq(Call) BY <1>2, <1>9
  <2> QED BY <1>7, <1>9, <2>1 DEF RemoveItem
<1>10. ASSUME NEW st \in {"all", "loaded", "error"}, Clear(st) PROVE IInv'
  <2> DEFINE files == {f \in File : Shown(f)}
             items == {i \in Item : Shown(i)}
  <2>1. files \in SUBSET (Item \cup Session) /\ items \in SUBSET (Item \cup Session) /\ {} \in SUBSET (Item \cup Session)
    BY DEF Item
  <2>2. PICK calls : /\ Begin(calls) /\ UNCHANGED <<status, faults>>
                     /\ \/ calls = Push(To("new", files), Push(To("remove", items), <<To("cleared", {})>>))
                        \/ calls = Push(To("loaded", files), <<>>)
                        \/ calls = Push(To("error", files), <<>>)
    BY <1>10 DEF Clear
  <2> HIDE DEF files, items
  <2>3. /\ To("new", files) \in Call /\ To("loaded", files) \in Call /\ To("error", files) \in Call
        /\ To("remove", items) \in Call /\ To("cleared", {}) \in Call
    BY <1>2, <2>1
  <2>4. /\ <<>> \in Seq(Call) /\ <<To("cleared", {})>> \in Seq(Call)
    BY <2>3
  <2>5. Push(To("remove", items), <<To("cleared", {})>>) \in Seq(Call) BY <2>3, <2>4, PushTypes
  <2>6. calls \in Seq(Call) BY <2>2, <2>3, <2>4, <2>5, PushTypes
  <2> QED BY <1>7, <2>2, <2>6
<1> QED BY <1>3, <1>4, <1>5, <1>6, <1>8, <1>9, <1>10

\* Pause and a retry give files another status, which no folder gets.
LEMMA FilesStatusInv == IInv /\ (Pause \/ \E f \in File : RetryItem(f)) => IInv'
<1> SUFFICES ASSUME IInv, Pause \/ \E f \in File : RetryItem(f) PROVE IInv'
  OBVIOUS
<1>1. /\ TypeOK /\ SessionTypes /\ ItemTypes /\ SendTypes /\ OtherTypes /\ Books /\ FoldersOnce
      /\ todo \in Seq(Call)
  BY TypeParts DEF IInv
<1>2. CASE Pause
  <2>1. SessionTypes' /\ SendTypes' /\ Books' BY <1>1, <1>2, PartsKept DEF Pause, sendVars
  <2> DEFINE stat(i) == IF i \in Held THEN PausedStatus(i) ELSE status[i]
             now(f) == IF f \in Held /\ xhr[f] # NoHandle /\ part[f] = "loading" THEN "cannot" ELSE part[f]
  <2>2. status' = [i \in Item |-> stat(i)] /\ part' = [f \in File |-> now(f)] BY <1>2 DEF Pause
  <2>3. \A i \in Item : stat(i) \in Statuses
    <3>1. \A i \in Item : PausedStatus(i) \in Statuses BY DEF PausedStatus, Statuses
    <3> QED BY <1>1, <3>1 DEF ItemTypes
  <2>4. \A d \in Folder : d \in Item /\ stat(d) = status[d] BY UploaderAssumption DEF Held, Item
  <2>5. \A f \in File : now(f) \in {"none", "loading", "cannot"} BY <1>1 DEF OtherTypes
  <2> HIDE DEF stat, now
  <2>6. /\ status' \in [Item -> Statuses] /\ \A d \in Folder : status'[d] = status[d]
        /\ part' \in [File -> {"none", "loading", "cannot"}]
    BY <2>2, <2>3, <2>4, <2>5
  <2>7. ItemTypes' /\ FoldersOnce' BY <1>1, <1>2, <2>6, FoldersKept DEF Pause, ItemTypes
  <2>8. OtherTypes' /\ todo' \in Seq(Call) BY <1>1, <1>2, <2>6 DEF Pause, OtherTypes
  <2> QED BY <2>1, <2>7, <2>8, TypeParts DEF IInv
<1>3. ASSUME NEW f \in File, RetryItem(f) PROVE IInv'
  <2>1. SessionTypes' /\ SendTypes' /\ OtherTypes' /\ Books'
    BY <1>1, <1>3, PartsKept DEF RetryItem, Begin, sendVars
  <2>2. ItemTypes' /\ \A d \in Folder : status'[d] = status[d]
    BY <1>1, <1>3, FilesGetStatus DEF RetryItem, Begin, Statuses
  <2>3. FoldersOnce' BY <1>1, <1>3, <2>2, FoldersKept DEF RetryItem, Begin
  <2>4. CallNext \in Call BY CallTypes DEF CallNext
  <2>5. todo' \in Seq(Call) BY <1>3, <2>4 DEF RetryItem, Begin
  <2> QED BY <2>1, <2>2, <2>3, <2>5, TypeParts DEF IInv
<1> QED BY <1>2, <1>3

\* The answers to a preparation: the folders they give a status are not new.
LEMMA PreparationInv ==
  ASSUME IInv, NEW s \in Session, StatNodes(s) \/ Renamed(s) \/ StatFails(s)
  PROVE  IInv'
<1>1. /\ TypeOK /\ SessionTypes /\ ItemTypes /\ SendTypes /\ OtherTypes /\ Books /\ FoldersOnce
      /\ todo \in Seq(Call)
  BY TypeParts DEF IInv
<1>2. SessionTypes' BY <1>1 DEF StatNodes, Renamed, StatFails, SessionTypes
<1>3. SendTypes' /\ Books' /\ UNCHANGED <<processing, creating>>
  BY <1>1, PartsKept DEF StatNodes, Renamed, StatFails, sendVars
<1>4. OtherTypes' BY <1>1, UploaderAssumption DEF StatNodes, Renamed, StatFails, Fault, OtherTypes
<1>5. <<To("prepared", {s})>> \in Seq(Call)
  <2>1. To("prepared", {s}) \in Call BY CallTypes DEF Loops
  <2> QED BY <2>1
<1>6. todo' \in Seq(Call)
  <2>1. todo' = todo \/ todo' = <<To("prepared", {s})>> BY DEF StatNodes, Renamed, StatFails
  <2> QED BY <1>1, <1>5, <2>1
<1>7. ItemTypes' /\ FoldersOnce'
  <2>1. CASE UNCHANGED status BY <1>1, <1>3, <2>1, PartsKept, FoldersKept
  <2>2. ASSUME NEW I, I \subseteq Folder, SetStatus(I, "loaded") PROVE ItemTypes' /\ FoldersOnce'
    <3> DEFINE stat(i) == IF i \in I THEN "loaded" ELSE status[i]
    <3>1. status' = [i \in Item |-> stat(i)] BY <2>2 DEF SetStatus
    <3>2. \A i \in Item : stat(i) \in Statuses BY <1>1 DEF ItemTypes, Statuses
    <3>3. \A d \in Folder : d \in Item /\ (stat(d) = "loaded" \/ stat(d) = status[d]) BY DEF Item
    <3> HIDE DEF stat
    <3>4. status' \in [Item -> Statuses] /\ \A d \in Folder : status'[d] = "loaded" \/ status'[d] = status[d]
      BY <3>1, <3>2, <3>3
    <3>5. ItemTypes' BY <1>1, <1>3, <3>4 DEF ItemTypes
    <3>6. FoldersOnce' BY <1>1, <1>3, <3>4, FoldersKept
    <3> QED BY <3>5, <3>6
  <2>3. \/ UNCHANGED status
        \/ \E I \in SUBSET Folder : SetStatus(I, "loaded")
    BY DEF StatNodes, Renamed, StatFails
  <2> QED BY <2>1, <2>2, <2>3
<1> QED BY <1>2, <1>3, <1>4, <1>6, <1>7, TypeParts DEF IInv

\* Folders that are created leave _processing; those of other requests do not.
LEMMA FoldersInv ==
  ASSUME IInv, NEW ds \in creating, FoldersCreated(ds) \/ FoldersFail(ds)
  PROVE  IInv'
<1>1. /\ TypeOK /\ SessionTypes /\ ItemTypes /\ SendTypes /\ OtherTypes /\ Books /\ FoldersOnce
  BY TypeParts DEF IInv
<1>2. SessionTypes' /\ SendTypes' BY <1>1, PartsKept DEF FoldersCreated, FoldersFail, sendVars
<1>3. OtherTypes' BY <1>1, UploaderAssumption DEF FoldersCreated, FoldersFail, Fault, OtherTypes
<1>4. CallNext \in Call BY CallTypes DEF CallNext
<1>5. todo' \in Seq(Call)
  <2>1. todo' = <<CallNext>> BY DEF FoldersCreated, FoldersFail
  <2> QED BY <1>4, <2>1
<1>6. /\ creating' = creating \ {ds} /\ ds \subseteq Folder
      /\ \A g \in creating' : g \cap ds = {}
  BY <1>1 DEF FoldersCreated, FoldersFail, ItemTypes, FoldersOnce
<1>7. CASE FoldersFail(ds)
  <2>1. ItemTypes' /\ FoldersOnce' BY <1>1, <1>6, <1>7 DEF FoldersFail, ItemTypes, FoldersOnce
  <2>2. Books' BY <1>1, <1>7, PartsKept DEF FoldersFail, sendVars
  <2> QED BY <1>2, <1>3, <1>5, <2>1, <2>2, TypeParts DEF IInv
<1>8. CASE FoldersCreated(ds)
  <2> DEFINE stat(i) == IF i \in ds THEN "loaded" ELSE status[i]
             less(i) == IF i \in ds /\ processing[i] > 0 THEN processing[i] - 1 ELSE processing[i]
  <2>1. status' = [i \in Item |-> stat(i)] /\ processing' = [i \in Item |-> less(i)]
    BY <1>8 DEF FoldersCreated, SetStatus, Unmonitor
  <2>2. /\ \A i \in Item : stat(i) \in Statuses /\ less(i) \in Nat
        /\ \A i \in Item : i \notin ds => stat(i) = status[i] /\ less(i) = processing[i]
        /\ \A i \in Item : i \in ds => stat(i) = "loaded" /\ less(i) <= processing[i]
    BY <1>1 DEF ItemTypes, Statuses
  <2> HIDE DEF stat, less
  <2>3. /\ status' \in [Item -> Statuses] /\ processing' \in [Item -> Nat]
        /\ \A i \in Item : i \notin ds => status'[i] = status[i] /\ processing'[i] = processing[i]
        /\ \A i \in Item : i \in ds => status'[i] = "loaded" /\ processing'[i] <= processing[i]
    <3>1. \A i \in Item : status'[i] = stat(i) /\ processing'[i] = less(i) BY <2>1
    <3>2. status' \in [Item -> Statuses] /\ processing' \in [Item -> Nat]
      <4>1. \A i \in Item : stat(i) \in Statuses /\ less(i) \in Nat BY <2>2
      <4> QED BY <2>1, <4>1
    <3>3. \A i \in Item : i \notin ds => status'[i] = status[i] /\ processing'[i] = processing[i]
      BY <2>2, <3>1
    <3>4. \A i \in Item : i \in ds => status'[i] = "loaded" /\ processing'[i] <= processing[i]
      BY <2>2, <3>1
    <3> QED BY <3>2, <3>3, <3>4
  <2>4. ItemTypes' BY <1>1, <1>6, <2>3 DEF ItemTypes, Item
  <2>5. FoldersOnce' BY <1>1, <1>6, <2>3 DEF FoldersOnce, Item
  <2>6. \A f \in File : f \in Item /\ f \notin ds BY <1>6, UploaderAssumption DEF Item
  <2>7. Books' BY <1>1, <1>8, <2>3, <2>6 DEF Books, Distinct, CountsTransfers, Transfers, FoldersCreated, sendVars
  <2> QED BY <1>2, <1>3, <1>5, <2>4, <2>5, <2>7, TypeParts DEF IInv
<1> QED BY <1>7, <1>8

\* Each answer to a transfer ends it, or makes its next attempt wait.
LEMMA TransferInv ==
  ASSUME IInv, NEW t \in transfer, Sent(t) \/ TransferDone(t) \/ TransferFails(t)
  PROVE  IInv'
<1>1. /\ TypeOK /\ SessionTypes /\ ItemTypes /\ SendTypes /\ OtherTypes /\ Books /\ FoldersOnce
      /\ todo \in Seq(Call)
  BY TypeParts DEF IInv
<1>2. /\ SessionTypes' /\ UNCHANGED <<creating, started, aborted, paused, part>>
  BY <1>1, PartsKept DEF Sent, TransferDone, TransferFails, Retry, Completes
<1>3. OtherTypes'
  <2>1. faults' = faults \/ Fault BY DEF Sent, TransferDone, TransferFails
  <2>2. faults' \in 0..MaxFaults BY <1>1, <2>1, UploaderAssumption DEF Fault, OtherTypes
  <2> QED BY <1>1, <1>2, <2>2 DEF OtherTypes
<1>4. CallNext \in Call BY CallTypes DEF CallNext
<1>5. t \in Transfer /\ aborted' \in [File -> BOOLEAN] BY <1>1, <1>2 DEF SendTypes
<1>6. ASSUME NEW st \in {"loaded", "error"}, Completes(t, st) PROVE IInv'
  <2>1. ItemTypes' /\ SendTypes' /\ Books' /\ FoldersOnce'
    BY <1>1, <1>2, <1>5, <1>6, CompleteKeeps DEF Completes
  <2>2. todo' \in Seq(Call) BY <1>4, <1>6 DEF Completes
  <2> QED BY <1>2, <1>3, <2>1, <2>2, TypeParts DEF IInv
<1>7. ASSUME NEW u \in Transfer, u.f = t.f, u.n = t.n, transfer' = (transfer \ {t}) \cup {u},
             xhr' \in [File -> Nat \X Nat], UNCHANGED <<status, processing, todo>>
      PROVE  IInv'
  <2>1. SendTypes' BY <1>1, <1>2, <1>5, <1>7, SendsReplaced
  <2>2. Books' BY <1>1, <1>7, BooksReplaced
  <2>3. ItemTypes' /\ FoldersOnce' BY <1>1, <1>2, <1>7, PartsKept, FoldersKept
  <2> QED BY <1>1, <1>2, <1>3, <1>7, <2>1, <2>2, <2>3, TypeParts DEF IInv
<1>8. CASE Sent(t)
  <2>1. [t EXCEPT !.st = "sent"] \in Transfer /\ [t EXCEPT !.st = "sent"].f = t.f
        /\ [t EXCEPT !.st = "sent"].n = t.n
    BY <1>5 DEF Transfer
  <2>2. t.f \in File /\ <<t.n, t.try>> \in Nat \X Nat BY <1>5, UploaderAssumption DEF Transfer
  <2>3. xhr' = [xhr EXCEPT ![t.f] = <<t.n, t.try>>] BY <1>8 DEF Sent
  <2>4. xhr' \in [File -> Nat \X Nat] BY <1>1, <2>2, <2>3 DEF SendTypes
  <2> QED BY <1>7, <1>8, <2>1, <2>4 DEF Sent, Moved
<1>9. CASE TransferDone(t) BY <1>6, <1>9 DEF TransferDone
<1>10. ASSUME NEW final \in BOOLEAN, Retry(t, final) PROVE IInv'
  <2>1. CASE Completes(t, "error") BY <1>6, <2>1
  <2>2. CASE /\ MayRetry(t, final) /\ Release(t)
             /\ transfer' = (transfer \ {t}) \cup {[t EXCEPT !.try = @ + 1, !.st = "wait"]}
             /\ UNCHANGED <<status, processing, todo>>
    <3>1. t.try + 1 \in 1..MaxRetries BY <1>5, <2>2, UploaderAssumption DEF Transfer, MayRetry
    <3> DEFINE u == [t EXCEPT !.try = @ + 1, !.st = "wait"]
    <3>2. u \in Transfer /\ u.f = t.f /\ u.n = t.n BY <1>5, <3>1 DEF Transfer
    <3>3. xhr' \in [File -> Nat \X Nat] BY <1>1, <2>2, Released
    <3>4. transfer' = (transfer \ {t}) \cup {u} BY <2>2
    <3> HIDE DEF u
    <3> QED BY <1>7, <2>2, <3>2, <3>3, <3>4
  <2> QED BY <1>10, <2>1, <2>2 DEF Retry
<1>11. CASE TransferFails(t)
  <2>1. PICK final \in BOOLEAN : Retry(t, final) BY <1>11 DEF TransferFails
  <2> QED BY <1>10, <2>1
<1> QED BY <1>8, <1>9, <1>11

\* Progress of a transfer may pause its file.
LEMMA ProgressInv ==
  ASSUME IInv, NEW t \in transfer, PartProgress(t)
  PROVE  IInv'
<1>1. /\ TypeOK /\ SessionTypes /\ ItemTypes /\ SendTypes /\ OtherTypes /\ Books /\ FoldersOnce
      /\ todo \in Seq(Call)
  BY TypeParts DEF IInv
<1>2. SessionTypes' /\ SendTypes' /\ Books' /\ UNCHANGED <<processing, creating, todo>>
  BY <1>1, PartsKept DEF PartProgress, sendVars
<1>3. t.f \in File BY <1>1 DEF SendTypes, Transfer
<1>4. OtherTypes' BY <1>1, <1>3 DEF PartProgress, OtherTypes
<1>5. ItemTypes' /\ \A d \in Folder : status'[d] = status[d]
  <2>1. CASE UNCHANGED status BY <1>1, <1>2, <2>1, PartsKept
  <2>2. CASE SetStatus({t.f}, "pause") BY <1>1, <1>2, <1>3, <2>2, FilesGetStatus DEF Statuses
  <2> QED BY <2>1, <2>2 DEF PartProgress
<1>6. FoldersOnce' BY <1>1, <1>2, <1>5, FoldersKept
<1> QED BY <1>1, <1>2, <1>4, <1>5, <1>6, TypeParts DEF IInv

----------------------------------------------------------------------------
(***************************************************************************)
(* Theorems.                                                               *)
(***************************************************************************)

\* Nothing is sent at the beginning.
LEMMA InitInv == Init => IInv
<1> SUFFICES ASSUME Init PROVE IInv
  OBVIOUS
<1>1. SessionTypes /\ ItemTypes /\ SendTypes
  <2>1. SessionTypes BY DEF Init, SessionTypes
  <2>2. ItemTypes BY DEF Init, ItemTypes, Statuses, Item
  <2>3. NoHandle \in Nat \X Nat BY DEF NoHandle
  <2>4. SendTypes BY <2>3 DEF Init, SendTypes
  <2> QED BY <2>1, <2>2, <2>4
<1>2. OtherTypes
  <2>1. part \in [File -> {"none", "loading", "cannot"}] BY DEF Init
  <2>2. faults \in 0..MaxFaults BY UploaderAssumption DEF Init
  <2>3. paused \in BOOLEAN BY DEF Init
  <2> QED BY <2>1, <2>2, <2>3 DEF OtherTypes
<1>3. todo \in Seq(Call) BY DEF Init
<1>4. IsFiniteSet(transfer) /\ \A f \in File : Cardinality(Transfers(f)) = 0
  <2>1. transfer = {} /\ \A f \in File : Transfers(f) = {} BY DEF Init, Transfers
  <2> QED BY <2>1, FS_EmptySet
<1>5. \A f \in File : processing[f] = 0 BY DEF Init, Item
<1>6. Books BY <1>4, <1>5 DEF Init, Books, Distinct, CountsTransfers
<1>7. FoldersOnce BY DEF Init, FoldersOnce, Item
<1> QED BY <1>1, <1>2, <1>3, <1>6, <1>7, TypeParts DEF IInv

\* Every step keeps the invariant.
LEMMA StepInv == IInv /\ [Next]_vars => IInv'
<1> SUFFICES ASSUME IInv, [Next]_vars PROVE IInv'
  OBVIOUS
<1>1. CASE Run BY <1>1, ProcessNextInv, ProcessInv, SetReadyInv, ResumeHeldInv, AbortInv, TreeInv DEF Run
<1>2. CASE Users BY <1>2, UserCallsInv, FilesStatusInv DEF Users
<1>3. CASE Network BY <1>3, PreparationInv, FoldersInv, TransferInv DEF Network
<1>4. CASE Progress BY <1>4, ProgressInv DEF Progress
<1>5. CASE UNCHANGED vars
  <2>1. /\ SessionTypes /\ ItemTypes /\ SendTypes /\ OtherTypes /\ Books /\ FoldersOnce /\ todo \in Seq(Call)
    BY TypeParts DEF IInv
  <2>2. /\ SessionTypes' /\ ItemTypes' /\ SendTypes' /\ OtherTypes' /\ Books' /\ FoldersOnce' /\ todo' \in Seq(Call)
    BY <1>5, <2>1, PartsKept, FoldersKept DEF vars, sessionVars, sendVars
  <2> QED BY <2>2, TypeParts DEF IInv
<1> QED BY <1>1, <1>2, <1>3, <1>4, <1>5 DEF Next

\* The inductive invariant holds in every reachable state.
THEOREM Invariance == Spec => []IInv
BY InitInv, StepInv, PTL DEF Spec

\* The variables have their types, whatever files, folders and sessions there are.
THEOREM TypeCorrect == Spec => []TypeOK
<1>1. IInv => TypeOK BY DEF IInv
<1> QED BY <1>1, Invariance, PTL

\* Neither a stop, nor a retry, nor a removal, nor a file that completes inside
\* the loop that starts it loses or adds an entry of _processing.
THEOREM EntriesCounted == Spec => []CountsTransfers
<1>1. IInv => CountsTransfers BY DEF IInv, Books
<1> QED BY <1>1, Invariance, PTL
=============================================================================
