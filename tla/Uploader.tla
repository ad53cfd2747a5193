------------------------------ MODULE Uploader ------------------------------
(***************************************************************************)
(* The upload queue of the web client (uploader.html/res/js): sessions of  *)
(* dropped files, their analysis, and the Store that creates folders and   *)
(* sends a few files at a time.                                            *)
(*                                                                         *)
(* JavaScript runs each handler to its end, and a handler that completes   *)
(* an item calls processNext inside the loop that started it.  A handler   *)
(* leaves in "todo" the calls it still has to make, the next one first;    *)
(* nothing else happens until they are made.                               *)
(***************************************************************************)
EXTENDS Integers, Sequences, FiniteSets

CONSTANTS
  Session,     \* folders dropped by the user, each with its files
  File, Folder,
  Place,       \* sessions in the order of drops, items in the order of walk()
  SessionOf,   \* the session of an item
  Within,      \* Within[f]: the folder of a file, or its session
  Existing,    \* items whose path exists on the server
  Big,         \* files above the multipart threshold
  Refused,     \* files whose extension is not allowed
  Policy,      \* the option upload_existing
  Answers,     \* what the user may answer to the confirmation dialog
  AutoStart,   \* the option upload_auto_send
  Slots,       \* files sent at a time (the argument of getNexts)
  MaxRetries,  \* attempts of one transfer
  Pausable,    \* whether the user pauses the queue
  Abortable,   \* files whose transfer the user may stop
  Retriable,   \* files the user may send again after an error
  Removable,   \* items the user may remove
  Clears,      \* statuses the user may clear: "all", "loaded", "error"
  MaxProcess,  \* bound on the transfers of one file
  MaxFaults    \* bound on failed requests

Item == File \cup Folder
Policies == {"overwrite", "rename", "rename-folders", "alert"}

ASSUME UploaderAssumption ==
  /\ IsFiniteSet(File) /\ IsFiniteSet(Folder) /\ File \cap Folder = {}
  /\ Place \in [Item \cup Session -> Nat]
  /\ \A i, j \in Item : Place[i] = Place[j] => i = j
  /\ \A r, s \in Session : Place[r] = Place[s] => r = s
  /\ SessionOf \in [Item -> Session] /\ Within \in [File -> Folder \cup Session]
  /\ Slots \in Nat \ {0} /\ MaxRetries \in Nat \ {0} /\ MaxProcess \in Nat /\ MaxFaults \in Nat
  /\ Policy \in Policies /\ Answers \subseteq Policies /\ AutoStart \in BOOLEAN
  /\ Existing \cup Removable \subseteq Item /\ Pausable \in BOOLEAN
  /\ Big \cup Refused \cup Abortable \cup Retriable \subseteq File

VARIABLES
  sessions,   \* Store._sessions
  sess,       \* the status of each session, "none" before it is dropped
  prep,       \* the request of Session.prepare under way
  prepared,   \* history: sessions whose preparation has come to "ready"
  tree,       \* items that can be reached from their session
  status,     \* the status of each item
  processing, \* Store._processing: how many times an item is in it
  paused,     \* Store._pauseRequired
  creating,   \* createNodes requests under way: sets of folders
  transfer,   \* transfers under way, from process() to its completeCallback
  started,    \* how many transfers of each file were started
  xhr,        \* UploadItem.xhr: the attempt it handles, <<transfer, try>>, or Ended
  aborted,    \* UploadItem._userAborted
  part,       \* the part of a multipart file that is on its way
  faults,     \* bound: requests that failed so far
  todo        \* what the handler under way still has to do

sessionVars == <<sessions, sess, prep, prepared>>
sendVars == <<transfer, started, xhr, aborted>>
vars == <<sessionVars, tree, status, processing, paused, creating, sendVars, part, faults, todo>>

NoHandle == <<0, 0>>
Ended == <<0, 1>>

Init ==
  /\ sessions = {} /\ sess = [s \in Session |-> "none"] /\ prep = [s \in Session |-> "none"]
  /\ prepared = {} /\ tree = {} /\ status = [i \in Item |-> "new"]
  /\ processing = [i \in Item |-> 0] /\ paused = FALSE /\ creating = {} /\ transfer = {}
  /\ started = [f \in File |-> 0] /\ xhr = [f \in File |-> NoHandle]
  /\ aborted = [f \in File |-> FALSE] /\ part = [f \in File |-> "none"] /\ faults = 0
  /\ todo = <<>>

Shown(i) == i \in tree /\ SessionOf[i] \in sessions

----------------------------------------------------------------------------
(***************************************************************************)
(* Calls of handlers.                                                      *)
(***************************************************************************)

\* "of" is what a loop still has to visit.  "new", "loaded" and "error" are
\* loops of clearStatus.
Clearable == {"new", "loaded", "error"}
Loops == {"send", "ready", "prepared", "remove", "abort"} \cup Clearable
Call == [do : Loops \cup {"next", "resume", "detach", "cleared"},
         of : SUBSET (Item \cup Session)]

To(do, S) == [do |-> do, of |-> S]
CallNext == To("next", {})

\* A loop with nothing to visit is not worth a step.
Push(call, calls) == IF call.do \in Loops /\ call.of = {} THEN calls ELSE <<call>> \o calls

Idle == todo = <<>>
Runs(do) == ~Idle /\ Head(todo).do = do
Rest == Tail(todo)

First(x, S) == x \in S /\ \A y \in S : Place[x] <= Place[y]

\* x is the next one the loop visits; it goes on with those that follow.
Visits(x) == First(x, Head(todo).of)
Others(x) == Push(To(Head(todo).do, {y \in Head(todo).of : Place[x] < Place[y]}), Rest)

----------------------------------------------------------------------------
(***************************************************************************)
(* The store.                                                              *)
(***************************************************************************)

SetStatus(I, st) == status' = [i \in Item |-> IF i \in I THEN st ELSE status[i]]
Monitor(I) == processing' = [i \in Item |-> IF i \in I THEN processing[i] + 1 ELSE processing[i]]

\* Mutant: the entry is not removed.
UnmonitorNever(I) == processing' = processing

Unmonitor(I) ==
  processing' = [i \in Item |-> IF i \in I /\ processing[i] > 0 THEN processing[i] - 1 ELSE processing[i]]

\* _processing.length
Entries == UNION {{i} \X (1..processing[i]) : i \in Item}
Length == Cardinality(Entries)

\* Mutant: a folder that is being created is created again.
NewFoldersAgain(s) == {d \in Folder \cap tree : SessionOf[d] = s /\ status[d] \in {"new", "loading"}}

NewFolders(s) == {d \in Folder \cap tree : SessionOf[d] = s /\ status[d] = "new"}

Queued == {f \in File : Shown(f) /\ status[f] \in {"new", "pause"}}
QueuedBefore(f) == {g \in Queued : Place[g] < Place[f]}

\* Mutant: the files that are being sent do not count.
GetNextsAnyRoom == {f \in Queued : Cardinality(QueuedBefore(f)) < Slots}

\* getNexts: files to send, in the order of the sessions and of their walk.
GetNexts == {f \in Queued : Cardinality(QueuedBefore(f)) < Slots - Length}

\* getFolders gives each session of the store a new status.
ProcessNext ==
  /\ Runs("next")
  /\ sess' = [s \in Session |-> IF s \notin sessions THEN sess[s]
                                ELSE IF NewFolders(s) # {} THEN "folders" ELSE "loading"]
  /\ LET folders == UNION {NewFolders(s) : s \in sessions}
     IN \/ /\ paused /\ todo' = Rest
           /\ UNCHANGED <<status, processing, creating>>
        \/ /\ ~paused /\ folders # {} /\ todo' = Rest
           /\ SetStatus(folders, "loading") /\ Monitor(folders)
           /\ creating' = creating \cup {folders}
        \/ /\ ~paused /\ folders = {} /\ todo' = Push(To("send", GetNexts), Rest)
           /\ UNCHANGED <<status, processing, creating>>
  /\ UNCHANGED <<sessions, prep, prepared, tree, paused, sendVars, part, faults>>

\* monitorProcessing and process.  A refused file completes at once; else the
\* first attempt is scheduled by retry(0)().
Process ==
  /\ Runs("send")
  /\ \E f \in File :
       /\ Visits(f)
       /\ aborted' = [aborted EXCEPT ![f] = FALSE]
       /\ \/ /\ f \in Refused /\ SetStatus({f}, "error")
             /\ todo' = Push(CallNext, Others(f))
             /\ UNCHANGED <<processing, transfer, started>>
          \/ /\ f \notin Refused /\ SetStatus({f}, "loading") /\ Monitor({f})
             /\ started' = [started EXCEPT ![f] = @ + 1]
             /\ transfer' = transfer \cup {[f |-> f, n |-> started[f] + 1, try |-> 1, st |-> "wait"]}
             /\ todo' = Others(f)
  /\ UNCHANGED <<sessionVars, tree, paused, creating, xhr, part, faults>>

\* A session becomes ready: the observer of pushSession may start the queue.
SetReady ==
  /\ Runs("ready") \/ Runs("prepared")
  /\ \E s \in Session :
       /\ Visits(s)
       /\ sess' = [sess EXCEPT ![s] = "ready"]
       /\ prepared' = IF Runs("prepared") THEN prepared \cup {s} ELSE prepared
       /\ todo' = IF AutoStart /\ Length = 0 /\ ~paused THEN Push(CallNext, Others(s)) ELSE Others(s)
  /\ UNCHANGED <<sessions, prep, tree, status, processing, paused, creating, sendVars, part, faults>>

Held == {f \in File : processing[f] > 0}

\* What resume does with the items of _processing.
ResumeHeld ==
  /\ Runs("resume") /\ SetStatus(Held, "loading") /\ todo' = Rest
  /\ UNCHANGED <<sessionVars, tree, processing, paused, creating, sendVars, part, faults>>

Moved(t, st) == transfer' = (transfer \ {t}) \cup {[t EXCEPT !.st = st]}

Release(t) == xhr' = [xhr EXCEPT ![t.f] = IF @ = <<t.n, t.try>> THEN Ended ELSE @]

\* The end of a transfer: completeCallback of processNext.
Complete(t, st) ==
  /\ transfer' = transfer \ {t} /\ Release(t)
  /\ SetStatus({t.f}, st) /\ Unmonitor({t.f})

\* The attempt that xhr.abort() stops.
Handled(f) == {t \in transfer : t.f = f /\ t.st = "sent" /\ xhr[f] = <<t.n, t.try>>}

\* UploadItem._doAbort.  An XMLHttpRequest fails at once, and its transfer is not
\* tried again; a multipart upload first obtains a fresh token; nothing happens
\* to an attempt that has ended.
Abort ==
  /\ Runs("abort")
  /\ \E f \in File :
       /\ Visits(f)
       /\ \/ /\ status[f] = "loaded" /\ todo' = Others(f)
             /\ UNCHANGED <<status, processing, transfer, xhr, aborted>>
          \/ /\ status[f] # "loaded"
             /\ aborted' = [aborted EXCEPT ![f] = @ \/ xhr[f] # NoHandle]
             /\ \/ /\ Handled(f) = {} /\ SetStatus({f}, "error") /\ todo' = Others(f)
                   /\ UNCHANGED <<processing, transfer, xhr>>
                \/ \E t \in Handled(f) :
                   \/ /\ f \in Big /\ Moved(t, "aborting")
                      /\ SetStatus({f}, "error") /\ todo' = Others(f)
                      /\ UNCHANGED <<processing, xhr>>
                   \/ /\ f \notin Big /\ Complete(t, "error")
                      /\ todo' = Push(CallNext, Others(f))
  /\ UNCHANGED <<sessionVars, tree, paused, creating, started, part, faults>>

Below(i) == {i} \cup {f \in File : Within[f] = i}

\* removeChild of the parent of each item: its files are aborted, then it goes.
RemoveChild ==
  /\ Runs("remove")
  /\ LET there == Head(todo).of \cap tree
     IN \/ there = {} /\ todo' = Rest
        \/ \E i \in there :
             /\ First(i, there)
             /\ todo' = Push(To("abort", Below(i) \cap File \cap tree), Push(To("detach", {i}), Others(i)))
  /\ UNCHANGED <<sessionVars, tree, status, processing, paused, creating, sendVars, part, faults>>

\* A session without children is removed.
Detach ==
  /\ Runs("detach") /\ todo' = Rest
  /\ \E i \in Item :
       LET s == SessionOf[i]
           left == {c \in tree \ Below(i) : SessionOf[c] = s /\ (c \in Folder \/ Within[c] = s)}
       IN /\ i \in Head(todo).of
          /\ tree' = tree \ Below(i)
          /\ sessions' = IF left = {} THEN sessions \ {s} ELSE sessions
  /\ UNCHANGED <<sess, prep, prepared, status, processing, paused, creating, sendVars, part, faults>>

\* clearStatus looks at the status of a file when the walk comes to it.
ClearStatus ==
  /\ \E st \in Clearable : Runs(st)
  /\ LET found == {f \in Head(todo).of \cap File : status[f] = Head(todo).do}
     IN \/ found = {} /\ todo' = Rest
        \/ \E f \in found : First(f, found) /\ todo' = Push(To("remove", {f}), Others(f))
  /\ UNCHANGED <<sessionVars, tree, status, processing, paused, creating, sendVars, part, faults>>

\* The end of clearAll.
ClearedAll ==
  /\ Runs("cleared") /\ todo' = Rest
  /\ sessions' = {} /\ paused' = FALSE
  /\ UNCHANGED <<sess, prep, prepared, tree, status, processing, creating, sendVars, part, faults>>

Run ==
  \/ ProcessNext \/ Process \/ SetReady \/ ResumeHeld \/ Abort
  \/ RemoveChild \/ Detach \/ ClearStatus \/ ClearedAll

----------------------------------------------------------------------------
(***************************************************************************)
(* The user.  A handler begins when no other is under way.                 *)
(***************************************************************************)

\* handleFolderPickerResult, or files that are dropped.
Drop(s) ==
  /\ Idle /\ sess[s] = "none" /\ \A r \in Session : Place[r] < Place[s] => sess[r] # "none"
  /\ sessions' = sessions \cup {s} /\ sess' = [sess EXCEPT ![s] = "analyse"]
  /\ tree' = tree \cup {i \in Item : SessionOf[i] = s}
  /\ prep' = [prep EXCEPT ![s] = IF Policy = "overwrite" THEN @ ELSE Policy]
  /\ todo' = IF Policy = "overwrite" THEN <<To("prepared", {s})>> ELSE <<>>
  /\ UNCHANGED <<prepared, status, processing, paused, creating, sendVars, part, faults>>

Confirming == {s \in sessions : sess[s] = "confirm"}

DialogSubmit(policy) ==
  /\ Idle /\ Confirming # {} /\ policy \in Answers
  /\ \/ policy = "overwrite" /\ todo' = <<To("prepared", Confirming)>> /\ UNCHANGED <<sess, prep>>
     \/ /\ policy # "overwrite" /\ UNCHANGED todo
        /\ sess' = [s \in Session |-> IF s \in Confirming THEN "analyse" ELSE sess[s]]
        /\ prep' = [s \in Session |-> IF s \in Confirming THEN policy ELSE prep[s]]
  /\ UNCHANGED <<sessions, prepared, tree, status, processing, paused, creating, sendVars, part, faults>>

DialogCancel ==
  /\ Idle /\ Confirming # {}
  /\ sessions' = sessions \ Confirming
  /\ UNCHANGED <<sess, prep, prepared, tree, status, processing, paused, creating, sendVars, part, faults, todo>>

IsRunning == \E i \in Item : processing[i] > 0 /\ status[i] = "loading"
HasQueue == \E i \in Item : Shown(i) /\ status[i] \in {"new", "pause", "multi-pause"}

\* UploadItem._doPause.
PausedStatus(f) ==
  IF xhr[f] = NoHandle THEN "new" ELSE IF f \in Big THEN "multi-pause" ELSE "cannot-pause"

Pause ==
  /\ Idle /\ Pausable /\ IsRunning
  /\ paused' = TRUE
  /\ status' = [i \in Item |-> IF i \in Held THEN PausedStatus(i) ELSE status[i]]
  /\ part' = [f \in File |-> IF f \in Held /\ xhr[f] # NoHandle /\ part[f] = "loading"
                             THEN "cannot" ELSE part[f]]
  /\ UNCHANGED <<sessionVars, tree, processing, creating, sendVars, faults, todo>>

\* resume, the start button.
Resume ==
  /\ Idle /\ ~IsRunning /\ HasQueue
  /\ paused' = FALSE
  /\ todo' = Push(To("ready", sessions), <<To("resume", {}), CallNext>>)
  /\ UNCHANGED <<sessionVars, tree, status, processing, creating, sendVars, part, faults>>

\* Handlers that only make calls.
Begin(calls) ==
  /\ Idle /\ todo' = calls
  /\ UNCHANGED <<sessionVars, tree, processing, paused, creating, sendVars, part>>

\* The button of a line: stop, restart or remove.
StopItem(f) ==
  /\ Shown(f) /\ f \in Abortable /\ status[f] \in {"loading", "cannot-pause", "multi-pause"}
  /\ Begin(<<To("abort", {f})>>) /\ UNCHANGED <<status, faults>>

RetryItem(f) ==
  /\ f \in Retriable /\ Shown(f) /\ status[f] = "error" /\ started[f] < MaxProcess
  /\ SetStatus({f}, "new") /\ Begin(<<CallNext>>) /\ UNCHANGED faults

RemoveItem(i) ==
  /\ i \in Removable /\ Shown(i) /\ (i \in File => status[i] \in {"new", "loaded", "pause"})
  /\ Begin(<<To("remove", {i})>>) /\ UNCHANGED <<status, faults>>

Clear(st) ==
  /\ st \in Clears /\ sessions # {}
  /\ LET files == {f \in File : Shown(f)}
     IN Begin(IF st = "all"
              THEN Push(To("new", files), Push(To("remove", {i \in Item : Shown(i)}), <<To("cleared", {})>>))
              ELSE Push(To(st, files), <<>>))
  /\ UNCHANGED <<status, faults>>

----------------------------------------------------------------------------
(***************************************************************************)
(* Answers of the server, timers.                                          *)
(***************************************************************************)

Known(s) == {i \in Existing \cap tree : SessionOf[i] = s}

\* bulkStatNodes answers a preparation.  Existing folders are ignored when only
\* files are renamed; renaming takes more requests.
StatNodes(s) ==
  /\ Idle /\ prep[s] \in Policies
  /\ \/ /\ Known(s) = {} /\ prep' = [prep EXCEPT ![s] = "none"]
        /\ todo' = <<To("prepared", {s})>> /\ UNCHANGED <<sess, status>>
     \/ /\ Known(s) # {} /\ prep[s] = "alert" /\ prep' = [prep EXCEPT ![s] = "none"]
        /\ sess' = [sess EXCEPT ![s] = "confirm"] /\ UNCHANGED <<status, todo>>
     \/ /\ Known(s) # {} /\ prep[s] # "alert" /\ prep' = [prep EXCEPT ![s] = "renaming"]
        /\ SetStatus(IF prep[s] = "rename" THEN Known(s) \cap Folder ELSE {}, "loaded")
        /\ UNCHANGED <<sess, todo>>
  /\ UNCHANGED <<sessions, prepared, tree, processing, paused, creating, sendVars, part, faults>>

Renamed(s) ==
  /\ Idle /\ prep[s] = "renaming" /\ prep' = [prep EXCEPT ![s] = "none"]
  /\ todo' = <<To("prepared", {s})>>
  /\ UNCHANGED <<sessions, sess, prepared, tree, status, processing, paused, creating, sendVars, part, faults>>

Fault == faults < MaxFaults /\ faults' = faults + 1

\* Nobody handles the failure: the session stays as it is.
StatFails(s) ==
  /\ Idle /\ prep[s] \in Policies /\ prep' = [prep EXCEPT ![s] = "none"] /\ Fault
  /\ UNCHANGED <<sessions, sess, prepared, tree, status, processing, paused, creating, sendVars, part, todo>>

FoldersCreated(ds) ==
  /\ Idle /\ SetStatus(ds, "loaded") /\ Unmonitor(ds)
  /\ creating' = creating \ {ds} /\ todo' = <<CallNext>>
  /\ UNCHANGED <<sessionVars, tree, paused, sendVars, part, faults>>

\* The folders stay in _processing, and the files are next.
FoldersFail(ds) ==
  /\ Idle /\ Fault
  /\ creating' = creating \ {ds} /\ todo' = <<CallNext>>
  /\ UNCHANGED <<sessionVars, tree, status, processing, paused, sendVars, part>>

\* Mutant: an aborted transfer is dropped without a callback.
SentUnlessAborted(t) ==
  /\ Idle /\ t.st = "wait" /\ ~aborted[t.f]
  /\ Moved(t, "sent") /\ xhr' = [xhr EXCEPT ![t.f] = <<t.n, t.try>>]
  /\ UNCHANGED <<sessionVars, tree, status, processing, paused, creating, started, aborted, part, faults, todo>>

\* The back-off ends and uploadPresigned has obtained a token: the request is
\* sent and its handle kept in xhr.  Nothing looks at the wait before that.
Sent(t) ==
  /\ Idle /\ t.st = "wait"
  /\ Moved(t, "sent") /\ xhr' = [xhr EXCEPT ![t.f] = <<t.n, t.try>>]
  /\ UNCHANGED <<sessionVars, tree, status, processing, paused, creating, started, aborted, part, faults, todo>>

InFlight(t) == t.st \in {"sent", "aborting"}

Completes(t, st) ==
  /\ Idle /\ Complete(t, st) /\ todo' = <<CallNext>>
  /\ UNCHANGED <<sessionVars, tree, paused, creating, started, aborted, part>>

\* Status 200: complete(), or an unexpected text in the response.
TransferDone(t) ==
  /\ InFlight(t)
  /\ \/ Completes(t, "loaded") /\ UNCHANGED faults
     \/ t.f \notin Big /\ Completes(t, "error") /\ Fault

\* retry: a failed attempt is made again later, unless it may not.
MayRetry(t, final) == ~final /\ ~aborted[t.f] /\ t.try < MaxRetries

Retry(t, final) ==
  \/ ~MayRetry(t, final) /\ Completes(t, "error")
  \/ /\ Idle /\ MayRetry(t, final) /\ Release(t)
     /\ transfer' = (transfer \ {t}) \cup {[t EXCEPT !.try = @ + 1, !.st = "wait"]}
     /\ UNCHANGED <<sessionVars, tree, status, processing, paused, creating, started, aborted, part, todo>>

\* Another status, final for 422 and 403.
TransferFails(t) ==
  /\ InFlight(t)
  /\ \/ t.st = "aborting" /\ Retry(t, FALSE) /\ UNCHANGED faults
     \/ \E final \in BOOLEAN : Retry(t, final) /\ Fault

\* Progress of a multipart upload.  A part that could not be paused shows the
\* item as paused when it ends.
PartProgress(t) ==
  /\ Idle /\ t.f \in Big /\ InFlight(t) /\ status[t.f] # "error"
  /\ \/ part[t.f] = "none" /\ part' = [part EXCEPT ![t.f] = "loading"] /\ UNCHANGED status
     \/ part[t.f] = "loading" /\ part' = [part EXCEPT ![t.f] = "none"] /\ UNCHANGED status
     \/ /\ part[t.f] = "cannot" /\ started[t.f] < MaxProcess
        /\ part' = [part EXCEPT ![t.f] = "none"] /\ SetStatus({t.f}, "pause")
  /\ UNCHANGED <<sessionVars, tree, processing, paused, creating, sendVars, faults, todo>>

----------------------------------------------------------------------------

Users ==
  \/ \E s \in Session : Drop(s)
  \/ \E p \in Policies : DialogSubmit(p)
  \/ DialogCancel \/ Pause \/ Resume
  \/ \E f \in File : StopItem(f) \/ RetryItem(f)
  \/ \E i \in Item : RemoveItem(i)
  \/ \E st \in {"all", "loaded", "error"} : Clear(st)

Network ==
  \/ \E s \in Session : StatNodes(s) \/ Renamed(s) \/ StatFails(s)
  \/ \E ds \in creating : FoldersCreated(ds) \/ FoldersFail(ds)
  \/ \E t \in transfer : Sent(t) \/ TransferDone(t) \/ TransferFails(t)

Progress == \E t \in transfer : PartProgress(t)

Next == Run \/ Users \/ Network \/ Progress

\* Handlers end.  Requests are answered and timers fire, whatever the user does
\* meanwhile: an answer only waits for the handler under way.
Fairness == WF_vars(Run) /\ SF_vars(Network)

Spec == Init /\ [][Next]_vars /\ Fairness

----------------------------------------------------------------------------
(***************************************************************************)
(* Properties.                                                             *)
(***************************************************************************)

Transfers(f) == {t \in transfer : t.f = f}

\* The type invariant.
TypeOK ==
  /\ sessions \subseteq Session /\ prepared \subseteq Session /\ tree \subseteq Item
  /\ sess \in [Session -> {"none", "analyse", "confirm", "ready", "folders", "loading"}]
  /\ prep \in [Session -> Policies \cup {"none", "renaming"}]
  /\ status \in [Item -> {"new", "loading", "loaded", "error", "pause", "cannot-pause", "multi-pause"}]
  /\ \A d \in Folder : status[d] \in {"new", "loading", "loaded"}
  /\ processing \in [Item -> Nat] /\ \A d \in Folder : processing[d] <= 1
  /\ paused \in BOOLEAN /\ faults \in 0..MaxFaults
  /\ UNION creating \subseteq Folder /\ \A d \in UNION creating : processing[d] = 1
  /\ transfer \subseteq [f : File, n : Nat, try : 1..MaxRetries, st : {"wait", "sent", "aborting"}]
  /\ \A t \in transfer : t.n \in 1..started[t.f]
  /\ started \in [File -> Nat] /\ xhr \in [File -> Nat \X Nat] /\ aborted \in [File -> BOOLEAN]
  /\ part \in [File -> {"none", "loading", "cannot"}]
  /\ todo \in Seq(Call)

\* _processing, on which the number of files sent at a time is based, has one
\* entry for each transfer: neither a stop, nor a retry, nor a removal, nor an
\* item that completes inside the loop that starts it loses or adds one.
CountsTransfers == \A f \in File : processing[f] = Cardinality(Transfers(f))

\* Every transfer, however it was stopped or retried, comes to its
\* completeCallback; the user starts finitely many.
Settles == <>[](transfer = {})

\* With automatic start, a file of a prepared session does not stay behind
\* while the queue is not paused, unless a request failed.
Waits(f) == Shown(f) /\ status[f] = "new" /\ SessionOf[f] \in prepared
Drains == \A f \in File : Waits(f) ~> ~Waits(f) \/ paused \/ faults > 0

\* Files the user does not stop and that are sent in one request.
Steady == File \ (Big \cup Abortable)

\* The phase of a file: transfers say more than the status that is shown.
Phase(f) ==
  IF Cardinality(Transfers(f)) = 1 THEN "sending"
  ELSE IF Cardinality(Transfers(f)) > 1 THEN "twice"
  ELSE IF status[f] = "loaded" /\ started[f] > 0 THEN "stored"
  ELSE IF status[f] = "error" /\ Shown(f) THEN "failed"
  ELSE IF sess[SessionOf[f]] # "none" /\ ~Shown(f) THEN "dropped"
  ELSE "waiting"

Queue == INSTANCE TransferQueue WITH File <- Steady, phase <- [f \in Steady |-> Phase(f)]

\* The store implements the queue for such files, whatever happens to others.
ImplementsQueue == Queue!Spec

\* A session is not sent before its preparation has ended, and the user been
\* asked when that is the option.
AskedBeforeSent == \A t \in transfer : SessionOf[t.f] \in prepared

\* Files are sent into folders that exist.
FoldersFirst == \A t \in transfer : Within[t.f] \in Folder => status[Within[t.f]] = "loaded"
=============================================================================
