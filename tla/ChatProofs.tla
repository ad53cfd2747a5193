----------------------------- MODULE ChatProofs -----------------------------
(***************************************************************************)
(* Proofs about Chat, for any components, rooms and numbers of faults: the *)
(* types, and that a room whose Uuid is known has handlers.  The handlers  *)
(* of the client are functions of its state: each is shown to keep a state *)
(* good, and an action applies one.                                        *)
(***************************************************************************)
EXTENDS Chat, SequenceTheorems, FiniteSetTheorems, TLAPS

Outgoing == [t : {"join", "ping", "leave", "history"}, r : Room] \cup {Message("subscribe", "")}
Incoming == [t : {"history", "update"}, r : Room]

SessionRec == [user : BOOLEAN, rooms : SUBSET Room]
EndingRec == [user : BOOLEAN, out : Seq(Outgoing) \ {<<>>}]
TimerRec == [t : {"join", "history"}, c : Component, n : 1..Retries]
Phases == {"connecting", "open", "lost", "closed"}

ClientRec ==
  [subs : [Room -> SUBSET Component], rooms : SUBSET Room, connecting : BOOLEAN,
   connOpen : BOOLEAN, timer : Seq(TimerRec), socket : Phases, token : [Asking -> Nat],
   out : Seq(Outgoing), inbox : Seq(Incoming), session : SessionRec,
   ending : SUBSET EndingRec]

\* A state of the client, its socket and its sessions.
Good(u) == u \in ClientRec /\ \A r \in u.rooms : u.subs[r] # {}

\* The inductive invariant.
Typed ==
  /\ Good(Now)
  /\ mounted \subseteq Component /\ filled \subseteq mounted
  /\ users \subseteq exists /\ exists \subseteq Room /\ events \subseteq Room

----------------------------------------------------------------------------
(***************************************************************************)
(* The data.                                                               *)
(***************************************************************************)

\* A set of rooms is put in a sequence.
LEMMA SeqOfRooms ==
  ASSUME ChatAssumption, NEW S \in SUBSET Room
  PROVE  SetToSeq(S) \in Seq(S)
<1>1. IsFiniteSet(S)
  BY FS_Subset DEF ChatAssumption
<1>2. Cardinality(S) \in Nat /\ ExistsBijection(1..Cardinality(S), S)
  BY <1>1, FS_CardinalityType
<1>3. PICK f \in [1..Cardinality(S) -> S] : IsInjective(f)
  BY <1>2 DEF ExistsBijection, Bijection, Injection
<1>4. SetToSeq(S) \in [1..Cardinality(S) -> S]
  BY <1>3 DEF SetToSeq
<1> QED
  BY <1>2, <1>4

\* The components of a state.
LEMMA Fields ==
  ASSUME NEW u, Good(u)
  PROVE  /\ u \in ClientRec /\ u.subs \in [Room -> SUBSET Component] /\ u.rooms \subseteq Room
         /\ u.connecting \in BOOLEAN /\ u.connOpen \in BOOLEAN
         /\ u.timer \in Seq(TimerRec) /\ u.socket \in Phases /\ u.token \in [Asking -> Nat]
         /\ u.out \in Seq(Outgoing) /\ u.inbox \in Seq(Incoming)
         /\ u.session \in SessionRec /\ u.session.user \in BOOLEAN
         /\ u.session.rooms \subseteq Room /\ u.ending \subseteq EndingRec
         /\ \A r \in u.rooms : u.subs[r] # {}
BY DEF Good, ClientRec, SessionRec

\* The subscribed rooms, in some order.
LEMMA SubscribedTyped ==
  ASSUME ChatAssumption, NEW u
  PROVE  Subscribed(u) \in Seq(Room)
<1> DEFINE S == {r \in Room : u.subs[r] # {}}
<1>1. SetToSeq(S) \in Seq(S)
  BY SeqOfRooms
<1>2. SetToSeq(S) \in Seq(Room)
  BY <1>1, SeqMonotonic
<1> QED
  BY <1>2 DEF Subscribed

\* A message for each of them.
LEMMA ToSubscribedTyped ==
  ASSUME ChatAssumption, NEW u, NEW t \in {"ping", "leave"}
  PROVE  ToSubscribed(u, t) \in Seq(Outgoing)
<1> DEFINE s == Subscribed(u)
           f == [i \in DOMAIN s |-> Message(t, s[i])]
<1>1. s \in Seq(Room)
  BY SubscribedTyped
<1> HIDE DEF s
<1>2. \A r \in Room : Message(t, r) \in Outgoing
  BY DEF Message, Outgoing
<1>3. Len(s) \in Nat /\ DOMAIN s = 1..Len(s) /\ \A i \in DOMAIN s : s[i] \in Room
  BY <1>1
<1>4. f \in [1..Len(s) -> Outgoing]
  BY <1>2, <1>3
<1>5. f \in Seq(Outgoing)
  BY <1>3, <1>4, SeqDef
<1> QED
  BY <1>5 DEF s, ToSubscribed

\* A timer is not counted past the last retry.
LEMMA TimerTyped ==
  ASSUME ChatAssumption, NEW t \in {"join", "history"}, NEW c \in Component, NEW n \in 0..Retries
  PROVE  Timer(t, c, n + 1) \in TimerRec
BY DEF Timer, TimerRec, ChatAssumption

----------------------------------------------------------------------------
(***************************************************************************)
(* The handlers of ChatClient keep a state good.                           *)
(***************************************************************************)

\* ws.send
LEMMA SendGood ==
  ASSUME NEW u, Good(u), NEW m \in Outgoing
  PROVE  Good(Send(u, m))
<1>1. Append(u.out, m) \in Seq(Outgoing)
  BY Fields
<1>2. Good([u EXCEPT !.out = Append(@, m)])
  BY <1>1, Fields DEF Good, ClientRec
<1> QED
  BY <1>2 DEF Send

\* leaveRoom: the last handler of a room takes the room with it.
LEMMA LeaveRoomGood ==
  ASSUME NEW u, Good(u), NEW r \in Room, NEW handlers
  PROVE  Good(LeaveRoom(u, r, handlers))
<1> DEFINE left == u.subs[r] \ handlers
           v == [u EXCEPT !.subs[r] = left, !.rooms = IF left = {} THEN @ \ {r} ELSE @]
           m == Message("leave", r)
<1>1. left \in SUBSET Component
  BY Fields
<1>2. /\ v.subs = [u.subs EXCEPT ![r] = left]
      /\ v.rooms = IF left = {} THEN u.rooms \ {r} ELSE u.rooms
  BY Fields DEF ClientRec
<1>3. v \in ClientRec
  <2>1. u \in ClientRec
    BY DEF Good
  <2> HIDE DEF left
  <2> QED
    BY <1>1, <2>1 DEF ClientRec
<1>4. \A q \in v.rooms : v.subs[q] # {}
  <2> HIDE DEF left, v
  <2> QED
    BY <1>1, <1>2, Fields
<1>5. Good(v)
  BY <1>3, <1>4 DEF Good
<1>6. m \in Outgoing
  BY DEF Message, Outgoing
<1>7. Good(Send(v, m))
  <2> HIDE DEF v, m
  <2> QED
    BY <1>5, <1>6, SendGood
<1> QED
  BY <1>5, <1>7 DEF LeaveRoom

\* All rooms are left.
LEMMA LeaveAllGood ==
  ASSUME ChatAssumption, NEW u, Good(u)
  PROVE  Good(LeaveAll(u))
<1> DEFINE s == [r \in Room |-> {}]
           q == {r \in u.rooms : u.subs[r] = {}}
           o == IF u.connOpen /\ u.socket = "open" THEN u.out \o ToSubscribed(u, "leave") ELSE u.out
           v == [u EXCEPT !.subs = s, !.rooms = q, !.out = o]
<1>1. s \in [Room -> SUBSET Component] /\ q = {}
  BY Fields
<1>2. o \in Seq(Outgoing)
  BY Fields, ToSubscribedTyped, ConcatProperties
<1>3. LeaveAll(u) = v
  BY Fields DEF LeaveAll, ClientRec
<1> HIDE DEF s, q, o
<1>4. u \in ClientRec /\ q \in SUBSET Room
  BY <1>1 DEF Good
<1>5. v \in ClientRec /\ v.rooms = q
  BY <1>1, <1>2, <1>4 DEF ClientRec
<1> QED
  BY <1>1, <1>3, <1>5 DEF Good

\* close, when it is not interrupted.
LEMMA ClosedGood ==
  ASSUME ChatAssumption, NEW u, Good(u)
  PROVE  Good(Closed(u))
<1> DEFINE v == LeaveAll(u)
           rest == [user |-> v.session.user, out |-> v.out]
           e == IF v.out = <<>> THEN v.ending ELSE v.ending \cup {rest}
           w == [v EXCEPT !.socket = "closed", !.connecting = FALSE, !.connOpen = FALSE,
                          !.out = <<>>, !.inbox = <<>>, !.session = NoSession, !.ending = e]
<1>1. Good(v)
  BY LeaveAllGood
<1>2. Closed(u) = w
  <2>1. v \in ClientRec
    BY <1>1 DEF Good
  <2> QED
    BY <2>1 DEF Closed, ClientRec
<1> HIDE DEF v
<1>3. e \subseteq EndingRec
  BY <1>1, Fields DEF EndingRec
<1>4. NoSession \in SessionRec /\ "closed" \in Phases
  BY DEF NoSession, SessionRec, Phases
<1> HIDE DEF e
<1>5. v \in ClientRec /\ <<>> \in Seq(Outgoing) /\ <<>> \in Seq(Incoming)
  BY <1>1 DEF Good
<1>6. w \in ClientRec /\ w.rooms = v.rooms /\ w.subs = v.subs
  BY <1>3, <1>4, <1>5 DEF ClientRec
<1>7. \A r \in v.rooms : v.subs[r] # {}
  BY <1>1, Fields
<1> HIDE DEF w
<1> QED
  BY <1>2, <1>6, <1>7 DEF Good

\* close
LEMMA CloseGood ==
  ASSUME ChatAssumption, NEW u, Good(u)
  PROVE  Good(Close(u))
<1>1. CASE Subscribed(u) # <<>>
  <2>1. Head(Subscribed(u)) \in Room
    BY <1>1, SubscribedTyped
  <2> QED
    BY <2>1, LeaveRoomGood, ClosedGood DEF Close
<1>2. CASE Subscribed(u) = <<>>
  BY <1>2, ClosedGood DEF Close
<1> QED
  BY <1>1, <1>2

\* open
LEMMA OpenGood ==
  ASSUME ChatAssumption, NEW u, Good(u)
  PROVE  Good(Open(u))
<1> DEFINE v == Closed(u)
           k == [ws |-> 0, former |-> u.token.former + u.token.ws, again |-> 0]
           w == [v EXCEPT !.socket = "connecting", !.connecting = TRUE, !.token = k]
<1>1. Good(v)
  BY ClosedGood
<1>2. u.token.former \in Nat /\ u.token.ws \in Nat
  BY Fields DEF Asking
<1>3. k \in [Asking -> Nat]
  BY <1>2 DEF Asking
<1>4. Open(u) = w
  BY DEF Open
<1>5. "connecting" \in Phases
  BY DEF Phases
<1> HIDE DEF v, k
<1>6. v \in ClientRec
  BY <1>1 DEF Good
<1>7. w \in ClientRec /\ w.rooms = v.rooms /\ w.subs = v.subs
  BY <1>3, <1>5, <1>6 DEF ClientRec
<1>8. \A r \in v.rooms : v.subs[r] # {}
  BY <1>1, Fields
<1> HIDE DEF w
<1> QED
  BY <1>4, <1>7, <1>8 DEF Good

\* joinRoom
LEMMA JoinRoomGood ==
  ASSUME ChatAssumption, NEW u, Good(u), NEW c \in Component, NEW n \in 0..Retries
  PROVE  Good(JoinRoom(u, c, n))
<1> DEFINE r == RoomOf[c]
           k == Timer("join", c, n + 1)
           later == [u EXCEPT !.timer = Append(@, k)]
           more == [u EXCEPT !.subs[r] = @ \cup {c}]
           first == [u EXCEPT !.subs[r] = {c}]
           m == Message("join", r)
<1>1. u \in ClientRec /\ r \in Room
  BY DEF Good, ChatAssumption
<1>2. k \in TimerRec
  BY TimerTyped
<1>3. m \in Outgoing
  BY <1>1 DEF Message, Outgoing
<1> HIDE DEF k, m
<1>4. Good(later)
  <2>1. Append(u.timer, k) \in Seq(TimerRec)
    BY <1>2, Fields
  <2> QED
    BY <1>1, <2>1 DEF Good, ClientRec
<1> HIDE DEF r
<1>5. ASSUME NEW S \in SUBSET Component, S # {}
      PROVE  Good([u EXCEPT !.subs[r] = S])
  <2> DEFINE v == [u EXCEPT !.subs[r] = S]
  <2>1. v \in ClientRec /\ v.rooms = u.rooms /\ v.subs = [u.subs EXCEPT ![r] = S]
    BY <1>1 DEF ClientRec
  <2>2. \A q \in u.rooms : v.subs[q] # {}
    BY <1>1, <1>5, <2>1, Fields
  <2> HIDE DEF v
  <2>3. Good(v)
    BY <2>1, <2>2 DEF Good
  <2> QED
    BY <2>3 DEF v
<1>6. Good(more) /\ Good(first)
  <2>1. u.subs[r] \cup {c} \in SUBSET Component /\ {c} \in SUBSET Component
    BY <1>1, Fields
  <2> QED
    BY <1>5, <2>1
<1>7. Good(Open(later)) /\ Good(Send(first, m))
  <2> HIDE DEF later, first
  <2> QED
    BY <1>3, <1>4, <1>6, OpenGood, SendGood
<1> QED
  BY <1>4, <1>6, <1>7 DEF JoinRoom, r, k, m

\* loadHistory
LEMMA LoadHistoryGood ==
  ASSUME ChatAssumption, NEW u, Good(u), NEW c \in Component, NEW n \in 0..Retries
  PROVE  Good(LoadHistory(u, c, n))
<1> DEFINE k == Timer("history", c, n + 1)
           later == [u EXCEPT !.timer = Append(@, k)]
           m == Message("history", RoomOf[c])
<1>1. k \in TimerRec /\ m \in Outgoing /\ u \in ClientRec
  BY TimerTyped DEF ChatAssumption, Message, Outgoing, Good
<1> HIDE DEF k
<1>2. Append(u.timer, k) \in Seq(TimerRec)
  BY <1>1, Fields
<1>3. Good(later)
  BY <1>1, <1>2 DEF Good, ClientRec
<1>4. Good(Send(u, m))
  BY <1>1, SendGood
<1> QED
  BY <1>3, <1>4 DEF LoadHistory, k

----------------------------------------------------------------------------
(***************************************************************************)
(* The actions.                                                            *)
(***************************************************************************)

\* An action applies a handler.
LEMMA BecomeGood ==
  ASSUME NEW u, Good(u), Become(u)
  PROVE  Good(Now)'
<1>1. Now' = [subs |-> u.subs, rooms |-> u.rooms, connecting |-> u.connecting,
              connOpen |-> u.connOpen, timer |-> u.timer, socket |-> u.socket,
              token |-> u.token, out |-> u.out, inbox |-> u.inbox,
              session |-> u.session, ending |-> u.ending]
  BY DEF Become, Now
<1>2. Now' = u
  BY <1>1 DEF Good, ClientRec
<1> QED
  BY <1>2 DEF Good

\* The state of the client in terms of the variables.
LEMMA NowFields ==
  ASSUME Typed
  PROVE  /\ Now \in ClientRec /\ Good(Now)
         /\ subs \in [Room -> SUBSET Component] /\ rooms \subseteq Room
         /\ connecting \in BOOLEAN /\ connOpen \in BOOLEAN
         /\ timer \in Seq(TimerRec) /\ socket \in Phases /\ token \in [Asking -> Nat]
         /\ out \in Seq(Outgoing) /\ inbox \in Seq(Incoming) /\ session \in SessionRec
         /\ session.user \in BOOLEAN /\ session.rooms \subseteq Room /\ ending \subseteq EndingRec
         /\ \A r \in rooms : subs[r] # {}
<1>1. Good(Now)
  BY DEF Typed
<1> QED
  BY <1>1, Fields DEF Now

\* Init
LEMMA InitTyped == ASSUME ChatAssumption, Init PROVE Typed
<1> DEFINE k == [ws |-> 0, former |-> 0, again |-> 0]
<1>1. NoSession \in SessionRec /\ k \in [Asking -> Nat]
  BY DEF NoSession, SessionRec, Asking
<1>2. token = k /\ session = NoSession /\ socket \in Phases
  BY DEF Init, Phases
<1> HIDE DEF k
<1>3. /\ subs \in [Room -> SUBSET Component] /\ rooms \in SUBSET Room
      /\ ending \in SUBSET EndingRec /\ connecting \in BOOLEAN /\ connOpen \in BOOLEAN
  BY DEF Init
<1>4. timer \in Seq(TimerRec) /\ out \in Seq(Outgoing) /\ inbox \in Seq(Incoming)
  BY EmptySeq DEF Init
<1>5. Now \in ClientRec
  BY <1>1, <1>2, <1>3, <1>4 DEF Now, ClientRec
<1>6. Now.rooms = {}
  BY DEF Init, Now
<1> QED
  BY <1>6, <1>5 DEF Good, Init, Typed, ChatAssumption

\* What an action changes in the client is good, and the server is untouched.
LEMMA ClientStep ==
  ASSUME Typed, NEW u, Good(u), Become(u), UNCHANGED serverVars,
         mounted' \subseteq Component, filled' \subseteq mounted'
  PROVE  Typed'
<1>1. Good(Now)'
  BY BecomeGood
<1> QED
  BY <1>1 DEF Typed, serverVars

\* componentDidMount
LEMMA MountTyped ==
  ASSUME ChatAssumption, Typed, NEW c \in Component, Mount(c)
  PROVE  Typed'
<1> DEFINE joined == JoinRoom(Now, c, 0)
           next == IF c \in Panel /\ ~Throws(Now, joined) THEN LoadHistory(joined, c, 0) ELSE joined
<1>1. 0 \in 0..Retries
  BY DEF ChatAssumption
<1>2. Good(joined)
  BY <1>1, NowFields, JoinRoomGood
<1>3. Good(next)
  <2> HIDE DEF joined
  <2> QED
    BY <1>1, <1>2, LoadHistoryGood
<1>4. Become(next) /\ UNCHANGED serverVars
  BY DEF Mount
<1>5. mounted' \subseteq Component /\ filled' \subseteq mounted'
  BY DEF Mount, Typed
<1> HIDE DEF next
<1> QED
  BY <1>3, <1>4, <1>5, ClientStep

\* componentWillUnmount
LEMMA UnmountTyped ==
  ASSUME ChatAssumption, Typed, NEW c \in Component, Unmount(c)
  PROVE  Typed'
<1>1. Good(LeaveRoom(Now, RoomOf[c], {c}))
  BY NowFields, LeaveRoomGood DEF ChatAssumption
<1>2. mounted' \subseteq Component /\ filled' \subseteq mounted'
  BY DEF Unmount, Typed
<1> QED
  BY <1>1, <1>2, ClientStep DEF Unmount

\* setTimeout
LEMMA FireTyped ==
  ASSUME ChatAssumption, Typed, Fire
  PROVE  Typed'
<1> DEFINE t == Head(timer)
           u == [Now EXCEPT !.timer = Tail(@)]
           next == IF t.t = "join" THEN JoinRoom(u, t.c, t.n) ELSE LoadHistory(u, t.c, t.n)
<1>1. timer # <<>> /\ Become(next) /\ Quiet
  BY DEF Fire
<1>2. t \in TimerRec /\ Tail(timer) \in Seq(TimerRec) /\ Now.timer = timer
  BY <1>1, NowFields, HeadTailProperties DEF Now
<1>3. t.c \in Component /\ t.n \in 0..Retries
  BY <1>2 DEF TimerRec, ChatAssumption
<1>4. Good(u)
  BY <1>2, NowFields DEF Good, ClientRec
<1> HIDE DEF t, u
<1>5. Good(next)
  BY <1>3, <1>4, JoinRoomGood, LoadHistoryGood
<1> HIDE DEF next
<1> QED
  BY <1>1, <1>5, ClientStep DEF Quiet, Typed, serverVars

\* A token that is asked for, or used up.
LEMMA TokenGood ==
  ASSUME NEW u, Good(u), NEW w \in Asking, NEW n \in Nat
  PROVE  Good([u EXCEPT !.token[w] = n])
<1>1. u \in ClientRec /\ u.token \in [Asking -> Nat]
  BY Fields
<1> QED
  BY <1>1 DEF Good, ClientRec

\* repository_list_refreshed
LEMMA RefreshTyped ==
  ASSUME ChatAssumption, Typed, Refresh
  PROVE  Typed'
<1>1. Good(Close(Now)) /\ Good(Open(Now))
  BY NowFields, CloseGood, OpenGood
<1> DEFINE v == [Now EXCEPT !.token.again = @ + 1]
<1>2. Good(v)
  <2> DEFINE n == Now.token.again + 1
             a == "again"
  <2>1. Now.token \in [Asking -> Nat] /\ a \in Asking
    BY NowFields, Fields DEF Asking
  <2>2. n \in Nat
    BY <2>1
  <2>3. v = [Now EXCEPT !.token[a] = n]
    OBVIOUS
  <2> HIDE DEF a, n, v
  <2> QED
    BY <2>1, <2>2, <2>3, NowFields, TokenGood
<1> HIDE DEF v
<1>3. \E u \in {Close(Now), Open(Now), v} : Good(u) /\ Become(u)
  BY <1>1, <1>2 DEF Refresh, v
<1>4. mounted' \subseteq Component /\ filled' \subseteq mounted' /\ UNCHANGED serverVars
  BY DEF Refresh, Typed, serverVars
<1> QED
  BY <1>3, <1>4, ClientStep

\* heartbeat
LEMMA HeartbeatTyped ==
  ASSUME ChatAssumption, Typed, Heartbeat
  PROVE  Typed'
<1> DEFINE o == out \o ToSubscribed(Now, "ping")
           u == [Now EXCEPT !.out = @ \o ToSubscribed(Now, "ping")]
<1>1. o \in Seq(Outgoing)
  BY NowFields, ToSubscribedTyped, ConcatProperties
<1>2. u = [Now EXCEPT !.out = o]
  BY DEF Now
<1> HIDE DEF o
<1>3. Good(u)
  BY <1>1, <1>2, NowFields DEF Good, ClientRec
<1>4. Become(u) /\ Quiet
  BY DEF Heartbeat
<1> HIDE DEF u
<1> QED
  BY <1>3, <1>4, ClientStep DEF Quiet, Typed, serverVars

\* The socket opens, is lost, or reconnects.
LEMMA SocketTyped ==
  ASSUME ChatAssumption, Typed, SocketOpens \/ Reconnect \/ Cut
  PROVE  Typed'
<1> DEFINE a == "ws"
           n == Now.token[a] + 1
           t == [Now EXCEPT !.token[a] = n]
           p == "open"
           l == "lost"
           q == "connecting"
           opened == [t EXCEPT !.socket = p]
           again == [Now EXCEPT !.socket = q]
           cut == [Now EXCEPT !.socket = l, !.connecting = FALSE, !.connOpen = FALSE,
                              !.out = <<>>, !.inbox = <<>>, !.session = NoSession]
<1>1. a \in Asking /\ n \in Nat
  BY NowFields, Fields DEF Asking
<1>2. Good(t)
  <2> HIDE DEF a, n
  <2> QED
    BY <1>1, NowFields, TokenGood
<1>3. p \in Phases /\ l \in Phases /\ q \in Phases /\ NoSession \in SessionRec
  BY DEF Phases, NoSession, SessionRec
<1>4. Good(opened)
  <2> HIDE DEF t, p
  <2> QED
    BY <1>2, <1>3 DEF Good, ClientRec
<1>5. Good(again)
  <2> HIDE DEF q
  <2> QED
    BY <1>3, NowFields DEF Good, ClientRec
<1>6. Good(cut)
  <2>1. <<>> \in Seq(Outgoing) /\ <<>> \in Seq(Incoming) /\ Good(Now)
    BY NowFields, EmptySeq
  <2> HIDE DEF l
  <2> QED
    BY <2>1, <1>3 DEF Good, ClientRec
<1>7. CASE SocketOpens
  <2>1. opened = [Now EXCEPT !.socket = "open", !.token.ws = @ + 1]
    BY DEF Now
  <2>2. Become(opened) /\ Quiet
    BY <1>7, <2>1 DEF SocketOpens
  <2> HIDE DEF opened
  <2> QED
    BY <1>4, <2>2, ClientStep DEF Quiet, Typed, serverVars
<1>8. CASE Reconnect
  <2>1. Become(again) /\ Quiet
    BY <1>8 DEF Reconnect
  <2> HIDE DEF again
  <2> QED
    BY <1>5, <2>1, ClientStep DEF Quiet, Typed, serverVars
<1>9. CASE Cut
  <2>1. Become(cut) /\ UNCHANGED <<mounted, filled, serverVars>>
    BY <1>9 DEF Cut
  <2> HIDE DEF cut
  <2> QED
    BY <1>6, <2>1, ClientStep DEF Typed, serverVars
<1> QED
  BY <1>7, <1>8, <1>9

\* A token arrives, or is refused.
LEMMA TokenTyped ==
  ASSUME ChatAssumption, Typed, NEW which \in Asking, TokenArrives(which) \/ TokenRefused(which)
  PROVE  Typed'
<1> DEFINE n == Now.token[which] - 1
           u == [Now EXCEPT !.token[which] = n]
           m == Message("subscribe", "")
<1>1. token[which] > 0 /\ token = Now.token /\ Now.token \in [Asking -> Nat]
  BY NowFields DEF TokenArrives, TokenRefused, Now
<1>2. n \in Nat
  BY <1>1
<1>3. Good(u)
  <2> HIDE DEF n
  <2> QED
    BY <1>2, NowFields, TokenGood
<1>4. u = [Now EXCEPT !.token[which] = @ - 1]
  OBVIOUS
<1>5. m \in Outgoing
  BY DEF Outgoing
<1> HIDE DEF u, m
<1>6. ASSUME NEW b \in BOOLEAN
      PROVE  Good([u EXCEPT !.connecting = FALSE, !.connOpen = b])
  BY <1>3 DEF Good, ClientRec
<1>7. CASE TokenArrives(which)
  <2> DEFINE b == which = "former" \/ socket # "connecting"
             v == [u EXCEPT !.connecting = FALSE, !.connOpen = b]
             next == CASE which = "ws" -> Send(v, m)
                       [] which = "former" -> v
                       [] which = "again" -> Send(u, m)
  <2>1. b \in BOOLEAN
    OBVIOUS
  <2>2. Good(v)
    <3> HIDE DEF b
    <3> QED
      BY <1>6, <2>1
  <2>3. Become(next) /\ Quiet
    BY <1>4, <1>7 DEF TokenArrives, m
  <2> HIDE DEF v
  <2>4. Good(Send(v, m)) /\ Good(Send(u, m))
    BY <1>3, <1>5, <2>2, SendGood
  <2>5. Good(next)
    BY <2>2, <2>4 DEF Asking
  <2> HIDE DEF next
  <2> QED
    BY <2>3, <2>5, ClientStep DEF Quiet, Typed, serverVars
<1>8. CASE TokenRefused(which)
  <2> DEFINE v == [u EXCEPT !.connecting = FALSE, !.connOpen = FALSE]
             next == IF which = "again" THEN u ELSE v
  <2>1. Good(next)
    BY <1>3, <1>6
  <2>2. Become(next) /\ UNCHANGED <<mounted, filled, serverVars>>
    BY <1>4, <1>8 DEF TokenRefused
  <2> HIDE DEF next
  <2> QED
    BY <2>1, <2>2, ClientStep DEF Typed, serverVars
<1> QED
  BY <1>7, <1>8

----------------------------------------------------------------------------

\* A message to the server: only a subscription names no room.
LEMMA OutgoingIs ==
  ASSUME NEW m \in Outgoing
  PROVE  m.t = "subscribe" \/ (m.r \in Room /\ (m.t = "history" => m \in Incoming))
<1>1. CASE m = Message("subscribe", "")
  BY <1>1 DEF Message
<1>2. CASE m \in [t : {"join", "ping", "leave", "history"}, r : Room]
  <2>1. m = [t |-> m.t, r |-> m.r] /\ m.r \in Room
    BY <1>2
  <2>2. m.t = "history" => m \in Incoming
    BY <2>1 DEF Incoming
  <2> QED
    BY <2>1, <2>2
<1> QED
  BY <1>1, <1>2 DEF Outgoing

\* HandleMessage changes the chat service.
LEMMA HandledTyped ==
  ASSUME Typed, NEW user, NEW m \in Outgoing, Handled(user, m)
  PROVE  /\ users' \subseteq exists' /\ exists' \subseteq Room /\ events' \subseteq Room
<1>1. CASE m.t \in {"join", "ping", "leave"} /\ exists' = exists \cup {m.r} /\ SetUser(m.r, m.t # "leave")
  <2>1. m.r \in Room
    BY <1>1, OutgoingIs
  <2> QED
    BY <1>1, <2>1 DEF SetUser, Typed
<1>2. CASE UNCHANGED serverVars
  BY <1>2 DEF Typed, serverVars
<1> QED
  BY <1>1, <1>2 DEF Handled

\* The session keeps rooms.
LEMMA InSessionTyped ==
  ASSUME NEW s \in SessionRec, NEW m \in Outgoing
  PROVE  InSession(s, m) \in SessionRec
<1>1. CASE m.t = "subscribe"
  BY <1>1 DEF InSession, SessionRec
<1>2. CASE m.t # "subscribe"
  <2>1. m.r \in Room
    BY <1>2, OutgoingIs
  <2> QED
    BY <1>2, <2>1 DEF InSession, SessionRec
<1> QED
  BY <1>1, <1>2

\* The session handles a message.
LEMMA HandleMessageTyped ==
  ASSUME Typed, HandleMessage
  PROVE  Typed'
<1> DEFINE m == Head(out)
           answers == m.t = "history" /\ session.user /\ Found(m)
           i == IF answers THEN Append(inbox, m) ELSE inbox
           s == InSession(session, m)
           u == [Now EXCEPT !.out = Tail(@), !.session = InSession(@, m),
                            !.inbox = IF answers THEN Append(@, m) ELSE @]
           k == Tail(out)
<1>1. m \in Outgoing /\ k \in Seq(Outgoing)
  BY NowFields, HeadTailProperties DEF HandleMessage
<1>2. s \in SessionRec
  BY <1>1, NowFields, InSessionTyped
<1>3. i \in Seq(Incoming)
  <2>1. CASE answers
    <3>1. m \in Incoming
      BY <1>1, <2>1, OutgoingIs
    <3> QED
      BY <2>1, <3>1, NowFields, AppendProperties
  <2>2. CASE ~answers
    BY <2>2, NowFields
  <2> QED
    BY <2>1, <2>2
<1>4. u = [Now EXCEPT !.out = k, !.session = s, !.inbox = i]
  BY DEF Now
<1>5. Handled(session.user, m) /\ Become(u) /\ UNCHANGED <<mounted, filled>>
  BY DEF HandleMessage
<1>6. users' \subseteq exists' /\ exists' \subseteq Room /\ events' \subseteq Room
  BY <1>1, <1>5, HandledTyped
<1> HIDE DEF s, i, k
<1>7. Good(u)
  BY <1>1, <1>2, <1>3, <1>4, NowFields DEF Good, ClientRec
<1> HIDE DEF u
<1>8. Good(Now)'
  BY <1>5, <1>7, BecomeGood
<1> QED
  BY <1>5, <1>6, <1>8 DEF Typed

\* A closed session handles a message.
LEMMA HandleEndingTyped ==
  ASSUME Typed, NEW e \in ending, HandleEnding(e)
  PROVE  Typed'
<1> DEFINE m == Head(e.out)
           rest == [user |-> e.user \/ m.t = "subscribe", out |-> Tail(e.out)]
           s == (ending \ {e}) \cup IF rest.out = <<>> THEN {} ELSE {rest}
           u == [Now EXCEPT !.ending = (@ \ {e}) \cup IF rest.out = <<>> THEN {} ELSE {rest}]
<1>1. e \in EndingRec /\ ending \subseteq EndingRec
  BY NowFields
<1>2. e.user \in BOOLEAN /\ e.out \in Seq(Outgoing) /\ e.out # <<>>
  BY <1>1 DEF EndingRec
<1>3. m \in Outgoing /\ Tail(e.out) \in Seq(Outgoing)
  BY <1>2, HeadTailProperties
<1>4. rest.out # <<>> => rest \in EndingRec
  BY <1>2, <1>3 DEF EndingRec
<1>5. u = [Now EXCEPT !.ending = s]
  BY DEF Now
<1>6. Handled(e.user, m) /\ Become(u) /\ UNCHANGED <<mounted, filled>>
  BY DEF HandleEnding
<1>7. users' \subseteq exists' /\ exists' \subseteq Room /\ events' \subseteq Room
  BY <1>3, <1>6, HandledTyped
<1> HIDE DEF rest
<1>8. s \in SUBSET EndingRec
  BY <1>1, <1>4
<1> HIDE DEF s
<1>9. Good(u)
  BY <1>5, <1>8, NowFields DEF Good, ClientRec
<1> HIDE DEF u
<1>10. Good(Now)'
  BY <1>6, <1>9, BecomeGood
<1> QED
  BY <1>6, <1>7, <1>10 DEF Typed

\* The heartbeat of the server ends.
LEMMA HeartbeatLostTyped ==
  ASSUME Typed, HeartbeatLost
  PROVE  Typed'
<1>1. Now' = Now
  BY DEF HeartbeatLost, clientVars, Now
<1>2. Good(Now)'
  BY <1>1, NowFields DEF Good
<1> QED
  BY <1>2 DEF HeartbeatLost, clientVars, Typed

\* An event of a room is broadcast.
LEMMA BroadcastTyped ==
  ASSUME Typed, NEW r \in events, Broadcast(r)
  PROVE  Typed'
<1> DEFINE m == Message("update", r)
           i == Append(inbox, m)
           v == [Now EXCEPT !.inbox = Append(@, m)]
           u == IF r \in session.rooms THEN v ELSE Now
<1>1. m \in Incoming
  BY DEF Typed, Message, Incoming
<1>2. i \in Seq(Incoming) /\ v = [Now EXCEPT !.inbox = i]
  BY <1>1, NowFields, AppendProperties DEF Now
<1> HIDE DEF i
<1>3. Good(v)
  BY <1>2, NowFields DEF Good, ClientRec
<1> HIDE DEF v
<1>4. Good(u)
  BY <1>3, NowFields
<1>5. Become(u) /\ events' = events \ {r} /\ UNCHANGED <<mounted, filled, exists, users>>
  BY DEF Broadcast, v
<1> HIDE DEF u
<1>6. Good(Now)'
  BY <1>4, <1>5, BecomeGood
<1> QED
  BY <1>5, <1>6 DEF Typed

\* The client receives a message: it learns the Uuid of a room it handles.
LEMMA HandleMessageReceivedTyped ==
  ASSUME Typed, HandleMessageReceived
  PROVE  Typed'
<1> DEFINE m == Head(inbox)
           k == Tail(inbox)
           u == [Now EXCEPT !.inbox = Tail(@)]
           v == [u EXCEPT !.rooms = @ \cup {m.r}]
           q == u.rooms \cup {m.r}
<1>1. m \in Incoming /\ k \in Seq(Incoming)
  BY NowFields, HeadTailProperties DEF HandleMessageReceived
<1>2. m.r \in Room
  BY <1>1 DEF Incoming
<1>3. u = [Now EXCEPT !.inbox = k]
  BY DEF Now
<1> HIDE DEF m, k
<1>4. Good(u) /\ u.subs = subs /\ u \in ClientRec
  <2>1. u.subs = subs
    BY DEF Now
  <2> QED
    BY <1>1, <1>3, <2>1, NowFields DEF Good, ClientRec
<1> HIDE DEF u
<1>5. ASSUME subs[m.r] # {} PROVE Good(v)
  <2>1. q \in SUBSET Room /\ v = [u EXCEPT !.rooms = q]
    BY <1>2, <1>4, Fields
  <2>2. \A r \in q : u.subs[r] # {}
    BY <1>4, <1>5, Fields
  <2> HIDE DEF q
  <2> QED
    BY <1>4, <2>1, <2>2 DEF Good, ClientRec
<1>6. CASE Become(IF subs[m.r] # {} THEN v ELSE u) /\ UNCHANGED filled
  <2>1. PICK w : Good(w) /\ Become(w)
    <3> HIDE DEF v
    <3> QED
      BY <1>4, <1>5, <1>6
  <2>2. UNCHANGED <<mounted, serverVars>>
    BY DEF HandleMessageReceived
  <2> QED
    BY <1>6, <2>1, <2>2, ClientStep DEF Typed
<1>7. CASE /\ Become(u)
           /\ filled' = IF m.r \notin rooms THEN filled
                        ELSE filled \cup (mounted \cap IF subs[m.r] \cap Panel # {}
                                                       THEN subs[m.r] \cap Panel ELSE subs[m.r])
  <2>1. UNCHANGED <<mounted, serverVars>>
    BY DEF HandleMessageReceived
  <2>2. filled' \subseteq mounted'
    BY <1>7, <2>1 DEF Typed
  <2> QED
    BY <1>4, <1>7, <2>1, <2>2, ClientStep DEF Typed
<1> QED
  BY <1>6, <1>7 DEF HandleMessageReceived, m, u

----------------------------------------------------------------------------

\* Every step keeps the invariant.
LEMMA NextTyped ==
  ASSUME ChatAssumption, Typed, [Next]_vars
  PROVE  Typed'
<1>1. CASE Users
  BY <1>1, RefreshTyped, MountTyped, UnmountTyped DEF Users
<1>2. CASE Faults \/ Tokens \/ Sockets
  BY <1>2, SocketTyped, TokenTyped DEF Faults, Tokens, Sockets
<1>3. CASE Fire \/ Heartbeat
  BY <1>3, FireTyped, HeartbeatTyped
<1>4. CASE HandleMessage \/ Endings \/ HeartbeatLost
  BY <1>4, HandleMessageTyped, HandleEndingTyped, HeartbeatLostTyped DEF Endings
<1>5. CASE Broadcasts \/ HandleMessageReceived
  BY <1>5, BroadcastTyped, HandleMessageReceivedTyped DEF Broadcasts
<1>6. CASE UNCHANGED vars
  <2>1. Now' = Now
    BY <1>6 DEF vars, clientVars, Now
  <2>2. Good(Now)'
    BY <2>1, NowFields DEF Good
  <2> QED
    BY <1>6, <2>2 DEF vars, clientVars, serverVars, Typed
<1> QED
  BY <1>1, <1>2, <1>3, <1>4, <1>5, <1>6 DEF Next

\* However joins, leaves, reconnections and messages follow each other, the
\* state of client and server is good.
THEOREM Invariance == Spec => []Typed
<1>1. Init => Typed
  BY InitTyped, ChatAssumption
<1>2. Typed /\ [Next]_vars => Typed'
  BY NextTyped, ChatAssumption
<1> QED
  BY <1>1, <1>2, PTL DEF Spec

\* Every variable keeps its type.
THEOREM TypeCorrect == Spec => []TypeOK
<1>1. ASSUME Typed PROVE TypeOK
  <2>1. Outgoing \subseteq Messages /\ Incoming \subseteq Messages
    BY DEF Outgoing, Incoming, Messages
  <2>2. out \in Seq(Messages) /\ inbox \in Seq(Messages)
    BY <1>1, <2>1, NowFields, SeqMonotonic
  <2>3. \A e \in ending : e.user \in BOOLEAN /\ e.out \in Seq(Messages) /\ e.out # <<>>
    <3> SUFFICES ASSUME NEW e \in ending
                 PROVE  e.user \in BOOLEAN /\ e.out \in Seq(Messages) /\ e.out # <<>>
      OBVIOUS
    <3>1. e.user \in BOOLEAN /\ e.out \in Seq(Outgoing) /\ e.out # <<>>
      BY <1>1, NowFields DEF EndingRec
    <3> QED
      BY <2>1, <3>1, SeqMonotonic
  <2>4. /\ mounted \subseteq Component /\ filled \subseteq mounted
        /\ users \subseteq exists /\ exists \subseteq Room /\ events \subseteq Room
    BY <1>1 DEF Typed
  <2>5. /\ subs \in [Room -> SUBSET Component] /\ rooms \subseteq Room
        /\ {connecting, connOpen} \subseteq BOOLEAN /\ token \in [Asking -> Nat]
    BY <1>1, NowFields
  <2>6. /\ timer \in Seq([t : {"join", "history"}, c : Component, n : 1..Retries])
        /\ socket \in {"connecting", "open", "lost", "closed"}
        /\ session \in [user : BOOLEAN, rooms : SUBSET Room]
    BY <1>1, NowFields DEF TimerRec, Phases, SessionRec
  <2> QED
    BY <2>2, <2>3, <2>4, <2>5, <2>6 DEF TypeOK
<1> QED
  BY <1>1, Invariance, PTL

\* handleMessageReceived finds handlers for every room whose Uuid it knows: the
\* last handler of a room, and close, take the room with them.
THEOREM RoomsHaveHandlers == Spec => []RoomsAreSubscribed
<1>1. ASSUME Typed PROVE RoomsAreSubscribed
  BY <1>1, NowFields DEF RoomsAreSubscribed
<1> QED
  BY <1>1, Invariance, PTL
=============================================================================
