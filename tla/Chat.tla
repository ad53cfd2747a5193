-------------------------------- MODULE Chat --------------------------------
(***************************************************************************)
(* The chat of the web client (gui.ajax, ui/Components/chat) and the       *)
(* websocket session that serves it (gateway/websocket/chat-handler.go).   *)
(*                                                                         *)
(* Panels and icons join and leave rooms through one ChatClient.  Its      *)
(* socket reconnects by itself; a connection is usable once a token was    *)
(* sent on it.  The session keeps the rooms it broadcasts, the chat        *)
(* service keeps the users of each room, of which one is modelled.         *)
(*                                                                         *)
(* Handlers are functions from a state of the client to the next one.      *)
(***************************************************************************)
EXTENDS Naturals, Sequences, FiniteSets, SequencesExt

CONSTANTS
  Component,  \* panels and icons
  Panel,      \* components with a roomUpdateHandler, which ask for the history
  Room,
  RoomOf,     \* the room a component joins
  Created,    \* rooms that exist already
  Retries,    \* 3 in joinRoom and loadHistory
  MaxMounts,  \* bound on mounts of components
  MaxEvents   \* bound on lost connections, refused tokens and refreshes

ASSUME ChatAssumption ==
  /\ IsFiniteSet(Room) /\ Created \subseteq Room
  /\ Panel \subseteq Component /\ RoomOf \in [Component -> Room]
  /\ {MaxMounts, MaxEvents} \subseteq Nat
  /\ Retries \in Nat \ {0}

VARIABLES
  mounted,    \* components on the screen
  subs,       \* ChatClient.subscriptions: the components that handle a room
  rooms,      \* ChatClient.rooms: rooms whose Uuid is known
  connecting, \* ChatClient.connecting
  connOpen,   \* ChatClient.connOpen
  timer,      \* setTimeout: joins and history requests to try again, in this order
  socket,     \* the socket behind ws: "connecting", "open", "lost" or "closed"
  token,      \* subscribeJWT calls under way: for ws, for a former ws, and by refresh
  out,        \* messages on their way to the server
  inbox,      \* messages on their way to the client
  filled,     \* history: mounted components that were given messages
  session,    \* the server's session: whether it has a user, and its rooms
  ending,     \* closed sessions that still have messages to handle
  exists,     \* rooms of the chat service
  users,      \* rooms that list the user
  events,     \* room events of the message broker
  counts      \* bounds: mounts, cuts, refused tokens and refreshes so far

clientVars == <<mounted, subs, rooms, connecting, connOpen, timer, socket, token, out,
                inbox, filled, session, ending>>
serverVars == <<exists, users, events>>
vars == <<clientVars, serverVars, counts>>

Asking == {"ws", "former", "again"}
NoSession == [user |-> FALSE, rooms |-> {}]

\* The client has just been constructed, and opens its socket.
Init ==
  /\ mounted = {} /\ subs = [r \in Room |-> {}] /\ rooms = {}
  /\ connecting = TRUE /\ connOpen = FALSE /\ timer = <<>>
  /\ socket = "connecting" /\ token = [ws |-> 0, former |-> 0, again |-> 0]
  /\ out = <<>> /\ inbox = <<>>
  /\ filled = {} /\ session = NoSession /\ ending = {}
  /\ exists = Created /\ users = {} /\ events = {}
  /\ counts = [mounts |-> 0, cuts |-> 0, refused |-> 0, refresh |-> 0]

Now == [subs |-> subs, rooms |-> rooms, connecting |-> connecting, connOpen |-> connOpen,
        timer |-> timer, socket |-> socket, token |-> token, out |-> out, inbox |-> inbox,
        session |-> session, ending |-> ending]

Become(next) == \E u \in {next} :
  /\ subs' = u.subs /\ rooms' = u.rooms /\ connecting' = u.connecting /\ connOpen' = u.connOpen
  /\ timer' = u.timer /\ socket' = u.socket /\ token' = u.token /\ out' = u.out
  /\ inbox' = u.inbox /\ session' = u.session /\ ending' = u.ending

Message(t, r) == [t |-> t, r |-> r]
Timer(t, c, n) == [t |-> t, c |-> c, n |-> IF n > Retries THEN Retries ELSE n]

----------------------------------------------------------------------------
(***************************************************************************)
(* ChatClient.                                                             *)
(***************************************************************************)

\* ws.send; what is sent while the socket is not open is lost.
Send(u, m) == IF u.socket = "open" THEN [u EXCEPT !.out = Append(@, m)] ELSE u

\* Mutant: leaving does not forget the room.
LeaveRoomKept(u, r, handlers) ==
  LET left == u.subs[r] \ handlers
      v == [u EXCEPT !.subs[r] = left]
  IN IF left = {} /\ u.connOpen THEN Send(v, Message("leave", r)) ELSE v

\* leaveRoom.  Without a handler, or with the last one, the room is left.
LeaveRoom(u, r, handlers) ==
  LET left == u.subs[r] \ handlers
      v == [u EXCEPT !.subs[r] = left, !.rooms = IF left = {} THEN @ \ {r} ELSE @]
  IN IF left = {} /\ u.connOpen THEN Send(v, Message("leave", r)) ELSE v

Subscribed(u) == SetToSeq({r \in Room : u.subs[r] # {}})

\* A message for each subscription.
ToSubscribed(u, t) == LET s == Subscribed(u) IN [i \in DOMAIN s |-> Message(t, s[i])]

\* leaveRoom, for every subscription.
LeaveAll(u) ==
  [u EXCEPT !.subs = [r \in Room |-> {}], !.rooms = {r \in @ : u.subs[r] = {}},
            !.out = IF u.connOpen /\ u.socket = "open" THEN @ \o ToSubscribed(u, "leave") ELSE @]

\* close: rooms are left, then the socket is closed; its close event resets
\* the flags.  The session handles what it was sent, and ends.
Closed(u) ==
  LET v == LeaveAll(u)
      rest == [user |-> v.session.user, out |-> v.out]
  IN [v EXCEPT !.socket = "closed", !.connecting = FALSE, !.connOpen = FALSE,
               !.out = <<>>, !.inbox = <<>>, !.session = NoSession,
               !.ending = IF v.out = <<>> THEN @ ELSE @ \cup {rest}]

\* The first LEAVE throws when the socket is connecting: close goes no further.
Close(u) ==
  IF u.connOpen /\ u.socket = "connecting" /\ Subscribed(u) # <<>>
  THEN LeaveRoom(u, Head(Subscribed(u)), Component) ELSE Closed(u)

\* open, when connOpen is not set: a token asked for the former socket is still
\* on its way; one that refresh asked for will be sent to nobody.
Open(u) ==
  [Closed(u) EXCEPT !.socket = "connecting", !.connecting = TRUE,
                    !.token = [ws |-> 0, former |-> u.token.former + u.token.ws, again |-> 0]]

\* Mutant: the retry is not counted.
JoinRoomUncounted(u, c, n) ==
  LET r == RoomOf[c]
      later == [u EXCEPT !.timer = Append(@, Timer("join", c, n))]
  IN IF u.subs[r] # {} THEN [u EXCEPT !.subs[r] = @ \cup {c}]
     ELSE IF u.connecting /\ n < Retries THEN later
     ELSE IF ~u.connecting /\ ~u.connOpen THEN Open(later)
     ELSE Send([u EXCEPT !.subs[r] = {c}], Message("join", r))

\* joinRoom
JoinRoom(u, c, n) ==
  LET r == RoomOf[c]
      later == [u EXCEPT !.timer = Append(@, Timer("join", c, n + 1))]
  IN IF u.subs[r] # {} THEN [u EXCEPT !.subs[r] = @ \cup {c}]
     ELSE IF u.connecting /\ n < Retries THEN later
     ELSE IF ~u.connecting /\ ~u.connOpen THEN Open(later)
     ELSE Send([u EXCEPT !.subs[r] = {c}], Message("join", r))

\* loadHistory
LoadHistory(u, c, n) ==
  IF u.connecting /\ n < Retries THEN [u EXCEPT !.timer = Append(@, Timer("history", c, n + 1))]
  ELSE Send(u, Message("history", RoomOf[c]))

----------------------------------------------------------------------------
(***************************************************************************)
(* Components.                                                             *)
(***************************************************************************)

Counted(what) == counts' = [counts EXCEPT ![what] = @ + 1]
Happens(what) == counts.cuts + counts.refused + counts.refresh < MaxEvents /\ Counted(what)

\* joinRoom throws when it sends on a socket that is connecting: a panel then
\* does not go on to ask for the history.
Throws(u, v) == v.subs # u.subs /\ v.timer = u.timer /\ u.socket = "connecting"

\* componentDidMount of Chat and ChatIcon.  (A panel that is given another room
\* leaves the one and joins the other: two components here.)
Mount(c) ==
  /\ c \notin mounted /\ counts.mounts < MaxMounts /\ Counted("mounts")
  /\ LET joined == JoinRoom(Now, c, 0)
     IN Become(IF c \in Panel /\ ~Throws(Now, joined) THEN LoadHistory(joined, c, 0) ELSE joined)
  /\ mounted' = mounted \cup {c} /\ filled' = filled \ {c}
  /\ UNCHANGED serverVars

\* componentWillUnmount; timers are not cleared.
Unmount(c) ==
  /\ c \in mounted
  /\ Become(LeaveRoom(Now, RoomOf[c], {c}))
  /\ mounted' = mounted \ {c} /\ filled' = filled \ {c}
  /\ UNCHANGED <<serverVars, counts>>

Quiet == UNCHANGED <<mounted, filled, serverVars, counts>>

\* setTimeout: all of them wait 1.5 s, so the first fires first.
Fire ==
  /\ timer # <<>>
  /\ LET t == Head(timer)
         u == [Now EXCEPT !.timer = Tail(@)]
     IN Become(IF t.t = "join" THEN JoinRoom(u, t.c, t.n) ELSE LoadHistory(u, t.c, t.n))
  /\ Quiet

\* repository_list_refreshed: without a repository, or with one.
Refresh ==
  /\ Happens("refresh")
  /\ \/ Become(Close(Now))
     \/ ~connOpen /\ Become(Open(Now))
     \/ connOpen /\ Become([Now EXCEPT !.token.again = @ + 1])
  /\ UNCHANGED <<mounted, filled, serverVars>>

\* heartbeat, every 15 s: what was sent before has arrived.
Heartbeat ==
  /\ socket = "open" /\ out = <<>>
  /\ Subscribed(Now) # <<>>
  /\ Become([Now EXCEPT !.out = @ \o ToSubscribed(Now, "ping")])
  /\ Quiet

----------------------------------------------------------------------------
(***************************************************************************)
(* The socket.                                                             *)
(***************************************************************************)

\* The open event: a token is asked for.
SocketOpens ==
  /\ socket = "connecting"
  /\ Become([Now EXCEPT !.socket = "open", !.token.ws = @ + 1])
  /\ Quiet

\* The connection is lost, or not established; the session ends.
Cut ==
  /\ socket \in {"connecting", "open"} /\ Happens("cuts")
  /\ Become([Now EXCEPT !.socket = "lost", !.connecting = FALSE, !.connOpen = FALSE,
                        !.out = <<>>, !.inbox = <<>>, !.session = NoSession])
  /\ UNCHANGED <<mounted, filled, serverVars>>

\* ReconnectingWebSocket tries again; the flags are not touched.
Reconnect ==
  /\ socket = "lost" /\ Become([Now EXCEPT !.socket = "connecting"]) /\ Quiet

\* The subscription is sent on the socket it was meant for, whatever its state;
\* sending throws when it is connecting.  Only open looks at the outcome.
TokenArrives(which) ==
  /\ token[which] > 0
  /\ LET u == [Now EXCEPT !.token[which] = @ - 1]
         v == [u EXCEPT !.connecting = FALSE, !.connOpen = which = "former" \/ socket # "connecting"]
         subscribe == Message("subscribe", "")
     IN Become(CASE which = "ws" -> Send(v, subscribe)
                 [] which = "former" -> v
                 [] which = "again" -> Send(u, subscribe))
  /\ Quiet

TokenRefused(which) ==
  /\ token[which] > 0 /\ Happens("refused")
  /\ LET u == [Now EXCEPT !.token[which] = @ - 1]
     IN Become(IF which = "again" THEN u
               ELSE [u EXCEPT !.connecting = FALSE, !.connOpen = FALSE])
  /\ UNCHANGED <<mounted, filled, serverVars>>

----------------------------------------------------------------------------
(***************************************************************************)
(* The server.                                                             *)
(***************************************************************************)

\* The user enters or leaves the room: it is put, and published when changed.
SetUser(r, in) ==
  /\ users' = IF in THEN users \cup {r} ELSE users \ {r}
  /\ events' = IF in = (r \in users) THEN events ELSE events \cup {r}

\* findOrCreateRoom: a ping does not create the room.
Found(m) == m.r \in exists \/ m.t = "join"

\* Mutant: a ping does not put the user back.
HandledPingIgnored(user, m) ==
  \/ /\ user /\ m.t \in {"join", "leave"} /\ Found(m)
     /\ exists' = exists \cup {m.r} /\ SetUser(m.r, m.t # "leave")
  \/ /\ ~user \/ m.t \in {"subscribe", "history", "ping"} \/ ~Found(m)
     /\ UNCHANGED serverVars

\* HandleMessage, as far as the chat service is concerned.
Handled(user, m) ==
  \/ /\ user /\ m.t \in {"join", "ping", "leave"} /\ Found(m)
     /\ exists' = exists \cup {m.r} /\ SetUser(m.r, m.t # "leave")
  \/ /\ ~user \/ m.t \in {"subscribe", "history"} \/ ~Found(m)
     /\ UNCHANGED serverVars

\* Mutant: a ping does not put the room in the session.
InSessionPingIgnored(s, m) ==
  IF m.t = "subscribe" THEN [s EXCEPT !.user = TRUE]
  ELSE IF ~s.user \/ ~Found(m) \/ m.t \in {"history", "ping"} THEN s
  ELSE [s EXCEPT !.rooms = IF m.t = "leave" THEN @ \ {m.r} ELSE @ \cup {m.r}]

\* The session after the message.
InSession(s, m) ==
  IF m.t = "subscribe" THEN [s EXCEPT !.user = TRUE]
  ELSE IF ~s.user \/ ~Found(m) \/ m.t = "history" THEN s
  ELSE [s EXCEPT !.rooms = IF m.t = "leave" THEN @ \ {m.r} ELSE @ \cup {m.r}]

HandleMessage ==
  /\ out # <<>>
  /\ LET m == Head(out)
         answers == m.t = "history" /\ session.user /\ Found(m)
     IN /\ Handled(session.user, m)
        /\ Become([Now EXCEPT !.out = Tail(@), !.session = InSession(@, m),
                              !.inbox = IF answers THEN Append(@, m) ELSE @])
  /\ UNCHANGED <<mounted, filled, counts>>

\* The same, of a session whose socket was closed.
HandleEnding(e) ==
  /\ e \in ending
  /\ LET m == Head(e.out)
         rest == [user |-> e.user \/ m.t = "subscribe", out |-> Tail(e.out)]
     IN /\ Handled(e.user, m)
        /\ Become([Now EXCEPT !.ending = (@ \ {e}) \cup IF rest.out = <<>> THEN {} ELSE {rest}])
  /\ UNCHANGED <<mounted, filled, counts>>

Pinging == socket = "open" /\ session.user /\ \E r \in exists : subs[r] # {}

\* The heartbeater removes the user after 20 s without a JOIN.
HeartbeatLost ==
  /\ users # {} /\ ~Pinging
  /\ users' = {} /\ events' = events \cup users
  /\ UNCHANGED <<clientVars, exists, counts>>

\* BroadcastChatMessage, of a room.
Broadcast(r) ==
  /\ r \in events /\ events' = events \ {r}
  /\ Become(IF r \in session.rooms THEN [Now EXCEPT !.inbox = Append(@, Message("update", r))] ELSE Now)
  /\ UNCHANGED <<mounted, filled, exists, users, counts>>

\* handleMessageReceived.  Messages of rooms whose Uuid is not known are
\* ignored; panels have precedence over icons.
HandleMessageReceived ==
  /\ inbox # <<>>
  /\ LET m == Head(inbox)
         u == [Now EXCEPT !.inbox = Tail(@)]
         open == subs[m.r] \cap Panel
     IN \/ /\ m.t = "update"
           /\ Become(IF subs[m.r] # {} THEN [u EXCEPT !.rooms = @ \cup {m.r}] ELSE u)
           /\ UNCHANGED filled
        \/ /\ m.t = "history" /\ Become(u)
           /\ filled' = IF m.r \notin rooms THEN filled
                        ELSE filled \cup (mounted \cap IF open # {} THEN open ELSE subs[m.r])
  /\ UNCHANGED <<mounted, serverVars, counts>>

----------------------------------------------------------------------------

Users == Refresh \/ \E c \in Component : Mount(c) \/ Unmount(c)
Faults == Cut \/ \E which \in Asking : TokenRefused(which)
Tokens == \E which \in Asking : TokenArrives(which)
Endings == \E e \in ending : HandleEnding(e)
Broadcasts == \E r \in events : Broadcast(r)
Sockets == SocketOpens \/ Reconnect

Next ==
  \/ Users \/ Faults \/ Fire \/ Heartbeat \/ Sockets \/ Tokens
  \/ HandleMessage \/ Endings \/ HeartbeatLost \/ Broadcasts \/ HandleMessageReceived

\* Timers fire, the socket connects in the end, requests are answered, and
\* each goroutine of the server goes on; users and faults owe nothing.
Fairness ==
  /\ WF_vars(Fire) /\ WF_vars(Heartbeat) /\ WF_vars(Sockets) /\ WF_vars(Tokens)
  /\ WF_vars(HandleMessage) /\ WF_vars(Endings) /\ WF_vars(HeartbeatLost)
  /\ WF_vars(Broadcasts) /\ WF_vars(HandleMessageReceived)

Spec == Init /\ [][Next]_vars /\ Fairness

----------------------------------------------------------------------------
(***************************************************************************)
(* Properties.                                                             *)
(***************************************************************************)

Messages == [t : {"join", "ping", "leave", "history", "update"}, r : Room]
            \cup {Message("subscribe", "")}

\* The type invariant.
TypeOK ==
  /\ mounted \subseteq Component /\ filled \subseteq mounted
  /\ subs \in [Room -> SUBSET Component] /\ rooms \subseteq Room
  /\ {connecting, connOpen} \subseteq BOOLEAN
  /\ timer \in Seq([t : {"join", "history"}, c : Component, n : 1..Retries])
  /\ socket \in {"connecting", "open", "lost", "closed"}
  /\ token \in [Asking -> Nat]
  /\ out \in Seq(Messages) /\ inbox \in Seq(Messages)
  /\ session \in [user : BOOLEAN, rooms : SUBSET Room]
  /\ \A e \in ending : e.user \in BOOLEAN /\ e.out \in Seq(Messages) /\ e.out # <<>>
  /\ users \subseteq exists /\ exists \subseteq Room /\ events \subseteq Room

\* A room whose Uuid is known has handlers, on which handleMessageReceived
\* relies, however joins, leaves and reconnections follow each other.
RoomsAreSubscribed == \A r \in rooms : subs[r] # {}

Serves(r) == socket = "open" /\ r \in session.rooms

\* The client takes its socket for open although it closed it: a token that
\* was asked for before arrived after.
Deceived == connOpen /\ socket = "closed"

\* A token that refresh asked for before the connection was lost is sent on the
\* next one before its own: the server hears pings of a client that does not
\* take itself for connected, and sends no LEAVE.
Overtaken == session.user /\ ~connOpen

\* When the network calms down and the token is obtained, the session serves
\* the rooms that are subscribed to, and no other: lost joins and leaves, those
\* of closed sockets, and sockets that reconnect by themselves are made up for.
SessionFollows ==
  []~Overtaken =>
  <>[](\/ counts.refused > 0 \/ Deceived
       \/ \A r \in exists : Serves(r) <=> subs[r] # {})

\* The user is listed in these rooms in the end, though a LEAVE sent on the
\* former socket may be handled after the JOIN sent on the new one.
UserIsListed ==
  <>[](\/ counts.refused > 0 \/ Deceived
       \/ \A r \in exists : subs[r] # {} => r \in users)

\* The user is not listed in other rooms.
NoGhost == <>[](counts.refused > 0 \/ \A r \in users : subs[r] # {})

\* The client is never deceived.
NeverDeceived == ~Deceived

\* A mounted component is subscribed to its room in the end.
MountedIsSubscribed ==
  \A c \in Component : <>[](c \in mounted => c \in subs[RoomOf[c]])

\* Only mounted components are.
OnlyMounted == <>[](\A r \in Room : subs[r] \subseteq mounted)

\* A panel that stays gets its history in the end.
PanelIsFilled == \A c \in Panel : <>[](c \in mounted => c \in filled)

\* HISTORY arrives after a JOIN message.
HistoryAfterJoin ==
  out # <<>> /\ Head(out).t = "history" /\ session.user => Head(out).r \in session.rooms
=============================================================================
