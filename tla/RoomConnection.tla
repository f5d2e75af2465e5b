--------------------------- MODULE RoomConnection ---------------------------
(***************************************************************************)
(* The browser's connection to a room: services/websocket.ts and           *)
(* services/roomService.ts, with the server reduced to what they rely on.  *)
(*                                                                         *)
(* JavaScript runs one callback at a time, so an action is a callback with *)
(* everything it calls: a socket event, a timer, a user's click, a promise *)
(* that settles.  A socket that the service has given up lives on until    *)
(* its close event, and its callbacks still change the service's fields.   *)
(*                                                                         *)
(* A message is a join, a leave or a numbered update, made for a room.     *)
(* With Encrypted the server delivers a room's key after a join.  Frames   *)
(* are opened in the order of their arrival (inboundChain), but sealed     *)
(* each on its own.  A pong is taken to arrive before the next ping.       *)
(***************************************************************************)
EXTENDS Naturals, FiniteSets, Sequences, SequencesExt

CONSTANTS
  Rooms,
  Sockets,       \* WebSocket objects; one may be used again after its close event
  None,
  Encrypted,     \* TRUE when the server encrypts rooms
  Hasty,         \* TRUE: joins do not wait for the end of an earlier connection or join,
                 \* and a socket may close while frames of it are still being opened
  MaxAttempts,   \* config.maxReconnectAttempts
  MaxQueue,      \* maxQueueSize
  MaxEvents,     \* bound: joins, leaves, forced reconnects and silent losses of the network
  MaxUpdates     \* bound: updates in a behaviour

ASSUME ConnectionAssumption ==
  /\ None \notin Rooms \cup Sockets
  /\ {Encrypted, Hasty} \subseteq BOOLEAN
  /\ {MaxAttempts, MaxQueue} \subseteq Nat \ {0} /\ {MaxEvents, MaxUpdates} \subseteq Nat

VARIABLES
  ready,      \* readyState of each socket
  lost,       \* sockets whose network is gone without notice
  waiting,    \* what goes on when the promise of connect() for a socket settles
  svc,        \* the fields of WebSocketService
  room,       \* the fields of RoomService
  sealing,    \* messages that are being encrypted
  inbound,    \* inboundChain
  up,         \* messages on their way to the server
  member,     \* server: the room of each connection
  applied,    \* history: the updates applied by the server, with the room
  updates,    \* updates made so far
  events,     \* joins, leaves, forced reconnects and silent losses so far
  overlap     \* history: "now" when a failed join is tried again before the socket of
              \* an earlier one has come to its end, "before" once all have ended

client == <<svc, room, sealing, inbound, waiting>>
server == <<up, member, applied>>
history == <<events, overlap>>
rvars  == <<ready, lost, client, server, updates, history>>

Kinds == {"join", "leave", "update"}
Message(kind, r, n) == [kind |-> kind, room |-> r, n |-> n]
Messages == [kind : Kinds, room : Rooms, n : 0..MaxUpdates]
Frames == [kind : {"key", "state", "error"}, room : Rooms, sealed : BOOLEAN]

-----------------------------------------------------------------------------
(* WebSocketService.  w is svc, somewhere in a callback.                    *)

\* isConnected.
Open(w, rdy) == w.ws # None /\ rdy[w.ws] = "open"

\* Mutant of Queued: nothing makes room.
QueuedUnbounded(w, m) == [w EXCEPT !.queue = Append(@, m)]

\* queueMessage: the oldest makes room.
Queued(w, m) ==
  [w EXCEPT !.queue = Append(IF Len(@) >= MaxQueue THEN Tail(@) ELSE @, m)]

\* flushMessageQueue while no message can be sent: send queues it again, and so
\* does the caller.
QueuedTwice(w) ==
  LET again == FoldLeft(LAMBDA q, m : q \o <<m, m>>, <<>>, w.queue)
  IN [w EXCEPT !.queue = SubSeq(again, Len(again) - (IF Len(again) < MaxQueue THEN Len(again) ELSE MaxQueue) + 1, Len(again))]

\* send, while the socket is open: a message is encrypted once there is a key,
\* except that a join is sent in plaintext.
Send(w, m) ==
  LET sealed == w.key # None /\ m.kind # "join"
  IN /\ up' = IF sealed THEN up ELSE [up EXCEPT ![w.ws] = Append(@, m)]
     /\ sealing' = IF sealed THEN sealing \cup {[socket |-> w.ws, room |-> w.key, message |-> m]}
                             ELSE sealing

\* The same for one message after the other.
SendAll(w, ms) ==
  /\ up' = [up EXCEPT ![w.ws] = @ \o
       IF w.key = None THEN ms ELSE SelectSeq(ms, LAMBDA m : m.kind = "join")]
  /\ sealing' = sealing \cup {[socket |-> w.ws, room |-> w.key, message |-> m] :
                                m \in {m \in ToSet(ms) : w.key # None /\ m.kind # "join"}}
SendNothing == UNCHANGED <<up, sealing>>

\* An interval that is running already is forgotten, not cleared.
StartHeartbeat(w) == [w EXCEPT !.leaked = @ \/ w.heart, !.heart = TRUE, !.silence = 0]
StopHeartbeat(w) == [w EXCEPT !.heart = FALSE, !.silence = IF w.leaked THEN @ ELSE 0]

CancelReconnect(w) == [w EXCEPT !.timer = FALSE]

\* scheduleReconnect; a timer that is pending already is forgotten, not cancelled.
ScheduleReconnect(w) ==
  IF w.manual \/ w.attempts >= MaxAttempts
    THEN w
    ELSE [w EXCEPT !.state = "reconnecting", !.attempts = @ + 1,
                   !.stray = @ \/ w.timer, !.timer = TRUE]

\* Sockets for the next WebSocket object.
Free == {s \in Sockets : /\ ready[s] \in {"new", "closed"} /\ waiting[s] = None
                         /\ up[s] = <<>> /\ member[s] = None
                         /\ \A x \in sealing : x.socket # s}

\* connect, up to the events of the new socket s.
Connecting(w, s) == [w EXCEPT !.manual = FALSE, !.state = "connecting", !.ws = s]

\* disconnect.
Disconnected(w) ==
  [StopHeartbeat(CancelReconnect(w)) EXCEPT
     !.manual = TRUE, !.ws = None, !.state = "disconnected", !.attempts = 0]
Closing(rdy, s) == IF s = None \/ rdy[s] = "closed" THEN rdy ELSE [rdy EXCEPT ![s] = "closing"]

-----------------------------------------------------------------------------
(* The events.  Rooms are joined by the panel, by the invitation dialog and *)
(* by two effects that run when the page has a ?room= parameter.            *)

Ended(rdy) == \A s \in Sockets : rdy[s] \in {"new", "closed"}
Settled == inbound = <<>> /\ Ended(ready)

Event == events < MaxEvents /\ events' = events + 1

Left == [room |-> None, connected |-> FALSE, shown |-> None]

\* A join has failed, and the button is there to try again, whatever the service
\* does meanwhile: it goes on with reconnecting, to no room.
JoinFailed == room.room = None /\ ~svc.manual /\ \A s \in Sockets : waiting[s] = None

\* connect opens a socket and lets go of the one before without closing it.
Overlaps == room.room = None /\ ~Ended(ready)

\* leaveRoom: leave_room is sent, or queued, if the room is taken for connected.
AfterLeave ==
  Disconnected(IF room.connected /\ ~Open(svc, ready)
                 THEN Queued(svc, Message("leave", room.room, 0)) ELSE svc)
SendLeave ==
  IF room.connected /\ Open(svc, ready) THEN Send(svc, Message("leave", room.room, 0))
                                         ELSE SendNothing

\* joinRoom, up to its await; a room that was joined before is left.
JoinRoom(r) ==
  /\ ~(room.room = r /\ room.connected)
  /\ Hasty \/ JoinFailed \/ (Settled /\ svc.state = "disconnected")
  /\ Event
  /\ \E s \in Free :
       /\ waiting' = [waiting EXCEPT ![s] = r]
       /\ lost' = lost \ {s}
       /\ IF room.room = None
            THEN /\ svc' = Connecting(svc, s)
                 /\ ready' = [ready EXCEPT ![s] = "connecting"]
                 /\ SendNothing
            ELSE /\ svc' = Connecting(AfterLeave, s)
                 /\ ready' = [Closing(ready, svc.ws) EXCEPT ![s] = "connecting"]
                 /\ SendLeave
  /\ room' = Left
  /\ overlap' = IF Overlaps THEN "now" ELSE overlap
  /\ UNCHANGED <<inbound, member, applied, updates>>

LeaveRoom ==
  /\ room.room # None
  /\ Event
  /\ svc' = AfterLeave
  /\ ready' = Closing(ready, svc.ws)
  /\ SendLeave
  /\ room' = Left
  /\ UNCHANGED <<lost, waiting, inbound, member, applied, updates, overlap>>

\* Mutant of ForceReconnect: the button is there all the time.
ForceReconnectAnytime ==
  /\ svc.state # "disconnected"
  /\ room.room # None
  /\ Event
  /\ \E s \in Free :
       /\ svc' = Connecting([CancelReconnect(svc) EXCEPT !.attempts = 0], s)
       /\ waiting' = [waiting EXCEPT ![s] = "reconnect"]
       /\ ready' = [ready EXCEPT ![s] = "connecting"]
       /\ lost' = lost \ {s}
  /\ room' = [room EXCEPT !.connected = FALSE]
  /\ UNCHANGED <<sealing, inbound, up, member, applied, updates, overlap>>

\* reconnect, up to its await: the button is there while reconnecting.
ForceReconnect ==
  /\ svc.state = "reconnecting"
  /\ room.room # None
  /\ Event
  /\ \E s \in Free :
       /\ svc' = Connecting([CancelReconnect(svc) EXCEPT !.attempts = 0], s)
       /\ waiting' = [waiting EXCEPT ![s] = "reconnect"]
       /\ ready' = [ready EXCEPT ![s] = "connecting"]
       /\ lost' = lost \ {s}
  /\ room' = [room EXCEPT !.connected = FALSE]
  /\ UNCHANGED <<sealing, inbound, up, member, applied, updates, overlap>>

\* elementSyncService.flushChanges.
Update ==
  /\ room.room # None
  /\ updates < MaxUpdates
  /\ updates' = updates + 1
  /\ LET m == Message("update", room.room, updates + 1)
     IN IF Open(svc, ready) THEN Send(svc, m) /\ UNCHANGED svc
                            ELSE SendNothing /\ svc' = Queued(svc, m)
  /\ UNCHANGED <<ready, lost, waiting, room, inbound, member, applied, history>>

-----------------------------------------------------------------------------
(* Socket events and timers. *)

\* Mutant of Opened: no heartbeat after a reconnect.
OpenedOnly(w) == IF w.attempts > 0 THEN [w EXCEPT !.state = "connected", !.attempts = 0]
                 ELSE StartHeartbeat([w EXCEPT !.state = "connected"])

\* onopen, as far as the service's own fields go.
Opened(w) == StartHeartbeat([w EXCEPT !.state = "connected", !.attempts = 0])

\* flushMessageQueue: a queue that cannot be sent becomes a queue of twins.
Flushed(w, sends) == IF sends THEN [w EXCEPT !.queue = <<>>] ELSE QueuedTwice(w)

\* Queued, for one message or none.
QueuedIf(w, ms) == IF ms = <<>> THEN w ELSE Queued(w, Head(ms))

\* The listener of connection changes rejoins the room if attempts are counted.
Rejoin(w) ==
  IF room.room # None /\ w.attempts > 0 THEN <<Message("join", room.room, 0)>> ELSE <<>>

\* Then joinRoom or reconnect goes on with its join_room.
JoinAfter(s) ==
  LET r == IF waiting[s] \in Rooms THEN waiting[s] ELSE room.room
  IN IF waiting[s] = None \/ r = None THEN <<>> ELSE <<Message("join", r, 0)>>

\* onopen.
OnOpen(s) ==
  /\ ready[s] = "connecting"
  /\ ready' = [ready EXCEPT ![s] = "open"]
  /\ waiting' = [waiting EXCEPT ![s] = None]
  /\ LET sends == Open(svc, ready')
         again == Rejoin(Opened(svc))
         w == Flushed(Opened(svc), sends)
     IN /\ IF sends
             THEN SendAll(svc, svc.queue \o again \o JoinAfter(s)) /\ svc' = w
             ELSE SendNothing /\ svc' = QueuedIf(QueuedIf(w, again), JoinAfter(s))
        /\ room' = IF waiting[s] \notin Rooms
                     THEN [room EXCEPT !.connected = @ \/ room.room # None]
                     ELSE IF sends THEN [room EXCEPT !.room = waiting[s], !.connected = TRUE]
                                   ELSE [room EXCEPT !.connected = FALSE, !.shown = "error"]
  /\ UNCHANGED <<lost, inbound, member, applied, updates, history>>

\* Mutant of Dropped: the key is kept.
DroppedKey(w) == ScheduleReconnect([StopHeartbeat(w) EXCEPT !.state = "disconnected"])

\* onclose, as far as the service's own fields go.
Dropped(w) ==
  ScheduleReconnect([StopHeartbeat(w) EXCEPT !.key = None, !.state = "disconnected"])

\* Mutant of OnClose: the promise of connect() is never rejected.
OnCloseSilently(s) ==
  /\ ready[s] \in {"connecting", "open", "closing"}
  /\ Hasty \/ inbound = <<>>
  /\ ready' = [ready EXCEPT ![s] = "closed"]
  /\ lost' = lost \ {s}
  /\ svc' = Dropped(svc)
  /\ room' = [room EXCEPT !.connected = FALSE]
  /\ overlap' = IF overlap = "now" /\ Ended(ready') THEN "before" ELSE overlap
  /\ UNCHANGED <<waiting, sealing, inbound, server, updates, events>>

\* onclose, preceded by onerror when the connection was refused or broke; a
\* promise that has not settled is rejected.
OnClose(s) ==
  /\ ready[s] \in {"connecting", "open", "closing"}
  /\ Hasty \/ inbound = <<>>
  /\ ready' = [ready EXCEPT ![s] = "closed"]
  /\ lost' = lost \ {s}
  /\ svc' = Dropped(svc)
  /\ room' = [room EXCEPT !.connected = FALSE, !.shown = IF waiting[s] = None THEN @ ELSE "error"]
  /\ waiting' = [waiting EXCEPT ![s] = None]
  /\ overlap' = IF overlap = "now" /\ Ended(ready') THEN "before" ELSE overlap
  /\ UNCHANGED <<sealing, inbound, server, updates, events>>

\* The network goes away without notice.
NetworkDies(s) ==
  /\ ready[s] = "open"
  /\ Event
  /\ lost' = lost \cup {s}
  /\ UNCHANGED <<ready, client, server, updates, overlap>>

\* The callback of a reconnect timer; a stray one cannot be cancelled.
ReconnectTimer ==
  /\ svc.timer \/ svc.stray
  /\ LET w == IF svc.timer THEN [svc EXCEPT !.timer = FALSE] ELSE [svc EXCEPT !.stray = FALSE]
     IN IF ~svc.manual /\ svc.state = "reconnecting"
          THEN \E s \in Free :
                 /\ svc' = Connecting(w, s)
                 /\ ready' = [ready EXCEPT ![s] = "connecting"]
                 /\ lost' = lost \ {s}
          ELSE svc' = w /\ UNCHANGED <<ready, lost>>
  /\ UNCHANGED <<waiting, room, sealing, inbound, server, updates, history>>

\* timeSinceLastPong > timeout + interval, both 10 s, is true for the first time
\* when the timer of the second ping without a pong runs out, at the third.
PongsMissing == 3

\* A round of the heartbeat: a ping, its pong if the network is there, and the
\* timeout of the ping before.
Heartbeat ==
  /\ svc.heart \/ svc.leaked
  /\ Open(svc, ready)
  /\ LET n == IF svc.ws \in lost THEN svc.silence + 1 ELSE 0
     IN /\ svc' = [svc EXCEPT !.silence = IF n < 3 THEN n ELSE 3]
        /\ ready' = IF n >= PongsMissing THEN Closing(ready, svc.ws) ELSE ready
  /\ UNCHANGED <<lost, waiting, room, sealing, inbound, server, updates, history>>

\* Mutant of SealDone: the message goes to the socket of the moment.
SealDoneLate ==
  \E x \in sealing :
    /\ sealing' = sealing \ {x}
    /\ up' = IF Open(svc, ready) THEN [up EXCEPT ![svc.ws] = Append(@, x.message)] ELSE up
    /\ UNCHANGED <<ready, lost, svc, room, inbound, waiting, member, applied, updates, history>>

\* A message has been encrypted; a socket that is closing discards it.
SealDone ==
  \E x \in sealing :
    /\ sealing' = sealing \ {x}
    /\ up' = IF ready[x.socket] = "open" THEN [up EXCEPT ![x.socket] = Append(@, x.message)] ELSE up
    /\ UNCHANGED <<ready, lost, svc, room, inbound, waiting, member, applied, updates, history>>

\* encryption_handshake arms the connection; a sealed frame can be opened with
\* the key of its room only, and is dropped otherwise.
Armed(w, f) == IF f.kind = "key" THEN [w EXCEPT !.key = f.room] ELSE w
Readable(w, f) == f.sealed => w.key = f.room

\* handleMessage, with roomService's handler of room_state.
Handled(f) ==
  IF f.kind = "key" THEN room
  ELSE [room EXCEPT !.shown = IF f.kind = "state" THEN f.room ELSE "error"]

\* processInbound, for the next frame of the chain.
ProcessInbound ==
  /\ inbound # <<>>
  /\ inbound' = Tail(inbound)
  /\ LET f == Head(inbound)
     IN /\ svc' = Armed(svc, f)
        /\ room' = IF Readable(svc, f) THEN Handled(f) ELSE room
  /\ UNCHANGED <<ready, lost, waiting, sealing, server, updates, history>>

-----------------------------------------------------------------------------
(* The server's handling of a connection, reduced. *)

Frame(kind, r, sealed) == [kind |-> kind, room |-> r, sealed |-> sealed]

\* What is written in one go is one frame, and not JSON.
Junk(r) == Frame("error", r, FALSE)

\* The frames that answer a join which is accepted: the room's key and its
\* state, either of which may have been written in one go with what follows it.
Answers(r) ==
  IF Encrypted
    THEN {<<Frame("key", r, FALSE), Frame("state", r, TRUE)>>,
          <<Frame("key", r, FALSE), Junk(r)>>, <<Junk(r)>>}
    ELSE {<<Frame("state", r, FALSE)>>, <<Junk(r)>>}

\* The frames that answer one which is refused: the room is full, or asks for a
\* password or an account.  A member of a room gets the answer under its key.
Refusals(s, r) ==
  {<<Junk(r)>>, IF Encrypted /\ member[s] # None THEN <<Frame("error", member[s], TRUE)>>
                                                 ELSE <<Frame("error", r, FALSE)>>}

\* A message of connection s is handled; the answer arrives if the socket is
\* still open.
ServerHandles(s) ==
  /\ up[s] # <<>>
  /\ s \notin lost
  /\ up' = [up EXCEPT ![s] = Tail(@)]
  /\ LET m == Head(up[s])
         Answered(frames) == inbound' = IF ready[s] = "open" THEN inbound \o frames ELSE inbound
     IN \/ /\ m.kind = "join"
           /\ \E frames \in Answers(m.room) : Answered(frames)
           /\ member' = [member EXCEPT ![s] = m.room]
           /\ UNCHANGED applied
        \/ /\ m.kind = "join"
           /\ \E frames \in Refusals(s, m.room) : Answered(frames)
           /\ UNCHANGED <<member, applied>>
        \/ /\ m.kind = "leave"
           /\ member' = [member EXCEPT ![s] = None]
           /\ UNCHANGED <<inbound, applied>>
        \/ /\ m.kind = "update"
           /\ applied' = IF member[s] = None THEN applied
                         ELSE Append(applied, [n |-> m.n, of |-> m.room, in |-> member[s]])
           /\ UNCHANGED <<inbound, member>>
  /\ UNCHANGED <<ready, lost, svc, room, sealing, waiting, updates, history>>

\* The server learns that a connection is gone; what it had not read is lost.
ServerDrops(s) ==
  /\ ready[s] = "closed"
  /\ up[s] # <<>> \/ member[s] # None
  /\ up' = [up EXCEPT ![s] = <<>>]
  /\ member' = [member EXCEPT ![s] = None]
  /\ UNCHANGED <<ready, lost, client, applied, updates, history>>

-----------------------------------------------------------------------------

Init ==
  /\ ready = [s \in Sockets |-> "new"]
  /\ lost = {}
  /\ waiting = [s \in Sockets |-> None]
  /\ svc = [ws |-> None, state |-> "disconnected", attempts |-> 0, manual |-> FALSE,
            timer |-> FALSE, stray |-> FALSE, heart |-> FALSE, leaked |-> FALSE,
            silence |-> 0, key |-> None, queue |-> <<>>]
  /\ room = Left
  /\ sealing = {} /\ inbound = <<>>
  /\ up = [s \in Sockets |-> <<>>]
  /\ member = [s \in Sockets |-> None]
  /\ applied = <<>> /\ updates = 0 /\ events = 0 /\ overlap = "never"

Next ==
  \/ \E r \in Rooms : JoinRoom(r)
  \/ LeaveRoom \/ ForceReconnect \/ Update
  \/ ReconnectTimer \/ Heartbeat \/ SealDone \/ ProcessInbound
  \/ \E s \in Sockets :
       OnOpen(s) \/ OnClose(s) \/ NetworkDies(s) \/ ServerHandles(s) \/ ServerDrops(s)

Spec == Init /\ [][Next]_rvars

\* Timers fire, encryption ends, a connection attempt or the closing of a
\* socket comes to an end, and the server reads what arrives.
Fairness ==
  /\ WF_rvars(ReconnectTimer) /\ WF_rvars(Heartbeat)
  /\ WF_rvars(SealDone) /\ WF_rvars(ProcessInbound)
  /\ \A s \in Sockets :
       /\ WF_rvars(ready[s] # "open" /\ (OnOpen(s) \/ OnClose(s)))
       /\ WF_rvars(ServerHandles(s)) /\ WF_rvars(ServerDrops(s))

FairSpec == Spec /\ Fairness

-----------------------------------------------------------------------------
(* Properties. *)

ConnTypeOK ==
  /\ ready \in [Sockets -> {"new", "connecting", "open", "closing", "closed"}]
  /\ lost \subseteq {s \in Sockets : ready[s] \in {"open", "closing"}}
  /\ waiting \in [Sockets -> Rooms \cup {None, "reconnect"}]
  /\ svc \in [ws : Sockets \cup {None}, state : {"disconnected", "connecting", "connected", "reconnecting"},
              attempts : 0..MaxAttempts, manual : BOOLEAN, timer : BOOLEAN, stray : BOOLEAN,
              heart : BOOLEAN, leaked : BOOLEAN, silence : 0..3, key : Rooms \cup {None}, queue : Seq(Messages)]
  /\ Len(svc.queue) <= MaxQueue
  /\ room \in [room : Rooms \cup {None}, connected : BOOLEAN, shown : Rooms \cup {None, "error"}]
  /\ sealing \subseteq [socket : Sockets, room : Rooms, message : Messages]
  /\ inbound \in Seq(Frames)
  /\ up \in [Sockets -> Seq(Messages)]
  /\ member \in [Sockets -> Rooms \cup {None}]
  /\ applied \in Seq([n : 1..MaxUpdates, of : Rooms, in : Rooms])
  /\ updates \in 0..MaxUpdates
  /\ events \in 0..MaxEvents
  /\ overlap \in {"never", "now", "before"}

\* The service holds one connection at a time: what it sends and what the
\* server sends it travel on the same socket.
OneConnection ==
  overlap = "now" \/ Cardinality({s \in Sockets : ready[s] \in {"connecting", "open"}}) <= 1

\* An update made in one room is never applied in another, though the server
\* looks at the connection and not at the message, and messages are kept
\* across connections.  And none is applied twice.
UpdatesGoHome ==
  \/ overlap # "never"
  \/ /\ \A i \in DOMAIN applied : applied[i].of = applied[i].in
     /\ \A i, j \in DOMAIN applied : applied[i].n = applied[j].n => i = j

\* What is sent is sealed with the key of the room the client is in.
KeyMatches ==
  overlap = "never" /\ Open(svc, ready) /\ svc.key # None /\ room.room # None => svc.key = room.room

\* joinRoom and reconnect come back.
JoinsSettle == \A s \in Sockets : waiting[s] # None ~> waiting[s] = None

\* A user who joins a room is shown it, unless the connection ends; and a
\* connection that went silently does end.
JoinedIsShown ==
  \A s \in Sockets, r \in Rooms :
    waiting[s] = r ~> room.shown \in {r, "error"} \/ ready[s] \in {"closing", "closed"} \/ overlap = "now"

\* "Auto re-join room on WebSocket reconnect": a client that is told to be in
\* a room is a member of it, or becomes one, or learns otherwise.
Rejoins ==
  \A r \in Rooms : room.room = r /\ room.connected
                     ~> \/ svc.ws # None /\ member[svc.ws] = r
                        \/ room.room # r \/ ~room.connected
=============================================================================
