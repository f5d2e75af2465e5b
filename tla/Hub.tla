-------------------------------- MODULE Hub --------------------------------
(***************************************************************************)
(* The WebSocket hub of internal/websocket/handler.go: who is connected,   *)
(* who is in which room, and who is told.  Every connection has a goroutine *)
(* readPump, which runs the handlers of its messages one after the other,  *)
(* and a goroutine writePump, which empties the connection's Send channel. *)
(* h.mu is a read-write lock over connections and userConns; Connection's  *)
(* own fields are written without a lock and read by other goroutines      *)
(* (each read is taken to see the old or the new value).                   *)
(*                                                                         *)
(* pc says where a readPump is; the steps are the critical sections of the *)
(* code.  A broadcast takes h.mu for reading, visits the connections in    *)
(* any order, and skips a recipient whose channel is full.                 *)
(***************************************************************************)
EXTENDS Naturals, FiniteSets, Sequences

CONSTANTS
  Conns,               \* WebSocket connections
  Rooms,               \* room ids
  Accounts,            \* user ids of authenticated users
  Login,               \* Login[c]: the account of connection c, or Nobody for a guest
  Nobody,              \* no user, no room, no lock holder
  Capacity,            \* participants a room may have (50 in the code)
  BufferSize,          \* slots of a Send channel (256 in the code)
  RejoinWithoutLeave,  \* TRUE when a client joins a room while in another
  DropInRoom,          \* TRUE when a connection may break while in a room
  Selections,          \* TRUE when clients send selection_change
  MaxJoins             \* bound: joins of one connection

ASSUME HubAssumption ==
  /\ Login \in [Conns -> Accounts \cup {Nobody}]
  /\ Nobody \notin Conns /\ Nobody \notin Rooms /\ Nobody \notin Accounts
  /\ Capacity \in Nat \ {0} /\ BufferSize \in Nat \ {0} /\ MaxJoins \in Nat
  /\ RejoinWithoutLeave \in BOOLEAN /\ DropInRoom \in BOOLEAN /\ Selections \in BOOLEAN

VARIABLES
  connections,   \* Hub.connections
  userConns,     \* Hub.userConns: pairs of a user id and its connection
  writer,        \* the goroutine that holds h.mu for writing
  readers,       \* the goroutines that hold h.mu for reading
  participants,  \* Room.Participants of each room, with the joining connection
  channel,       \* Connection.Send: none, open or closed
  queue,         \* its contents
  room,          \* Connection.RoomID
  user,          \* Connection.UserID
  joins,         \* joins of a connection so far (a guest gets a new id each time)
  pc,            \* where readPump is
  next,          \* where readPump goes after a broadcast
  note,          \* the message it is broadcasting
  todo,          \* connections the broadcast has still to visit
  view,          \* participants as the client has been told
  panicked       \* a goroutine has panicked, which ends the process

vars == <<connections, userConns, writer, readers, participants, channel, queue,
          room, user, joins, pc, next, note, todo, view, panicked>>

UserIds == {[name |-> c, n |-> k] : c \in Conns, k \in 1..MaxJoins}
             \cup {[name |-> a, n |-> 0] : a \in Accounts}

\* A guest is given a new id by every join.
NewId(c) == IF Login[c] = Nobody THEN [name |-> c, n |-> joins[c] + 1]
            ELSE [name |-> Login[c], n |-> 0]

Entry(u, c) == [user |-> u, conn |-> c]
WithoutUser(S, u) == {p \in S : p.user # u}
Ids(S) == {p.user : p \in S}

\* A map assignment m[u] = c.
Put(S, u, c) == WithoutUser(S, u) \cup {Entry(u, c)}

Kinds == {"room_state", "user_joined", "user_left", "elements_updated", "error"}
Message(k, us) == [kind |-> k, users |-> us]
NoNote == Message("error", {})
Messages == [kind : Kinds, users : SUBSET UserIds]

Locations == {"new", "read", "register", "add", "snapshot", "reply", "broadcast",
              "send", "clear", "unregister", "close", "gone"}

-----------------------------------------------------------------------------
(* Channels. *)

\* select { case conn.Send <- data: default: }
Offered(q, d, m) == IF Len(q[d]) < BufferSize THEN [q EXCEPT ![d] = Append(@, m)] ELSE q

\* A send by the goroutine of c on the channel of d.
SendTo(d, m) ==
  /\ panicked' = (channel[d] = "closed")
  /\ queue' = IF channel[d] = "closed" THEN queue ELSE Offered(queue, d, m)

Goto(c, l) == pc' = [pc EXCEPT ![c] = l]

\* Call broadcastToRoom with message m and go on at l.
Broadcasting(c, m, l) ==
  /\ Goto(c, "broadcast")
  /\ note' = [note EXCEPT ![c] = m]
  /\ next' = [next EXCEPT ![c] = l]

-----------------------------------------------------------------------------
(* Connecting and joining. *)

\* HandleWebSocket registers the connection under h.mu.
Connect(c) ==
  /\ pc[c] = "new"
  /\ writer = Nobody /\ readers = {}
  /\ connections' = connections \cup {c}
  /\ channel' = [channel EXCEPT ![c] = "open"]
  /\ Goto(c, "read")
  /\ UNCHANGED <<userConns, writer, readers, participants, queue, room, user, joins, next, note,
                 todo, view, panicked>>

\* handleJoinRoom up to the assignments of RoomID and UserID.
JoinRoom(c, r) ==
  /\ pc[c] = "read"
  /\ joins[c] < MaxJoins
  /\ RejoinWithoutLeave \/ room[c] = Nobody
  /\ Cardinality(participants[r]) < Capacity
  /\ joins' = [joins EXCEPT ![c] = @ + 1]
  /\ room' = [room EXCEPT ![c] = r]
  /\ user' = [user EXCEPT ![c] = NewId(c)]
  /\ Goto(c, "register")
  /\ UNCHANGED <<connections, userConns, writer, readers, participants, channel, queue, next,
                 note, todo, view, panicked>>

RoomIsFull(c, r) ==
  /\ pc[c] = "read"
  /\ joins[c] < MaxJoins
  /\ Cardinality(participants[r]) >= Capacity
  /\ joins' = [joins EXCEPT ![c] = @ + 1]
  /\ SendTo(c, NoNote)
  /\ UNCHANGED <<connections, userConns, writer, readers, participants, channel, room, user, pc,
                 next, note, todo, view>>

\* h.userConns[user.ID] = conn.ID, under h.mu.
RegisterUser(c) ==
  /\ pc[c] = "register"
  /\ writer = Nobody /\ readers = {}
  /\ userConns' = Put(userConns, user[c], c)
  /\ Goto(c, "add")
  /\ UNCHANGED <<connections, writer, readers, participants, channel, queue, room, user, joins,
                 next, note, todo, view, panicked>>

AddUser(c) ==
  /\ pc[c] = "add"
  /\ participants' = [participants EXCEPT ![room[c]] = Put(@, user[c], c)]
  /\ Goto(c, "snapshot")
  /\ UNCHANGED <<connections, userConns, writer, readers, channel, queue, room, user, joins, next,
                 note, todo, view, panicked>>

\* GetParticipants for the room_state message.
ReadRoomState(c) ==
  /\ pc[c] = "snapshot"
  /\ note' = [note EXCEPT ![c] = Message("room_state", Ids(participants[room[c]]))]
  /\ Goto(c, "reply")
  /\ UNCHANGED <<connections, userConns, writer, readers, participants, channel, queue, room, user,
                 joins, next, todo, view, panicked>>

SendRoomState(c) ==
  /\ pc[c] = "reply"
  /\ SendTo(c, note[c])
  /\ Broadcasting(c, Message("user_joined", {user[c]}), "read")
  /\ UNCHANGED <<connections, userConns, writer, readers, participants, channel, room, user, joins,
                 todo, view>>

-----------------------------------------------------------------------------
(* broadcastToRoom. *)

BroadcastLocks(c) ==
  /\ pc[c] = "broadcast"
  /\ writer = Nobody
  /\ readers' = readers \cup {c}
  /\ todo' = [todo EXCEPT ![c] = connections]
  /\ Goto(c, "send")
  /\ UNCHANGED <<connections, userConns, writer, participants, channel, queue, room, user, joins,
                 next, note, view, panicked>>

BroadcastVisits(c, d) ==
  /\ pc[c] = "send"
  /\ d \in todo[c]
  /\ todo' = [todo EXCEPT ![c] = @ \ {d}]
  /\ IF room[d] = room[c] /\ d # c
       THEN SendTo(d, note[c])
       ELSE UNCHANGED <<queue, panicked>>
  /\ UNCHANGED <<connections, userConns, writer, readers, participants, channel, room, user, joins,
                 pc, next, note, view>>

BroadcastUnlocks(c) ==
  /\ pc[c] = "send"
  /\ todo[c] = {}
  /\ readers' = readers \ {c}
  /\ Goto(c, next[c])
  /\ note' = [note EXCEPT ![c] = NoNote]
  /\ next' = [next EXCEPT ![c] = "read"]
  /\ UNCHANGED <<connections, userConns, writer, participants, channel, queue, room, user, joins,
                 todo, view, panicked>>

-----------------------------------------------------------------------------
(* Messages of a client in a room. *)

\* handleUpdateElements, handleCursorMove and the like, as far as the hub goes.
UpdateElements(c) ==
  /\ pc[c] = "read"
  /\ room[c] # Nobody
  /\ Broadcasting(c, Message("elements_updated", {}), "read")
  /\ UNCHANGED <<connections, userConns, writer, readers, participants, channel, queue, room, user,
                 joins, todo, view, panicked>>

\* handleSelectionChange: UpdateSelectedIDs writes to a map NewRoom never made.
SelectionChange(c) ==
  /\ Selections
  /\ pc[c] = "read"
  /\ room[c] # Nobody
  /\ panicked' = TRUE
  /\ UNCHANGED <<connections, userConns, writer, readers, participants, channel, queue, room, user,
                 joins, pc, next, note, todo, view>>

\* Mutant of LeaveRoom: RemoveUser is missing.
LeaveUnlisted(c) ==
  /\ pc[c] = "read"
  /\ room[c] # Nobody
  /\ Broadcasting(c, Message("user_left", {user[c]}), "clear")
  /\ UNCHANGED <<connections, userConns, writer, readers, participants, channel, queue, room, user,
                 joins, todo, view, panicked>>

\* handleLeaveRoom: RemoveUser, broadcast, then clear the connection's fields.
LeaveRoom(c) ==
  /\ pc[c] = "read"
  /\ room[c] # Nobody
  /\ participants' = [participants EXCEPT ![room[c]] = WithoutUser(@, user[c])]
  /\ Broadcasting(c, Message("user_left", {user[c]}), "clear")
  /\ UNCHANGED <<connections, userConns, writer, readers, channel, queue, room, user, joins, todo,
                 view, panicked>>

\* Mutant of ClearRoom: RoomID is not reset.
ClearUserOnly(c) ==
  /\ pc[c] = "clear"
  /\ user' = [user EXCEPT ![c] = Nobody]
  /\ Goto(c, "read")
  /\ UNCHANGED <<connections, userConns, writer, readers, participants, channel, queue, room, joins,
                 next, note, todo, view, panicked>>

ClearRoom(c) ==
  /\ pc[c] = "clear"
  /\ room' = [room EXCEPT ![c] = Nobody]
  /\ user' = [user EXCEPT ![c] = Nobody]
  /\ Goto(c, "read")
  /\ UNCHANGED <<connections, userConns, writer, readers, participants, channel, queue, joins, next,
                 note, todo, view, panicked>>

-----------------------------------------------------------------------------
(* unregisterConnection. *)

\* ReadMessage fails: the client is gone, or its pongs stopped for 60 seconds.
ReadFails(c) ==
  /\ pc[c] = "read"
  /\ DropInRoom \/ room[c] = Nobody
  /\ Goto(c, "unregister")
  /\ UNCHANGED <<connections, userConns, writer, readers, participants, channel, queue, room, user,
                 joins, next, note, todo, view, panicked>>

\* Mutant of Unregister: h.mu is taken for writing while broadcasts hold it.
UnregisterUnlocked(c) ==
  LET entries == {p \in userConns : p.conn = c}
  IN /\ pc[c] = "unregister"
     /\ writer = Nobody
     /\ writer' = c
     /\ connections' = connections \ {c}
     /\ IF entries = {}
          THEN /\ Goto(c, "close")
               /\ UNCHANGED <<userConns, participants, note, next>>
          ELSE \E p \in entries :
                 /\ userConns' = userConns \ {p}
                 /\ IF room[c] = Nobody
                      THEN Goto(c, "close") /\ UNCHANGED <<participants, note, next>>
                      ELSE /\ participants' = [participants EXCEPT ![room[c]] = WithoutUser(@, p.user)]
                           /\ Broadcasting(c, Message("user_left", {p.user}), "close")
     /\ UNCHANGED <<readers, channel, queue, room, user, joins, todo, view, panicked>>

\* The connection and the first of its userConns entries the map yields go; the
\* participant of that entry leaves the room and the others are to be told,
\* all while h.mu is held for writing.
Unregister(c) ==
  LET entries == {p \in userConns : p.conn = c}
  IN /\ pc[c] = "unregister"
     /\ writer = Nobody /\ readers = {}
     /\ writer' = c
     /\ connections' = connections \ {c}
     /\ IF entries = {}
          THEN /\ Goto(c, "close")
               /\ UNCHANGED <<userConns, participants, note, next>>
          ELSE \E p \in entries :
                 /\ userConns' = userConns \ {p}
                 /\ IF room[c] = Nobody
                      THEN Goto(c, "close") /\ UNCHANGED <<participants, note, next>>
                      ELSE /\ participants' = [participants EXCEPT ![room[c]] = WithoutUser(@, p.user)]
                           /\ Broadcasting(c, Message("user_left", {p.user}), "close")
     /\ UNCHANGED <<readers, channel, queue, room, user, joins, todo, view, panicked>>

\* Mutant of CloseChannel: the deferred unlock is missing.
CloseChannelLocked(c) ==
  /\ pc[c] = "close"
  /\ channel' = [channel EXCEPT ![c] = "closed"]
  /\ queue' = [queue EXCEPT ![c] = <<>>]
  /\ Goto(c, "gone")
  /\ UNCHANGED <<connections, userConns, writer, readers, participants, room, user, joins, next,
                 note, todo, view, panicked>>

\* close(conn.Send), and the deferred unlock.  What is still in the channel goes
\* to a socket nobody reads.
CloseChannel(c) ==
  /\ pc[c] = "close"
  /\ channel' = [channel EXCEPT ![c] = "closed"]
  /\ queue' = [queue EXCEPT ![c] = <<>>]
  /\ writer' = Nobody
  /\ Goto(c, "gone")
  /\ UNCHANGED <<connections, userConns, readers, participants, room, user, joins, next, note,
                 todo, view, panicked>>

\* What a message tells a client about the participants of its room.
Told(us, m) ==
  CASE m.kind = "room_state"  -> m.users
    [] m.kind = "user_joined" -> us \cup m.users
    [] m.kind = "user_left"   -> us \ m.users
    [] OTHER                  -> us

\* writePump writes the next message to the socket.
WritePump(c) ==
  /\ queue[c] # <<>>
  /\ queue' = [queue EXCEPT ![c] = Tail(@)]
  /\ view' = [view EXCEPT ![c] = Told(@, Head(queue[c]))]
  /\ UNCHANGED <<connections, userConns, writer, readers, participants, channel, room, user, joins,
                 pc, next, note, todo, panicked>>

-----------------------------------------------------------------------------

Init ==
  /\ connections = {} /\ userConns = {}
  /\ writer = Nobody /\ readers = {}
  /\ participants = [r \in Rooms |-> {}]
  /\ channel = [c \in Conns |-> "none"]
  /\ queue = [c \in Conns |-> <<>>]
  /\ room = [c \in Conns |-> Nobody]
  /\ user = [c \in Conns |-> Nobody]
  /\ joins = [c \in Conns |-> 0]
  /\ pc = [c \in Conns |-> "new"]
  /\ next = [c \in Conns |-> "read"]
  /\ note = [c \in Conns |-> NoNote]
  /\ todo = [c \in Conns |-> {}]
  /\ view = [c \in Conns |-> {}]
  /\ panicked = FALSE

\* What a readPump does once it has a message, up to its return to ReadMessage.
Proceed(c) ==
  \/ RegisterUser(c) \/ AddUser(c) \/ ReadRoomState(c) \/ SendRoomState(c)
  \/ BroadcastLocks(c) \/ BroadcastUnlocks(c)
  \/ \E d \in Conns : BroadcastVisits(c, d)
  \/ ClearRoom(c)
  \/ Unregister(c) \/ CloseChannel(c)

\* What clients and the network do.
Arrive(c) ==
  \/ Connect(c)
  \/ \E r \in Rooms : JoinRoom(c, r) \/ RoomIsFull(c, r)
  \/ UpdateElements(c) \/ SelectionChange(c) \/ LeaveRoom(c)
  \/ ReadFails(c)

Next == ~panicked /\ \E c \in Conns : Arrive(c) \/ Proceed(c) \/ WritePump(c)

Spec == Init /\ [][Next]_vars

\* Goroutines are scheduled, and sync.RWMutex starves neither side: whoever
\* can have the lock again and again gets it.  Clients owe the hub nothing.
Fairness ==
  \A c \in Conns :
    /\ SF_vars(~panicked /\ Proceed(c))
    /\ WF_vars(~panicked /\ WritePump(c))

FairSpec == Spec /\ Fairness

-----------------------------------------------------------------------------
(* Properties. *)

TypeOK ==
  /\ connections \subseteq Conns
  /\ userConns \subseteq [user : UserIds, conn : Conns]
  /\ writer \in Conns \cup {Nobody}
  /\ readers \subseteq Conns
  /\ participants \in [Rooms -> SUBSET [user : UserIds, conn : Conns]]
  /\ channel \in [Conns -> {"none", "open", "closed"}]
  /\ queue \in [Conns -> Seq(Messages)]
  /\ room \in [Conns -> Rooms \cup {Nobody}]
  /\ user \in [Conns -> UserIds \cup {Nobody}]
  /\ joins \in [Conns -> 0..MaxJoins]
  /\ pc \in [Conns -> Locations]
  /\ next \in [Conns -> Locations]
  /\ note \in [Conns -> Messages]
  /\ todo \in [Conns -> SUBSET Conns]
  /\ view \in [Conns -> SUBSET UserIds]
  /\ panicked \in BOOLEAN

\* No goroutine ever sends on a closed channel, which would panic and take the
\* server down: a connection's channel is closed only when no broadcast that
\* might still visit the connection can be running.
NoSendOnClosed == ~panicked

\* The same of a hub whose clients send selection_change ("Update user's
\* selected elements"): handling a message does not end the process.
HandlersDoNotPanic == ~panicked

\* Every entry of a participant list belongs to a connection that is in that
\* room under that id; nobody stays listed who left, rejoined or disconnected.
NoGhosts ==
  \A r \in Rooms : \A p \in participants[r] :
    /\ p.conn \in connections
    /\ room[p.conn] = r /\ user[p.conn] = p.user

\* "Auto-remove user from room on disconnect": whoever is on a participant list
\* is connected.
ListedAreConnected ==
  \A r \in Rooms : \A p \in participants[r] : p.conn \in connections

\* "Participant list shows all active users": a connection that has joined a
\* room and is waiting for messages is on the room's list.
ActiveUsersListed ==
  \A c \in Conns :
    pc[c] = "read" /\ room[c] # Nobody => user[c] \in Ids(participants[room[c]])

\* Users with an account each, who leave a room before they join another, are
\* listed exactly while they are there, though AddUser and RemoveUser go by
\* the user's id and broken connections by the hub's.
PresenceIsExact == NoGhosts /\ ActiveUsersListed

\* "Maximum 50 participants per room".
RoomCapacity == \A r \in Rooms : Cardinality(participants[r]) <= Capacity

\* When everything has been handled and delivered, a client in a room has been
\* told of everybody on the room's list.
Settled == \A c \in Conns : pc[c] \in {"new", "read", "gone"} /\ queue[c] = <<>>

ViewsAreComplete ==
  Settled =>
    \A c \in Conns : room[c] # Nobody => Ids(participants[room[c]]) \subseteq view[c]

\* unregisterConnection waits for the lock it holds itself.
Wedged == \E c \in Conns : writer = c /\ pc[c] = "broadcast"

\* Every handler returns: a goroutine that left ReadMessage comes back to it or
\* ends, whoever else locks the hub meanwhile and whichever connections break,
\* unless one of them breaks inside a room and blocks the hub for good.
HandlersReturn ==
  \A c \in Conns :
    pc[c] \notin {"new", "read", "gone"} ~> (pc[c] \in {"read", "gone"} \/ Wedged)

\* "Auto-remove user from room on disconnect": a broken connection is
\* eventually unregistered.
DisconnectCompletes ==
  \A c \in Conns : pc[c] = "unregister" ~> pc[c] = "gone"

=============================================================================
