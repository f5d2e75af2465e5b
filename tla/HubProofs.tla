----------------------------- MODULE HubProofs -----------------------------
(***************************************************************************)
(* The hub is type correct, and no goroutine of it ever sends on a closed  *)
(* channel, for any number of connections, rooms and users, any capacity   *)
(* and any buffer size, as long as no client sends selection_change.       *)
(*                                                                         *)
(* The argument: h.mu is a read-write lock (Locking); whoever runs a       *)
(* handler is registered (Registration); a registered connection has an    *)
(* open channel, a broadcast only visits connections that are registered,  *)
(* and registration ends only under the write lock, when no broadcast is   *)
(* running (Channels).                                                     *)
(*                                                                         *)
(* And the participant lists are exact when users have an account each and *)
(* leave a room before they join another: a handler is where its program   *)
(* counter and the return address of its broadcast say, and these tell for *)
(* every connection whether it must be on its room's list (Listing) and in *)
(* the hub's map that a broken connection is looked up in (Registered).    *)
(***************************************************************************)
EXTENDS Hub, TLAPS

\* Where a readPump is while it runs a handler of a registered connection.
InHandler == {"read", "register", "add", "snapshot", "reply", "send", "clear", "unregister"}

\* h.mu admits one writer or several readers; the readers are the broadcasts
\* in progress, and only a goroutine in unregisterConnection is a writer.
Locking ==
  /\ writer # Nobody => readers = {}
  /\ \A c \in Conns : c \in readers <=> pc[c] = "send"
  /\ \A c \in Conns : pc[c] = "close" => writer = c
  /\ \A c \in Conns : pc[c] = "broadcast" /\ next[c] = "close" => writer = c

\* A goroutine in a handler belongs to a registered connection; one that has
\* begun to unregister does not.
Registration ==
  /\ \A c \in Conns : pc[c] \in InHandler => c \in connections
  /\ \A c \in Conns : pc[c] \in {"new", "close", "gone"} => c \notin connections
  /\ \A c \in Conns :
       pc[c] = "broadcast" => IF next[c] = "close" THEN c \notin connections ELSE c \in connections
  /\ \A c \in Conns : pc[c] \in {"broadcast", "send"} => next[c] \in {"read", "clear", "close"}
  /\ \A c \in Conns : pc[c] = "send" => next[c] # "close"

\* The channels a goroutine may send on are open.
Channels ==
  /\ \A c \in connections : channel[c] = "open"
  /\ \A c \in Conns : pc[c] = "send" => todo[c] \subseteq connections
  /\ ~panicked

\* A connection in a room has a user id.
Named ==
  /\ \A c \in Conns : room[c] # Nobody => user[c] \in UserIds
  /\ \A c \in Conns : pc[c] \in {"register", "add", "snapshot", "reply"} => room[c] # Nobody

HubInv == TypeOK /\ Locking /\ Registration /\ Channels /\ Named

-----------------------------------------------------------------------------

\* A user id that is assigned is a user id.
LEMMA NewIdType ==
  ASSUME HubAssumption, TypeOK, NEW c \in Conns, joins[c] < MaxJoins
  PROVE  NewId(c) \in UserIds
BY DEF HubAssumption, TypeOK, NewId, UserIds

\* A map assignment keeps a set of entries a set of entries.
LEMMA PutType ==
  ASSUME NEW S \in SUBSET [user : UserIds, conn : Conns], NEW u \in UserIds, NEW c \in Conns
  PROVE  Put(S, u, c) \in SUBSET [user : UserIds, conn : Conns]
BY DEF Put, WithoutUser, Entry

\* Taking a user out of userConns gives such a map again.
LEMMA WithoutUserType ==
  ASSUME NEW S \in SUBSET [user : UserIds, conn : Conns], NEW u
  PROVE  WithoutUser(S, u) \in SUBSET [user : UserIds, conn : Conns]
BY DEF WithoutUser

\* A send that finds the channel open keeps the queues well typed.
LEMMA SendToType ==
  ASSUME queue \in [Conns -> Seq(Messages)], NEW d \in Conns, NEW m \in Messages,
         channel[d] = "open", SendTo(d, m)
  PROVE  queue' \in [Conns -> Seq(Messages)] /\ panicked' = FALSE
<1>1. Append(queue[d], m) \in Seq(Messages)
  OBVIOUS
<1>2. [queue EXCEPT ![d] = Append(@, m)] \in [Conns -> Seq(Messages)]
  BY <1>1
<1>3. Offered(queue, d, m) \in [Conns -> Seq(Messages)]
  BY <1>2 DEF Offered
<1>4. panicked' = FALSE /\ queue' = Offered(queue, d, m)
  BY DEF SendTo
<1> QED
  BY <1>3, <1>4

\* The empty note is a message.
LEMMA NoNoteType == NoNote \in Messages
BY DEF NoNote, Message, Messages, Kinds

\* A message about users is a message.
LEMMA MessageType ==
  ASSUME NEW k \in Kinds, NEW us \in SUBSET UserIds
  PROVE  Message(k, us) \in Messages
BY DEF Message, Messages

\* What a client has been told are user ids.
LEMMA ToldType ==
  ASSUME NEW us \in SUBSET UserIds, NEW m \in Messages
  PROVE  Told(us, m) \in SUBSET UserIds
BY DEF Told, Messages

\* The hub starts with the invariant.
LEMMA TypeInit == HubAssumption /\ Init => HubInv
<1> SUFFICES ASSUME HubAssumption, Init PROVE HubInv
  OBVIOUS
<1>1. TypeOK
  <2>1. /\ queue \in [Conns -> Seq(Messages)] /\ note \in [Conns -> Messages]
        /\ joins \in [Conns -> 0..MaxJoins]
    BY NoNoteType DEF HubAssumption, Init
  <2>2. /\ pc \in [Conns -> Locations] /\ next \in [Conns -> Locations]
        /\ channel \in [Conns -> {"none", "open", "closed"}]
    BY DEF Init, Locations
  <2>3. /\ room \in [Conns -> Rooms \cup {Nobody}] /\ user \in [Conns -> UserIds \cup {Nobody}]
        /\ todo \in [Conns -> SUBSET Conns] /\ view \in [Conns -> SUBSET UserIds]
    BY DEF Init
  <2>4. /\ participants \in [Rooms -> SUBSET [user : UserIds, conn : Conns]]
        /\ userConns \subseteq [user : UserIds, conn : Conns]
        /\ connections \subseteq Conns /\ readers \subseteq Conns
        /\ writer \in Conns \cup {Nobody} /\ panicked \in BOOLEAN
    BY DEF Init
  <2> QED
    BY <2>1, <2>2, <2>3, <2>4 DEF TypeOK
<1>2. Locking /\ Registration /\ Channels /\ Named
  BY DEF HubAssumption, Init, Locking, Registration, Channels, Named, InHandler
<1> QED
  BY <1>1, <1>2 DEF HubInv

\* Every step keeps the invariant.
LEMMA TypeStep == HubAssumption /\ ~Selections /\ HubInv /\ [Next]_vars => HubInv'
<1> SUFFICES ASSUME HubAssumption, ~Selections, HubInv, [Next]_vars PROVE HubInv'
  OBVIOUS
<1> USE DEF HubInv
<1>1. ASSUME NEW c \in Conns, Connect(c) PROVE HubInv'
  <2>1. TypeOK'
    BY <1>1 DEF Connect, Goto, TypeOK, Locations, InHandler, Registration, Channels, Named
  <2>2. Locking'
    BY <1>1 DEF Connect, Goto, Locking, TypeOK, Registration, HubAssumption
  <2>3. Registration'
    BY <1>1 DEF Connect, Goto, Registration, TypeOK, Locking, InHandler, HubAssumption
  <2>4. Channels'
    BY <1>1 DEF Connect, Goto, Channels, TypeOK, Locking, Registration, InHandler, HubAssumption
  <2>5. Named'
    BY <1>1 DEF Connect, Goto, Named, TypeOK, HubAssumption
  <2> QED
    BY <2>1, <2>2, <2>3, <2>4, <2>5
<1>2. ASSUME NEW c \in Conns, NEW r \in Rooms, JoinRoom(c, r) PROVE HubInv'
  <2>1. TypeOK'
    BY NewIdType, <1>2 DEF JoinRoom, Goto, NewId, TypeOK, Locations, InHandler, Registration, Channels, Named
  <2>2. Locking'
    BY <1>2 DEF JoinRoom, Goto, NewId, Locking, TypeOK, Registration, HubAssumption
  <2>3. Registration'
    BY <1>2 DEF JoinRoom, Goto, NewId, Registration, TypeOK, Locking, InHandler, HubAssumption
  <2>4. Channels'
    BY NewIdType, <1>2 DEF JoinRoom, Goto, NewId, Channels, TypeOK, Locking, Registration, InHandler, HubAssumption
  <2>5. Named'
    BY <1>2, NewIdType DEF JoinRoom, Goto, Named, TypeOK, HubAssumption
  <2> QED
    BY <2>1, <2>2, <2>3, <2>4, <2>5
<1>3. ASSUME NEW c \in Conns, NEW r \in Rooms, RoomIsFull(c, r) PROVE HubInv'
  <2>1. TypeOK'
    <3>1. channel[c] = "open"
      BY <1>3 DEF RoomIsFull, Channels, Registration, InHandler
    <3>2. queue' \in [Conns -> Seq(Messages)] /\ panicked' = FALSE
      BY <3>1, <1>3, SendToType, NoNoteType DEF RoomIsFull, TypeOK
    <3>3. joins' \in [Conns -> 0..MaxJoins]
      BY <1>3 DEF RoomIsFull, TypeOK, HubAssumption
    <3> QED
      BY <3>2, <3>3, <1>3 DEF RoomIsFull, TypeOK
  <2>2. Locking'
    BY <1>3 DEF RoomIsFull, Goto, Locking, TypeOK, Registration, HubAssumption
  <2>3. Registration'
    BY <1>3 DEF RoomIsFull, Goto, Registration, TypeOK, Locking, InHandler, HubAssumption
  <2>4. Channels'
    BY SendToType, NoNoteType, <1>3 DEF RoomIsFull, Goto, Channels, TypeOK, Locking, Registration, InHandler, HubAssumption
  <2>5. Named'
    BY <1>3 DEF RoomIsFull, Goto, Named, TypeOK, HubAssumption
  <2> QED
    BY <2>1, <2>2, <2>3, <2>4, <2>5
<1>4. ASSUME NEW c \in Conns, RegisterUser(c) PROVE HubInv'
  <2>1. TypeOK'
    BY PutType, <1>4 DEF RegisterUser, Goto, TypeOK, Locations, InHandler, Registration, Channels, Named
  <2>2. Locking'
    BY <1>4 DEF RegisterUser, Goto, Locking, TypeOK, Registration, HubAssumption
  <2>3. Registration'
    BY <1>4 DEF RegisterUser, Goto, Registration, TypeOK, Locking, InHandler, HubAssumption
  <2>4. Channels'
    BY PutType, <1>4 DEF RegisterUser, Goto, Channels, TypeOK, Locking, Registration, InHandler, HubAssumption
  <2>5. Named'
    BY <1>4 DEF RegisterUser, Goto, Named, TypeOK, HubAssumption
  <2> QED
    BY <2>1, <2>2, <2>3, <2>4, <2>5
<1>5. ASSUME NEW c \in Conns, AddUser(c) PROVE HubInv'
  <2>1. TypeOK'
    BY PutType, <1>5 DEF AddUser, Goto, TypeOK, Locations, InHandler, Registration, Channels, Named
  <2>2. Locking'
    BY <1>5 DEF AddUser, Goto, Locking, TypeOK, Registration, HubAssumption
  <2>3. Registration'
    BY <1>5 DEF AddUser, Goto, Registration, TypeOK, Locking, InHandler, HubAssumption
  <2>4. Channels'
    BY PutType, <1>5 DEF AddUser, Goto, Channels, TypeOK, Locking, Registration, InHandler, HubAssumption
  <2>5. Named'
    BY <1>5 DEF AddUser, Goto, Named, TypeOK, HubAssumption
  <2> QED
    BY <2>1, <2>2, <2>3, <2>4, <2>5
<1>6. ASSUME NEW c \in Conns, ReadRoomState(c) PROVE HubInv'
  <2>1. TypeOK'
    <3>1. Ids(participants[room[c]]) \in SUBSET UserIds
      BY <1>6 DEF ReadRoomState, Named, TypeOK, Ids
    <3>2. Message("room_state", Ids(participants[room[c]])) \in Messages
      BY <3>1, MessageType DEF Kinds
    <3> QED
      BY <3>1, <3>2, <1>6 DEF ReadRoomState, Goto, TypeOK, Locations
  <2>2. Locking'
    BY <1>6 DEF ReadRoomState, Goto, Locking, TypeOK, Registration, HubAssumption
  <2>3. Registration'
    BY <1>6 DEF ReadRoomState, Goto, Registration, TypeOK, Locking, InHandler, HubAssumption
  <2>4. Channels'
    BY MessageType, <1>6 DEF ReadRoomState, Goto, Channels, TypeOK, Locking, Registration, InHandler, HubAssumption
  <2>5. Named'
    BY <1>6 DEF ReadRoomState, Goto, Named, TypeOK, HubAssumption
  <2> QED
    BY <2>1, <2>2, <2>3, <2>4, <2>5
<1>7. ASSUME NEW c \in Conns, SendRoomState(c) PROVE HubInv'
  <2>1. TypeOK'
    <3>1. channel[c] = "open"
      BY <1>7 DEF SendRoomState, Channels, Registration, InHandler
    <3>2. queue' \in [Conns -> Seq(Messages)] /\ panicked' = FALSE
      BY <3>1, <1>7, SendToType DEF SendRoomState, TypeOK
    <3>3. Message("user_joined", {user[c]}) \in Messages
      BY <1>7, MessageType DEF SendRoomState, Named, Kinds
    <3> QED
      BY <3>1, <3>2, <3>3, <1>7 DEF SendRoomState, Goto, Broadcasting, TypeOK, Locations
  <2>2. Locking'
    BY <1>7 DEF SendRoomState, Goto, Broadcasting, Locking, TypeOK, Registration, HubAssumption
  <2>3. Registration'
    BY <1>7 DEF SendRoomState, Goto, Broadcasting, Registration, TypeOK, Locking, InHandler, HubAssumption
  <2>4. Channels'
    BY SendToType, MessageType, <1>7 DEF SendRoomState, Goto, Broadcasting, Channels, TypeOK, Locking, Registration, InHandler, HubAssumption
  <2>5. Named'
    BY <1>7 DEF SendRoomState, Goto, Broadcasting, Named, TypeOK, HubAssumption
  <2> QED
    BY <2>1, <2>2, <2>3, <2>4, <2>5
<1>8. ASSUME NEW c \in Conns, BroadcastLocks(c) PROVE HubInv'
  <2>1. TypeOK'
    BY <1>8 DEF BroadcastLocks, Goto, TypeOK, Locations, InHandler, Registration, Channels, Named
  <2>2. Locking'
    BY <1>8 DEF BroadcastLocks, Goto, Locking, TypeOK, Registration, HubAssumption
  <2>3. Registration'
    BY <1>8 DEF BroadcastLocks, Goto, Registration, TypeOK, Locking, InHandler, HubAssumption
  <2>4. Channels'
    BY <1>8 DEF BroadcastLocks, Goto, Channels, TypeOK, Locking, Registration, InHandler, HubAssumption
  <2>5. Named'
    BY <1>8 DEF BroadcastLocks, Goto, Named, TypeOK, HubAssumption
  <2> QED
    BY <2>1, <2>2, <2>3, <2>4, <2>5
<1>9. ASSUME NEW c \in Conns, NEW d \in Conns, BroadcastVisits(c, d) PROVE HubInv'
  <2>1. TypeOK'
    BY SendToType, <1>9 DEF BroadcastVisits, Goto, TypeOK, Locations, InHandler, Registration, Channels, Named
  <2>2. Locking'
    BY <1>9 DEF BroadcastVisits, Goto, Locking, TypeOK, Registration, HubAssumption
  <2>3. Registration'
    BY <1>9 DEF BroadcastVisits, Goto, Registration, TypeOK, Locking, InHandler, HubAssumption
  <2>4. Channels'
    <3>1. channel[d] = "open"
      BY <1>9 DEF BroadcastVisits, Channels
    <3>2. panicked' = FALSE
      BY <3>1, <1>9 DEF BroadcastVisits, SendTo, Channels
    <3> QED
      BY <3>2, <1>9 DEF BroadcastVisits, Channels, TypeOK
  <2>5. Named'
    BY <1>9 DEF BroadcastVisits, Goto, Named, TypeOK, HubAssumption
  <2> QED
    BY <2>1, <2>2, <2>3, <2>4, <2>5
<1>10. ASSUME NEW c \in Conns, BroadcastUnlocks(c) PROVE HubInv'
  <2>1. TypeOK'
    BY NoNoteType, <1>10 DEF BroadcastUnlocks, Goto, TypeOK, Locations, InHandler, Registration, Channels, Named
  <2>2. Locking'
    BY <1>10 DEF BroadcastUnlocks, Goto, Locking, TypeOK, Registration, HubAssumption
  <2>3. Registration'
    BY <1>10 DEF BroadcastUnlocks, Goto, Registration, TypeOK, Locking, InHandler, HubAssumption
  <2>4. Channels'
    BY NoNoteType, <1>10 DEF BroadcastUnlocks, Goto, Channels, TypeOK, Locking, Registration, InHandler, HubAssumption
  <2>5. Named'
    BY <1>10 DEF BroadcastUnlocks, Goto, Named, TypeOK, Registration, HubAssumption
  <2> QED
    BY <2>1, <2>2, <2>3, <2>4, <2>5
<1>11. ASSUME NEW c \in Conns, UpdateElements(c) PROVE HubInv'
  <2>1. TypeOK'
    <3>1. Message("elements_updated", {}) \in Messages
      BY MessageType DEF Kinds
    <3> QED
      BY <3>1, <1>11 DEF UpdateElements, Goto, Broadcasting, TypeOK, Locations
  <2>2. Locking'
    BY <1>11 DEF UpdateElements, Goto, Broadcasting, Locking, TypeOK, Registration, HubAssumption
  <2>3. Registration'
    BY <1>11 DEF UpdateElements, Goto, Broadcasting, Registration, TypeOK, Locking, InHandler, HubAssumption
  <2>4. Channels'
    BY MessageType, <1>11 DEF UpdateElements, Goto, Broadcasting, Channels, TypeOK, Locking, Registration, InHandler, HubAssumption
  <2>5. Named'
    BY <1>11 DEF UpdateElements, Goto, Broadcasting, Named, TypeOK, HubAssumption
  <2> QED
    BY <2>1, <2>2, <2>3, <2>4, <2>5
<1>12. ASSUME NEW c \in Conns, LeaveRoom(c) PROVE HubInv'
  <2>1. TypeOK'
    <3>1. Message("user_left", {user[c]}) \in Messages
      BY <1>12, MessageType DEF LeaveRoom, Named, Kinds
    <3>2. WithoutUser(participants[room[c]], user[c]) \in SUBSET [user : UserIds, conn : Conns]
      BY <1>12, WithoutUserType DEF LeaveRoom, TypeOK
    <3> QED
      BY <3>1, <3>2, <1>12 DEF LeaveRoom, Goto, Broadcasting, TypeOK, Locations
  <2>2. Locking'
    BY <1>12 DEF LeaveRoom, Goto, Broadcasting, Locking, TypeOK, Registration, HubAssumption
  <2>3. Registration'
    BY <1>12 DEF LeaveRoom, Goto, Broadcasting, Registration, TypeOK, Locking, InHandler, HubAssumption
  <2>4. Channels'
    BY MessageType, WithoutUserType, <1>12 DEF LeaveRoom, Goto, Broadcasting, Channels, TypeOK, Locking, Registration, InHandler, HubAssumption
  <2>5. Named'
    BY <1>12 DEF LeaveRoom, Goto, Broadcasting, Named, TypeOK, HubAssumption
  <2> QED
    BY <2>1, <2>2, <2>3, <2>4, <2>5
<1>13. ASSUME NEW c \in Conns, ClearRoom(c) PROVE HubInv'
  <2>1. TypeOK'
    BY <1>13 DEF ClearRoom, Goto, TypeOK, Locations, InHandler, Registration, Channels, Named
  <2>2. Locking'
    BY <1>13 DEF ClearRoom, Goto, Locking, TypeOK, Registration, HubAssumption
  <2>3. Registration'
    BY <1>13 DEF ClearRoom, Goto, Registration, TypeOK, Locking, InHandler, HubAssumption
  <2>4. Channels'
    BY <1>13 DEF ClearRoom, Goto, Channels, TypeOK, Locking, Registration, InHandler, HubAssumption
  <2>5. Named'
    BY <1>13 DEF ClearRoom, Goto, Named, TypeOK, HubAssumption
  <2> QED
    BY <2>1, <2>2, <2>3, <2>4, <2>5
<1>14. ASSUME NEW c \in Conns, ReadFails(c) PROVE HubInv'
  <2>1. TypeOK'
    BY <1>14 DEF ReadFails, Goto, TypeOK, Locations, InHandler, Registration, Channels, Named
  <2>2. Locking'
    BY <1>14 DEF ReadFails, Goto, Locking, TypeOK, Registration, HubAssumption
  <2>3. Registration'
    BY <1>14 DEF ReadFails, Goto, Registration, TypeOK, Locking, InHandler, HubAssumption
  <2>4. Channels'
    BY <1>14 DEF ReadFails, Goto, Channels, TypeOK, Locking, Registration, InHandler, HubAssumption
  <2>5. Named'
    BY <1>14 DEF ReadFails, Goto, Named, TypeOK, HubAssumption
  <2> QED
    BY <2>1, <2>2, <2>3, <2>4, <2>5
<1>15. ASSUME NEW c \in Conns, Unregister(c) PROVE HubInv'
  <2> DEFINE entries == {p \in userConns : p.conn = c}
  <2>1. /\ userConns' \subseteq userConns
        /\ participants' \in [Rooms -> SUBSET [user : UserIds, conn : Conns]]
        /\ note' \in [Conns -> Messages]
        /\ next' \in [Conns -> Locations] /\ pc' \in [Conns -> Locations]
        /\ \A d \in Conns \ {c} : pc'[d] = pc[d] /\ next'[d] = next[d]
        /\ pc'[c] = "close" \/ (pc'[c] = "broadcast" /\ next'[c] = "close")
    <3>1. CASE entries = {}
      BY <3>1, <1>15 DEF Unregister, Goto, TypeOK, Locations
    <3>2. CASE entries # {}
      <4>1. PICK p \in entries :
              /\ userConns' = userConns \ {p}
              /\ IF room[c] = Nobody
                   THEN Goto(c, "close") /\ UNCHANGED <<participants, note, next>>
                   ELSE /\ participants' = [participants EXCEPT ![room[c]] = WithoutUser(@, p.user)]
                        /\ Broadcasting(c, Message("user_left", {p.user}), "close")
        BY <3>2, <1>15 DEF Unregister
      <4>2. Message("user_left", {p.user}) \in Messages
        BY MessageType DEF TypeOK, Kinds
      <4>3. CASE room[c] = Nobody
        BY <4>1, <4>3 DEF Goto, TypeOK, Locations
      <4>4. CASE room[c] # Nobody
        <5>1. WithoutUser(participants[room[c]], p.user) \in SUBSET [user : UserIds, conn : Conns]
          BY <4>4, WithoutUserType DEF TypeOK
        <5>2. participants' \in [Rooms -> SUBSET [user : UserIds, conn : Conns]]
          BY <4>1, <4>4, <5>1 DEF TypeOK
        <5>3. note' = [note EXCEPT ![c] = Message("user_left", {p.user})]
          BY <4>1, <4>4 DEF Broadcasting
        <5>4. note' \in [Conns -> Messages]
          BY <5>3, <4>2 DEF TypeOK
        <5>5. /\ next' = [next EXCEPT ![c] = "close"] /\ pc' = [pc EXCEPT ![c] = "broadcast"]
          BY <4>1, <4>4 DEF Broadcasting, Goto
        <5> QED
          BY <4>1, <5>2, <5>4, <5>5 DEF TypeOK, Locations
      <4> QED
        BY <4>3, <4>4
    <3> QED
      BY <3>1, <3>2
  <2>2. /\ pc[c] = "unregister" /\ writer = Nobody /\ readers = {}
        /\ writer' = c /\ connections' = connections \ {c}
        /\ UNCHANGED <<readers, channel, queue, room, user, joins, todo, view, panicked>>
    BY <1>15 DEF Unregister
  <2>3. TypeOK'
    BY <2>1, <2>2 DEF TypeOK
  <2>4. Locking'
    BY <2>1, <2>2 DEF Locking, TypeOK, HubAssumption
  <2>5. Registration'
    BY <2>1, <2>2 DEF Registration, Locking, TypeOK, InHandler, HubAssumption
  <2>6. Channels'
    BY <2>1, <2>2 DEF Channels, Locking, TypeOK
  <2>7. Named'
    BY <2>1, <2>2 DEF Named
  <2> QED
    BY <2>3, <2>4, <2>5, <2>6, <2>7
<1>16. ASSUME NEW c \in Conns, CloseChannel(c) PROVE HubInv'
  <2>1. TypeOK'
    BY <1>16 DEF CloseChannel, Goto, TypeOK, Locations, InHandler, Registration, Channels, Named
  <2>2. Locking'
    BY <1>16 DEF CloseChannel, Goto, Locking, TypeOK, Registration, HubAssumption
  <2>3. Registration'
    BY <1>16 DEF CloseChannel, Goto, Registration, TypeOK, Locking, InHandler, HubAssumption
  <2>4. Channels'
    BY <1>16 DEF CloseChannel, Goto, Channels, TypeOK, Locking, Registration, InHandler, HubAssumption
  <2>5. Named'
    BY <1>16 DEF CloseChannel, Goto, Named, TypeOK, HubAssumption
  <2> QED
    BY <2>1, <2>2, <2>3, <2>4, <2>5
<1>17. ASSUME NEW c \in Conns, WritePump(c) PROVE HubInv'
  <2>1. TypeOK'
    BY ToldType, <1>17 DEF WritePump, Goto, TypeOK, Locations, InHandler, Registration, Channels, Named
  <2>2. Locking'
    BY <1>17 DEF WritePump, Goto, Locking, TypeOK, Registration, HubAssumption
  <2>3. Registration'
    BY <1>17 DEF WritePump, Goto, Registration, TypeOK, Locking, InHandler, HubAssumption
  <2>4. Channels'
    BY ToldType, <1>17 DEF WritePump, Goto, Channels, TypeOK, Locking, Registration, InHandler, HubAssumption
  <2>5. Named'
    BY <1>17 DEF WritePump, Goto, Named, TypeOK, HubAssumption
  <2> QED
    BY <2>1, <2>2, <2>3, <2>4, <2>5
<1>18. CASE UNCHANGED vars
  BY <1>18 DEF vars, TypeOK, Locking, Registration, Channels, Named
<1>19. CASE Next
  <2>1. PICK c \in Conns : Arrive(c) \/ Proceed(c) \/ WritePump(c)
    BY <1>19 DEF Next
  <2>2. CASE Arrive(c)
    <3>1. ~SelectionChange(c)
      BY DEF SelectionChange
    <3> QED
      BY <2>2, <3>1, <1>1, <1>2, <1>3, <1>11, <1>12, <1>14 DEF Arrive
  <2>3. CASE Proceed(c)
    BY <2>3, <1>4, <1>5, <1>6, <1>7, <1>8, <1>9, <1>10, <1>13, <1>15, <1>16 DEF Proceed
  <2>4. CASE WritePump(c)
    BY <2>4, <1>17
  <2> QED
    BY <2>1, <2>2, <2>3, <2>4
<1> QED
  BY <1>18, <1>19

\* The invariant holds throughout every behaviour.
LEMMA Invariance ==
  ASSUME HubAssumption, ~Selections
  PROVE  Spec => []HubInv
<1>1. Init => HubInv
  BY TypeInit
<1>2. HubInv /\ [Next]_vars => HubInv'
  BY TypeStep
<1> QED
  BY <1>1, <1>2, PTL DEF Spec

\* The hub's state stays well typed: room ids, user ids and messages are where
\* the fields of Hub, Connection and Room expect them.
THEOREM TypeCorrect ==
  ASSUME HubAssumption, ~Selections
  PROVE  Spec => []TypeOK
<1>1. HubInv => TypeOK
  BY DEF HubInv
<1> QED
  BY <1>1, Invariance, PTL

\* No goroutine of the server sends on the Send channel of a connection after
\* unregisterConnection has closed it, for any number of connections.
THEOREM ChannelsStayOpen ==
  ASSUME HubAssumption, ~Selections
  PROVE  Spec => []NoSendOnClosed
<1>1. HubInv => NoSendOnClosed
  BY DEF HubInv, Channels, NoSendOnClosed
<1> QED
  BY <1>1, Invariance, PTL

-----------------------------------------------------------------------------
(* Participant lists.                                                        *)
(*                                                                           *)
(* Users have an account each and leave a room before they join another.     *)
(* Whoever is in a room is on its list from AddUser until the handler that   *)
(* takes them off it (Listing); the hub knows their connection (Registered), *)
(* so that a broken connection takes its own user off; and user ids tell     *)
(* connections apart, so that AddUser and RemoveUser, which go by the id,    *)
(* touch nobody else's entry.                                                *)

Account(c) == [name |-> Login[c], n |-> 0]

OwnAccounts ==
  /\ \A c \in Conns : Login[c] # Nobody
  /\ \A c, d \in Conns : Login[c] = Login[d] => c = d

\* The handler of c has not begun to take its user off the list.
Staying(c) ==
  \/ pc[c] \in {"read", "snapshot", "reply", "unregister"}
  \/ pc[c] \in {"broadcast", "send"} /\ next[c] = "read"

Present(c) == room[c] # Nobody /\ Staying(c)

\* It has not begun to unregister the connection either.
Connected(c) ==
  /\ pc[c] \notin {"new", "close", "gone"}
  /\ ~ (pc[c] \in {"broadcast", "send"} /\ next[c] = "close")

PresenceTypes ==
  /\ connections \subseteq Conns
  /\ userConns \subseteq [user : UserIds, conn : Conns]
  /\ participants \in [Rooms -> SUBSET [user : UserIds, conn : Conns]]
  /\ room \in [Conns -> Rooms \cup {Nobody}]
  /\ user \in [Conns -> UserIds \cup {Nobody}]
  /\ joins \in [Conns -> 0..MaxJoins]
  /\ pc \in [Conns -> Locations]
  /\ next \in [Conns -> Locations]
  /\ \A c \in Conns : pc[c] \in {"broadcast", "send"} => next[c] \in {"read", "clear", "close"}

\* Who joins is in a room, and whoever is in a room is there under their id.
InRooms ==
  \A c \in Conns :
    /\ pc[c] \in {"register", "add", "snapshot", "reply"} => room[c] # Nobody
    /\ room[c] # Nobody => user[c] = Account(c) /\ Account(c) \in UserIds
    /\ pc[c] = "new" => room[c] = Nobody

\* The hub knows whom it has to take off the list when a connection breaks.
Registered ==
  /\ \A p \in userConns : p.user = Account(p.conn)
  /\ \A c \in Conns : Present(c) \/ pc[c] = "add" => Entry(Account(c), c) \in userConns
  /\ \A c \in Conns : Connected(c) => c \in connections

Listing ==
  /\ \A c \in Conns : Present(c) => Entry(Account(c), c) \in participants[room[c]]
  /\ \A r \in Rooms : \A p \in participants[r] :
       p.user = Account(p.conn) /\ room[p.conn] = r /\ Present(p.conn)

PresenceInv == PresenceTypes /\ InRooms /\ Registered /\ Listing

\* A step that leaves rooms, lists and the hub's maps alone, and with them who
\* is present.
LEMMA PresenceStays ==
  ASSUME PresenceInv, UNCHANGED <<connections, userConns, participants, room, user>>,
         joins' \in [Conns -> 0..MaxJoins],
         pc' \in [Conns -> Locations], next' \in [Conns -> Locations],
         \A d \in Conns : pc'[d] \in {"broadcast", "send"} => next'[d] \in {"read", "clear", "close"},
         \A d \in Conns : Present(d)' = Present(d),
         \A d \in Conns : Connected(d)' => Connected(d),
         \A d \in Conns : pc'[d] \in {"register", "add", "snapshot", "reply"} => room[d] # Nobody,
         \A d \in Conns : pc'[d] \in {"add", "new"} => pc[d] = pc'[d]
  PROVE  PresenceInv'
<1>1. PresenceTypes'
  BY DEF PresenceInv, PresenceTypes
<1>2. InRooms'
  BY DEF PresenceInv, InRooms, Account
<1>3. Registered'
  BY DEF PresenceInv, Registered, Account, Entry
<1>4. Listing'
  <2>1. \A r \in Rooms : \A p \in participants[r] : p.conn \in Conns
    BY DEF PresenceInv, PresenceTypes
  <2> QED
    BY <2>1 DEF PresenceInv, Listing, Account, Entry
<1> QED
  BY <1>1, <1>2, <1>3, <1>4 DEF PresenceInv

\* So does a step of readPump of c that only goes elsewhere.
LEMMA PumpMoves ==
  ASSUME PresenceInv, NEW c \in Conns,
         UNCHANGED <<connections, userConns, participants, room, user>>,
         joins' \in [Conns -> 0..MaxJoins],
         pc' \in [Conns -> Locations], next' \in [Conns -> Locations],
         \A d \in Conns \ {c} : pc'[d] = pc[d] /\ next'[d] = next[d],
         pc'[c] \in {"broadcast", "send"} => next'[c] \in {"read", "clear", "close"},
         room[c] # Nobody => Staying(c)' = Staying(c),
         Connected(c)' => Connected(c),
         pc'[c] \in {"register", "add", "snapshot", "reply"} => room[c] # Nobody,
         pc'[c] # "add", pc'[c] = "new" => pc[c] = "new"
  PROVE  PresenceInv'
<1>1. \A d \in Conns : Present(d)' = Present(d)
  BY DEF Present, Staying
<1>2. \A d \in Conns : Connected(d)' => Connected(d)
  BY DEF Connected
<1> QED
  BY <1>1, <1>2, PresenceStays DEF PresenceInv, PresenceTypes, InRooms

\* The user ids of different connections differ.
LEMMA IdsDiffer ==
  ASSUME OwnAccounts, NEW c \in Conns, NEW d \in Conns, Account(c) = Account(d)
  PROVE  c = d
BY DEF OwnAccounts, Account

\* The hub starts with empty lists.
LEMMA PresenceInit == HubAssumption /\ Init => PresenceInv
<1> SUFFICES ASSUME HubAssumption, Init PROVE PresenceInv
  OBVIOUS
<1>1. PresenceTypes
  BY DEF HubAssumption, Init, PresenceTypes, Locations
<1>2. InRooms /\ Registered /\ Listing
  BY DEF Init, InRooms, Registered, Listing, Connected, Present
<1> QED
  BY <1>1, <1>2 DEF PresenceInv

\* Handlers that change neither rooms nor lists.
LEMMA PresenceKept ==
  ASSUME HubAssumption, PresenceInv, NEW c \in Conns,
         \/ \E r \in Rooms : RoomIsFull(c, r)
         \/ ReadRoomState(c) \/ SendRoomState(c)
         \/ BroadcastLocks(c) \/ BroadcastUnlocks(c) \/ \E d \in Conns : BroadcastVisits(c, d)
         \/ UpdateElements(c) \/ SelectionChange(c) \/ ReadFails(c) \/ CloseChannel(c)
         \/ WritePump(c)
  PROVE  PresenceInv'
<1> USE DEF PresenceInv, PresenceTypes, Staying, Connected, Locations
<1>1. CASE \E r \in Rooms : RoomIsFull(c, r)
  BY <1>1, PumpMoves DEF RoomIsFull, InRooms, HubAssumption
<1>2. CASE ReadRoomState(c)
  BY <1>2, PumpMoves DEF ReadRoomState, Goto, InRooms
<1>3. CASE SendRoomState(c)
  BY <1>3, PumpMoves DEF SendRoomState, Broadcasting, Goto, InRooms
<1>4. CASE BroadcastLocks(c)
  BY <1>4, PumpMoves DEF BroadcastLocks, Goto, InRooms
<1>5. CASE BroadcastUnlocks(c)
  BY <1>5, PumpMoves DEF BroadcastUnlocks, Goto, InRooms
<1>6. CASE \E d \in Conns : BroadcastVisits(c, d)
  BY <1>6, PumpMoves DEF BroadcastVisits, InRooms
<1>7. CASE UpdateElements(c)
  BY <1>7, PumpMoves DEF UpdateElements, Broadcasting, Goto, InRooms
<1>8. CASE SelectionChange(c)
  BY <1>8, PumpMoves DEF SelectionChange, InRooms
<1>9. CASE ReadFails(c)
  BY <1>9, PumpMoves DEF ReadFails, Goto, InRooms
<1>10. CASE CloseChannel(c)
  BY <1>10, PumpMoves DEF CloseChannel, Goto, InRooms
<1>11. CASE WritePump(c)
  BY <1>11, PresenceStays DEF WritePump, InRooms, Present
<1> QED
  BY <1>1, <1>2, <1>3, <1>4, <1>5, <1>6, <1>7, <1>8, <1>9, <1>10, <1>11

\* A new connection is in no room.
LEMMA ConnectListed ==
  ASSUME HubAssumption, PresenceInv, NEW c \in Conns, Connect(c)
  PROVE  PresenceInv'
<1>1. PresenceTypes'
  BY DEF PresenceInv, PresenceTypes, Connect, Goto, Locations
<1>2. /\ UNCHANGED <<userConns, participants, room, user, next>>
      /\ pc[c] = "new" /\ pc' = [pc EXCEPT ![c] = "read"] /\ connections' = connections \cup {c}
  BY DEF Connect, Goto
<1>3. InRooms'
  BY <1>2 DEF PresenceInv, PresenceTypes, InRooms, Account
<1>4. room[c] = Nobody
  BY <1>2 DEF PresenceInv, InRooms
<1>5. /\ \A d \in Conns : Present(d)' = Present(d)
      /\ \A d \in Conns : Connected(d)' => Connected(d) \/ d = c
      /\ \A d \in Conns : pc'[d] = "add" => pc[d] = "add"
  BY <1>2, <1>4 DEF PresenceInv, PresenceTypes, Present, Staying, Connected
<1>6. Registered'
  BY <1>2, <1>5 DEF PresenceInv, Registered, Account, Entry
<1>7. \A s \in Rooms : \A p \in participants[s] : p.conn \in Conns
  BY DEF PresenceInv, PresenceTypes
<1>8. Listing'
  BY <1>2, <1>5, <1>7 DEF PresenceInv, Listing, Account, Entry
<1> QED
  BY <1>1, <1>3, <1>6, <1>8 DEF PresenceInv

\* Joining: c has been in no room, and is on no list yet.
LEMMA JoinListed ==
  ASSUME HubAssumption, ~RejoinWithoutLeave, OwnAccounts, PresenceInv,
         NEW c \in Conns, NEW r \in Rooms, JoinRoom(c, r)
  PROVE  PresenceInv'
<1>1. /\ pc[c] = "read" /\ room[c] = Nobody /\ joins[c] < MaxJoins
      /\ UNCHANGED <<connections, userConns, participants, next>>
      /\ room' = [room EXCEPT ![c] = r] /\ user' = [user EXCEPT ![c] = NewId(c)]
      /\ joins' = [joins EXCEPT ![c] = @ + 1]
      /\ pc' = [pc EXCEPT ![c] = "register"]
  BY DEF JoinRoom, Goto
<1>2. NewId(c) = Account(c) /\ Account(c) \in UserIds
  BY DEF NewId, Account, OwnAccounts, HubAssumption, UserIds
<1>3. PresenceTypes'
  BY <1>1, <1>2 DEF PresenceInv, PresenceTypes, Locations, HubAssumption
<1>4. InRooms'
  BY <1>1, <1>2 DEF PresenceInv, PresenceTypes, InRooms, Account
<1>5. /\ \A d \in Conns : Present(d)' = Present(d) /\ (Present(d) => room'[d] = room[d])
      /\ \A d \in Conns : Connected(d)' => Connected(d)
  BY <1>1 DEF PresenceInv, PresenceTypes, Present, Staying, Connected
<1>6. Registered'
  BY <1>1, <1>5 DEF PresenceInv, PresenceTypes, Registered, Account, Entry
<1>7. \A s \in Rooms : \A p \in participants[s] : p.conn \in Conns
  BY DEF PresenceInv, PresenceTypes
<1>8. Listing'
  BY <1>1, <1>5, <1>7 DEF PresenceInv, Listing, Account, Entry
<1> QED
  BY <1>3, <1>4, <1>6, <1>8 DEF PresenceInv

\* h.userConns gets the entry of c; those of others have other ids.
LEMMA RegisterListed ==
  ASSUME OwnAccounts, PresenceInv, NEW c \in Conns, RegisterUser(c)
  PROVE  PresenceInv'
<1>1. /\ pc[c] = "register" /\ room[c] # Nobody
      /\ user[c] = Account(c) /\ Account(c) \in UserIds
  BY DEF RegisterUser, PresenceInv, InRooms
<1>2. /\ userConns' = Put(userConns, Account(c), c)
      /\ UNCHANGED <<connections, participants, room, user, next, joins>>
      /\ pc' = [pc EXCEPT ![c] = "add"]
  BY <1>1 DEF RegisterUser, Goto
<1>3. PresenceTypes'
  BY <1>1, <1>2, PutType DEF PresenceInv, PresenceTypes, Locations
<1>4. InRooms'
  BY <1>1, <1>2 DEF PresenceInv, PresenceTypes, InRooms, Account
<1>5. /\ \A d \in Conns : Present(d)' = Present(d)
      /\ \A d \in Conns : Connected(d)' => Connected(d)
      /\ \A d \in Conns : pc'[d] = "add" => d = c \/ pc[d] = "add"
  BY <1>1, <1>2 DEF PresenceInv, PresenceTypes, Present, Staying, Connected
<1>6. \A d \in Conns : Entry(Account(d), d) \in userConns \/ d = c => Entry(Account(d), d) \in userConns'
  BY <1>2, IdsDiffer DEF Put, WithoutUser, Entry
<1>7. \A p \in userConns' : p.user = Account(p.conn)
  BY <1>2 DEF PresenceInv, Registered, Put, WithoutUser, Entry
<1>8. Registered'
  BY <1>2, <1>5, <1>6, <1>7 DEF PresenceInv, Registered, Account, Entry
<1>9. \A s \in Rooms : \A p \in participants[s] : p.conn \in Conns
  BY DEF PresenceInv, PresenceTypes
<1>10. Listing'
  BY <1>2, <1>5, <1>9 DEF PresenceInv, Listing, Account, Entry
<1> QED
  BY <1>3, <1>4, <1>8, <1>10 DEF PresenceInv

\* The list of the room gets the entry of c, who becomes present by it.
LEMMA AddListed ==
  ASSUME OwnAccounts, PresenceInv, NEW c \in Conns, AddUser(c)
  PROVE  PresenceInv'
<1>1. /\ pc[c] = "add" /\ room[c] \in Rooms /\ room[c] # Nobody
      /\ user[c] = Account(c) /\ Account(c) \in UserIds
  BY DEF AddUser, PresenceInv, PresenceTypes, InRooms
<1>2. /\ participants' = [participants EXCEPT ![room[c]] = Put(@, Account(c), c)]
      /\ UNCHANGED <<connections, userConns, room, user, next, joins>>
      /\ pc' = [pc EXCEPT ![c] = "snapshot"]
  BY <1>1 DEF AddUser, Goto
<1>3. PresenceTypes'
  <2>1. Put(participants[room[c]], Account(c), c) \in SUBSET [user : UserIds, conn : Conns]
    BY <1>1, PutType DEF PresenceInv, PresenceTypes
  <2> QED
    BY <1>2, <2>1 DEF PresenceInv, PresenceTypes, Locations
<1>4. InRooms'
  BY <1>1, <1>2 DEF PresenceInv, PresenceTypes, InRooms, Account
<1>5. /\ \A d \in Conns \ {c} : Present(d)' = Present(d)
      /\ Present(c)'
      /\ \A d \in Conns : Connected(d)' => Connected(d)
      /\ \A d \in Conns : pc'[d] = "add" => pc[d] = "add"
  BY <1>1, <1>2 DEF PresenceInv, PresenceTypes, Present, Staying, Connected
<1>6. Registered'
  BY <1>1, <1>2, <1>5 DEF PresenceInv, Registered, Account, Entry
<1>7. \A d \in Conns : Present(d)' => Entry(Account(d), d) \in participants'[room[d]]
  <2>1. ASSUME NEW d \in Conns, d # c, Present(d)
        PROVE  Entry(Account(d), d) \in participants'[room[d]]
    <3>1. room[d] \in Rooms /\ Entry(Account(d), d) \in participants[room[d]]
      BY <2>1 DEF PresenceInv, PresenceTypes, Listing, Present
    <3>2. Account(d) # Account(c)
      BY <2>1, IdsDiffer
    <3> QED
      BY <1>1, <1>2, <3>1, <3>2 DEF PresenceInv, PresenceTypes, Put, WithoutUser, Entry
  <2>2. Entry(Account(c), c) \in participants'[room[c]]
    BY <1>1, <1>2 DEF PresenceInv, PresenceTypes, Put
  <2> QED
    BY <1>5, <2>1, <2>2
<1>8. \A s \in Rooms : \A p \in participants'[s] :
        p.user = Account(p.conn) /\ room[p.conn] = s /\ Present(p.conn)'
  <2>1. \A s \in Rooms : \A p \in participants[s] :
          p.conn \in Conns /\ p.user = Account(p.conn) /\ room[p.conn] = s /\ Present(p.conn)
    BY DEF PresenceInv, PresenceTypes, Listing
  <2>2. \A s \in Rooms : \A p \in participants'[s] : p \in participants[s] \/ (s = room[c] /\ p = Entry(Account(c), c))
    BY <1>1, <1>2 DEF PresenceInv, PresenceTypes, Put, WithoutUser
  <2> QED
    BY <1>5, <2>1, <2>2 DEF Entry
<1>9. Listing'
  BY <1>2, <1>7, <1>8 DEF Listing, Account, Entry
<1> QED
  BY <1>3, <1>4, <1>6, <1>9 DEF PresenceInv

\* Taking the entry of c off the list of its room touches no other entry.
LEMMA OffTheList ==
  ASSUME OwnAccounts, PresenceInv, NEW c \in Conns, room[c] \in Rooms,
         participants' = [participants EXCEPT ![room[c]] = WithoutUser(@, Account(c))],
         UNCHANGED room,
         \A d \in Conns \ {c} : Present(d)' = Present(d),
         ~ Present(c)'
  PROVE  Listing' /\ participants' \in [Rooms -> SUBSET [user : UserIds, conn : Conns]]
<1>1. \A s \in Rooms : \A p \in participants[s] :
        p.conn \in Conns /\ p.user = Account(p.conn) /\ room[p.conn] = s /\ Present(p.conn)
  BY DEF PresenceInv, PresenceTypes, Listing
<1>2. \A s \in Rooms : \A p \in participants'[s] : p \in participants[s] /\ p.conn # c
  <2>1. ASSUME NEW s \in Rooms, NEW p \in participants'[s] PROVE p \in participants[s] /\ p.conn # c
    <3>1. CASE s = room[c]
      BY <2>1, <3>1, <1>1 DEF PresenceInv, PresenceTypes, WithoutUser
    <3>2. CASE s # room[c]
      BY <2>1, <3>2, <1>1 DEF PresenceInv, PresenceTypes
    <3> QED
      BY <3>1, <3>2
  <2> QED
    BY <2>1
<1>3. \A s \in Rooms : \A p \in participants'[s] :
        p.user = Account(p.conn) /\ room[p.conn] = s /\ Present(p.conn)'
  BY <1>1, <1>2
<1>4. ASSUME NEW d \in Conns, Present(d)'
      PROVE  Entry(Account(d), d) \in participants'[room[d]]
  <2>1. d # c /\ Present(d)
    BY <1>4
  <2>2. room[d] \in Rooms /\ Entry(Account(d), d) \in participants[room[d]]
    BY <2>1 DEF PresenceInv, PresenceTypes, Listing, Present
  <2>3. Account(d) # Account(c)
    BY <2>1, IdsDiffer
  <2> QED
    BY <2>2, <2>3 DEF PresenceInv, PresenceTypes, WithoutUser, Entry
<1>5. participants' \in [Rooms -> SUBSET [user : UserIds, conn : Conns]]
  BY WithoutUserType DEF PresenceInv, PresenceTypes
<1> QED
  BY <1>3, <1>4, <1>5 DEF Listing, Account, Entry

\* handleLeaveRoom takes c off the list before the others are told.
LEMMA LeaveListed ==
  ASSUME OwnAccounts, PresenceInv, NEW c \in Conns, LeaveRoom(c)
  PROVE  PresenceInv'
<1>1. /\ pc[c] = "read" /\ room[c] \in Rooms /\ user[c] = Account(c)
  BY DEF LeaveRoom, PresenceInv, PresenceTypes, InRooms
<1>2. /\ participants' = [participants EXCEPT ![room[c]] = WithoutUser(@, Account(c))]
      /\ UNCHANGED <<connections, userConns, room, user, joins>>
      /\ pc' = [pc EXCEPT ![c] = "broadcast"] /\ next' = [next EXCEPT ![c] = "clear"]
  BY <1>1 DEF LeaveRoom, Broadcasting, Goto
<1>3. /\ \A d \in Conns \ {c} : Present(d)' = Present(d)
      /\ ~ Present(c)'
      /\ \A d \in Conns : Connected(d)' => Connected(d)
      /\ \A d \in Conns : pc'[d] = "add" => pc[d] = "add"
  BY <1>1, <1>2 DEF PresenceInv, PresenceTypes, Present, Staying, Connected
<1>4. Listing' /\ participants' \in [Rooms -> SUBSET [user : UserIds, conn : Conns]]
  BY <1>1, <1>2, <1>3, OffTheList
<1>5. PresenceTypes'
  BY <1>2, <1>4 DEF PresenceInv, PresenceTypes, Locations
<1>6. InRooms'
  BY <1>1, <1>2 DEF PresenceInv, PresenceTypes, InRooms, Account
<1>7. Registered'
  BY <1>2, <1>3 DEF PresenceInv, Registered, Account, Entry
<1> QED
  BY <1>4, <1>5, <1>6, <1>7 DEF PresenceInv

\* Then its fields are cleared.
LEMMA ClearListed ==
  ASSUME HubAssumption, PresenceInv, NEW c \in Conns, ClearRoom(c)
  PROVE  PresenceInv'
<1>1. /\ pc[c] = "clear" /\ UNCHANGED <<connections, userConns, participants, next, joins>>
      /\ room' = [room EXCEPT ![c] = Nobody] /\ user' = [user EXCEPT ![c] = Nobody]
      /\ pc' = [pc EXCEPT ![c] = "read"]
  BY DEF ClearRoom, Goto
<1>2. PresenceTypes'
  BY <1>1 DEF PresenceInv, PresenceTypes, Locations
<1>3. InRooms'
  BY <1>1 DEF PresenceInv, PresenceTypes, InRooms, Account
<1>4. /\ \A d \in Conns : Present(d)' = Present(d) /\ (Present(d) => room'[d] = room[d])
      /\ \A d \in Conns : Connected(d)' => Connected(d)
      /\ \A d \in Conns : pc'[d] = "add" => pc[d] = "add"
  BY <1>1 DEF PresenceInv, PresenceTypes, Present, Staying, Connected
<1>5. Registered'
  BY <1>1, <1>4 DEF PresenceInv, Registered, Account, Entry
<1>6. \A s \in Rooms : \A p \in participants[s] : p.conn \in Conns
  BY DEF PresenceInv, PresenceTypes
<1>7. Listing'
  BY <1>1, <1>4, <1>6 DEF PresenceInv, Listing, Account, Entry
<1> QED
  BY <1>2, <1>3, <1>5, <1>7 DEF PresenceInv

\* unregisterConnection finds the user of c in the hub's map, and takes it off
\* the list of the room c is in.
LEMMA UnregisterListed ==
  ASSUME HubAssumption, OwnAccounts, PresenceInv, NEW c \in Conns, Unregister(c)
  PROVE  PresenceInv'
<1> DEFINE entries == {p \in userConns : p.conn = c}
<1>1. /\ pc[c] = "unregister" /\ connections' = connections \ {c}
      /\ UNCHANGED <<room, user, joins>>
  BY DEF Unregister
<1>2. \A p \in entries : p.user = Account(c) /\ p = Entry(Account(c), c)
  BY DEF PresenceInv, PresenceTypes, Registered, Entry
<1>3. /\ userConns' \subseteq userConns
      /\ \A p \in userConns : p.conn # c => p \in userConns'
      /\ IF room[c] = Nobody
           THEN pc' = [pc EXCEPT ![c] = "close"] /\ UNCHANGED <<participants, next>>
           ELSE /\ participants' = [participants EXCEPT ![room[c]] = WithoutUser(@, Account(c))]
                /\ pc' = [pc EXCEPT ![c] = "broadcast"] /\ next' = [next EXCEPT ![c] = "close"]
  <2>1. CASE entries = {}
    <3>1. room[c] = Nobody
      <4>1. Entry(Account(c), c).conn = c
        BY DEF Entry
      <4> QED
        BY <2>1, <1>1, <4>1 DEF PresenceInv, Registered, Present, Staying
    <3> QED
      BY <2>1, <3>1 DEF Unregister, Goto
  <2>2. CASE entries # {}
    <3>1. PICK p \in entries :
            /\ userConns' = userConns \ {p}
            /\ IF room[c] = Nobody
                 THEN Goto(c, "close") /\ UNCHANGED <<participants, note, next>>
                 ELSE /\ participants' = [participants EXCEPT ![room[c]] = WithoutUser(@, p.user)]
                      /\ Broadcasting(c, Message("user_left", {p.user}), "close")
      BY <2>2 DEF Unregister
    <3> QED
      BY <3>1, <1>2 DEF Goto, Broadcasting
  <2> QED
    BY <2>1, <2>2
<1>4. /\ \A d \in Conns \ {c} : Present(d)' = Present(d)
      /\ ~ Present(c)'
      /\ \A d \in Conns : Connected(d)' => Connected(d) /\ d # c
      /\ \A d \in Conns : pc'[d] = "add" => pc[d] = "add" /\ d # c
  BY <1>1, <1>3 DEF PresenceInv, PresenceTypes, Present, Staying, Connected
<1>5. Listing' /\ participants' \in [Rooms -> SUBSET [user : UserIds, conn : Conns]]
  <2>1. CASE room[c] = Nobody
    <3>1. \A d \in Conns : Present(d)' = Present(d)
      BY <2>1, <1>1, <1>4 DEF Present
    <3>2. \A s \in Rooms : \A p \in participants[s] : p.conn \in Conns
      BY DEF PresenceInv, PresenceTypes
    <3> QED
      BY <2>1, <1>1, <1>3, <3>1, <3>2 DEF PresenceInv, PresenceTypes, Listing, Account, Entry
  <2>2. CASE room[c] # Nobody
    <3>1. room[c] \in Rooms
      BY <2>2 DEF PresenceInv, PresenceTypes
    <3> QED
      BY <2>2, <3>1, <1>1, <1>3, <1>4, OffTheList
  <2> QED
    BY <2>1, <2>2
<1>6. PresenceTypes'
  BY <1>1, <1>3, <1>5 DEF PresenceInv, PresenceTypes, Locations
<1>7. InRooms'
  BY <1>1, <1>3 DEF PresenceInv, PresenceTypes, InRooms, Account
<1>8. Registered'
  <2>1. \A d \in Conns : d # c /\ Entry(Account(d), d) \in userConns => Entry(Account(d), d) \in userConns'
    BY <1>3 DEF Entry
  <2> QED
    BY <1>1, <1>3, <1>4, <2>1 DEF PresenceInv, Registered, Account, Entry
<1> QED
  BY <1>5, <1>6, <1>7, <1>8 DEF PresenceInv

\* Every step keeps the invariant.
LEMMA PresenceStep ==
  ASSUME HubAssumption, ~RejoinWithoutLeave, OwnAccounts, PresenceInv, [Next]_vars
  PROVE  PresenceInv'
<1>1. CASE UNCHANGED vars
  BY <1>1 DEF vars, PresenceInv, PresenceTypes, InRooms, Registered, Listing, Account, Entry,
              Present, Staying, Connected
<1>2. CASE Next
  <2>1. PICK c \in Conns : Arrive(c) \/ Proceed(c) \/ WritePump(c)
    BY <1>2 DEF Next
  <2>2. CASE Arrive(c)
    BY <2>2, ConnectListed, JoinListed, LeaveListed, PresenceKept DEF Arrive
  <2>3. CASE Proceed(c)
    BY <2>3, RegisterListed, AddListed, ClearListed, UnregisterListed, PresenceKept DEF Proceed
  <2> QED
    BY <2>1, <2>2, <2>3, PresenceKept
<1> QED
  BY <1>1, <1>2

\* A participant list shows exactly who is in the room: nobody stays listed who
\* left or was disconnected, and nobody is missing who waits for messages, for
\* any number of connections and rooms, also when connections break while their
\* user is in a room or clients send selection_change.
THEOREM PresenceHolds ==
  ASSUME HubAssumption, ~RejoinWithoutLeave, OwnAccounts
  PROVE  Spec => []PresenceIsExact
<1>1. Init => PresenceInv
  BY PresenceInit
<1>2. PresenceInv /\ [Next]_vars => PresenceInv'
  BY PresenceStep
<1>3. PresenceInv => PresenceIsExact
  <2> SUFFICES ASSUME PresenceInv PROVE PresenceIsExact
    OBVIOUS
  <2>1. NoGhosts
    <3>1. ASSUME NEW r \in Rooms, NEW p \in participants[r]
          PROVE  p.conn \in connections /\ room[p.conn] = r /\ user[p.conn] = p.user
      <4>1. p.conn \in Conns /\ p.user = Account(p.conn) /\ room[p.conn] = r /\ Present(p.conn)
        BY <3>1 DEF PresenceInv, PresenceTypes, Listing
      <4> QED
        BY <4>1 DEF PresenceInv, PresenceTypes, InRooms, Registered, Present, Staying, Connected
    <3> QED
      BY <3>1 DEF NoGhosts
  <2>2. ActiveUsersListed
    <3>1. ASSUME NEW c \in Conns, pc[c] = "read", room[c] # Nobody
          PROVE  user[c] \in Ids(participants[room[c]])
      <4>1. /\ Entry(Account(c), c) \in participants[room[c]]
            /\ user[c] = Account(c)
        BY <3>1 DEF PresenceInv, InRooms, Listing, Present, Staying
      <4>2. Entry(Account(c), c).user = Account(c)
        BY DEF Entry
      <4> QED
        BY <4>1, <4>2 DEF Ids
    <3> QED
      BY <3>1 DEF ActiveUsersListed
  <2> QED
    BY <2>1, <2>2 DEF PresenceIsExact
<1> QED
  BY <1>1, <1>2, <1>3, PTL DEF Spec

=============================================================================
