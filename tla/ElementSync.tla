---------------------------- MODULE ElementSync ----------------------------
(***************************************************************************)
(* How a drawing travels between browsers: the client's delta computation  *)
(* (services/elementSyncService.ts), the editor component that feeds it    *)
(* (components/Whiteboard.tsx), and the server's apply-and-broadcast       *)
(* (handleUpdateElements, handleJoinRoom, broadcastToRoom and writePump of *)
(* internal/websocket/handler.go).                                         *)
(*                                                                         *)
(* A client keeps the editor's scene and a cache of what the others know;  *)
(* each onChange sends the difference, collected until the user pauses for *)
(* 100 ms.  The server applies the lists of a message to the room one      *)
(* after the other and then offers it to every other connection.           *)
(*                                                                         *)
(* An element is abstracted to the stamp of the edit that made it and its  *)
(* isDeleted flag.  Two edits differ in version and versionNonce, which    *)
(* elementsDiffer compares.  Of an id that is twice in Room.Elements the    *)
(* last entry counts, as it does in the maps of UpdateElements and of the  *)
(* clients.  One room; the limits on messages and elements are not         *)
(* reached, everybody may edit, and connections do not break.  Messages    *)
(* that carry no elements are left out, and so is what the handler hands   *)
(* to the persistence queue, which RoomStore models.                       *)
(***************************************************************************)
EXTENDS Naturals, FiniteSets, Sequences

CONSTANTS
  Clients,            \* browsers
  Elems,              \* element ids
  Editors,            \* the clients that work on each element
  BufferSize,         \* capacity of a connection's Send channel
  Undo,               \* TRUE when users take deletions back
  JoinWhileEditing,   \* FALSE: hands are off the editors while somebody joins
  OldCopies,          \* FALSE: nobody brings copies of others' elements to an empty room
  PumpKeepsUp,        \* TRUE: a channel is drained before the next message comes
  MaxEdits,           \* bound: edits in a behaviour
  MaxTransit          \* bound: messages under way, each way, between client and server

ASSUME SyncAssumption ==
  /\ Editors \in [Elems -> SUBSET Clients]
  /\ BufferSize \in Nat \ {0}
  /\ {Undo, JoinWhileEditing, OldCopies, PumpKeepsUp} \subseteq BOOLEAN
  /\ MaxEdits \in Nat /\ MaxTransit \in Nat \ {0}

VARIABLES
  scene,      \* the editor's elements, deleted ones included
  cache,      \* elementSyncService.localElements
  pending,    \* elementSyncService.pendingChanges
  session,    \* of each client: "out", "joining" (join_room is sent), "in"
  up,         \* messages on their way to the server
  channel,    \* conn.Send
  wire,       \* frames on their way to the client
  elements,   \* Room.Elements
  members,    \* connections whose RoomID is the room
  stage,      \* where the handler of each connection is
  work,       \* the message it handles
  todo,       \* connections its broadcast has not visited
  latest,     \* history: the last edit of each element
  clock       \* edits so far

client  == <<scene, cache, pending, session>>
handler == <<stage, work, todo>>
history == <<latest, clock>>
svars   == <<client, up, channel, wire, elements, members, handler, history>>

-----------------------------------------------------------------------------
(* Tables of elements, and changes to them. *)

Versions == [stamp : 0..MaxEdits, deleted : BOOLEAN]

\* No element under this id, and a room or scene without any.
Absent == [stamp |-> 0, deleted |-> TRUE]
Blank == [e \in Elems |-> Absent]

\* What is drawn: deleted elements are not.
Drawn(t) == [e \in Elems |-> IF t[e].deleted THEN Absent ELSE t[e]]

Keep(t, S) == [e \in Elems |-> IF e \in S THEN t[e] ELSE Absent]
Overlay(t, u) == [e \in Elems |-> IF u[e] # Absent THEN u[e] ELSE t[e]]
Erase(t, S) == [e \in Elems |-> IF e \in S THEN Absent ELSE t[e]]

\* Changes: two tables and a set of elements.
NoChanges == [added |-> Blank, updated |-> Blank, deleted |-> {}]

Applied(t, ch) == Erase(Overlay(Overlay(t, ch.added), ch.updated), ch.deleted)

\* calculateDelta.
Delta(c) ==
  LET now == scene[c]  known == cache[c]
  IN [added   |-> Keep(now, {e \in Elems : known[e] = Absent}),
      updated |-> Keep(now, {e \in Elems : known[e] # Absent /\ now[e] # known[e]}),
      deleted |-> {e \in Elems : known[e] # Absent /\ now[e] = Absent}]

\* Mutant of Accumulated: of two updates the first is kept.
AccumulatedFirst(p, ch) ==
  [added   |-> Overlay(ch.added, p.added),
   updated |-> Overlay(ch.updated, p.updated),
   deleted |-> p.deleted \cup ch.deleted]

\* accumulateChanges: the first addition and the last update of an element.
Accumulated(p, ch) ==
  [added   |-> Overlay(ch.added, p.added),
   updated |-> Overlay(p.updated, ch.updated),
   deleted |-> p.deleted \cup ch.deleted]

Message(k, ch) == [kind |-> k, changes |-> ch]

-----------------------------------------------------------------------------

\* Nobody's change is on its way to anybody.
NoTraffic ==
  \A c \in Clients :
    /\ pending[c] = NoChanges
    /\ up[c] = <<>> /\ channel[c] = <<>> /\ wire[c] = <<>>
    /\ stage[c] = "idle"

\* The next onChange of c has nothing to tell but, again, deletions the server
\* knows of: updateLocalCache never forgets an element.
Noticed(c) ==
  \A e \in Elems :
    IF scene[c][e] = Absent THEN cache[c][e].deleted \/ elements[e].deleted
                            ELSE scene[c][e] = cache[c][e]

Quiet ==
  /\ NoTraffic
  /\ \A c \in Clients : session[c] = "out" \/ (session[c] = "in" /\ Noticed(c))

-----------------------------------------------------------------------------
(* The client. *)

\* The user draws element e, changes it, deletes it, or undoes the deletion:
\* the editor keeps deleted elements with isDeleted set.
Edit(c, e) ==
  /\ c \in Editors[e]
  /\ clock < MaxEdits
  /\ JoinWhileEditing \/ \A d \in Clients : session[d] # "joining"
  /\ clock' = clock + 1
  /\ \E gone \in BOOLEAN :
       /\ \/ scene[c][e] = Absent /\ latest[e] = Absent /\ ~gone
          \/ ~scene[c][e].deleted
          \/ Undo /\ scene[c][e] # Absent /\ scene[c][e].deleted /\ ~gone
       /\ LET new == [stamp |-> clock + 1, deleted |-> gone]
          IN /\ scene'  = [scene  EXCEPT ![c][e] = new]
             /\ latest' = [latest EXCEPT ![e] = new]
  /\ UNCHANGED <<cache, pending, session, up, channel, wire, elements, members, handler>>

\* Mutant of HandleChange: the cache is updated before the delta is computed, so
\* that nothing looks new.
HandleChangeCacheFirst(c) ==
  /\ JoinWhileEditing \/ session[c] # "joining"
  /\ cache' = [cache EXCEPT ![c] = Overlay(@, scene[c])]
  /\ UNCHANGED pending
  /\ UNCHANGED <<scene, session, up, channel, wire, elements, members, handler, history>>

\* onChange: any render of the editor outside the frame in which remote
\* changes are applied, so not necessarily at once after an edit.
HandleChange(c) ==
  /\ JoinWhileEditing \/ session[c] # "joining"
  /\ cache' = [cache EXCEPT ![c] = Overlay(@, scene[c])]
  /\ \/ session[c] = "out" /\ UNCHANGED pending
     \/ /\ session[c] # "out"
        /\ Delta(c) # NoChanges
        /\ pending' = [pending EXCEPT ![c] = Accumulated(@, Delta(c))]
  /\ UNCHANGED <<scene, session, up, channel, wire, elements, members, handler, history>>

\* flushChanges, 100 ms after the last change.
FlushChanges(c) ==
  /\ pending[c] # NoChanges
  /\ pending' = [pending EXCEPT ![c] = NoChanges]
  /\ \/ session[c] = "out" /\ UNCHANGED up
     \/ /\ session[c] # "out"
        /\ Len(up[c]) < MaxTransit
        /\ up' = [up EXCEPT ![c] = Append(@, Message("update", pending[c]))]
  /\ UNCHANGED <<scene, cache, session, channel, wire, elements, members, handler, history>>

\* joinRoom, over a new connection.
JoinRoom(c) ==
  /\ session[c] = "out"
  /\ up[c] = <<>> /\ stage[c] = "idle"
  /\ JoinWhileEditing \/ Quiet
  /\ \/ OldCopies \/ Drawn(elements) # Blank
     \/ \A e \in Elems : scene[c][e] = Absent \/ c \in Editors[e]
  /\ session' = [session EXCEPT ![c] = "joining"]
  /\ up' = [up EXCEPT ![c] = <<Message("join", NoChanges)>>]
  /\ channel' = [channel EXCEPT ![c] = <<>>]
  /\ wire' = [wire EXCEPT ![c] = <<>>]
  /\ UNCHANGED <<scene, cache, pending, elements, members, handler, history>>

\* leaveRoom: leave_room is sent and the socket closed; what has not been
\* flushed will find no room to go to.
LeaveRoom(c) ==
  /\ session[c] = "in"
  /\ Len(up[c]) < MaxTransit
  /\ session' = [session EXCEPT ![c] = "out"]
  /\ up' = [up EXCEPT ![c] = Append(@, Message("leave", NoChanges))]
  /\ wire' = [wire EXCEPT ![c] = <<>>]
  /\ UNCHANGED <<scene, cache, pending, channel, elements, members, handler, history>>

\* room_state replaces the scene unless the room is empty, and the cache.
LoadRoomState(c, t) ==
  /\ scene' = [scene EXCEPT ![c] = IF t = Blank THEN @ ELSE t]
  /\ cache' = [cache EXCEPT ![c] = t]
  /\ session' = [session EXCEPT ![c] = "in"]

\* elements_updated: the cache is updated, and the scene is rebuilt from the
\* elements that are not deleted (getSceneElements) and the changes.
ApplyRemote(c, ch) ==
  /\ cache' = [cache EXCEPT ![c] = Applied(@, ch)]
  /\ scene' = [scene EXCEPT ![c] = Applied(Drawn(@), ch)]
  /\ UNCHANGED session

\* A frame arrives.  Only a frame with a single message can be parsed.
Receive(c) ==
  /\ wire[c] # <<>>
  /\ wire' = [wire EXCEPT ![c] = Tail(@)]
  /\ LET frame == Head(wire[c])  m == Head(frame)
     IN IF Len(frame) > 1
          THEN UNCHANGED <<scene, cache, session>>
          ELSE \/ m.kind = "room_state" /\ LoadRoomState(c, m.changes.added)
               \/ m.kind = "update" /\ ApplyRemote(c, m.changes)
  /\ UNCHANGED <<pending, up, channel, elements, members, handler, history>>

-----------------------------------------------------------------------------
(* The server: one goroutine per connection reads and handles messages,     *)
(* another one writes.                                                      *)

\* select { case conn.Send <- data: default: }
SendTo(d, m) ==
  channel' = IF Len(channel[d]) < BufferSize /\ session[d] # "out"
               THEN [channel EXCEPT ![d] = Append(@, m)] ELSE channel

\* ReadMessage: a join sets RoomID, a leave clears it, and an update of a
\* connection outside the room is refused.
ReadMessage(c) ==
  /\ stage[c] = "idle"
  /\ up[c] # <<>>
  /\ up' = [up EXCEPT ![c] = Tail(@)]
  /\ LET m == Head(up[c])
     IN \/ /\ m.kind = "join"
           /\ members' = members \cup {c}
           /\ stage' = [stage EXCEPT ![c] = "snapshot"]
           /\ UNCHANGED work
        \/ /\ m.kind = "leave"
           /\ members' = members \ {c}
           /\ UNCHANGED <<stage, work>>
        \/ /\ m.kind = "update"
           /\ IF c \in members
                THEN /\ stage' = [stage EXCEPT ![c] = "add"]
                     /\ work' = [work EXCEPT ![c] = m]
                ELSE UNCHANGED <<stage, work>>
           /\ UNCHANGED members
  /\ UNCHANGED <<client, channel, wire, elements, todo, history>>

\* GetElements for the room_state message.
ReadElements(c) ==
  /\ stage[c] = "snapshot"
  /\ work' = [work EXCEPT ![c] = Message("room_state", [NoChanges EXCEPT !.added = elements])]
  /\ stage' = [stage EXCEPT ![c] = "reply"]
  /\ UNCHANGED <<client, up, channel, wire, elements, members, todo, history>>

SendRoomState(c) ==
  /\ stage[c] = "reply"
  /\ PumpKeepsUp => channel[c] = <<>>
  /\ SendTo(c, work[c])
  /\ stage' = [stage EXCEPT ![c] = "idle"]
  /\ work' = [work EXCEPT ![c] = Message("update", NoChanges)]
  /\ UNCHANGED <<client, up, wire, elements, members, todo, history>>

AddElements(c) ==
  /\ stage[c] = "add"
  /\ elements' = Overlay(elements, work[c].changes.added)
  /\ stage' = [stage EXCEPT ![c] = "update"]
  /\ UNCHANGED <<client, up, channel, wire, members, work, todo, history>>

UpdateElements(c) ==
  /\ stage[c] = "update"
  /\ elements' = Overlay(elements, work[c].changes.updated)
  /\ stage' = [stage EXCEPT ![c] = "delete"]
  /\ UNCHANGED <<client, up, channel, wire, members, work, todo, history>>

\* Mutant of Recipients: the sender is not excluded.
RecipientsAll(c) == Clients

Recipients(c) == Clients \ {c}

DeleteElements(c) ==
  /\ stage[c] = "delete"
  /\ elements' = Erase(elements, work[c].changes.deleted)
  /\ stage' = [stage EXCEPT ![c] = "broadcast"]
  /\ todo' = [todo EXCEPT ![c] = Recipients(c)]
  /\ UNCHANGED <<client, up, channel, wire, members, work, history>>

\* broadcastToRoom visits connection d.
BroadcastVisits(c, d) ==
  /\ stage[c] = "broadcast"
  /\ d \in todo[c]
  /\ todo' = [todo EXCEPT ![c] = @ \ {d}]
  /\ PumpKeepsUp => channel[d] = <<>>
  /\ IF d \in members THEN SendTo(d, work[c]) ELSE UNCHANGED channel
  /\ UNCHANGED <<client, up, wire, elements, members, stage, work, history>>

BroadcastEnds(c) ==
  /\ stage[c] = "broadcast"
  /\ todo[c] = {}
  /\ stage' = [stage EXCEPT ![c] = "idle"]
  /\ work' = [work EXCEPT ![c] = Message("update", NoChanges)]
  /\ UNCHANGED <<client, up, channel, wire, elements, members, todo, history>>

\* writePump joins everything that is queued in one frame.
WritePump(c) ==
  /\ channel[c] # <<>>
  /\ Len(wire[c]) < MaxTransit
  /\ channel' = [channel EXCEPT ![c] = <<>>]
  /\ wire' = [wire EXCEPT ![c] = IF session[c] = "out" THEN @ ELSE Append(@, channel[c])]
  /\ UNCHANGED <<client, up, elements, members, handler, history>>

-----------------------------------------------------------------------------

Init ==
  /\ scene = [c \in Clients |-> Blank] /\ cache = [c \in Clients |-> Blank]
  /\ pending = [c \in Clients |-> NoChanges]
  /\ session = [c \in Clients |-> "out"]
  /\ up = [c \in Clients |-> <<>>]
  /\ channel = [c \in Clients |-> <<>>] /\ wire = [c \in Clients |-> <<>>]
  /\ elements = Blank /\ members = {}
  /\ stage = [c \in Clients |-> "idle"]
  /\ work = [c \in Clients |-> Message("update", NoChanges)]
  /\ todo = [c \in Clients |-> {}]
  /\ latest = Blank /\ clock = 0

\* What the goroutine that reads c's messages does.
ReadPump(c) ==
  \/ ReadMessage(c) \/ ReadElements(c) \/ SendRoomState(c)
  \/ AddElements(c) \/ UpdateElements(c) \/ DeleteElements(c)
  \/ \E d \in Clients : BroadcastVisits(c, d)
  \/ BroadcastEnds(c)

Next ==
  \E c \in Clients :
    \/ \E e \in Elems : Edit(c, e)
    \/ JoinRoom(c) \/ LeaveRoom(c)
    \/ HandleChange(c) \/ FlushChanges(c) \/ Receive(c)
    \/ ReadPump(c) \/ WritePump(c)

Spec == Init /\ [][Next]_svars

\* Timers fire, the editor renders again, the network delivers, and goroutines
\* are scheduled; sends to one channel take turns.
Fairness ==
  \A c \in Clients :
    /\ WF_svars(HandleChange(c)) /\ WF_svars(FlushChanges(c)) /\ WF_svars(Receive(c))
    /\ SF_svars(ReadPump(c)) /\ WF_svars(WritePump(c))

FairSpec == Spec /\ Fairness

-----------------------------------------------------------------------------
(* Properties. *)

\* "ensure all clients eventually reach consistent state": when nothing is on
\* its way any more, everybody in the room sees the drawing the server has.
Converges ==
  Quiet => \A c \in Clients : session[c] = "in" => Drawn(scene[c]) = Drawn(elements)

\* What only one user works on changes for that user by their own edits alone,
\* whatever arrives from the others.
OwnEditsStay ==
  [][\A c \in Clients, e \in Elems :
        Editors[e] = {c} /\ session[c] = "in" /\ Drawn(scene'[c])[e] # Drawn(scene[c])[e]
          => Edit(c, e)]_svars

\* Somebody in the room who works on e has its latest version; everybody has.
Authored(e) ==
  latest[e] # Absent /\ \E c \in Editors[e] :
    session[c] = "in" /\ Drawn(scene[c])[e] = Drawn(latest)[e]
SharedByAll(e) ==
  \A d \in Clients : session[d] = "in" => Drawn(scene[d])[e] = Drawn(latest)[e]

\* "propagate drawing changes ... to all room participants": an edit made in
\* the room, a deletion too, reaches everybody in it, unless its author leaves.
EditsReachAll == \A e \in Elems : Authored(e) ~> SharedByAll(e) \/ ~Authored(e)
=============================================================================
