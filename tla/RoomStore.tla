----------------------------- MODULE RoomStore -----------------------------
(***************************************************************************)
(* The rooms of internal/room/manager.go with the write-behind queue of    *)
(* Persistence below them: rooms are created by the first join, loaded     *)
(* from the database by a goroutine, edited by the message handlers of     *)
(* internal/websocket/handler.go (one goroutine per connection), evicted   *)
(* by the cleanup loop and snapshotted at shutdown.                        *)
(*                                                                         *)
(* A handler is a list of stages still to do; every stage is one critical  *)
(* section of the code (Room.Mu, rm.mu or pm.mu).  The slice of a room's   *)
(* elements is a set of updates: an id added twice is there twice, and the *)
(* later one in the slice has the larger stamp.                            *)
(***************************************************************************)
EXTENDS Persistence

CONSTANTS
  Messages,         \* update_elements messages: records of three id sets
  EditWhileLoading, \* TRUE when clients edit before the room is loaded
  LateSnapshots     \* TRUE when a room is joined again before its snapshot is written

ASSUME RoomStoreAssumption ==
  /\ Messages \subseteq [added : SUBSET Elems, updated : SUBSET Elems, deleted : SUBSET Elems]
  /\ \A m \in Messages : IsFiniteSet(m.added) /\ IsFiniteSet(m.updated)
  /\ EditWhileLoading \in BOOLEAN
  /\ LateSnapshots \in BOOLEAN

VARIABLES
  live,     \* keys of rm.rooms
  ids,      \* keys of rm.roomDBIDs
  mem,      \* Room.Elements
  members,  \* Room.Participants, by connection
  load,     \* the goroutine GetOrCreateRoom starts for a new room
  op,       \* the handler each connection's goroutine is in
  snapped   \* StopPersistence has started its snapshots

rvars == <<live, ids, mem, members, load, op, snapped>>
vars  == <<pvars, rvars>>

NoLoad == [at |-> "done", found |-> {}]
NoOp   == [todo |-> <<>>, room |-> CHOOSE r \in Rooms : TRUE,
           msg |-> [added |-> {}, updated |-> {}, deleted |-> {}], stamp |-> 0]

\* The goroutine of connection c is inside a handler.
Busy(c) == op[c].todo # <<>> \/ ~Idle(c)

At(c, stage) == op[c].todo # <<>> /\ Head(op[c].todo) = stage

Versions(es, n) == {[elem |-> e, stamp |-> n] : e \in es}

\* Of several entries with one id, UpdateElements keeps the last.
Deduplicated(els) == {x \in els : \A y \in els : y.elem = x.elem => y.stamp <= x.stamp}

-----------------------------------------------------------------------------
(* Joining, loading and leaving. *)

\* GetOrCreateRoom and AddUser of handleJoinRoom.
Join(c, r) ==
  /\ phase # "exited"
  /\ ~Busy(c)
  /\ \A q \in Rooms : c \notin members[q]
  /\ LateSnapshots \/ \A s \in snapshots : s.room # r
  /\ live' = live \cup {r}
  /\ members' = [members EXCEPT ![r] = @ \cup {c}]
  /\ IF r \in live
       THEN UNCHANGED <<mem, load>>
       ELSE /\ mem'  = [mem  EXCEPT ![r] = {}]
            /\ load' = [load EXCEPT ![r] = [at |-> "resolve", found |-> {}]]
  /\ UNCHANGED <<pvars, ids, op, snapped>>

\* The loader gets the database id of the room.  On an error it gives up: the
\* room stays without an id for as long as it lives.
LoaderResolves(r) ==
  /\ phase # "exited"
  /\ load[r].at = "resolve"
  /\ \/ /\ ids' = ids \cup {r}
        /\ load' = [load EXCEPT ![r].at = "query"]
     \/ /\ DbMayFail
        /\ load' = [load EXCEPT ![r] = NoLoad]
        /\ UNCHANGED ids
  /\ UNCHANGED <<pvars, live, mem, members, op, snapped>>

\* LoadElements; an empty result or an error leaves the room as it is.
LoaderQueries(r) ==
  LET found == {u \in Updates : rows[r][u.elem] = u.stamp}
  IN /\ phase # "exited"
     /\ load[r].at = "query"
     /\ \/ load' = [load EXCEPT ![r] = IF found = {} THEN NoLoad
                                       ELSE [at |-> "replace", found |-> found]]
        \/ DbMayFail /\ load' = [load EXCEPT ![r] = NoLoad]
     /\ UNCHANGED <<pvars, live, ids, mem, members, op, snapped>>

\* Mutant of LoaderReplaces: the loaded elements are not assigned.
LoaderForgets(r) ==
  /\ phase # "exited"
  /\ load[r].at = "replace"
  /\ load' = [load EXCEPT ![r] = NoLoad]
  /\ UNCHANGED <<pvars, live, ids, mem, members, op, snapped>>

\* room.Elements = elements
LoaderReplaces(r) ==
  /\ phase # "exited"
  /\ load[r].at = "replace"
  /\ mem'  = [mem  EXCEPT ![r] = load[r].found]
  /\ load' = [load EXCEPT ![r] = NoLoad]
  /\ UNCHANGED <<pvars, live, ids, members, op, snapped>>

\* RemoveUser of handleLeaveRoom; FlushRoom is what is left to do.
Leave(c, r) ==
  /\ phase # "exited"
  /\ ~Busy(c)
  /\ c \in members[r]
  /\ members' = [members EXCEPT ![r] = @ \ {c}]
  /\ op' = [op EXCEPT ![c] = [NoOp EXCEPT !.todo = <<"flush">>, !.room = r]]
  /\ UNCHANGED <<pvars, live, ids, mem, load, snapped>>

\* FlushRoom: nothing to do without a database id or without updates.
LeaverFlushes(c) ==
  LET r == op[c].room
  IN /\ At(c, "flush")
     /\ op' = [op EXCEPT ![c] = NoOp]
     /\ IF r \in ids /\ pending[r] # <<>>
          THEN FlushRoomTakes(c, r)
          ELSE phase # "exited" /\ UNCHANGED pvars
     /\ UNCHANGED <<live, ids, mem, members, load, snapped>>

-----------------------------------------------------------------------------
(* handleUpdateElements. *)

\* A stage for the list els of a message, if it is not empty.
Stage(name, els) == IF els = {} THEN <<>> ELSE <<name>>

\* The memory operations of a message's lists come before QueuePersistence.
MemoryStages(m) ==
  Stage("add", m.added) \o Stage("update", m.updated) \o Stage("delete", m.deleted)

\* Mutant of Stages: added elements are not queued for persistence.
StagesWithoutQueueAdded(m) ==
  MemoryStages(m) \o <<"dbid">> \o Stage("queueUpdated", m.updated) \o Stage("queueDeleted", m.deleted)

\* QueuePersistence asks for the database id before it queues the three lists.
Stages(m) ==
  MemoryStages(m) \o <<"dbid">> \o Stage("queueAdded", m.added)
    \o Stage("queueUpdated", m.updated) \o Stage("queueDeleted", m.deleted)

Receive(c, r, m) ==
  /\ phase # "exited"
  /\ ~Busy(c)
  /\ c \in members[r]
  /\ clock < MaxStamp
  /\ EditWhileLoading \/ load[r] = NoLoad
  /\ clock' = clock + 1
  /\ op' = [op EXCEPT ![c] = [todo |-> Stages(m), room |-> r, msg |-> m, stamp |-> clock + 1]]
  /\ UNCHANGED <<pending, batch, deletions, snapshots, rows, phase, stops, accepted, saved, deleted>>
  /\ UNCHANGED <<live, ids, mem, members, load, snapped>>

StageDone(c) == op' = [op EXCEPT ![c].todo = Tail(@)]

EditsMemory(c, stage, els) ==
  /\ phase # "exited"
  /\ At(c, stage)
  /\ mem' = [mem EXCEPT ![op[c].room] = els]
  /\ StageDone(c)
  /\ UNCHANGED <<pvars, live, ids, members, load, snapped>>

AddElements(c) ==
  EditsMemory(c, "add", mem[op[c].room] \cup Versions(op[c].msg.added, op[c].stamp))

UpdateElements(c) ==
  LET m == op[c].msg IN
  EditsMemory(c, "update",
    {x \in Deduplicated(mem[op[c].room]) : x.elem \notin m.updated}
      \cup Versions(m.updated, op[c].stamp))

DeleteElements(c) ==
  EditsMemory(c, "delete", {x \in mem[op[c].room] : x.elem \notin op[c].msg.deleted})

\* GetRoomDBID in QueuePersistence: without an id, persistence is skipped.
ReadDBID(c) ==
  /\ phase # "exited"
  /\ At(c, "dbid")
  /\ IF op[c].room \in ids THEN StageDone(c) ELSE op' = [op EXCEPT ![c] = NoOp]
  /\ UNCHANGED <<pvars, live, ids, mem, members, load, snapped>>

QueuesUpdates(c, stage, es) ==
  /\ phase # "exited"
  /\ At(c, stage)
  /\ QueueElementUpdates(op[c].room, SetToSeq(Versions(es, op[c].stamp)))
  /\ StageDone(c)
  /\ UNCHANGED <<clock, live, ids, mem, members, load, snapped>>

QueueAdded(c)   == QueuesUpdates(c, "queueAdded", op[c].msg.added)
QueueUpdated(c) == QueuesUpdates(c, "queueUpdated", op[c].msg.updated)

QueueDeleted(c) ==
  /\ phase # "exited"
  /\ At(c, "queueDeleted")
  /\ QueueElementDeletion(op[c].room, op[c].msg.deleted, op[c].stamp)
  /\ StageDone(c)
  /\ UNCHANGED <<clock, live, ids, mem, members, load, snapped>>

-----------------------------------------------------------------------------
(* Cleanup and shutdown. *)

Cleanup(r) ==
  /\ phase # "exited"
  /\ r \in live /\ members[r] = {}
  /\ \A c \in Conns : Busy(c) => op[c].room # r
  /\ load[r] = NoLoad
  /\ InFlight(r) = {} /\ \A d \in deletions : d.room # r
  /\ DbMayFail \/ pending[r] = <<>>
  /\ IF r \in ids THEN SaveRoomSnapshot(r, mem[r]) ELSE UNCHANGED snapshots
  /\ live' = live \ {r}
  /\ ids'  = ids \ {r}
  /\ mem'  = [mem EXCEPT ![r] = {}]
  /\ UNCHANGED <<pending, batch, deletions, rows, phase, clock, stops, accepted, saved, deleted>>
  /\ UNCHANGED <<members, load, op, snapped>>

\* StopPersistence first snapshots every room that has a database id ...
SnapshotRooms ==
  /\ phase = "running"
  /\ ~snapped /\ stops < MaxStops
  /\ snapped' = TRUE
  /\ snapshots' = snapshots \cup
       {[room |-> r, elements |-> mem[r], stamp |-> clock] : r \in {q \in live \cap ids : mem[q] # {}}}
  /\ UNCHANGED <<pending, batch, deletions, rows, phase, clock, stops, accepted, saved, deleted>>
  /\ UNCHANGED <<live, ids, mem, members, load, op>>

\* ... then stops the PersistenceManager.
StopPersistence ==
  /\ snapped
  /\ Stop
  /\ UNCHANGED <<snapshots, rvars>>

Reset ==
  /\ live' = {} /\ ids' = {}
  /\ mem' = None /\ members' = None
  /\ load' = [r \in Rooms |-> NoLoad]
  /\ op' = [c \in Conns |-> NoOp]
  /\ snapped' = FALSE

-----------------------------------------------------------------------------

RoomInit ==
  /\ Init
  /\ live = {} /\ ids = {}
  /\ mem = None /\ members = None
  /\ load = [r \in Rooms |-> NoLoad]
  /\ op = [c \in Conns |-> NoOp]
  /\ snapped = FALSE

Handler(c) ==
  \/ \E r \in Rooms : Join(c, r) \/ Leave(c, r) \/ \E m \in Messages : Receive(c, r, m)
  \/ LeaverFlushes(c)
  \/ AddElements(c) \/ UpdateElements(c) \/ DeleteElements(c)
  \/ ReadDBID(c) \/ QueueAdded(c) \/ QueueUpdated(c) \/ QueueDeleted(c)

Loader(r) == LoaderResolves(r) \/ LoaderQueries(r) \/ LoaderReplaces(r)

\* The goroutines of the PersistenceManager, which leave the rooms alone.
Background ==
  /\ \/ TickerTakes
     \/ \E f \in Flushers, r \in Rooms : Save(f, r) \/ SaveFails(f, r)
     \/ \E d \in deletions : RunDeletion(d)
     \/ \E s \in snapshots : RunSnapshot(s)
     \/ Exit
  /\ UNCHANGED rvars

RoomNext ==
  \/ \E c \in Conns : Handler(c)
  \/ \E r \in Rooms : Loader(r) \/ Cleanup(r)
  \/ Background
  \/ SnapshotRooms
  \/ StopPersistence
  \/ (Restart \/ Crash) /\ Reset

RoomSpec == RoomInit /\ [][RoomNext]_vars

-----------------------------------------------------------------------------
(* Properties. *)

Handling(r) == \E c \in Conns : op[c].todo # <<>> /\ op[c].room = r

\* Nothing a room shows exists in memory only: once its handlers are done,
\* every element has been handed to the queue or comes from the database
\* ("QueuePersistence() called after every element add/update/delete").
MemoryIsBacked ==
  \A r \in live :
    ~Handling(r) => mem[r] \subseteq accepted[r] \cup saved[r]

\* The same, for rooms that got their database id.
KnownRoomIsBacked ==
  \A r \in live \cap ids :
    ~Handling(r) => mem[r] \subseteq accepted[r] \cup saved[r]

\* "No data loss with concurrent edits": an element that was added to a live
\* room and never deleted is still in it once its handlers and loader are done.
EditsStayInRoom ==
  \A r \in live : ~Handling(r) /\ load[r] = NoLoad =>
    \A u \in accepted[r] : deleted[r][u.elem] = 0 => \E x \in mem[r] : x.elem = u.elem

\* "Elements persist across server restarts": with no queue, flusher, deletion
\* or snapshot left for a room, every element that was saved and never deleted
\* has a row.
SavedElementsPersist ==
  \A r \in Rooms :
    Quiet(r) /\ (\A s \in snapshots : s.room # r) =>
      \A u \in saved[r] : deleted[r][u.elem] = 0 => rows[r][u.elem] # NoRow

=============================================================================
