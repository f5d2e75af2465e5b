---------------------------- MODULE Persistence ----------------------------
(***************************************************************************)
(* The write-behind queue of the backend: internal/room/persistence.go on  *)
(* top of the element queries of internal/database/repository.go.          *)
(*                                                                         *)
(* Handlers append element updates to a per-room queue under pm.mu; three  *)
(* kinds of goroutine empty it and write it to PostgreSQL outside the      *)
(* lock: the 3-second flush loop (Ticker), the goroutine of a connection   *)
(* that leaves its room (FlushRoom, one per member of Conns), and the main *)
(* goroutine at shutdown (Stopper, FlushAll).  Deletions and snapshots run *)
(* in goroutines of their own and never touch the queue.                   *)
(*                                                                         *)
(* An element's JSON is abstracted to the stamp of the edit that wrote it: *)
(* stamps grow in the order in which edits reach the server.               *)
(***************************************************************************)
EXTENDS Naturals, FiniteSets, Sequences, SequencesExt

CONSTANTS
  Rooms,        \* rooms, by their database id (rooms.id)
  Elems,        \* element ids
  Conns,        \* goroutines of connections: each may call FlushRoom
  Ticker,       \* the goroutine of flushLoop
  Stopper,      \* the main goroutine, in StopPersistence
  DeleteSets,   \* the id lists a client may delete in one message
  DbMayFail,    \* TRUE when database calls may return errors
  MaxStamp,     \* bound: edits taken in a behaviour
  MaxStops      \* bound: orderly shutdowns in a behaviour

Flushers == Conns \cup {Ticker, Stopper}

ASSUME PersistenceAssumption ==
  /\ Ticker # Stopper
  /\ Ticker \notin Conns /\ Stopper \notin Conns
  /\ DeleteSets \subseteq SUBSET Elems
  /\ {} \notin DeleteSets
  /\ DbMayFail \in BOOLEAN
  /\ MaxStamp \in Nat /\ MaxStops \in Nat

VARIABLES
  pending,      \* pm.pending: queued updates of each room, oldest first
  batch,        \* updates a goroutine took out of pending and has not finished with
  deletions,    \* goroutines started by QueueElementDeletion
  snapshots,    \* goroutines started by SaveRoomSnapshot
  rows,         \* table room_elements: stamp of the stored data, or NoRow
  phase,        \* of the process: running, stopping (Stop was called), exited
  clock,        \* stamp of the latest edit
  stops,        \* orderly shutdowns so far
  accepted,     \* history: updates this process has queued
  saved,        \* history: updates a committed transaction contained
  deleted       \* history: stamp of the latest deletion of each element

pvars == <<pending, batch, deletions, snapshots, rows, phase, clock, stops,
           accepted, saved, deleted>>

NoRow   == 0
Stamps  == 1..MaxStamp
Updates == [elem : Elems, stamp : Stamps]
Table   == [Elems -> Stamps \cup {NoRow}]

Empty == [r \in Rooms |-> <<>>]
None  == [r \in Rooms |-> {}]

-----------------------------------------------------------------------------
(* The queries of repository.go, as functions from a room's rows to its     *)
(* rows after the transaction.                                              *)

\* Mutant of LastWrite: the first write of an element wins (ON CONFLICT DO NOTHING).
FirstWrite(s, i, e) ==
  /\ s[i].elem = e
  /\ \A j \in DOMAIN s : s[j].elem = e => i <= j

\* Position i of the statement list s is the last one that writes element e.
LastWrite(s, i, e) ==
  /\ s[i].elem = e
  /\ \A j \in DOMAIN s : s[j].elem = e => j <= i

\* BatchSaveElements: one upsert per update, in order, in one transaction.
Upsert(t, s) ==
  [e \in Elems |->
     IF \E i \in DOMAIN s : LastWrite(s, i, e)
       THEN s[CHOOSE i \in DOMAIN s : LastWrite(s, i, e)].stamp
       ELSE t[e]]

\* DeleteElements.
Without(t, ids) == [e \in Elems |-> IF e \in ids THEN NoRow ELSE t[e]]

-----------------------------------------------------------------------------
(* The operations of the PersistenceManager. *)

QueueElementUpdates(r, us) ==
  /\ pending'  = [pending  EXCEPT ![r] = @ \o us]
  /\ accepted' = [accepted EXCEPT ![r] = @ \cup ToSet(us)]
  /\ UNCHANGED <<batch, deletions, snapshots, rows, phase, stops, saved, deleted>>

QueueElementDeletion(r, ids, n) ==
  /\ deletions' = deletions \cup {[room |-> r, ids |-> ids, stamp |-> n]}
  /\ deleted'   = [deleted EXCEPT ![r] = [e \in Elems |-> IF e \in ids THEN n ELSE @[e]]]
  /\ UNCHANGED <<pending, batch, snapshots, rows, phase, stops, accepted, saved>>

\* The goroutine of a deletion: the DELETE commits, or fails and is forgotten.
RunDeletion(d) ==
  /\ phase # "exited"
  /\ d \in deletions
  /\ deletions' = deletions \ {d}
  /\ \/ rows' = [rows EXCEPT ![d.room] = Without(@, d.ids)]
     \/ DbMayFail /\ UNCHANGED rows
  /\ UNCHANGED <<pending, batch, snapshots, phase, clock, stops, accepted, saved, deleted>>

HasDuplicates(els) == \E x, y \in els : x # y /\ x.elem = y.elem

\* SaveAllElementsRaw: all rows are replaced by the given elements.  The
\* inserts have no ON CONFLICT clause: a repeated id fails the transaction.
Replaced(els) ==
  [e \in Elems |->
     IF \E x \in els : x.elem = e THEN (CHOOSE x \in els : x.elem = e).stamp ELSE NoRow]

\* SaveRoomSnapshot copies the elements and starts a goroutine; an empty room
\* is not saved.
SaveRoomSnapshot(r, els) ==
  snapshots' = snapshots \cup
    (IF els = {} THEN {} ELSE {[room |-> r, elements |-> els, stamp |-> clock]})

RunSnapshot(s) ==
  /\ phase # "exited"
  /\ s \in snapshots
  /\ snapshots' = snapshots \ {s}
  /\ \/ /\ ~HasDuplicates(s.elements)
        /\ rows'  = [rows  EXCEPT ![s.room] = Replaced(s.elements)]
        /\ saved' = [saved EXCEPT ![s.room] = @ \cup s.elements]
     \/ (DbMayFail \/ HasDuplicates(s.elements)) /\ UNCHANGED <<rows, saved>>
  /\ UNCHANGED <<pending, batch, deletions, phase, clock, stops, accepted, deleted>>

\* Mutant of Take: the queue is not deleted from the map.
TakeAndKeep(f, R) ==
  /\ batch'   = [batch EXCEPT ![f] = [r \in Rooms |-> IF r \in R THEN pending[r] ELSE @[r]]]
  /\ UNCHANGED pending

\* The locked swap at the head of FlushRoom, flushAllPending and FlushAll: f
\* takes everything that is queued for the rooms R.
Take(f, R) ==
  /\ batch'   = [batch EXCEPT ![f] = [r \in Rooms |-> IF r \in R THEN pending[r] ELSE @[r]]]
  /\ pending' = [r \in Rooms |-> IF r \in R THEN <<>> ELSE pending[r]]

Idle(f) == batch[f] = Empty

\* A tick of flushLoop.  The loop is sequential, so it takes no new batch
\* before the last one is finished; Stop stops the ticker, but a tick already
\* in its channel may still win the select against done.
TickerTakes ==
  /\ phase # "exited"
  /\ Idle(Ticker)
  /\ pending # Empty
  /\ Take(Ticker, Rooms)
  /\ UNCHANGED <<deletions, snapshots, rows, phase, clock, stops, accepted, saved, deleted>>

FlushRoomTakes(c, r) ==
  /\ phase # "exited"
  /\ Idle(c)
  /\ pending[r] # <<>>
  /\ Take(c, {r})
  /\ UNCHANGED <<deletions, snapshots, rows, phase, clock, stops, accepted, saved, deleted>>

\* BatchSaveElements commits the updates f holds for room r.
Save(f, r) ==
  /\ phase # "exited"
  /\ batch[f][r] # <<>>
  /\ rows'  = [rows  EXCEPT ![r] = Upsert(@, batch[f][r])]
  /\ saved' = [saved EXCEPT ![r] = @ \cup ToSet(batch[f][r])]
  /\ batch' = [batch EXCEPT ![f][r] = <<>>]
  /\ UNCHANGED <<pending, deletions, snapshots, phase, clock, stops, accepted, deleted>>

\* Mutant of Requeued: the batch is forgotten.
Forgotten(f, r) == pending

\* What FlushRoom and flushAllPending do with a batch whose save failed: put
\* it back in front of the queue.  FlushAll only logs the error.
Requeued(f, r) ==
  IF f = Stopper THEN pending ELSE [pending EXCEPT ![r] = batch[f][r] \o @]

\* BatchSaveElements returns an error: the transaction rolled back, or the
\* connection broke after the commit took effect.
SaveFails(f, r) ==
  /\ DbMayFail /\ phase # "exited"
  /\ batch[f][r] # <<>>
  /\ \/ UNCHANGED <<rows, saved, deleted>>
     \/ /\ rows'  = [rows  EXCEPT ![r] = Upsert(@, batch[f][r])]
        /\ saved' = [saved EXCEPT ![r] = @ \cup ToSet(batch[f][r])]
  /\ pending' = Requeued(f, r)
  /\ batch'   = [batch EXCEPT ![f][r] = <<>>]
  /\ UNCHANGED <<deletions, snapshots, phase, clock, stops, accepted, deleted>>

\* Stop: the ticker stops, done is closed, and FlushAll takes the whole queue.
Stop ==
  /\ phase = "running"
  /\ stops < MaxStops
  /\ stops' = stops + 1
  /\ phase' = "stopping"
  /\ Take(Stopper, Rooms)
  /\ UNCHANGED <<deletions, rows, clock, accepted, saved, deleted>>

\* main returns once FlushAll is done; no other goroutine is waited for.
Exit ==
  /\ phase = "stopping"
  /\ Idle(Stopper)
  /\ phase' = "exited"
  /\ UNCHANGED <<pending, batch, deletions, snapshots, rows, clock, stops, accepted, saved, deleted>>

\* A new process: only the tables survive.
FreshProcess ==
  /\ pending' = Empty
  /\ batch' = [f \in Flushers |-> Empty]
  /\ deletions' = {} /\ snapshots' = {}
  /\ accepted' = None
  /\ phase' = "running"
  /\ UNCHANGED <<rows, clock, stops, saved, deleted>>

Restart == phase = "exited" /\ FreshProcess

\* The process is killed and the container runtime starts it again.
Crash == phase # "exited" /\ FreshProcess

-----------------------------------------------------------------------------
(* The environment: message handlers that queue one edit at a time.  They   *)
(* run until the process exits, after Stop too (Server.Shutdown does not    *)
(* close WebSocket connections).                                            *)

\* Mutant of ClientUpdates: the edit carries the stamp before its own.
ClientUpdatesLate(r, e) ==
  /\ phase # "exited"
  /\ clock < MaxStamp
  /\ clock' = clock + 1
  /\ QueueElementUpdates(r, <<[elem |-> e, stamp |-> clock]>>)

ClientUpdates(r, e) ==
  /\ phase # "exited"
  /\ clock < MaxStamp
  /\ clock' = clock + 1
  /\ QueueElementUpdates(r, <<[elem |-> e, stamp |-> clock + 1]>>)

ClientDeletes(r, ids) ==
  /\ phase # "exited"
  /\ clock < MaxStamp
  /\ clock' = clock + 1
  /\ QueueElementDeletion(r, ids, clock + 1)

Init ==
  /\ pending = Empty
  /\ batch = [f \in Flushers |-> Empty]
  /\ deletions = {} /\ snapshots = {}
  /\ rows = [r \in Rooms |-> [e \in Elems |-> NoRow]]
  /\ phase = "running"
  /\ clock = 0 /\ stops = 0
  /\ accepted = None /\ saved = None
  /\ deleted = [r \in Rooms |-> [e \in Elems |-> 0]]

Next ==
  \/ \E r \in Rooms, e \in Elems : ClientUpdates(r, e)
  \/ \E r \in Rooms, ids \in DeleteSets : ClientDeletes(r, ids)
  \/ \E d \in deletions : RunDeletion(d)
  \/ TickerTakes
  \/ \E c \in Conns, r \in Rooms : FlushRoomTakes(c, r)
  \/ \E f \in Flushers, r \in Rooms : Save(f, r) \/ SaveFails(f, r)
  \/ Stop /\ UNCHANGED snapshots
  \/ Exit
  \/ Restart
  \/ Crash

Spec == Init /\ [][Next]_pvars

\* The ticker fires every 3 seconds, a goroutine in a database call gets its
\* answer, and an outage of the database ends: a save that can be attempted
\* again and again eventually succeeds.
Fairness ==
  /\ WF_pvars(TickerTakes)
  /\ \A f \in Flushers, r \in Rooms : SF_pvars(Save(f, r))

FairSpec == Spec /\ Fairness

-----------------------------------------------------------------------------
(* Properties. *)

TypeOK ==
  /\ pending \in [Rooms -> Seq(Updates)]
  /\ batch \in [Flushers -> [Rooms -> Seq(Updates)]]
  /\ deletions \subseteq [room : Rooms, ids : SUBSET Elems, stamp : Stamps]
  /\ snapshots \subseteq [room : Rooms, elements : SUBSET Updates, stamp : 0..MaxStamp]
  /\ rows \in [Rooms -> Table]
  /\ phase \in {"running", "stopping", "exited"}
  /\ clock \in 0..MaxStamp
  /\ stops \in 0..MaxStops
  /\ accepted \in [Rooms -> SUBSET Updates]
  /\ saved \in [Rooms -> SUBSET Updates]
  /\ deleted \in [Rooms -> [Elems -> 0..MaxStamp]]

\* Everything goroutine f or the queue still holds for room r.
InFlight(r) == UNION {ToSet(batch[f][r]) : f \in Flushers}

\* No update is dropped: until an orderly shutdown begins, an update that was
\* queued is in the queue, in the hands of a flusher, or in a committed
\* transaction, whatever saves failed and were put back in the meantime.
NoUpdateDropped ==
  phase = "running" =>
    \A r \in Rooms : accepted[r] \subseteq saved[r] \cup InFlight(r) \cup ToSet(pending[r])

\* One copy: flushers never hold the same update, none is in the queue and in
\* a batch at the same time, and none is queued twice (two goroutines never
\* write the same update concurrently).
OneCopy ==
  \A r \in Rooms :
    /\ \A i, j \in DOMAIN pending[r] : pending[r][i] = pending[r][j] => i = j
    /\ \A f \in Flushers : ToSet(batch[f][r]) \cap ToSet(pending[r]) = {}
    /\ \A f, g \in Flushers : f # g => ToSet(batch[f][r]) \cap ToSet(batch[g][r]) = {}

\* "The last update received by the server wins": the database never goes back
\* to an older version of an element.
NeverRegresses ==
  [][\A r \in Rooms, e \in Elems :
        rows[r][e] # NoRow /\ rows'[r][e] # NoRow => rows'[r][e] >= rows[r][e]]_pvars

\* A queued update is eventually committed, unless the process goes down.
EventuallySaved ==
  \A r \in Rooms, n \in Stamps, e \in Elems :
    [elem |-> e, stamp |-> n] \in accepted[r]
      ~> ([elem |-> e, stamp |-> n] \in saved[r] \/ phase # "running"
            \/ [elem |-> e, stamp |-> n] \notin accepted[r])

\* "StopPersistence() flushes all rooms on server shutdown": after an orderly
\* exit no update is left behind except those queued after FlushAll.
ShutdownFlushesAll ==
  phase = "exited" =>
    \A r \in Rooms : accepted[r] \subseteq saved[r] \cup ToSet(pending[r])

Quiet(r) ==
  /\ pending[r] = <<>>
  /\ InFlight(r) = {}
  /\ \A d \in deletions : d.room # r

\* "DeleteElements() - Remove elements by ID": once no queue, flusher or
\* deletion has work left for a room, no row of it is older than the deletion
\* of its element.
DeletionsStick ==
  \A r \in Rooms : Quiet(r) =>
    \A e \in Elems : rows[r][e] = NoRow \/ rows[r][e] > deleted[r][e]

-----------------------------------------------------------------------------
(* The flush loop alone implements a durable log: the log is every update   *)
(* the process has taken or the database has, by stamp; its durable prefix  *)
(* is what has been committed.                                              *)
Known(r) == accepted[r] \cup saved[r]

\* A set of updates in the order of their stamps, the k-th of which is the one
\* that k of them, itself included, are stamped no later than.
ByStamp(S) ==
  [k \in 1..Cardinality(S) |->
     CHOOSE u \in S : Cardinality({v \in S : v.stamp <= u.stamp}) = k]

Log == INSTANCE DurableLog WITH
  Edits   <- Updates,
  log     <- [r \in Rooms |-> ByStamp(Known(r))],
  durable <- [r \in Rooms |-> Cardinality(saved[r])],
  table   <- rows

\* The queue, the flush loop, failed saves and crashes never show anybody more
\* or less than a prefix of the edits, in their order.
ImplementsDurableLog == Log!LogSpec

=============================================================================
