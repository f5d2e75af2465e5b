------------------------------- MODULE Canvas -------------------------------
(***************************************************************************)
(* The canvas requests of cmd/server/canvas_handlers.go: a REST client may *)
(* save, restore or clear the canvas of a room while its members edit it.  *)
(* A handler reads and writes memory and database in separate steps, next  *)
(* to everything RoomStore does and to the other requests, each in its own *)
(* goroutine; no request tells the members anything.                       *)
(***************************************************************************)
EXTENDS RoomStore

CONSTANTS
  Workers,     \* goroutines of the HTTP server that serve canvas requests
  MaxRequests  \* bound: canvas requests in a behaviour

ASSUME CanvasAssumption == MaxRequests \in Nat

VARIABLES
  known,     \* rooms with a row in table rooms
  request,   \* the canvas request each goroutine is serving
  requests,  \* requests so far
  cleared,   \* history: clock of the latest completed ClearCanvas, by room
  kept       \* history: what the saves since the latest clear stored for good, by room

cvars == <<known, request, requests, cleared, kept>>

NoRequest == [at |-> "none", room |-> CHOOSE r \in Rooms : TRUE, elements |-> {}]

Begin(w, r, stage, els) ==
  /\ phase # "exited"
  /\ request[w] = NoRequest /\ requests < MaxRequests
  /\ requests' = requests + 1
  /\ request' = [request EXCEPT ![w] = [at |-> stage, room |-> r, elements |-> els]]

InRequest(w, stage) == phase # "exited" /\ request[w].at = stage

Done(w) == request' = [request EXCEPT ![w] = NoRequest]

Stored(r) == {u \in Updates : rows[r][u.elem] = u.stamp}

Names(els) == {u.elem : u \in els}

\* Goroutine w has a copy of the canvas of r that it will write.
Copying(w, r) ==
  /\ request[w].room = r
  /\ request[w].at = "restore" \/ (request[w].at = "save" /\ request[w].elements # {})

\* What every copy of the canvas of r has, apart from the one w writes: the room
\* in memory, the scene its loader found, and the copies of other requests.
Everywhere(w, r) ==
  {e \in Elems :
     /\ r \in live => e \in Names(mem[r])
     /\ load[r].at = "replace" => e \in Names(load[r].found)
     /\ \A v \in Workers \ {w} : Copying(v, r) => e \in Names(request[v].elements)}

\* SaveCanvas up to GetElements: the room must be in memory.
SaveCanvasReads(w, r) ==
  /\ r \in live
  /\ Begin(w, r, "save", mem[r])
  /\ known' = known \cup {r}
  /\ UNCHANGED <<vars, cleared, kept>>

\* SaveAllElementsRaw: nothing happens for an empty list, a repeated id fails.
\* The transaction may be rolled back, or committed with its reply lost: then
\* the client is told that the save failed.
SaveCanvasWrites(w) ==
  LET r == request[w].room  els == request[w].elements
  IN /\ InRequest(w, "save")
     /\ Done(w)
     /\ \/ UNCHANGED <<rows, saved, kept>>
        \/ /\ els # {} /\ ~HasDuplicates(els)
           /\ rows'  = [rows  EXCEPT ![r] = Replaced(els)]
           /\ saved' = [saved EXCEPT ![r] = @ \cup els]
           /\ \/ UNCHANGED kept
              \/ kept' = [kept EXCEPT ![r] = @ \cup (Names(els) \cap Everywhere(w, r))]
     /\ UNCHANGED <<pending, batch, deletions, snapshots, phase, clock, stops, accepted, deleted>>
     /\ UNCHANGED <<rvars, known, requests, cleared>>

\* Mutant of RestoreCanvasReads: the rows are not scanned into the result.
RestoreCanvasReadsNothing(w, r) ==
  /\ r \in known
  /\ Begin(w, r, "restore", {})
  /\ UNCHANGED <<vars, known, cleared, kept>>

\* RestoreCanvas up to GetRawElements: the room must be in the database.
RestoreCanvasReads(w, r) ==
  /\ r \in known
  /\ Begin(w, r, "restore", Stored(r))
  /\ UNCHANGED <<vars, known, cleared, kept>>

\* The rest of RestoreCanvas: GetOrCreateRoom, then rm.Elements = elements.
RestoreCanvasReplaces(w) ==
  LET r == request[w].room
  IN /\ InRequest(w, "restore")
     /\ Done(w)
     /\ live' = live \cup {r}
     /\ load' = IF r \in live THEN load
                ELSE [load EXCEPT ![r] = [at |-> "resolve", found |-> {}]]
     /\ mem' = [mem EXCEPT ![r] = request[w].elements]
     /\ UNCHANGED <<pvars, ids, members, op, snapped, known, requests, cleared, kept>>

\* ClearCanvas: the room in memory is emptied, if there is one.
ClearCanvasMemory(w, r) ==
  /\ Begin(w, r, "clear", {})
  /\ mem'  = [mem  EXCEPT ![r] = {}]
  /\ kept' = [kept EXCEPT ![r] = {}]
  /\ UNCHANGED <<pvars, live, ids, members, load, op, snapped, known, cleared>>

\* SaveAllElementsRaw with an empty list, which returns at once.
ClearCanvasDatabase(w) ==
  /\ InRequest(w, "clear")
  /\ Done(w)
  /\ cleared' = [cleared EXCEPT ![request[w].room] = clock]
  /\ UNCHANGED <<vars, known, requests, kept>>

CanvasInit ==
  /\ RoomInit
  /\ known = {} /\ requests = 0
  /\ request = [w \in Workers |-> NoRequest]
  /\ cleared = [r \in Rooms |-> 0]
  /\ kept = None

Request ==
  \E w \in Workers :
    \/ \E r \in Rooms : SaveCanvasReads(w, r) \/ RestoreCanvasReads(w, r) \/ ClearCanvasMemory(w, r)
    \/ SaveCanvasWrites(w) \/ RestoreCanvasReplaces(w) \/ ClearCanvasDatabase(w)

\* The loader's GetOrCreateRoom inserts the row of a room; a new process has
\* no request in progress.
RoomStep ==
  /\ RoomNext
  /\ known' = known \cup ids'
  /\ request' = IF Restart \/ Crash THEN [w \in Workers |-> NoRequest] ELSE request
  /\ UNCHANGED <<requests, cleared, kept>>

\* While a request is about a room, no snapshot of it waits to be written,
\* unless LateSnapshots: a room is evicted long after its last member has left,
\* and its snapshot is one transaction.
SnapshotsFirst ==
  LateSnapshots \/ \A w \in Workers : request'[w].at # "none" =>
                                   \A s \in snapshots' : s.room # request'[w].room

CanvasNext == (RoomStep \/ Request) /\ SnapshotsFirst

CanvasSpec == CanvasInit /\ [][CanvasNext]_<<vars, cvars>>

-----------------------------------------------------------------------------
(* Properties. *)

\* A saved canvas stays saved: once SaveCanvas has replied, no flush, cleanup,
\* restart or later save or restore takes a row away from an element it
\* stored, until the canvas is cleared.  Except an element that a copy of the
\* canvas already lacked when the save wrote: a save or a restore that read
\* before the element was there may still put its older copy back.
SavedCanvasStays ==
  \A r \in Rooms : \A e \in kept[r] : rows[r][e] # NoRow

\* Until the first canvas request no edit leaves the room but by a deletion,
\* and no saved row is lost, across flushes, cleanups, crashes and reloads.
\* (A request may replace either: it runs beside edits and pending flushes.)
KeptWithoutRequests == requests = 0 => EditsStayInRoom /\ SavedElementsPersist

\* "ClearCanvas clears all elements from the room and database": once nothing
\* is in flight, no element older than the clear has a row.
ClearedCanvasIsEmpty ==
  \A r \in Rooms :
    Quiet(r) /\ (\A w \in Workers : request[w] = NoRequest) =>
      \A e \in Elems : rows[r][e] = NoRow \/ rows[r][e] > cleared[r]

=============================================================================
