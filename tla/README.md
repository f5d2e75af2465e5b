# DellCalidraw in TLA+

DellCalidraw is a collaborative whiteboard: a Go server (`excalidraw-be`) that keeps the rooms in
memory, forwards edits between WebSocket connections and writes them to PostgreSQL behind the scenes,
and a React client (`excalidraw-fe`) around the Excalidraw editor, with files and sheets of its own, an
account, and an AI assistant. This directory models the parts of it in which several goroutines,
connections, callbacks, answers, the database and crashes meet.

## The system

| Component | Source | State | Interacts with | Module |
|---|---|---|---|---|
| Persistence queue | `internal/room/persistence.go`, `internal/database/repository.go` | queue of updates per room, tables `rooms` and `room_elements` | fed by message handlers; emptied by the 3-second flush loop, by leaving connections and at shutdown | `Persistence` |
| Rooms | `internal/room/manager.go`, `room.go` | rooms in memory, their elements, participants and database ids | joins create and load them, the cleanup loop evicts them, shutdown snapshots them | `RoomStore` |
| Canvas requests | `cmd/server/canvas_handlers.go` | none of their own | read and write rooms and tables beside the sockets | `Canvas` |
| WebSocket hub | `internal/websocket/handler.go` | connections, user-to-connection map, a read-write lock, a send channel per connection | two goroutines per connection; broadcasts from every handler | `Hub` |
| Client synchronisation | `services/elementSyncService.ts`, `components/Whiteboard.tsx` | scene, cache of what was sent, pending changes | throttled deltas out, remote changes in | `ElementSync` |
| Client socket and room services | `services/websocket.ts`, `roomService.ts` | connection state, queue of messages, timers, room key, current room | reconnect with backoff, rejoin, asynchronous encryption | `RoomConnection` |
| Files and sheets | `store/useWhiteboardStore.ts`, `exportImportService.ts`, `Sidebar`, `TabBar`, `FloatingTab`, `MigrationDialog`; `cmd/server/file_management_handlers.go` | files in the browser and in the account, the sheet on the canvas, a debounced save | signing in and out, answers of the server, exports and imports | `Workspace` |
| Accounts and sessions | `cmd/server/auth_handlers.go`; `tokenRefreshService.ts`, `api.ts`, `useAuthStore.ts`, the sign-in and password dialogs | users, refresh tokens, reset links; the token pair of a tab and of local storage | concurrent requests answered 401, several tabs | `Session` |
| AI assistant | `internal/ai/handler.go`, `agent_loop.go`, `agent_registry.go`; `AIChatPanel.tsx`, `aiService.ts`, `useAIChatStore.ts` | conversations, streams, collected tool results, loops that wait for results | provider, canvas, sign-out, change of sheet | `Chat` |
| Permissions and invitations | `internal/websocket/handler_permissions.go`, `internal/database/room_permissions.go` | owner, roles, room settings, invitations | read-then-write database steps of many connections | - |
| Uploads, memory of the assistant | `cmd/server/file_handlers.go`, `internal/storage`, `internal/ai/memory` | an object store, memories of a project | REST requests, background ingestion | - |
| Rate limiters | `internal/websocket/ratelimit.go`, `internal/middleware/ratelimit.go` | counters per connection and per address | every message and request | - |

What is hard in it: a write-behind queue with three kinds of consumers, and writes that bypass it;
loading and evicting rooms beside edits; snapshots written by goroutines nobody waits for; an orderly
shutdown that waits for only some of the writers; a hub lock that broadcasts take and
`unregisterConnection` holds; per-connection fields other goroutines read; check-then-act on capacity;
a client whose sockets outlive the connection they were made for and whose frames are sealed by calls
that end when the room may be another; a store that goes on after an answer with the files it had
before the question; refresh tokens that are good once, beside requests and tabs that all want to use
them; and an assistant whose requests share the references in which a request's state is kept.
`PROJECT.json` lists these hazards with the line at which each one bites and the properties that cover
it, or what becomes of a property that the code does not keep.

## Modules

`Persistence` - the queue, its flushers and the element tables. `pending` is `pm.pending`; `batch[f]`
is the local variable `updates` or `allPending` of goroutine `f`; `rows` is table `room_elements`.
The goroutines of deletions and snapshots are the sets `deletions` and `snapshots`. Every critical
section of `pm.mu` and every transaction is one action. A save may fail with the transaction rolled
back, or commit and lose its answer. `Crash` and `Restart` keep only the tables. An element's JSON is
abstracted to the stamp of its edit; stamps grow in the order in which edits arrive. `accepted`,
`saved` and `deleted` are history variables.

`DurableLog` - what write-behind persistence promises in the abstract: a log of edits per room, a
durable prefix, and a table that shows the state after exactly that prefix.

`RoomStore` extends `Persistence` with the rooms: `GetOrCreateRoom` and its loader goroutine in three
steps, `handleUpdateElements` as a list of stages (`op[c].todo`) that ends in `QueuePersistence`,
leaving with its flush, one room of a cleanup pass, and `StopPersistence` with its snapshots. The
elements of a room are a set of updates, so that an id added twice is there twice.

`Canvas` extends `RoomStore` with the REST requests that save, restore and clear a canvas, in their
read and write steps, each served by a goroutine of its own (`request[w]`); a save may be rolled back, or
commit and lose its answer. `kept` and `cleared` are history variables. A save that was answered keeps
its elements for good unless somebody still has a copy of the canvas without them (`Everywhere`): a
restore that read before the save wrote puts the older canvas into the room, where the next save finds
it, and a save that read before does so at once. `kept` leaves out just those elements.

`Hub` - connections, membership and broadcasts, at the granularity of `h.mu`, `Room.Mu` and channel
operations. `pc[c]` is where `readPump` of connection `c` is; `BroadcastLocks`, `BroadcastVisits` and
`BroadcastUnlocks` are `broadcastToRoom`. `view[c]` is what the client of `c` has been told about the
participants. It is a module of its own and not composed with `RoomStore`: a broadcast says nothing
about what is stored, and the room's elements say nothing about who is told.

`ElementSync` - how a drawing travels. `scene[c]` is what the editor of client `c` holds (deleted
elements included, as `onChange` reports them), `cache[c]` is `elementSyncService.localElements`,
`pending[c]` its `pendingChanges`. `HandleChange` is `sendChanges` with `calculateDelta` and
`accumulateChanges`, `FlushChanges` the end of the 100 ms pause. On the server a handler adds, updates
and deletes in critical sections of their own and broadcasts afterwards; `channel`, `wire` and `up` are
`conn.Send`, frames to a client and messages from it. `Receive` is what a client does with a frame:
`room_state` replaces scene and cache, `elements_updated` is applied to both. `latest` and `clock` are
history variables. The module takes an element to be its last edit and its `isDeleted` flag; one room;
connections do not break, everybody may edit, and the limits on elements and messages are not reached.
What the handler gives to the persistence queue is `RoomStore`'s, and what a client does when its
connection breaks is `RoomConnection`'s.

`RoomConnection` - one page's connection to rooms. `ready` is `readyState` of each socket and `lost` the
sockets whose network has gone silently; `svc` holds the fields of `WebSocketService`, `room` those of
`RoomService`; `waiting` is what follows when the promise of `connect()` settles. JavaScript runs a
callback to its end, so an action is a callback with everything it calls. `sealing` are the messages
whose encryption is under way, each on its own; `inbound` are the frames still to be opened, in order.
`up` and `member` reduce the server to what it reads from a socket and the room it has the socket in. The
server may refuse a join (`Refusals`: a full room, a password, no account), and what it writes of an
answer may have been joined with what follows in one frame, which the client cannot parse (`Junk`); either
way the user gets an error (`shown`). A join that failed may be tried again at any time (`JoinFailed`): the
dialog's button is there while the service goes on with reconnecting to no room, and `connect()` makes a
second socket without closing the first. `applied` and `overlap` are history variables; `overlap` tells
whether a join was tried again before the socket of an earlier one had ended, and whether all have ended
since. A password is typed in another dialog, whose join on the open connection is left out; so are
failing lookups of a room's key. After a leave the server seals refusals with no key here, though its
connection keeps that of the room it left: a client that leaves closes its socket, so that only an overlap
meets the difference. A `conn.Send` that is full while a join is answered is `Hub`'s.

`Workspace` - the files and sheets of a browser. `store` has the persisted fields of
`useWhiteboardStore`, `auth` whether somebody is signed in, `cloud` the files of the account, `scene`
what the canvas shows and `timer` the debounced save. A click runs to its first `await`; the rest of it
is a record in `calls` that keeps what the code had read before, until it is answered: by success, by
an error, after the request was done but its answer lost, or by a 401 that ends the session. A session
also ends by itself at any moment (`SessionEnds`: another request's 401), under a call, a pending save or
the question about a guest's files. A listing may come without the sheets the server cannot read, and an upload
may copy some of the files and some of their sheets only. The export of a file stores what the canvas of
the click shows 100 ms later, which is nothing if the open file or sheet has changed since; one that is
changed and changed back within that time has a new canvas, which is the old one here, and needs a user who
does not wait.

`saved`, `forsaken` and `cut` are history variables: the strokes that were ever stored, those the user gave
up, and the kinds of calls under which a session has ended. What was drawn in a file of the account counts as
given up when the session ends, since no code sends its sheets to the account later; and so do a guest's
files when the session ends or the page is loaded again under the question about them, since
`pendingMigration` is cleared by the one (`useWhiteboardStore.ts:516`) and not persisted for the other
(`:604-608`), while `files` is the account's by then (`:442`). A call that goes on after its session puts what it had read
into a guest's store, and nothing in the code stops it: `cut` records it, and the properties say
for which kinds they no longer promise anything (a renaming does no harm, nor does an export to whose files they are).

`Session` - token pairs are numbers in the order in which they were made (`pairs`). `usable` are the
refresh tokens the server accepts, `old` the access tokens that have expired, `gen` and `links` the
resets of passwords. `mem[t]` is the store of tab `t`, `disk` local storage, `cur[t]` the refresh that
`tokenRefreshService` shares. `req` are requests, `tries` refreshes, `login` sign-ins and `reset` the reset
form of each tab; what the server looks up and what it then writes are separate steps. A handler of
`ResetPassword` (`jobs`) goes on when its answer is lost, beside that of a retry, and takes four steps: it
reads the link, changes the password, spends the link and revokes the user's tokens; the last two may fail
(`MaxFaults`), and the answer is a success all the same. So may the statements that save a refresh token and
revoke the one it replaces. `excused` and `ended` are history variables, and three more say what the code
lets pass: `slips` are the pairs whose row could not be saved or revoked, a link has its `slip` when two
handlers held it at once or spending it failed, and `loose` are the users whose last reset could not revoke
their tokens or was overtaken by a sign-in or a refresh that had passed its check before.

`Chat` - questions are numbered, and a number stands for the request, its stream and the message that
takes its answer. `streaming`, `reqId`, `results` and `tracked` are the fields and refs that all requests
share; `streams[k]` is what belongs to request `k` alone. On the server `loop[k]` is the agent's run,
`registry` the runs that wait for tool results and `conts` the continuations; `wire[k]` is the response,
`posts` are tool results on their way. Of the tools, those that draw draw themselves, `delete_elements` takes
away what it names of the canvas its request was asked on, and those that move, style, group or look at
elements are calls that draw nothing. A message's text is the set of its parts; the words of an answer may
begin as the panel's progress line does (`posing`), which `onDone` cannot tell from that line. Continuations run with a context that
has ended (`handler.go:498`), so the limit of 20 steps of a run is out of reach and left out.

`PersistenceProofs`, `CanvasProofs`, `HubProofs`, `RoomConnectionProofs`, `SessionProofs`, `ChatProofs`,
`ElementSyncProofs` and `WorkspaceProofs` hold the theorems about the module they are named after, the first also
the proof that `Persistence` implements `DurableLog`, the second also the theorems about `RoomStore`.

`MC*` modules give the constants of the runs. A definition named in a comment as a mutant of another
is a plausible mistake in the code; no specification uses it, and replacing the original by it breaks
the property it is paired with in `PROJECT.json`.

## Constants that name an assumption

* `DbMayFail` - database calls may return errors. Runs with FALSE ask what holds with a healthy
  database; those with TRUE what holds anyway.
* `EditWhileLoading` - clients send edits before the loader of their room is done. With FALSE they
  wait for the loaded scene.
* `LateSnapshots` - a room may be joined again while the snapshot of its last eviction is not yet
  written, and a canvas request may be about it. With FALSE the snapshot is faster than that: a room
  is evicted ten minutes after it was last used, and its snapshot is one transaction.
* `RejoinWithoutLeave`, `DropInRoom`, `Selections` - clients join a room while in another (as
  `App.tsx` and `RoomInviteDialog.tsx` do), connections break inside a room, clients send
  `selection_change`.
* `Undo`, `JoinWhileEditing`, `OldCopies`, `PumpKeepsUp` - users take deletions back; users edit while
  somebody's join is under way (with FALSE nobody does, and joins start when nothing is under way);
  clients join a room that has become empty with old copies of others' elements in their editor, which
  `room_state` leaves there (`Whiteboard.tsx:443`); with TRUE `writePump` empties a channel before the
  next message is put into it, so that each message gets a frame of its own.
* `Editors` - who works on each element. Runs with one editor for each element ask what the
  protocol gives when users do not touch each other's work.
* `Encrypted` - the server encrypts rooms. `MaxQueue` and `MaxAttempts` are the client's
  `maxQueueSize` and `maxReconnectAttempts`, which the code has as constants of its own.
* `Hasty` - a room is joined before the socket of the last one is closed or its join is done, and a
  socket may close while frames of it are being opened. With FALSE only a join that has failed is tried
  again that early.
* `Patient` - the user waits for answers: in `Workspace` before the next click or reload (but not for the
  question about a guest's files, nor is the end of a session waited for), and for a pending save
  before a sheet is left in another way than by a click on the next; in `Session` nobody signs in or
  out, reloads or resets a password while an answer is awaited; in `Chat` nobody leaves the sheet that
  is being drawn on.
* `Reuse` - two files may have one name, and a file may be imported twice. `ExportsOthers` - files
  other than the open one are exported though they have strokes.

`Cleanup` has one timing assumption: a room is evicted only after an hour without activity, so no
handler, loader, flush or deletion of it is still under way, and the queue has been flushed since
unless the database failed all the time.

Bounds: `MaxStamp` (edits of the store), `MaxStops` (orderly shutdowns), `MaxJoins` (joins of a
connection of `Hub`), `Workers` and `MaxRequests` (canvas requests at a time and in all), `MaxEdits` (edits in `ElementSync`), `MaxTransit`
(messages under way between a client and the server, each way), `MaxFaults` (statements that fail in
`Session`), `MaxUpdates` and `MaxEvents` (updates in `RoomConnection`, and its joins, leaves, forced
reconnects and networks that go silent), `MaxFiles`, `MaxTabs`, `MaxCloud`, `MaxStrokes` (sizes in `Workspace`), `MaxLinks` (reset links),
`MaxSends`, `MaxEvents`, `MaxCrashes` (questions, events of the provider and crashes in `Chat`), and
`MaxClicks` (what a user does in `Workspace`, `Session` and `Chat`). Crashes, restarts and failures of
saves of the store, its joins, broadcasts, automatic reconnects and connections that break, answers and
failed requests are unbounded.

## Runs

| Run | Asks | Checks | Instance |
|---|---|---|---|
| `PersistenceQueue` | Is an update ever lost or taken twice, and is it eventually saved? | `TypeOK`, `NoUpdateDropped`, `OneCopy`, `EventuallySaved` | 1 room, 2 elements, 1 leaving connection beside the ticker and the stopper, 3 edits, deletions, failing saves, crashes, a shutdown |
| `PersistenceLoop` | Does the flush loop alone implement the durable log? | `ImplementsDurableLog` | 2 elements, 4 edits, failing saves, crashes |
| `RoomStoreSafe` | What holds whatever fails? | `KnownRoomIsBacked` | 1 room, 1 element, 2 connections, 2 edits (adds, updates, deletes), cleanup, late snapshots, a shutdown |
| `CanvasRequests` | Does a saved canvas stay saved, and do edits stay when nobody asks for another canvas? | `SavedCanvasStays`, `MemoryIsBacked`, `KeptWithoutRequests` | 2 connections, 2 elements, 2 edits, 3 canvas requests, two of them at a time, crashes |
| `HubPresence` | Are the participant lists right when users have an account each and leave before they join? | `PresenceIsExact` | 2 accounts, 2 joins each, broken connections, selections |
| `HubLive` | Does every handler return, and is nothing sent on a closed channel? | `TypeOK`, `NoSendOnClosed`, `HandlersReturn` | 2 tabs of one account, room for one, one-slot channels, broken connections |
| `SyncOneEditor` | Does every edit reach everybody, is none undone, and do all see the same drawing? | `Converges`, `OwnEditsStay`, `EditsReachAll` | 2 clients with an element each, 3 edits, joins and leaves, no old copies |
| `Connection` | Is there one connection, do updates stay in their room under their key, and do joins come back? | `ConnTypeOK`, `OneConnection`, `UpdatesGoHome`, `KeyMatches`, `JoinsSettle`, `JoinedIsShown` | 2 rooms, 2 sockets, encrypted, 2 attempts, a queue of 1, 1 update, 3 joins, leaves and the like, connections that break or go silent, refused joins |
| `Workspace` | Is what was drawn kept through sign-ins, migrations, exports, failed calls and ends of sessions? | `WorkTypeOK`, `FilesAreUsable`, `KeptWorkStays`, `SceneMatchesSheet`, `GuestOwnsFiles`, `DrawingIsSaved` | 2 files, sheets and files of the account, 1 stroke, 4 clicks, sessions that end at any moment |
| `Session` | Does a session end only for a reason, and wholly? | `SessTypeOK`, `SessionSurvives`, `RequestsKeepTheirUser`, `LoggedOutIsOver`, `ResetsHold`, `RequestsSettle` | 2 users, 1 tab, 2 requests, 1 reset link, 1 statement that fails, 4 clicks |
| `Chat` | Do questions, streams and tool results keep apart, and does the panel become free? | `ChatTypeOK`, `OneStream`, `ResultsReachTheirLoop`, `DrawnStays`, `WordsStay`, `ChatSettles` | 2 sheets, 2 questions, 2 events, 1 crash, 3 clicks |

Three edits of one element are enough for an update to be held by one flusher, requeued by another and
overtaken by a third; two flushers beside the stopper cover every pair that shares the queue. Two
connections are every pair of handlers, and a third adds only more of the same broadcasts. A full
channel is reached with one slot. In `ElementSync` two clients give every crossing of an edit with a
broadcast, and three edits let one user draw, change and delete an element, before or after a flush,
while the other works too.

In `RoomConnection` two sockets are a connection and the one it replaces, two rooms are the room left
and the one joined, and one update can be sealed, queued, sent or lost in each of them; two attempts
are a retry and giving up; three events are a join that fails, one that overlaps it and a leave, or a room
that is left for another beside a forced reconnect. In `Workspace` two files of two sheets give every combination of the open and
another sheet, and one stroke is in every place a stroke may be in; four clicks are enough to draw as a
guest, sign in, take the files along and reload. In `Session` two requests are those that share one
refresh, and four clicks let a user sign in, have a link mailed, reset and sign in anew. In `Chat` two
questions are every pair of an old and a new stream, on the same sheet or on two, and two events are
a drawing with words before or after it, one that a tool takes away again, or drawings of two questions
at once; three events (2,307,164 states, not kept as a run for its time) show nothing more.

One run expects a violation. It checks a sentence of the documentation, and TLC shows a behaviour of the
code that breaks it (`findings` in `PROJECT.json` quotes the line).

| Run | Sentence | What happens |
|---|---|---|
| `HubDisconnect` (`DisconnectCompletes`) | users are removed on disconnect | the goroutine that unregisters a connection broadcasts, and waits for the lock it holds |

`HandlersReturn` excuses that goroutine and those that wait for its lock (`Wedged`).

Further configurations document how the code behaves outside what the runs above assume. Each checks
one property, and TLC shows a counterexample (`tlc -config X.cfg MC...`).

| Configuration (module) | Property | What happens |
|---|---|---|
| `PersistenceOvertaken` (`MCPersistence`) | `NeverRegresses` | the flush loop's older batch overwrites what a leaving connection has flushed |
| `PersistenceDelete` | `DeletionsStick` | a queued update is written after the deletion of its element |
| `PersistenceShutdown` | `ShutdownFlushesAll` | a failed save is logged, other flushers are not waited for |
| `RoomStoreFailedLoad` (`MCRoomStore`) | `SavedElementsPersist` (`CURRENT_STATUS_SUMMARY.md:46`) | the snapshot of a room that could not be loaded replaces the rows |
| `CanvasClear` (`MCCanvas`) | `ClearedCanvasIsEmpty` | saving an empty list does nothing |
| `HubCapacity` (`MCHub`) | `RoomCapacity` | the check and the join are two steps |
| `HubViews` | `ViewsAreComplete` | an older `room_state` arrives after `user_joined` |
| `HubSelection` | `HandlersDoNotPanic` | a write to a nil map ends the process |
| `SyncConcurrent` (`MCElementSync`) | `Converges` (`docs/be/BACKEND_REQUIREMENTS.md:45`) | two edits of one element cross, and each user is left with the other's version |
| `SyncFrames` | `Converges` | two messages in one frame cannot be parsed, and both are lost |
| `SyncUndo` | `Converges` | a client that never forgets a deleted element deletes it again after it was restored |
| `ConnectionRejoin` (`MCRoomConnection`) | `Rejoins` (`docs/next-phase-analysis.md:13`) | the listener that should rejoin looks at a counter that `onopen` has just reset |
| `WorkspaceExport` (`MCWorkspace`) | `KeptWorkStays` (`exportImportService.ts:62`) | exporting a file that is not open overwrites its sheet with the canvas |
| `WorkspaceMigration` | `ActiveFileExists` (`docs/plans/2026-05-19-guest-to-cloud-sync.md:777`) | after the migration the open file is one that is gone |
| `SessionTabs` (`MCSession`) | `SessionSurvives` | a second tab offers a refresh token the first has exchanged |
| `SessionReset` | `NoOldSession` ("Revoke all existing refresh tokens for security", `auth_handlers.go`) | a sign-in that has passed its check with the old password makes a token after the reset |
| `ChatUndo` (`MCChat`) | `MadeIsListed` (`docs/ai_implementation_todo_160526.md:143`) | an answer with drawings never gets its `done` event, and no Undo button |
| `ChatReports` | `SuccessIsDrawn` (`AIChatPanel.tsx:299`) | a tool that found no canvas is reported as done |
| `ChatStuck` | `Released` (`aiService.ts:152`) | after a failed request the panel stays busy |

More is seen by changing a constant of a run: in `Connection`, `Hasty = TRUE` with
`Sockets <- ThreeSockets` breaks `OneConnection` (the close event of a socket that was given up starts a
reconnect beside the new connection), and without their exception for an `overlap` neither `OneConnection`,
`UpdatesGoHome` nor `KeyMatches` holds (a join that failed is tried again while the service reconnects, and
what one of the two sockets brings changes the key or the room of the other); in `HubPresence`, `RejoinWithoutLeave = TRUE`, a second tab
(`Login <- AliceTwice`) or a guest's second join break `PresenceIsExact` (and `ListedAreConnected`); in
`RoomStoreSafe`, `EditWhileLoading = TRUE` breaks `KnownRoomIsBacked`, and `MemoryIsBacked` and
`EditsStayInRoom` even with `DbMayFail = FALSE`, and `LateSnapshots` breaks `SavedElementsPersist`; in
`CanvasRequests` it breaks `SavedCanvasStays` (the snapshot of the evicted room is written after a save),
as does counting everything a save wrote as kept (`Names(els)` for `Names(els) \cap Everywhere(w, r)`);
in `Workspace`, `Patient = FALSE` breaks `KeptWorkStays` and
`DrawingIsSaved`, and `Reuse = TRUE` breaks `FilesAreUsable`; without its exception for `cut`, `GuestOwnsFiles`
("a guest session cannot keep operating on someone else's data", `useWhiteboardStore.ts:621-622`) is broken by a
session that ends under a creation, a deletion, a sign-in's listing or an upload, `KeptWorkStays` by each of these and an
export, and `SceneMatchesSheet` by an export; and a reload or the end of a session under the question breaks
`KeptWorkStays` if the guest's files are not counted as taken; in `Session`, `Patient = FALSE` breaks `LoggedOutIsOver`, and `ForgotStartsAfresh` never
holds, nor do `ResetOnce` without its exception for a `slip` and, with `MaxFaults = 1`, `NoOldSession`
without any overtaking; in `SyncOneEditor`, `JoinWhileEditing = TRUE` breaks `Converges` (what is drawn while a join is
under way is in the scene but not in the room), and `OldCopies = TRUE` with `MaxEdits = 4` breaks
`OwnEditsStay` (an element that its author has deleted is brought back by a client that had left, and
joins again when the room is empty); in `Chat`, `Patient = FALSE` breaks `DrawnStays`, `ListedIsOwn`
and `LoopsAreDropped` never hold, and neither does `WordsStay` without its exception: an answer of words alone
that begins with "Membuat diagram" is replaced by the summary when it is done (`AIChatPanel.tsx:450-453`).

`RoomStoreSafe`, `CanvasRequests` and `RoomStoreFailedLoad` use symmetry over connections, and the second
over the goroutines that serve requests, which nothing
but their identity tells apart there; no run that checks a liveness property does. The runs of `Hub`,
`ElementSync`, `RoomConnection`, `Workspace`, `Session` and `Chat` do not check for deadlock: users who
have done all they may and owe nothing stop, and so does a hub that runs into `HubDisconnect`.

## Fairness

`Persistence`: weak fairness of the flush loop's next round (a ticker fires every 3 seconds and the
loop waits for nothing else), and strong fairness of each save: an outage of the database ends, so a
save that is tried again and again succeeds at last. Edits, crashes and shutdowns owe nothing.

`Hub`: goroutines are scheduled, and `sync.RWMutex` starves neither readers nor writers, hence strong
fairness of each handler's next step; weak fairness of `writePump`. Clients owe nothing.

`ElementSync`: the debounce timer fires and the editor renders again, frames are delivered and
`writePump` runs (weak fairness); a handler goes on even if the channel it must send to was full for a
while (strong fairness). Nobody has to draw, join or leave.

`RoomConnection`: the reconnect timer and the heartbeat fire, encryption and decryption end, a socket
that is connecting or closing comes to an end (a browser times either out), and the server reads what
arrives and drops a connection that is silent: weak fairness of each.

`Workspace`: the debounced save is called at last, and every request is answered or fails (the browser
settles every `fetch`): weak fairness. `Session`: the steps of a refresh and the answers of requests, for
the same reason. `Chat`: the client reads what has arrived and the server goes on with each request;
which of the possible answers comes is left open, failure included.

Users owe nothing anywhere, and neither do crashes and faults.

## Proofs

The proofs use only the named assumptions of the modules and those a theorem states, and hold for every
value of the constants otherwise.

`PersistenceProofs`: `TypeCorrect` by induction on `TypeOK`. `UpdatesAreKept` (`NoUpdateDropped`) is
not inductive by itself, since a failed save of the shutdown flush is only logged: the invariant adds
that the main goroutine holds no batch while the process runs (`StopperWaits`). Two lemmas carry the
argument: taking the queue (`TakeKeeps`) and giving a batch up (`ReleaseKeeps`) move updates between
the places they may be in and lose none; they rest on `ToSetConcat`. `OneCopyHolds` (`OneCopy`) says of
every room that its queue and the batches repeat no update and share none (`Once`); it follows
through the same moves, since a stamp is used once.

`PersistenceProofs` also has `LoopImplementsDurableLog` (`ImplementsDurableLog`) for the flush loop alone
(`LoopOnly`): no connection flushes its room, nothing is deleted and nobody stops the server. Each of
the three breaks the prefix: a leaving connection may save newer updates before the older batch the
ticker holds, a deletion skips the queue, and a save that fails in the shutdown flush is given up. The
invariant says that the edits of a room have one order, of which a prefix is in the database, and that the batch the
ticker holds and the queue are consecutive slices of it, up to its end, which start no later than the
prefix ends (`IsLog`). It is a predicate of constants, with a lemma for each move (`LogGrows`, `LogTaken`,
`LogSaved`, `LogRequeued`, `LogLosesTail`); that the refinement mapping sorts the edits into this order,
and that the table shows what the log's prefix says, are `OrderIsUnique` and `ShownOnce`.

`CanvasProofs`, about the rooms by themselves: `KnownRoomsAreBacked` (`KnownRoomIsBacked`) for clients
that wait for the loaded scene, whatever fails, and `MemoryIsAlwaysBacked` (`MemoryIsBacked`) when the
database answers too; with the opposite assumptions TLC has counterexamples. Both properties are silent
while a handler is under way. The invariant therefore says what such a handler still owes: an element of
the room that is neither accepted nor saved belongs to a message whose queueing stage is ahead
(`Backed`, `Owes`), because every stage that puts elements into the room is followed by the one that
queues them (`Ordered`); that an id is found only while the room is empty and that only saved elements
are loaded (`Loads`, `RowsSaved`); that nobody edits a room that is still loading (`Edits`); and, for
the second theorem, that a resolved room has its id (`Resolved`).

About rooms beside canvas requests, for a database that answers and clients that wait for the loaded
scene: `CanvasIsBacked` (`MemoryIsBacked` beside canvas requests) and, when snapshots are not late and
no message deletes, as in the run, `SavedStays` (`SavedCanvasStays`). The rows of a room are replaced
from copies that were made earlier, by a save, a restore, an eviction and a shutdown, so that it has to
be known of every copy, as of the room itself, that it has what was saved for good (`Kept`, `Copies`).
Any number of requests may be under way; what one of them still lacks was not counted as saved for good
when it was written. A room that is being loaded shows nothing for a while, and its loader has found
what was saved (`Comes`).

`KeptBeforeRequests` (`KeptWithoutRequests`) and `EditsAreKept`, the same of the rooms alone
(`EditsStayInRoom`, `SavedElementsPersist`), allow messages that delete, when nobody stops the server in an
orderly way: a shutdown snapshots rooms first and flushes afterwards, so that a snapshot may take a row
away again. The invariant says of every room where what was accepted is, that nothing is on its
way for a room that is not there or is loading, and that a loaded room shows all that was saved or is on its
way, but for what was deleted or a handler is about to record as deleted (`RoomStays`, `OnShow`); hence
the copy of an eviction and the result of a loader have it, too (`Covered`). It needs to know of a handler
that it edits the room before it queues anything (`MemoryFirst`), so that what is queued is shown.

`HubProofs`: `ChannelsStayOpen` (`NoSendOnClosed`) and `TypeCorrect`, for clients that send no
`selection_change`. The invariant says that `h.mu` is a read-write lock whose readers are the
broadcasts under way and whose writer is in `unregisterConnection` (`Locking`), that whoever runs a
handler is registered (`Registration`), that registered connections have open channels and a
broadcast has only registered connections left to visit (`Channels`), and that a connection in a room
has a user id (`Named`, needed for the types of messages). `PresenceHolds` (`PresenceIsExact`) is about
users with an account each (`OwnAccounts`) who leave a room before they join another. Whoever is in a room
is on its list from `AddUser` until the handler that takes them off (`Listing`), and the hub knows their
connection all that time (`Registered`); user ids tell connections apart (`InRooms`).

`RoomConnectionProofs`: `OneConnectionHolds` (`OneConnection`) when rooms are left before they are joined
(`Hasty` is FALSE), with joins that fail and are tried again at any time: only from a retry that comes too
early until all sockets have ended there may be two (`ConnInv`). That a socket is open or connecting is true of the service's own socket only
(`OneSocket`, `Held`), which holds because the service reconnects only after it has let go of
its socket (`Reconnects`) and the socket it holds was used (`Used`). `ConnTypesHold`
(`ConnTypeOK`), `UpdatesStayHome` (`UpdatesGoHome`) and `KeyIsTheRooms` (`KeyMatches`), under the same
assumption and as long as no join was tried again too early (`overlap` is "never"; types hold after that as
well, which TLC checks, and what `SelectSeq` returns is out of the prover's reach), need to know where every message is. On a connection at most one room is joined; while it
is open that is the client's room, to which the key, the frames that bring it and what is being
sealed belong (`AtHome`), and what the server reads of it later is still for that room (`Homely`). A
socket that has not opened carries nothing (`Fresh`), which is why a key cannot outlive its
connection. An update is in one place at most (`Once`): every step moves numbers from one place to
another, and `MovedApart` says for all of them that the places stay disjoint.

`SessionProofs`: `ResetsHoldAlways` (`ResetsHold`), with impatient users, several tabs, lost answers and
failing statements. The server reads a link, a token or a password in one step and acts on it in another;
so the invariant says of everything that has been read what the property says of a token that works: it
stems from the password of now, unless the user is `loose` or her tokens are still to be revoked (`Fresh`).
A link without a slip is held by one handler at a time; it has not been obeyed while that handler is still
to change the password, and once obeyed it is spent or its handler is about to spend it (`LinksOK`).
`TypesHold` (`SessTypeOK`) needs no assumption on users or tabs. That every click makes at most one pair is
a count: the pairs made, and the requests, refreshes and sign-ins that may still make one, are no more
than the clicks (`Paid`); a request passes its claim to the refresh it begins, as often as others share it.
`SessionLasts` (`SessionSurvives`), `RequestsStayHers` (`RequestsKeepTheirUser`) and `SignOutIsFinal`
(`LoggedOutIsOver`) are for patient users and one tab (`OneTab`), as in the run; run `SessionTabs` shows what a
second tab does. Then one refresh at most is under way, it presents what the tab holds, and nobody signs
in meanwhile (`Serial`); what the tab holds is good or being exchanged (`Alive`); of the pairs that stem from
one sign-in only the last is usable, so that it is enough to revoke the one a sign-out carries (`Last`),
both but for `slips`;
and they belong to the user for whom the tab's requests are (`Owned`).

`ChatProofs`: `OneStreamHolds` (`OneStream`) and `ResultsReachTheirLoopHolds` (`ResultsReachTheirLoop`).
Every stream but that of the last question is aborted (`LastIsRead`); the shared refs hold calls of the
last question only (`RefsAreOfLast`); and what was posted, is to be posted or is still on the wire is
disjoint, each call with its own request (`PostsOK`, `WireOK`). `ChatTypesHold` (`ChatTypeOK`) and
`WordsStayHolds` (`WordsStay`) need no assumption either. They rest on `PanelInv`: an answer has one message,
on the sheet of its question (`TalkOK`), since only `handleSend` begins one; every step clears
conversations, appends to one or rewrites the message of one answer (`TalkSteps`); and the server sends no
`done` after a tool call (`DoneIsLast`), so that what tools report joins the words, and the summary that
`onDone` writes finds no words to replace but those that begin like the progress line. `DrawnStaysHolds` (`DrawnStays`) assumes that nobody changes the
sheet while one is being drawn on (`Patient`), as the run does: then whatever may still draw draws on the
canvas of the open sheet (`ActiveOnSheet`), and a drawing is on its sheet until it is undone or deleted by a tool.

`ElementSyncProofs`: `ConvergesHolds` (`Converges`) and `OwnEditsHold` (`OwnEditsStay`), for any number of
clients, elements and edits under the assumptions of run `SyncOneEditor` (`Careful`): at most one user works
on each element, deletions are not taken back, nobody edits while somebody joins, nobody brings old copies
of others' elements to an empty room, and a channel is drained before the next message comes. `SyncConcurrent`,
`SyncUndo`, `SyncFrames` and the two changed constants above show that none of the five can be left out.
The difficulty is that everybody sends whatever differs from their cache, so that a deletion is repeated by
all who hear of it, long after it was made. The invariant shows for each element that a deletion that
anybody but its author may have heard of is final (`Ends`, `Gone`): the author's messages are in order, and
after a deletion comes nothing that draws (`Upstream`); the others only ever remove (`OthersRemove`); and a
join, which may bring back what somebody still shows, happens when all show the same (`Joins`,
`JoinsAlone`). On that rests where the last version is: when all that the author has noted and sent has come
to the server, the room has what the author sees (`ServerFollows`), of whose message the room has the lists
applied so far (`Progress`); when all that is on its way to another client has come, or the author's message
is still being passed on, that client sees what the room has (`OthersFollow`). Only the last message that
mentions the element counts (`Settles`), so that nothing has to be known of how many there are.
`OwnEditsStay` follows from `OthersRemove` and `Ends`: what comes to the author is at most the deletion of what
the author has already deleted.

`WorkspaceProofs`, with the assumptions of run `Workspace` on users and sessions as hypotheses:
`WorkspaceTypes` (`WorkTypeOK`) needs none of them; `WorkspaceGuests` (`GuestOwnsFiles`) needs a user
who waits for answers (`Patient`); `WorkspaceFiles`
(`FilesAreUsable`) a user who waits, names files apart and imports no file twice (`Reuse` is FALSE);
`WorkspaceScene` (`SceneMatchesSheet`) and `WorkspaceKept` (`KeptWorkStays`) also one who exports only what
is open or has no strokes. Sessions end at any moment in all of them; `WorkspaceFiles` holds whatever call they end
under, and the others as far as their property says (`cut`). A call keeps what the
code read before its await, so the invariant says what is true of it when it is answered: at most one is
under way, but for a renaming and an export; the deletion and the sign-in still have the files that are shown
unless their session has ended, and nothing is under way
while the user is asked something (`WaitInv`); only a signed-in user's calls change files of the account
(`GuestInv`, as long as no session has ended under one that does). That files and sheets can be told apart is not inductive for the files shown and put aside
alone: a local file gets the id of the account's file that was made of it, found by its name, so names
of local files and ids of the account have to be apart, too, and what a call will add is nobody's yet
(`ApartInv`, `CallApart`). The canvas follows the open file and sheet, so all that can go wrong is that
the open sheet's content changes while it stays open (`PutOld`) or that a sheet opens whose content is
not the canvas's (`NewlyOpen`); an export that is under way belongs to the canvas that is shown, or has found an empty one (`SceneInv`, as long as
no session has ended under it).
Work is lost only where an array or a sheet is replaced: by a save, which writes the canvas over the open
sheet and takes nothing from it that the user has not erased, because nothing stored of the open sheet is
missing on the canvas (`Shown`, proved with `SceneMatchesSheet`); by a deletion, which takes what was
given up when the user clicked, in the browser and in the account (`KeptInv`; that the call's files are
still those shown is `WaitInv`); by the files of the account, which a sign-in puts in the place of the
guest's once those are set aside (`KeptInv`); and by the end of a session or a reload, which take what `forsaken` has (`Unsynced`, and the files put
aside) and keep the guest's. All this is said while `cut` is empty. For every other replacement a lemma says that the work of the files before it is among that
after it (`SameKept` and the lemmas named `...Kept`).
Arrays that are filtered are functions of positions here (`Pick`, `Nth`), not folds, so that what `With`
and `Without` return could be proved (`PickFacts`).

Model-checked only: liveness (`EditsReachAll` and `DrawingIsSaved` among it).
Liveness under fairness is out of the prover's reach, and so is what a definition that goes through a
sequence by induction computes.

## Not modelled

* Permissions, invitations and passwords of rooms: request handlers of two or three database statements
  without a transaction. What they promise holds for one request at a time by their guard and not for
  two at once, so that a model would show the guard again; that nobody checks a role between a join and
  an edit is taken as it is (everybody may edit).
* Rate limiters: one critical section per message or request.
* Cursors, selections and other presence, apart from the nil map of selections in `Hub`: losing them is
  harmless by design.
* Email, cryptography, storage, migrations and backup scripts: functions over bytes and calls of
  services; encryption is modelled as a frame that one key opens.
* Of the assistant: prompts, providers' formats, the geometry of the tools, greeting messages, logs and
  the memory of a project. Of the client: layout, titles, themes, dialogs that keep no state.

`components` in `PROJECT.json` gives the reason for each component. Connection fields are read and
written without a lock; a read is taken to see the old or the new value, and never a torn string.

## Plan

1. `RoomKeys`: creation and rotation of room keys and the handshake on the server, composed with
   `RoomConnection`; `ElementSync` over connections that break.
2. `Permissions` and `RateLimit`, once their handlers promise something across requests.
3. `Ingest`: background ingestion of the assistant's memory; uploads beside deletions of their file.

A new module's questions are merged into the runs where one specification can answer several, so that
the set of runs stays small enough to be repeated on every change of the code.
