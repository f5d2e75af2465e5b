------------------------ MODULE RoomConnectionProofs ------------------------
(***************************************************************************)
(* What the browser's connection guarantees for any number of sockets,     *)
(* rooms and updates and any length of the queue, when joins wait for the  *)
(* end of an earlier connection or try a failed join again: one connection *)
(* at a time, updates that stay in their room and are applied once, and    *)
(* the key of the room.                                                    *)
(*                                                                         *)
(* OneConnection says nothing of sockets that are being closed, or of the  *)
(* state the service is in, on which the button and the reconnect timer    *)
(* depend.  The invariant adds that one socket at most is not closed       *)
(* (OneSocket), that the service holds it as long as frames pass (Held),   *)
(* and that the service says "reconnecting" only when all sockets are      *)
(* closed (Reconnects): so a timer that could not be cancelled finds       *)
(* another state and opens nothing.  A failed join that is tried again     *)
(* before an earlier socket has ended breaks all three; they hold again    *)
(* once all sockets have ended (ConnInv).                                  *)
(*                                                                         *)
(* The second part says where messages are, up to the first such retry:    *)
(* those of a connection are for the room joined on it (Homes), and an     *)
(* update is in one place at most, the queue, the encryption, one          *)
(* connection or the server (Once).                                        *)
(***************************************************************************)
EXTENDS RoomConnection, FiniteSetTheorems, TLAPS

States == {"disconnected", "connecting", "connected", "reconnecting"}

\* A record with the service's fields, of which ws and state matter here.
IsService(w) ==
  w \in [ws : Sockets \cup {None}, state : States,
         attempts : {w.attempts}, manual : {w.manual}, timer : {w.timer},
         stray : {w.stray}, heart : {w.heart}, leaked : {w.leaked},
         silence : {w.silence}, key : {w.key}, queue : {w.queue}]

Typing ==
  /\ IsService(svc)
  /\ ready \in [Sockets -> {"new", "connecting", "open", "closing", "closed"}]

Over(s) == ready[s] \in {"new", "closed"}

OneSocket  == \A s, t \in Sockets : ~Over(s) /\ ~Over(t) => s = t
Held       == \A s \in Sockets : ready[s] \in {"connecting", "open"} => svc.ws = s
Reconnects == svc.state = "reconnecting" => \A s \in Sockets : Over(s)
Used       == svc.ws # None => ready[svc.ws] # "new"

\* While one connection is held.
Steady == Typing /\ OneSocket /\ Held /\ Reconnects /\ Used

\* A join that is tried again before an earlier socket has ended is the only
\* step that may end that, until all sockets have ended.
ConnInv == Typing /\ Used /\ (overlap = "now" \/ (OneSocket /\ Held /\ Reconnects))

-----------------------------------------------------------------------------
(* What the service's operations do to the two fields. *)

\* connect takes the new socket.
LEMMA ConnectingTakes ==
  ASSUME NEW w, IsService(w), NEW s \in Sockets
  PROVE  IsService(Connecting(w, s)) /\ Connecting(w, s).ws = s
           /\ Connecting(w, s).state = "connecting"
BY DEF IsService, Connecting, States

\* Cancelling a reconnect, queueing a message and receiving a key keep both.
LEMMA CancelKeeps ==
  ASSUME NEW w, IsService(w)
  PROVE  IsService(CancelReconnect(w)) /\ CancelReconnect(w).ws = w.ws
           /\ CancelReconnect(w).state = w.state
BY DEF IsService, CancelReconnect

\* queueMessage touches the queue only.
LEMMA QueuedKeeps ==
  ASSUME NEW w, IsService(w), NEW m
  PROVE  IsService(Queued(w, m)) /\ Queued(w, m).ws = w.ws /\ Queued(w, m).state = w.state
<1> DEFINE q == Append(IF Len(w.queue) >= MaxQueue THEN Tail(w.queue) ELSE w.queue, m)
<1>1. Queued(w, m) = [w EXCEPT !.queue = q]
  BY DEF Queued
<1> HIDE DEF q
<1> QED BY <1>1 DEF IsService

\* Neither does a frame that brings a key.
LEMMA ArmedKeeps ==
  ASSUME NEW w, IsService(w), NEW f
  PROVE  IsService(Armed(w, f)) /\ Armed(w, f).ws = w.ws /\ Armed(w, f).state = w.state
BY DEF IsService, Armed

\* The heartbeat's timers are fields of their own.
LEMMA StopHeartbeatKeeps ==
  ASSUME NEW w, IsService(w)
  PROVE  IsService(StopHeartbeat(w)) /\ StopHeartbeat(w).ws = w.ws
           /\ StopHeartbeat(w).state = w.state
<1> DEFINE n == IF w.leaked THEN w.silence ELSE 0
<1>1. StopHeartbeat(w) = [w EXCEPT !.heart = FALSE, !.silence = n]
  BY DEF StopHeartbeat
<1> HIDE DEF n
<1> QED BY <1>1 DEF IsService

\* disconnect gives the socket up.
LEMMA DisconnectedGivesUp ==
  ASSUME NEW w, IsService(w)
  PROVE  IsService(Disconnected(w)) /\ Disconnected(w).ws = None
           /\ Disconnected(w).state = "disconnected"
<1> DEFINE v == StopHeartbeat(CancelReconnect(w))
<1>1. IsService(v)
  BY CancelKeeps, StopHeartbeatKeeps
<1>2. Disconnected(w) = [v EXCEPT !.manual = TRUE, !.ws = None, !.state = "disconnected", !.attempts = 0]
  BY DEF Disconnected
<1> HIDE DEF v
<1> QED BY <1>1, <1>2 DEF IsService, States

\* onopen is the only one to say "connected".
LEMMA OpenedSays ==
  ASSUME NEW w, IsService(w)
  PROVE  IsService(Opened(w)) /\ Opened(w).ws = w.ws /\ Opened(w).state = "connected"
<1> DEFINE v == [w EXCEPT !.state = "connected", !.attempts = 0]
<1>1. IsService(v) /\ v.ws = w.ws /\ v.state = "connected"
  BY DEF IsService, States
<1>2. Opened(w) = [v EXCEPT !.leaked = v.leaked \/ v.heart, !.heart = TRUE, !.silence = 0]
  BY DEF Opened, StartHeartbeat
<1> HIDE DEF v
<1>3. ASSUME NEW n PROVE LET x == [v EXCEPT !.leaked = n, !.heart = TRUE, !.silence = 0]
                         IN IsService(x) /\ x.ws = v.ws /\ x.state = v.state
  BY <1>1 DEF IsService
<1> QED BY <1>1, <1>2, <1>3

\* onclose leaves the service disconnected or reconnecting.
LEMMA DroppedSays ==
  ASSUME NEW w, IsService(w)
  PROVE  IsService(Dropped(w)) /\ Dropped(w).ws = w.ws
<1> DEFINE u == StopHeartbeat(w)
           v == [u EXCEPT !.key = None, !.state = "disconnected"]
<1>1. IsService(u) /\ u.ws = w.ws
  BY StopHeartbeatKeeps
<1>2. Dropped(w) = ScheduleReconnect(v)
  BY DEF Dropped
<1> HIDE DEF u
<1>3. IsService(v) /\ v.ws = w.ws
  BY <1>1 DEF IsService, States
<1> HIDE DEF v
<1>4. ASSUME NEW n, NEW b
      PROVE  LET x == [v EXCEPT !.state = "reconnecting", !.attempts = n, !.stray = b, !.timer = TRUE]
             IN IsService(x) /\ x.ws = v.ws
  BY <1>3 DEF IsService, States
<1> DEFINE n == v.attempts + 1  b == v.stray \/ v.timer
<1>5. \/ ScheduleReconnect(v) = v
      \/ ScheduleReconnect(v) = [v EXCEPT !.state = "reconnecting", !.attempts = n, !.stray = b, !.timer = TRUE]
  BY DEF ScheduleReconnect
<1> HIDE DEF n, b
<1>6. CASE ScheduleReconnect(v) = v
  BY <1>2, <1>3, <1>6
<1>7. CASE ScheduleReconnect(v) = [v EXCEPT !.state = "reconnecting", !.attempts = n, !.stray = b, !.timer = TRUE]
  <2>1. LET x == [v EXCEPT !.state = "reconnecting", !.attempts = n, !.stray = b, !.timer = TRUE]
        IN IsService(x) /\ x.ws = v.ws
    BY <1>4
  <2> QED BY <1>2, <1>3, <1>7, <2>1
<1> QED BY <1>5, <1>6, <1>7

\* leaveRoom may queue a message first, and gives the socket up.
LEMMA AfterLeaveGivesUp ==
  ASSUME IsService(svc)
  PROVE  IsService(AfterLeave) /\ AfterLeave.ws = None /\ AfterLeave.state = "disconnected"
<1> DEFINE m == Message("leave", room.room, 0)
           w == IF room.connected /\ ~Open(svc, ready) THEN Queued(svc, m) ELSE svc
<1>1. IsService(Queued(svc, m))
  BY QueuedKeeps
<1>2. IsService(w)
  <2>1. CASE room.connected /\ ~Open(svc, ready)
    <3>1. w = Queued(svc, m) BY <2>1
    <3> QED BY <3>1, <1>1
  <2>2. CASE ~(room.connected /\ ~Open(svc, ready))
    <3>1. w = svc BY <2>2
    <3> QED BY <3>1
  <2> QED BY <2>1, <2>2
<1>3. AfterLeave = Disconnected(w)
  BY DEF AfterLeave
<1> HIDE DEF w
<1> QED BY <1>2, <1>3, DisconnectedGivesUp

-----------------------------------------------------------------------------
(* The invariant. *)

\* A page that has just been loaded has no socket.
LEMMA InitHolds == Init => Steady
<1> SUFFICES ASSUME Init PROVE Steady
  OBVIOUS
<1>1. Typing
  BY DEF Init, Typing, IsService, States
<1>2. svc.ws = None /\ svc.state = "disconnected" /\ \A s \in Sockets : ready[s] = "new"
  BY DEF Init
<1> QED BY <1>1, <1>2 DEF Steady, OneSocket, Held, Reconnects, Used, Over

\* A new socket is opened when all others are closed.
LEMMA ConnectKeeps ==
  ASSUME Steady, NEW w, IsService(w), NEW s \in Sockets,
         \A t \in Sockets : Over(t),
         svc' = Connecting(w, s), ready' = [ready EXCEPT ![s] = "connecting"]
  PROVE  Steady'
<1>1. IsService(svc') /\ svc'.ws = s /\ svc'.state = "connecting"
  BY ConnectingTakes
<1>2. /\ ready' \in [Sockets -> {"new", "connecting", "open", "closing", "closed"}]
      /\ ready'[s] = "connecting"
      /\ \A t \in Sockets : t # s => ready'[t] \in {"new", "closed"}
  BY DEF Steady, Typing, Over
<1>3. Typing'
  BY <1>1, <1>2 DEF Typing, IsService
<1>4. OneSocket' /\ Held' /\ Reconnects' /\ Used'
  BY <1>1, <1>2 DEF OneSocket, Held, Reconnects, Used, Over
<1> QED BY <1>3, <1>4 DEF Steady

\* Giving the socket up closes it.
LEMMA ClosingCloses ==
  ASSUME Steady, NEW w, IsService(w), w.state # "reconnecting", w.ws = None,
         svc' = w, ready' = Closing(ready, svc.ws)
  PROVE  Steady'
<1>1. svc.ws \in Sockets \cup {None}
  BY DEF Steady, Typing, IsService
<1>2. /\ ready' \in [Sockets -> {"new", "connecting", "open", "closing", "closed"}]
      /\ \A s \in Sockets : ready'[s] = ready[s] \/ (s = svc.ws /\ ~Over(s) /\ ready'[s] = "closing")
  BY <1>1 DEF Steady, Typing, Used, Over, Closing
<1>3. Typing'
  BY <1>2 DEF Typing, IsService
<1>4. OneSocket'
  BY <1>2 DEF Steady, OneSocket, Over
<1>5. Held'
  <2>1. ASSUME NEW s \in Sockets, ready'[s] \in {"connecting", "open"} PROVE FALSE
    <3>1. ready'[s] = ready[s]
      BY <1>2, <2>1
    <3>2. svc.ws = s /\ ready[s] # "closed" /\ s # None
      BY <2>1, <3>1, ConnectionAssumption DEF Steady, Held
    <3>3. ready' = [ready EXCEPT ![s] = "closing"]
      BY <3>2 DEF Closing
    <3> QED BY <2>1, <3>3 DEF Steady, Typing
  <2> QED BY <2>1 DEF Held
<1> QED BY <1>3, <1>4, <1>5 DEF Steady, Reconnects, Used

\* Steps that touch neither of the two fields nor the sockets.
LEMMA QuietKeeps ==
  ASSUME Steady, NEW w, IsService(w), w.ws = svc.ws, w.state = svc.state,
         svc' = w, ready' = ready
  PROVE  Steady'
<1>1. Typing'
  BY DEF Steady, Typing, IsService
<1> QED BY <1>1 DEF Steady, OneSocket, Held, Reconnects, Used, Over

-----------------------------------------------------------------------------
(* The types of the two fields and of readyState are kept in any case.      *)

Ready == [Sockets -> {"new", "connecting", "open", "closing", "closed"}]

\* A socket is opened.
LEMMA ConnectFields ==
  ASSUME NEW w, IsService(w), NEW s \in Sockets, NEW rdy \in Ready,
         svc' = Connecting(w, s), ready' = [rdy EXCEPT ![s] = "connecting"]
  PROVE  Typing' /\ Used'
<1>1. IsService(svc') /\ svc'.ws = s
  BY ConnectingTakes
<1>2. ready' \in Ready /\ ready'[s] = "connecting"
  BY DEF Ready
<1> QED BY <1>1, <1>2 DEF Typing, IsService, Used, Ready

\* No socket is opened, and the service keeps its own, or none.
LEMMA KeepFields ==
  ASSUME Typing, Used, NEW w, IsService(w), svc' = w, w.ws \in {svc.ws, None},
         NEW rdy \in Ready, ready' = rdy, \A s \in Sockets : ready[s] # "new" => rdy[s] # "new"
  PROVE  Typing' /\ Used'
<1>1. Typing'
  BY DEF Typing, Ready, IsService
<1>2. Used'
  BY DEF Used, Typing, IsService
<1> QED BY <1>1, <1>2

\* A socket that is closed stays typed.
LEMMA ClosingReady ==
  ASSUME Typing, Used
  PROVE  /\ Closing(ready, svc.ws) \in Ready
         /\ \A s \in Sockets : ready[s] # "new" => Closing(ready, svc.ws)[s] # "new"
BY DEF Typing, IsService, Used, Closing, Ready

\* The fields after onopen, whether or not the service can send.
LEMMA OnOpenFields ==
  ASSUME IsService(svc), NEW s \in Sockets, OnOpen(s)
  PROVE  IsService(svc') /\ svc'.ws = svc.ws
<1> DEFINE v == Opened(svc)
<1>1. IsService(v) /\ v.ws = svc.ws
  BY OpenedSays
<1> HIDE DEF v
<1>2. ASSUME NEW b PROVE IsService(Flushed(v, b)) /\ Flushed(v, b).ws = v.ws
  <2>1. PICK q : Flushed(v, b) = [v EXCEPT !.queue = q]
    BY DEF Flushed, QueuedTwice
  <2> QED BY <1>1, <2>1 DEF IsService
<1>3. ASSUME NEW w, IsService(w), NEW ms PROVE IsService(QueuedIf(w, ms)) /\ QueuedIf(w, ms).ws = w.ws
  <2>1. IsService(Queued(w, Head(ms))) /\ Queued(w, Head(ms)).ws = w.ws
    BY <1>3, QueuedKeeps
  <2> QED BY <1>3, <2>1 DEF QueuedIf
<1>4. PICK b, ms, ns : LET w == Flushed(v, b) IN svc' = w \/ svc' = QueuedIf(QueuedIf(w, ms), ns)
  BY DEF OnOpen, v
<1> QED BY <1>1, <1>2, <1>3, <1>4

\* Every step keeps them.
LEMMA FieldsKeep ==
  ASSUME Typing, Used, [Next]_rvars
  PROVE  Typing' /\ Used'
<1>0. IsService(svc) /\ ready \in Ready /\ \A s \in Sockets : ready[s] # "new" => ready[s] # "new"
  BY DEF Typing, Ready
<1>1. ASSUME NEW r \in Rooms, JoinRoom(r) PROVE Typing' /\ Used'
  <2>1. PICK s \in Free : \/ /\ svc' = Connecting(svc, s)
                            /\ ready' = [ready EXCEPT ![s] = "connecting"]
                         \/ /\ svc' = Connecting(AfterLeave, s)
                            /\ ready' = [Closing(ready, svc.ws) EXCEPT ![s] = "connecting"]
    BY <1>1 DEF JoinRoom
  <2>2. s \in Sockets
    BY DEF Free
  <2> QED BY <1>0, <2>1, <2>2, AfterLeaveGivesUp, ClosingReady, ConnectFields
<1>2. CASE LeaveRoom
  <2>1. svc' = AfterLeave /\ ready' = Closing(ready, svc.ws)
    BY <1>2 DEF LeaveRoom
  <2> QED BY <1>0, <2>1, AfterLeaveGivesUp, ClosingReady, KeepFields
<1>3. CASE ForceReconnect
  <2> DEFINE u == CancelReconnect(svc)  w == [u EXCEPT !.attempts = 0]
  <2>1. IsService(u)
    BY <1>0, CancelKeeps
  <2>2. PICK s \in Sockets : svc' = Connecting(w, s) /\ ready' = [ready EXCEPT ![s] = "connecting"]
    BY <1>3 DEF ForceReconnect, Free
  <2> HIDE DEF u
  <2>3. IsService(w)
    BY <2>1 DEF IsService
  <2> HIDE DEF w
  <2> QED BY <1>0, <2>2, <2>3, ConnectFields
<1>4. CASE Update
  <2>1. ready' = ready /\ \E m : svc' = svc \/ svc' = Queued(svc, m)
    BY <1>4 DEF Update
  <2> QED BY <1>0, <2>1, KeepFields, QueuedKeeps
<1>5. CASE ReconnectTimer
  <2> DEFINE w == IF svc.timer THEN [svc EXCEPT !.timer = FALSE] ELSE [svc EXCEPT !.stray = FALSE]
  <2>1. IsService(w) /\ w.ws = svc.ws
    BY <1>0 DEF IsService
  <2>2. \/ \E s \in Sockets : svc' = Connecting(w, s) /\ ready' = [ready EXCEPT ![s] = "connecting"]
        \/ svc' = w /\ ready' = ready
    BY <1>5 DEF ReconnectTimer, Free
  <2> HIDE DEF w
  <2> QED BY <1>0, <2>1, <2>2, ConnectFields, KeepFields
<1>6. CASE Heartbeat
  <2>1. PICK n : svc' = [svc EXCEPT !.silence = n]
    BY <1>6 DEF Heartbeat
  <2>2. IsService(svc') /\ svc'.ws = svc.ws
    BY <1>0, <2>1 DEF IsService
  <2>3. ready' = ready \/ ready' = Closing(ready, svc.ws)
    BY <1>6 DEF Heartbeat
  <2> QED BY <1>0, <2>2, <2>3, ClosingReady, KeepFields
<1>7. CASE ProcessInbound
  <2>1. svc' = Armed(svc, Head(inbound)) /\ ready' = ready
    BY <1>7 DEF ProcessInbound
  <2> QED BY <1>0, <2>1, ArmedKeeps, KeepFields
<1>8. ASSUME NEW s \in Sockets, OnOpen(s) PROVE Typing' /\ Used'
  <2>1. ready' = [ready EXCEPT ![s] = "open"]
    BY <1>8 DEF OnOpen
  <2>2. ready' \in Ready /\ \A t \in Sockets : ready[t] # "new" => ready'[t] # "new"
    BY <1>0, <2>1 DEF Ready
  <2> QED BY <1>0, <1>8, <2>2, OnOpenFields, KeepFields
<1>9. ASSUME NEW s \in Sockets, OnClose(s) PROVE Typing' /\ Used'
  <2>1. ready' = [ready EXCEPT ![s] = "closed"] /\ svc' = Dropped(svc)
    BY <1>9 DEF OnClose
  <2>2. ready' \in Ready /\ \A t \in Sockets : ready[t] # "new" => ready'[t] # "new"
    BY <1>0, <2>1 DEF Ready
  <2> QED BY <1>0, <2>1, <2>2, DroppedSays, KeepFields
<1>10. CASE UNCHANGED <<svc, ready>>
  BY <1>0, <1>10, KeepFields
<1>11. \/ SealDone \/ UNCHANGED rvars
       \/ \E s \in Sockets : NetworkDies(s) \/ ServerHandles(s) \/ ServerDrops(s)
       => UNCHANGED <<svc, ready>>
  BY DEF SealDone, NetworkDies, ServerHandles, ServerDrops, rvars, client
<1> QED BY <1>1, <1>2, <1>3, <1>4, <1>5, <1>6, <1>7, <1>8, <1>9, <1>10, <1>11 DEF Next

-----------------------------------------------------------------------------
(* One lemma per action that matters, while one connection is held.         *)

\* joinRoom opens a socket only when the last one has closed, unless a failed
\* join is tried again.
LEMMA JoinRoomKeeps ==
  ASSUME Steady, ~Hasty, NEW r \in Rooms, JoinRoom(r), overlap' # "now"
  PROVE  Steady'
<1>1. \A t \in Sockets : Over(t)
  BY DEF JoinRoom, JoinFailed, Overlaps, Settled, Ended, Over
<1>2. PICK s \in Free : \/ /\ svc' = Connecting(svc, s)
                         /\ ready' = [ready EXCEPT ![s] = "connecting"]
                      \/ /\ svc' = Connecting(AfterLeave, s)
                         /\ ready' = [Closing(ready, svc.ws) EXCEPT ![s] = "connecting"]
  BY DEF JoinRoom
<1>3. s \in Sockets /\ IsService(svc) /\ IsService(AfterLeave)
  BY AfterLeaveGivesUp DEF Free, Steady, Typing
<1>4. Closing(ready, svc.ws) = ready
  BY <1>1 DEF Steady, Typing, IsService, Used, Over, Closing
<1> QED BY <1>1, <1>2, <1>3, <1>4, ConnectKeeps

\* leaveRoom gives the socket up.
LEMMA LeaveRoomKeeps ==
  ASSUME Steady, LeaveRoom
  PROVE  Steady'
<1>1. IsService(AfterLeave) /\ AfterLeave.ws = None /\ AfterLeave.state # "reconnecting"
  BY AfterLeaveGivesUp DEF Steady, Typing
<1>2. svc' = AfterLeave /\ ready' = Closing(ready, svc.ws)
  BY DEF LeaveRoom
<1> QED BY <1>1, <1>2, ClosingCloses

\* reconnect, which closes the old socket first.
LEMMA ForceReconnectKeeps ==
  ASSUME Steady, ForceReconnect
  PROVE  Steady'
<1> DEFINE u == CancelReconnect(svc)  w == [u EXCEPT !.attempts = 0]
<1>1. IsService(u)
  BY CancelKeeps DEF Steady, Typing
<1>2. PICK s \in Sockets : svc' = Connecting(w, s) /\ ready' = [ready EXCEPT ![s] = "connecting"]
  BY DEF ForceReconnect, Free
<1>3. \A t \in Sockets : Over(t)
  BY DEF ForceReconnect, Steady, Reconnects
<1> HIDE DEF u
<1>4. IsService(w)
  BY <1>1 DEF IsService
<1> HIDE DEF w
<1> QED BY <1>2, <1>3, <1>4, ConnectKeeps

\* An edit is sent or queued; no socket changes.
LEMMA UpdateKeeps ==
  ASSUME Steady, Update
  PROVE  Steady'
<1>1. IsService(svc) /\ ready' = ready /\ \E m : svc' = svc \/ svc' = Queued(svc, m)
  BY DEF Update, Steady, Typing
<1> QED BY <1>1, QuietKeeps, QueuedKeeps

\* The socket that opens is the one the service holds, so nothing is put back
\* into the queue.
LEMMA OnOpenKeeps ==
  ASSUME Steady, NEW s \in Sockets, OnOpen(s)
  PROVE  Steady'
<1> DEFINE v == Opened(svc)
<1>1. /\ ready[s] = "connecting" /\ ready' = [ready EXCEPT ![s] = "open"]
      /\ ready'[s] = "open" /\ svc.ws = s /\ s # None
  BY ConnectionAssumption DEF OnOpen, Steady, Typing, Held
<1>2. Open(svc, ready')
  BY <1>1 DEF Open
<1>3. svc' = Flushed(v, TRUE)
  BY <1>2 DEF OnOpen
<1>4. IsService(v) /\ v.ws = s /\ v.state = "connected"
  BY <1>1, OpenedSays DEF Steady, Typing
<1>5. svc' = [v EXCEPT !.queue = <<>>]
  BY <1>3 DEF Flushed
<1> HIDE DEF v
<1>6. IsService(svc') /\ svc'.ws = s /\ svc'.state = "connected"
  BY <1>4, <1>5 DEF IsService
<1>7. Typing'
  BY <1>1, <1>6 DEF Steady, Typing, IsService
<1>8. OneSocket' /\ Held' /\ Reconnects' /\ Used'
  BY <1>1, <1>6 DEF Steady, Typing, OneSocket, Held, Reconnects, Used, Over
<1> QED BY <1>7, <1>8 DEF Steady

\* A socket that closes may be one the service has given up.
LEMMA OnCloseKeeps ==
  ASSUME Steady, NEW s \in Sockets, OnClose(s)
  PROVE  Steady'
<1>1. ~Over(s) /\ ready' = [ready EXCEPT ![s] = "closed"] /\ svc' = Dropped(svc)
  BY DEF OnClose, Over
<1>2. IsService(svc') /\ svc'.ws = svc.ws
  BY <1>1, DroppedSays DEF Steady, Typing
<1>3. Typing'
  BY <1>1, <1>2 DEF Steady, Typing, IsService
<1>4. \A t \in Sockets : ready'[t] \in {"new", "closed"}
  BY <1>1 DEF Steady, Typing, OneSocket, Over
<1>5. Used'
  BY <1>1, <1>2 DEF Steady, Typing, Used, IsService
<1> QED BY <1>3, <1>4, <1>5 DEF Steady, OneSocket, Held, Reconnects, Over

\* The timer runs while the service says "reconnecting", when no socket is left.
LEMMA ReconnectTimerKeeps ==
  ASSUME Steady, ReconnectTimer
  PROVE  Steady'
<1> DEFINE w == IF svc.timer THEN [svc EXCEPT !.timer = FALSE] ELSE [svc EXCEPT !.stray = FALSE]
<1>1. IsService(w) /\ w.ws = svc.ws /\ w.state = svc.state
  BY DEF Steady, Typing, IsService
<1>2. \/ /\ svc.state = "reconnecting"
         /\ \E s \in Sockets : svc' = Connecting(w, s) /\ ready' = [ready EXCEPT ![s] = "connecting"]
      \/ svc' = w /\ ready' = ready
  BY DEF ReconnectTimer, Free
<1> HIDE DEF w
<1>3. CASE svc' = w /\ ready' = ready
  BY <1>1, <1>3, QuietKeeps
<1>4. CASE /\ svc.state = "reconnecting"
           /\ \E s \in Sockets : svc' = Connecting(w, s) /\ ready' = [ready EXCEPT ![s] = "connecting"]
  <2>1. \A t \in Sockets : Over(t)
    BY <1>4 DEF Steady, Reconnects
  <2> QED BY <1>1, <1>4, <2>1, ConnectKeeps
<1> QED BY <1>2, <1>3, <1>4

\* A heartbeat without answer closes the socket, which the service keeps.
LEMMA HeartbeatKeeps ==
  ASSUME Steady, Heartbeat
  PROVE  Steady'
<1>1. PICK n : svc' = [svc EXCEPT !.silence = n]
  BY DEF Heartbeat
<1>2. IsService(svc') /\ svc'.ws = svc.ws /\ svc'.state = svc.state
  BY <1>1 DEF Steady, Typing, IsService
<1>3. ready' = ready \/ ready' = [ready EXCEPT ![svc.ws] = "closing"]
  BY DEF Heartbeat, Closing
<1>4. svc.ws \in Sockets /\ ready[svc.ws] = "open"
  BY DEF Heartbeat, Open, Steady, Typing, IsService
<1>5. Typing'
  BY <1>2, <1>3, <1>4 DEF Steady, Typing, IsService
<1>6. OneSocket' /\ Held' /\ Reconnects' /\ Used'
  BY <1>2, <1>3, <1>4 DEF Steady, Typing, OneSocket, Held, Reconnects, Used, Over
<1> QED BY <1>5, <1>6 DEF Steady

\* Every other step goes on with it.
LEMMA SteadyKeeps ==
  ASSUME Steady, ~Hasty, [Next]_rvars, overlap' # "now"
  PROVE  Steady'
<1>0. IsService(svc)
  BY DEF Steady, Typing
<1>1. ASSUME NEW r \in Rooms, JoinRoom(r) PROVE Steady'
  BY <1>1, JoinRoomKeeps
<1>2. CASE LeaveRoom
  BY <1>2, LeaveRoomKeeps
<1>3. CASE ForceReconnect
  BY <1>3, ForceReconnectKeeps
<1>4. CASE Update
  BY <1>4, UpdateKeeps
<1>5. CASE ReconnectTimer
  BY <1>5, ReconnectTimerKeeps
<1>6. CASE Heartbeat
  BY <1>6, HeartbeatKeeps
<1>7. CASE SealDone
  BY <1>0, <1>7, QuietKeeps DEF SealDone
<1>8. CASE ProcessInbound
  <2>1. svc' = Armed(svc, Head(inbound)) /\ ready' = ready
    BY <1>8 DEF ProcessInbound
  <2> QED BY <1>0, <2>1, ArmedKeeps, QuietKeeps
<1>9. ASSUME NEW s \in Sockets, OnOpen(s) PROVE Steady'
  BY <1>9, OnOpenKeeps
<1>10. ASSUME NEW s \in Sockets, OnClose(s) PROVE Steady'
  BY <1>10, OnCloseKeeps
<1>11. ASSUME NEW s \in Sockets, NetworkDies(s) PROVE Steady'
  BY <1>0, <1>11, QuietKeeps DEF NetworkDies, client
<1>12. ASSUME NEW s \in Sockets, ServerHandles(s) PROVE Steady'
  BY <1>0, <1>12, QuietKeeps DEF ServerHandles
<1>13. ASSUME NEW s \in Sockets, ServerDrops(s) PROVE Steady'
  BY <1>0, <1>13, QuietKeeps DEF ServerDrops, client
<1>14. CASE UNCHANGED rvars
  BY <1>0, <1>14, QuietKeeps DEF rvars, client
<1> QED BY <1>1, <1>2, <1>3, <1>4, <1>5, <1>6, <1>7, <1>8, <1>9, <1>10, <1>11, <1>12, <1>13, <1>14 DEF Next

\* All steps keep the invariant: it is steady again once all sockets have ended.
LEMMA NextKeeps ==
  ASSUME ConnInv, ~Hasty, [Next]_rvars
  PROVE  ConnInv'
<1>1. Typing' /\ Used'
  BY FieldsKeep DEF ConnInv
<1>2. CASE overlap' = "now"
  BY <1>1, <1>2 DEF ConnInv
<1>3. CASE overlap # "now" /\ overlap' # "now"
  <2>1. Steady
    BY <1>3 DEF ConnInv, Steady
  <2> QED BY <1>3, <2>1, SteadyKeeps DEF ConnInv, Steady
<1>4. CASE overlap = "now" /\ overlap' # "now"
  <2>1. Ended(ready')
    BY <1>4 DEF Next, rvars, history, client, server, JoinRoom, LeaveRoom, ForceReconnect, Update,
       ReconnectTimer, Heartbeat, SealDone, ProcessInbound, OnOpen, OnClose, NetworkDies, ServerHandles, ServerDrops
  <2> QED BY <1>1, <2>1 DEF ConnInv, Ended, OneSocket, Held, Reconnects, Over
<1> QED BY <1>2, <1>3, <1>4

\* The service holds one connection at a time: what it sends and what the
\* server sends it travel on the same socket (websocket.ts:63-160).  The one
\* way to a second is a failed join that is tried again before an earlier
\* socket has ended (RoomInviteDialog.tsx:18-34, websocket.ts:84-86), and when
\* all have ended it is one connection again.
THEOREM OneConnectionHolds ==
  ASSUME ~Hasty
  PROVE  Spec => []OneConnection
<1>1. ConnInv => OneConnection
  <2> SUFFICES ASSUME ConnInv, overlap # "now" PROVE OneConnection
    BY DEF OneConnection
  <2> DEFINE A == {s \in Sockets : ready[s] \in {"connecting", "open"}}
  <2>1. A = {} \/ \E s \in Sockets : A = {s}
    BY DEF ConnInv, Held
  <2>2. Cardinality({}) = 0 /\ \A s : Cardinality({s}) = 1
    BY FS_EmptySet, FS_Singleton
  <2> HIDE DEF A
  <2>3. Cardinality(A) = 0 \/ Cardinality(A) = 1
    BY <2>1, <2>2
  <2>4. Cardinality(A) <= 1
    BY <2>3
  <2> QED BY <2>4 DEF OneConnection, A
<1>2. Init => ConnInv
  BY InitHolds DEF Steady, ConnInv
<1>3. ConnInv /\ [Next]_rvars => ConnInv'
  BY NextKeeps
<1> QED BY <1>1, <1>2, <1>3, PTL DEF Spec

-----------------------------------------------------------------------------
(* Types.                                                                    *)

Service == [ws : Sockets \cup {None}, state : States,
            attempts : 0..MaxAttempts, manual : BOOLEAN, timer : BOOLEAN, stray : BOOLEAN,
            heart : BOOLEAN, leaked : BOOLEAN, silence : 0..3, key : Rooms \cup {None}, queue : Seq(Messages)]

ServiceOK(w) == w \in Service /\ Len(w.queue) <= MaxQueue

Places ==
  /\ lost \subseteq {s \in Sockets : ready[s] \in {"open", "closing"}}
  /\ waiting \in [Sockets -> Rooms \cup {None, "reconnect"}]
  /\ room \in [room : Rooms \cup {None}, connected : BOOLEAN, shown : Rooms \cup {None, "error"}]
  /\ inbound \in Seq(Frames)

Messaging ==
  /\ sealing \subseteq [socket : Sockets, room : Rooms, message : Messages]
  /\ up \in [Sockets -> Seq(Messages)]
  /\ member \in [Sockets -> Rooms \cup {None}]
  /\ applied \in Seq([n : 1..MaxUpdates, of : Rooms, in : Rooms])
  /\ updates \in 0..MaxUpdates

Types == ServiceOK(svc) /\ Places /\ Messaging

-----------------------------------------------------------------------------
(* Rooms.  On a connection at most one room is joined, and while it is open  *)
(* that is the client's room, to which the key, the frames that bring one    *)
(* and messages that are being sealed belong (AtHome).  What the server has  *)
(* yet to read of it, also when it has closed, is for that room once it was  *)
(* joined (Homely).                                                          *)

Homely(q, in) ==
  /\ \A i \in DOMAIN q : in # None /\ q[i].kind # "leave" => q[i].room = in
  /\ \A i, j \in DOMAIN q : i < j /\ q[i].kind = "join" /\ q[j].kind # "leave" => q[j].room = q[i].room

JoinsOnly(q, r) == \A i \in DOMAIN q : q[i].kind = "join" => q[i].room = r

AtHome(s) ==
  /\ member[s] \in {None, room.room} /\ JoinsOnly(up[s], room.room)
  /\ \A x \in sealing : x.socket = s /\ x.message.kind # "leave" => x.message.room = room.room
  /\ svc.key \in {None, room.room}
  /\ \A i \in DOMAIN inbound : inbound[i].kind = "key" => inbound[i].room = room.room

Fresh(s) ==
  /\ up[s] = <<>> /\ member[s] = None
  /\ \A x \in sealing : x.socket # s

Homes ==
  /\ \A s \in Sockets : Homely(up[s], member[s])
  /\ \A s \in Sockets : ready[s] = "open" => AtHome(s)
  /\ \A s \in Sockets : ready[s] \in {"new", "connecting"} => Fresh(s)
  /\ (\A s \in Sockets : ready[s] \notin {"open", "closing"}) => svc.key = None /\ inbound = <<>>
  /\ \A i \in DOMAIN svc.queue : svc.queue[i].kind # "join"
  /\ \A x \in sealing : x.message.kind # "join"
  /\ \A i \in DOMAIN applied : applied[i].of = applied[i].in

-----------------------------------------------------------------------------
(* Updates.  Each is in one place at most: the queue, being sealed, on one   *)
(* connection or applied.                                                    *)

UpdatesOf(q) == {i \in DOMAIN q : q[i].kind = "update"}
NumbersOf(q) == {q[i].n : i \in UpdatesOf(q)}
Distinct(q) == \A i, j \in UpdatesOf(q) : q[i].n = q[j].n => i = j

SealedUpdates == {x \in sealing : x.message.kind = "update"}
SealedNumbers == {x.message.n : x \in SealedUpdates}
Applied == {applied[i].n : i \in DOMAIN applied}

\* The numbers queued, on connections, being sealed and applied, of those that
\* were given.
Apart(Q, U, S, A, K) ==
  /\ \A s, t \in Sockets : s # t => U[s] \cap U[t] = {}
  /\ \A s \in Sockets : U[s] \cap Q = {} /\ U[s] \cap S = {} /\ U[s] \cap A = {} /\ U[s] \subseteq K
  /\ Q \cap S = {} /\ Q \cap A = {} /\ S \cap A = {}
  /\ Q \subseteq K /\ S \subseteq K /\ A \subseteq K

OnConnections == [s \in Sockets |-> NumbersOf(up[s])]

Once ==
  /\ Distinct(svc.queue) /\ \A s \in Sockets : Distinct(up[s])
  /\ \A x, y \in SealedUpdates : x.message.n = y.message.n => x = y
  /\ \A i, j \in DOMAIN applied : applied[i].n = applied[j].n => i = j
  /\ Apart(NumbersOf(svc.queue), OnConnections, SealedNumbers, Applied, 1..updates)

HomeInv == Steady /\ Types /\ Homes /\ Once

Counts == events \in 0..MaxEvents /\ overlap \in {"never", "now", "before"}

\* A queue that takes a message, and may drop the oldest for it.
QueueTakes(q, q2, m) == q2 = Append(IF Len(q) >= MaxQueue THEN Tail(q) ELSE q, m)

\* The bound of the queue.
LEMMA QueueBound ==
  ASSUME NEW q \in Seq(Messages), Len(q) <= MaxQueue, NEW m \in Messages, NEW q2, QueueTakes(q, q2, m)
  PROVE  q2 \in Seq(Messages) /\ Len(q2) <= MaxQueue
<1>1. MaxQueue \in Nat \ {0}
  BY ConnectionAssumption
<1>2. CASE Len(q) >= MaxQueue
  <2>1. Len(q) > 0 /\ Tail(q) \in Seq(Messages) /\ Len(Tail(q)) = Len(q) - 1
    BY <1>1, <1>2
  <2>2. q2 = Append(Tail(q), m)
    BY <1>2 DEF QueueTakes
  <2> HIDE DEF QueueTakes
  <2> QED
    BY <1>1, <2>1, <2>2
<1>3. CASE Len(q) < MaxQueue
  BY <1>1, <1>3 DEF QueueTakes
<1> QED
  BY <1>1, <1>2, <1>3

\* What the operations of the service do to its fields.
LEMMA QueuedOK ==
  ASSUME NEW w, ServiceOK(w), NEW m \in Messages
  PROVE  ServiceOK(Queued(w, m)) /\ Queued(w, m).key = w.key /\ QueueTakes(w.queue, Queued(w, m).queue, m)
<1> DEFINE q == Append(IF Len(w.queue) >= MaxQueue THEN Tail(w.queue) ELSE w.queue, m)
<1>1. Queued(w, m) = [w EXCEPT !.queue = q] /\ QueueTakes(w.queue, q, m)
  BY DEF Queued, QueueTakes
<1>2. w.queue \in Seq(Messages) /\ Len(w.queue) <= MaxQueue
  BY DEF ServiceOK, Service
<1> HIDE DEF q
<1>3. q \in Seq(Messages) /\ Len(q) <= MaxQueue
  BY <1>1, <1>2, QueueBound
<1> QED
  BY <1>1, <1>3 DEF ServiceOK, Service

\* Cancelling the timer.
LEMMA CancelOK ==
  ASSUME NEW w, ServiceOK(w)
  PROVE  ServiceOK(CancelReconnect(w)) /\ CancelReconnect(w).key = w.key /\ CancelReconnect(w).queue = w.queue
BY DEF ServiceOK, Service, CancelReconnect

\* The heartbeat is stopped.
LEMMA StopHeartbeatOK ==
  ASSUME NEW w, ServiceOK(w)
  PROVE  ServiceOK(StopHeartbeat(w)) /\ StopHeartbeat(w).key = w.key /\ StopHeartbeat(w).queue = w.queue
<1> DEFINE n == IF w.leaked THEN w.silence ELSE 0
<1>1. StopHeartbeat(w) = [w EXCEPT !.heart = FALSE, !.silence = n] /\ n \in 0..3
  BY DEF StopHeartbeat, ServiceOK, Service
<1> HIDE DEF n
<1> QED
  BY <1>1 DEF ServiceOK, Service

\* disconnect keeps key and queue.
LEMMA DisconnectedOK ==
  ASSUME NEW w, ServiceOK(w)
  PROVE  ServiceOK(Disconnected(w)) /\ Disconnected(w).key = w.key /\ Disconnected(w).queue = w.queue
<1> DEFINE v == StopHeartbeat(CancelReconnect(w))
<1>1. ServiceOK(v) /\ v.key = w.key /\ v.queue = w.queue
  BY CancelOK, StopHeartbeatOK
<1>2. Disconnected(w) = [v EXCEPT !.manual = TRUE, !.ws = None, !.state = "disconnected", !.attempts = 0]
  BY DEF Disconnected
<1> HIDE DEF v
<1>3. 0 \in 0..MaxAttempts
  BY ConnectionAssumption
<1>4. Disconnected(w) \in Service
  BY <1>1, <1>2, <1>3 DEF ServiceOK, Service, States
<1>5. Disconnected(w).queue = v.queue /\ Disconnected(w).key = v.key
  BY <1>1, <1>2 DEF ServiceOK, Service
<1> QED
  BY <1>1, <1>4, <1>5 DEF ServiceOK

\* So does connect.
LEMMA ConnectingOK ==
  ASSUME NEW w, ServiceOK(w), NEW s \in Sockets
  PROVE  ServiceOK(Connecting(w, s)) /\ Connecting(w, s).key = w.key /\ Connecting(w, s).queue = w.queue
BY DEF ServiceOK, Service, Connecting, States

\* onopen, with a queue that was flushed.
LEMMA OpenedOK ==
  ASSUME NEW w, ServiceOK(w)
  PROVE  LET x == [Opened(w) EXCEPT !.queue = <<>>] IN
         ServiceOK(x) /\ x.key = w.key /\ x.queue = <<>> /\ Opened(w).attempts = 0
<1> DEFINE v == [w EXCEPT !.state = "connected", !.attempts = 0]
           b == v.leaked \/ v.heart
           y == [v EXCEPT !.leaked = b, !.heart = TRUE, !.silence = 0]
<1>1. v \in Service /\ v.queue = w.queue /\ v.key = w.key /\ v.attempts = 0
  <2>1. 0 \in 0..MaxAttempts
    BY ConnectionAssumption
  <2> QED
    BY <2>1 DEF ServiceOK, Service, States
<1>2. b \in BOOLEAN
  BY <1>1 DEF Service
<1>3. Opened(w) = y
  BY DEF Opened, StartHeartbeat
<1> HIDE DEF v, b
<1>4. y \in Service /\ y.key = w.key /\ y.attempts = 0
  <2>1. 0 \in 0..3
    OBVIOUS
  <2>2. y \in Service
    BY <1>1, <1>2, <2>1 DEF Service
  <2>3. y.key = v.key /\ y.attempts = v.attempts
    BY <1>1 DEF Service
  <2> QED
    BY <1>1, <2>2, <2>3
<1> HIDE DEF y
<1>5. <<>> \in Seq(Messages) /\ Len(<<>>) <= MaxQueue
  BY ConnectionAssumption
<1> QED
  BY <1>3, <1>4, <1>5 DEF ServiceOK, Service

\* onclose drops the key and keeps the queue.
LEMMA DroppedOK ==
  ASSUME NEW w, ServiceOK(w)
  PROVE  ServiceOK(Dropped(w)) /\ Dropped(w).key = None /\ Dropped(w).queue = w.queue
<1> DEFINE u == StopHeartbeat(w)
           v == [u EXCEPT !.key = None, !.state = "disconnected"]
           n == v.attempts + 1
           b == v.stray \/ v.timer
           x == [v EXCEPT !.state = "reconnecting", !.attempts = n, !.stray = b, !.timer = TRUE]
<1>1. ServiceOK(u) /\ u.queue = w.queue
  BY StopHeartbeatOK
<1>2. Dropped(w) = ScheduleReconnect(v)
  BY DEF Dropped
<1> HIDE DEF u
<1>3. ServiceOK(v) /\ v.queue = w.queue /\ v.key = None
  BY <1>1 DEF ServiceOK, Service, States
<1> HIDE DEF v
<1>4. ScheduleReconnect(v) = v \/ (v.attempts < MaxAttempts /\ ScheduleReconnect(v) = x)
  BY <1>3, ConnectionAssumption DEF ScheduleReconnect, ServiceOK, Service
<1>5. b \in BOOLEAN
  BY <1>3 DEF ServiceOK, Service
<1>6. v.attempts < MaxAttempts => n \in 0..MaxAttempts
  BY <1>3, ConnectionAssumption DEF ServiceOK, Service
<1> HIDE DEF b, n
<1>7. v.attempts < MaxAttempts => ServiceOK(x) /\ x.queue = w.queue /\ x.key = None
  BY <1>3, <1>5, <1>6 DEF ServiceOK, Service, States
<1> HIDE DEF x
<1> QED
  BY <1>2, <1>3, <1>4, <1>7

\* leaveRoom queues the leave, or nothing.
LEMMA AfterLeaveOK ==
  ASSUME ServiceOK(svc), room.room \in Rooms
  PROVE  LET m == Message("leave", room.room, 0) IN
         /\ ServiceOK(AfterLeave) /\ AfterLeave.key = svc.key /\ m \in Messages
         /\ IF room.connected /\ ~ Open(svc, ready) THEN QueueTakes(svc.queue, AfterLeave.queue, m)
            ELSE AfterLeave.queue = svc.queue
<1> DEFINE m == Message("leave", room.room, 0)
           w == IF room.connected /\ ~ Open(svc, ready) THEN Queued(svc, m) ELSE svc
<1>1. m \in Messages
  BY ConnectionAssumption DEF Message, Messages, Kinds
<1>2. AfterLeave = Disconnected(w)
  BY DEF AfterLeave
<1> HIDE DEF m
<1>3. ServiceOK(w) /\ w.key = svc.key
      /\ IF room.connected /\ ~ Open(svc, ready) THEN QueueTakes(svc.queue, w.queue, m) ELSE w.queue = svc.queue
  BY <1>1, QueuedOK
<1> HIDE DEF w
<1>4. ServiceOK(Disconnected(w)) /\ Disconnected(w).key = w.key /\ Disconnected(w).queue = w.queue
  BY <1>3, DisconnectedOK
<1> QED
  BY <1>1, <1>2, <1>3, <1>4 DEF m

\* A key is the only frame that changes the service.
LEMMA ArmedOK ==
  ASSUME NEW w, ServiceOK(w), NEW f \in Frames
  PROVE  /\ ServiceOK(Armed(w, f)) /\ Armed(w, f).queue = w.queue
         /\ Armed(w, f).key = IF f.kind = "key" THEN f.room ELSE w.key
BY DEF ServiceOK, Service, Armed, Frames

-----------------------------------------------------------------------------
(* Sequences of messages that gain or lose one.                              *)

\* A message more, at the end.
LEMMA Longer ==
  ASSUME NEW q \in Seq(Messages), NEW m \in Messages
  PROVE  LET p == Append(q, m) IN
         /\ p \in Seq(Messages)
         /\ \A i \in DOMAIN p : (i \in DOMAIN q /\ p[i] = q[i]) \/ (i = Len(q) + 1 /\ p[i] = m)
         /\ NumbersOf(p) \subseteq NumbersOf(q) \cup (IF m.kind = "update" THEN {m.n} ELSE {})
         /\ Distinct(q) /\ (m.kind = "update" => m.n \notin NumbersOf(q)) => Distinct(p)
<1> DEFINE p == Append(q, m)
<1>1. p \in Seq(Messages)
  OBVIOUS
<1>2. \A i \in DOMAIN p : (i \in DOMAIN q /\ p[i] = q[i]) \/ (i = Len(q) + 1 /\ p[i] = m)
  OBVIOUS
<1> HIDE DEF p
<1>3. NumbersOf(p) \subseteq NumbersOf(q) \cup (IF m.kind = "update" THEN {m.n} ELSE {})
  BY <1>2 DEF NumbersOf, UpdatesOf
<1>4. ASSUME Distinct(q), m.kind = "update" => m.n \notin NumbersOf(q)
      PROVE  Distinct(p)
  BY <1>2, <1>4 DEF Distinct, NumbersOf, UpdatesOf
<1> QED
  BY <1>1, <1>2, <1>3, <1>4 DEF p

\* A message less, at the beginning.
LEMMA Shorter ==
  ASSUME NEW q \in Seq(Messages), q # <<>>
  PROVE  /\ Tail(q) \in Seq(Messages) /\ Head(q) \in Messages /\ 1 \in DOMAIN q /\ Head(q) = q[1]
         /\ \A i \in DOMAIN Tail(q) : i \in Nat /\ i + 1 \in DOMAIN q /\ i + 1 > 1 /\ Tail(q)[i] = q[i + 1]
         /\ NumbersOf(Tail(q)) \subseteq NumbersOf(q)
         /\ Distinct(q) => Distinct(Tail(q))
         /\ Head(q).kind = "update" => Head(q).n \in NumbersOf(q)
         /\ Distinct(q) /\ Head(q).kind = "update" => Head(q).n \notin NumbersOf(Tail(q))
<1> DEFINE p == Tail(q)
           h == Head(q)
<1>1. p \in Seq(Messages) /\ h \in Messages /\ 1 \in DOMAIN q /\ h = q[1]
  OBVIOUS
<1>2. \A i \in DOMAIN p : i \in Nat /\ i + 1 \in DOMAIN q /\ i + 1 > 1 /\ p[i] = q[i + 1]
  OBVIOUS
<1> HIDE DEF p, h
<1>3. NumbersOf(p) \subseteq NumbersOf(q)
  BY <1>2 DEF NumbersOf, UpdatesOf
<1>4. ASSUME Distinct(q)
      PROVE  Distinct(p)
  <2> SUFFICES ASSUME NEW i \in UpdatesOf(p), NEW j \in UpdatesOf(p), p[i].n = p[j].n
               PROVE  i = j
    BY DEF Distinct
  <2>1. i + 1 \in UpdatesOf(q) /\ j + 1 \in UpdatesOf(q) /\ q[i + 1].n = q[j + 1].n /\ i \in Nat /\ j \in Nat
    BY <1>2 DEF UpdatesOf
  <2>2. i + 1 = j + 1
    BY <1>4, <2>1 DEF Distinct
  <2> QED
    BY <2>1, <2>2
<1>5. h.kind = "update" => h.n \in NumbersOf(q)
  BY <1>1 DEF NumbersOf, UpdatesOf
<1>6. ASSUME Distinct(q), h.kind = "update", h.n \in NumbersOf(p)
      PROVE  FALSE
  <2>1. PICK i \in UpdatesOf(p) : p[i].n = h.n
    BY <1>6 DEF NumbersOf
  <2>2. i + 1 \in UpdatesOf(q) /\ q[i + 1].n = q[1].n /\ 1 \in UpdatesOf(q) /\ i + 1 > 1 /\ i \in Nat
    BY <1>1, <1>2, <1>6, <2>1 DEF UpdatesOf
  <2>3. i + 1 = 1
    BY <1>6, <2>2 DEF Distinct
  <2> QED
    BY <2>2, <2>3
<1> QED
  BY <1>1, <1>2, <1>3, <1>4, <1>5, <1>6 DEF p, h

\* The queue takes a message.
LEMMA Queueing ==
  ASSUME NEW q \in Seq(Messages), Len(q) <= MaxQueue, NEW m \in Messages, NEW q2, QueueTakes(q, q2, m)
  PROVE  /\ \A i \in DOMAIN q2 : q2[i] = m \/ \E j \in DOMAIN q : q2[i] = q[j]
         /\ NumbersOf(q2) \subseteq NumbersOf(q) \cup (IF m.kind = "update" THEN {m.n} ELSE {})
         /\ Distinct(q) /\ (m.kind = "update" => m.n \notin NumbersOf(q)) => Distinct(q2)
<1>1. CASE q2 = Append(q, m)
  BY <1>1, Longer
<1>2. CASE q # <<>> /\ q2 = Append(Tail(q), m)
  <2> DEFINE p == Tail(q)
  <2>1. /\ p \in Seq(Messages) /\ \A i \in DOMAIN p : \E j \in DOMAIN q : p[i] = q[j]
        /\ NumbersOf(p) \subseteq NumbersOf(q) /\ (Distinct(q) => Distinct(p))
    BY <1>2, Shorter
  <2>2. q2 = Append(p, m)
    BY <1>2
  <2> HIDE DEF p
  <2> QED
    BY <2>1, <2>2, Longer
<1>3. Len(q) >= MaxQueue => q # <<>>
  BY ConnectionAssumption
<1> QED
  BY <1>1, <1>2, <1>3 DEF QueueTakes

\* A queue without joins, sent before a join.
LEMMA Flushing ==
  ASSUME NEW q \in Seq(Messages), \A i \in DOMAIN q : q[i].kind # "join",
         NEW r, NEW joins, joins = <<>> \/ (r \in Rooms /\ joins = <<Message("join", r, 0)>>)
  PROVE  LET p == q \o joins IN
         /\ p \in Seq(Messages) /\ Homely(p, None) /\ JoinsOnly(p, r)
         /\ NumbersOf(p) = NumbersOf(q) /\ (Distinct(q) => Distinct(p))
<1> DEFINE j == Message("join", r, 0)
<1>1. CASE joins = <<>>
  <2>1. q \o joins = q
    BY <1>1
  <2> QED
    BY <2>1 DEF Homely, JoinsOnly
<1>2. CASE r \in Rooms /\ joins = <<j>>
  <2> DEFINE p == q \o joins
  <2>1. j \in Messages /\ j.kind = "join" /\ j.room = r
    BY <1>2, ConnectionAssumption DEF Message, Messages, Kinds
  <2> HIDE DEF j
  <2>2. /\ p \in Seq(Messages) /\ Len(p) = Len(q) + 1 /\ Len(q) \in Nat
        /\ \A i \in DOMAIN p : (i \in DOMAIN q /\ p[i] = q[i]) \/ (i = Len(q) + 1 /\ p[i] = j)
        /\ \A i \in DOMAIN q : i \in DOMAIN p /\ p[i] = q[i]
        /\ DOMAIN q = 1..Len(q)
        /\ DOMAIN p = 1..Len(q)+1
    BY <1>2, <2>1
  <2> HIDE DEF p
  <2>3. Homely(p, None) /\ JoinsOnly(p, r)
    BY <2>1, <2>2 DEF Homely, JoinsOnly
  <2>4. UpdatesOf(p) = UpdatesOf(q) /\ \A i \in UpdatesOf(p) : p[i] = q[i]
    BY <2>1, <2>2 DEF UpdatesOf
  <2> QED
    BY <2>2, <2>3, <2>4 DEF NumbersOf, Distinct, p
<1> QED
  BY <1>1, <1>2

\* A message for the room that was joined, or a leave, may follow.
LEMMA HomelyLonger ==
  ASSUME NEW q \in Seq(Messages), NEW in, NEW m \in Messages, NEW r, Homely(q, in), JoinsOnly(q, r), in \in {None, r},
         m.kind = "leave" \/ (m.kind = "update" /\ m.room = r)
  PROVE  Homely(Append(q, m), in) /\ JoinsOnly(Append(q, m), r)
<1> DEFINE p == Append(q, m)
<1>1. \A i \in DOMAIN p : (i \in DOMAIN q /\ p[i] = q[i]) \/ (i = Len(q) + 1 /\ p[i] = m)
  BY Longer
<1>2. DOMAIN q = 1..Len(q) /\ Len(q) \in Nat
  OBVIOUS
<1> HIDE DEF p
<1>3. JoinsOnly(p, r)
  BY <1>1 DEF JoinsOnly
<1>4. \A i \in DOMAIN p : in # None /\ p[i].kind # "leave" => p[i].room = in
  BY <1>1 DEF Homely
<1>5. \A i, j \in DOMAIN p : i < j /\ p[i].kind = "join" /\ p[j].kind # "leave" => p[j].room = p[i].room
  <2> SUFFICES ASSUME NEW i \in DOMAIN p, NEW j \in DOMAIN p, i < j, p[i].kind = "join", p[j].kind # "leave"
               PROVE  p[j].room = p[i].room
    OBVIOUS
  <2>1. CASE j \in DOMAIN q
    <3>1. i \in DOMAIN q
      BY <1>1, <1>2, <2>1
    <3> QED
      BY <1>1, <1>2, <2>1, <3>1 DEF Homely
  <2>2. CASE j = Len(q) + 1 /\ p[j] = m
    <3>1. i \in DOMAIN q
      BY <1>1, <1>2, <2>2
    <3> QED
      BY <1>1, <1>2, <2>2, <3>1 DEF JoinsOnly
  <2> QED
    BY <1>1, <2>1, <2>2
<1> QED
  BY <1>3, <1>4, <1>5 DEF Homely, p

\* The server reads the first message.
LEMMA HomelyShorter ==
  ASSUME NEW q \in Seq(Messages), q # <<>>, NEW in, Homely(q, in), NEW r, NEW out,
         out \in {in, None} \/ (Head(q).kind = "join" /\ out = Head(q).room)
  PROVE  /\ Homely(Tail(q), out) /\ (JoinsOnly(q, r) => JoinsOnly(Tail(q), r))
         /\ Head(q).kind = "update" /\ in # None => Head(q).room = in
<1> DEFINE p == Tail(q)
           h == Head(q)
<1>1. /\ 1 \in DOMAIN q /\ h = q[1] /\ h \in Messages
      /\ \A i \in DOMAIN p : i \in Nat /\ i + 1 \in DOMAIN q /\ i + 1 > 1 /\ p[i] = q[i + 1]
  BY Shorter
<1> HIDE DEF p, h
<1>2. JoinsOnly(q, r) => JoinsOnly(p, r)
  BY <1>1 DEF JoinsOnly
<1>3. \A i, j \in DOMAIN p : i < j /\ p[i].kind = "join" /\ p[j].kind # "leave" => p[j].room = p[i].room
  <2> SUFFICES ASSUME NEW i \in DOMAIN p, NEW j \in DOMAIN p, i < j, p[i].kind = "join", p[j].kind # "leave"
               PROVE  p[j].room = p[i].room
    OBVIOUS
  <2>1. i + 1 \in DOMAIN q /\ j + 1 \in DOMAIN q /\ i + 1 < j + 1 /\ p[i] = q[i + 1] /\ p[j] = q[j + 1]
    BY <1>1
  <2> QED
    BY <2>1 DEF Homely
<1>4. ASSUME NEW i \in DOMAIN p, out # None, p[i].kind # "leave"
      PROVE  p[i].room = out
  <2>1. i + 1 \in DOMAIN q /\ 1 < i + 1 /\ p[i] = q[i + 1]
    BY <1>1
  <2>2. CASE out = in
    BY <1>4, <2>1, <2>2 DEF Homely
  <2>3. CASE h.kind = "join" /\ out = h.room
    BY <1>1, <1>4, <2>1, <2>3 DEF Homely
  <2> QED
    BY <1>4, <2>2, <2>3 DEF h
<1>5. h.kind = "update" /\ in # None => h.room = in
  BY <1>1 DEF Homely
<1> QED
  BY <1>2, <1>3, <1>4, <1>5 DEF Homely, p, h

-----------------------------------------------------------------------------
(* Moves of messages from one place to another.                             *)

\* What is sent is on a connection, or being sealed for it.
LEMMA SentTypes ==
  ASSUME Types, NEW m \in Messages, Send(svc, m), Open(svc, ready)
  PROVE  LET s == svc.ws
             x == [socket |-> s, room |-> svc.key, message |-> m] IN
         /\ s \in Sockets /\ ready[s] = "open"
         /\ \/ /\ up' = [up EXCEPT ![s] = Append(up[s], m)] /\ sealing' = sealing
            \/ /\ up' = up /\ sealing' = sealing \cup {x} /\ m.kind # "join"
               /\ x \in [socket : Sockets, room : Rooms, message : Messages]
BY DEF Types, ServiceOK, Service, Send, Open

\* A message is put into the queue, or sent.
Placed(m) ==
  \/ QueueTakes(svc.queue, svc'.queue, m) /\ UNCHANGED <<up, sealing>>
  \/ svc'.queue = svc.queue /\ Open(svc, ready) /\ Send(svc, m)

\* The types after that.
LEMMA PlacedTypes ==
  ASSUME Types, NEW m \in Messages, Placed(m), UNCHANGED <<member, applied>>, updates' \in 0..MaxUpdates
  PROVE  Messaging'
<1>1. CASE UNCHANGED <<up, sealing>>
  BY <1>1 DEF Types, Messaging
<1>2. CASE Open(svc, ready) /\ Send(svc, m)
  <2> DEFINE s == svc.ws
             q == Append(up[s], m)
             x == [socket |-> s, room |-> svc.key, message |-> m]
  <2>1. /\ s \in Sockets
        /\ \/ /\ up' = [up EXCEPT ![s] = q] /\ sealing' = sealing
           \/ /\ up' = up /\ sealing' = sealing \cup {x}
              /\ x \in [socket : Sockets, room : Rooms, message : Messages]
    BY <1>2, SentTypes
  <2>2. up[s] \in Seq(Messages) /\ q \in Seq(Messages)
    BY <2>1 DEF Types, Messaging
  <2> HIDE DEF q, x, s
  <2> QED
    BY <2>1, <2>2 DEF Types, Messaging
<1> QED
  BY <1>1, <1>2 DEF Placed

\* The numbers of a message: that of an update, and none of a leave.
NumberOf(m) == IF m.kind = "update" THEN {m.n} ELSE {}

\* Numbers N get into one place, connection s or another, and are in no other
\* then.
Moved(Q, U, S, A, Q2, U2, S2, A2, N, s) ==
  /\ Q2 \subseteq Q \cup N /\ S2 \subseteq S \cup N /\ A2 \subseteq A \cup N
  /\ \A t \in Sockets : U2[t] \subseteq U[t] \cup N
  /\ \/ Q2 \cap N = {} /\ S2 \cap N = {} /\ A2 \cap N = {} /\ \A t \in Sockets : t # s => U2[t] \cap N = {}
     \/ S2 \cap N = {} /\ A2 \cap N = {} /\ \A t \in Sockets : U2[t] \cap N = {}
     \/ Q2 \cap N = {} /\ A2 \cap N = {} /\ \A t \in Sockets : U2[t] \cap N = {}
     \/ Q2 \cap N = {} /\ S2 \cap N = {} /\ \A t \in Sockets : U2[t] \cap N = {}

Within(N, K) == N \subseteq K

\* Such a move keeps the places apart.
LEMMA MovedApart ==
  ASSUME NEW Q, NEW U, NEW S, NEW A, NEW K, NEW Q2, NEW U2, NEW S2, NEW A2, NEW K2, NEW N, NEW s,
         Apart(Q, U, S, A, K), Moved(Q, U, S, A, Q2, U2, S2, A2, N, s), Within(K, K2), Within(N, K2)
  PROVE  Apart(Q2, U2, S2, A2, K2)
<1>1. \A t \in Sockets, r \in Sockets : t # r => U2[t] \cap U2[r] = {}
  <2> SUFFICES ASSUME NEW t \in Sockets, NEW r \in Sockets, t # r, NEW n \in U2[t], n \in U2[r]
               PROVE  FALSE
    OBVIOUS
  <2>1. ~ (n \in U[t] /\ n \in U[r])
    BY DEF Apart
  <2>2. n \in U[t] \/ n \in N
    BY DEF Moved
  <2>3. n \in U[r] \/ n \in N
    BY DEF Moved
  <2>4. n \in N => n \notin U2[t] \/ n \notin U2[r]
    BY DEF Moved
  <2> QED
    BY <2>1, <2>2, <2>3, <2>4
<1>2. ASSUME NEW t \in Sockets
      PROVE  U2[t] \cap Q2 = {} /\ U2[t] \cap S2 = {} /\ U2[t] \cap A2 = {} /\ U2[t] \subseteq K2
  <2>1. U[t] \cap Q = {} /\ U[t] \cap S = {} /\ U[t] \cap A = {} /\ U[t] \subseteq K /\ U2[t] \subseteq U[t] \cup N
    BY DEF Apart, Moved
  <2>2. U2[t] \cap N = {} \/ (Q2 \cap N = {} /\ S2 \cap N = {} /\ A2 \cap N = {})
    BY DEF Moved
  <2>3. \A n \in N : n \in U2[t] => n \notin Q2 /\ n \notin S2 /\ n \notin A2
    BY <2>2
  <2> QED
    BY <2>1, <2>3 DEF Moved, Within
<1>3. Q2 \cap S2 = {} /\ Q2 \cap A2 = {} /\ S2 \cap A2 = {}
  BY DEF Apart, Moved
<1>4. Q2 \subseteq K2 /\ S2 \subseteq K2 /\ A2 \subseteq K2
  BY DEF Apart, Moved, Within
<1> QED
  BY <1>1, <1>2, <1>3, <1>4 DEF Apart

\* A new update, or a leave, is put in one place.
LEMMA PlacedOnce ==
  ASSUME Types, Once, NEW m \in Messages, Placed(m), UNCHANGED applied,
         \/ m.kind = "leave" /\ updates' = updates
         \/ m.kind = "update" /\ m.n = updates + 1 /\ updates' = updates + 1
  PROVE  Once'
<1> DEFINE N == NumberOf(m)
           K == 1..updates
           K2 == 1..updates'
<1>1. /\ N \cap K = {} /\ Within(K, K2) /\ Within(N, K2)
      /\ m.kind = "update" => m.n \in N
  BY ConnectionAssumption DEF Types, Messaging, NumberOf, Within
<1>2. /\ Apart(NumbersOf(svc.queue), OnConnections, SealedNumbers, Applied, K)
      /\ Applied' = Applied
      /\ svc.queue \in Seq(Messages) /\ Len(svc.queue) <= MaxQueue /\ up \in [Sockets -> Seq(Messages)]
  BY DEF Once, Applied, Types, ServiceOK, Service, Messaging
<1>0. \/ Once'
      \/ ~ /\ Distinct(svc'.queue) /\ \A s \in Sockets : Distinct(up'[s])
           /\ \A x, y \in SealedUpdates' : x.message.n = y.message.n => x = y
           /\ \A i, j \in DOMAIN applied' : applied'[i].n = applied'[j].n => i = j
           /\ Apart(NumbersOf(svc'.queue), OnConnections', SealedNumbers', Applied', K2)
  BY DEF Once
<1> HIDE DEF K, K2
<1>3. m.kind = "update" => /\ m.n \notin NumbersOf(svc.queue) /\ m.n \notin SealedNumbers
                           /\ \A s \in Sockets : m.n \notin NumbersOf(up[s])
  BY <1>1, <1>2 DEF Apart, OnConnections
<1>6. /\ NumbersOf(svc.queue) \cap N = {} /\ SealedNumbers \cap N = {} /\ Applied \cap N = {}
      /\ \A t \in Sockets : OnConnections[t] \cap N = {}
  BY <1>1, <1>2 DEF Apart
<1>4. CASE QueueTakes(svc.queue, svc'.queue, m) /\ UNCHANGED <<up, sealing>>
  <2>1. NumbersOf(svc'.queue) \subseteq NumbersOf(svc.queue) \cup N /\ (Distinct(svc.queue) => Distinct(svc'.queue))
    BY <1>2, <1>3, <1>4, Queueing DEF NumberOf
  <2>2. OnConnections' = OnConnections /\ SealedNumbers' = SealedNumbers
    BY <1>4 DEF OnConnections, SealedNumbers, SealedUpdates
  <2> HIDE DEF N
  <2>3. Apart(NumbersOf(svc'.queue), OnConnections, SealedNumbers, Applied, K2)
    <3>1. Moved(NumbersOf(svc.queue), OnConnections, SealedNumbers, Applied,
                NumbersOf(svc'.queue), OnConnections, SealedNumbers, Applied, N, None)
      BY <1>6, <2>1 DEF Moved
    <3> QED
      BY <1>1, <1>2, <3>1, MovedApart
  <2> QED
    BY <1>0, <1>2, <1>4, <2>1, <2>2, <2>3 DEF Once, SealedUpdates
<1>5. CASE svc'.queue = svc.queue /\ Open(svc, ready) /\ Send(svc, m)
  <2> DEFINE s == svc.ws
             q == Append(up[s], m)
             x == [socket |-> s, room |-> svc.key, message |-> m]
  <2>1. /\ s \in Sockets
        /\ \/ /\ up' = [up EXCEPT ![s] = q] /\ sealing' = sealing
           \/ /\ up' = up /\ sealing' = sealing \cup {x}
    BY <1>5, SentTypes
  <2>2. /\ NumbersOf(q) \subseteq NumbersOf(up[s]) \cup N /\ (Distinct(up[s]) => Distinct(q))
    BY <1>2, <1>3, <2>1, Longer DEF NumberOf
  <2>3. x.message = m
    OBVIOUS
  <2> HIDE DEF q, x, s, N
  <2>4. CASE up' = [up EXCEPT ![s] = q] /\ sealing' = sealing
    <3>1. \A t \in Sockets : up'[t] = IF t = s THEN q ELSE up[t]
      BY <1>2, <2>1, <2>4
    <3>2. \A t \in Sockets : OnConnections'[t] \subseteq IF t = s THEN OnConnections[t] \cup N ELSE OnConnections[t]
      BY <2>2, <3>1 DEF OnConnections
    <3>3. SealedNumbers' = SealedNumbers
      BY <2>4 DEF SealedNumbers, SealedUpdates
    <3> DEFINE U == OnConnections'
    <3>4. \A t \in Sockets : U[t] \subseteq IF t = s THEN OnConnections[t] \cup N ELSE OnConnections[t]
      BY <3>2
    <3> HIDE DEF U
    <3>5. Apart(NumbersOf(svc.queue), U, SealedNumbers, Applied, K2)
      <4>1. Moved(NumbersOf(svc.queue), OnConnections, SealedNumbers, Applied,
                  NumbersOf(svc.queue), U, SealedNumbers, Applied, N, s)
        BY <1>6, <3>4 DEF Moved
      <4> QED
        BY <1>1, <1>2, <4>1, MovedApart
    <3>6. \A t \in Sockets : Distinct(up'[t])
      BY <2>2, <3>1 DEF Once
    <3> QED
      BY <1>0, <1>2, <1>5, <2>4, <3>3, <3>5, <3>6 DEF Once, SealedUpdates, U
  <2>5. CASE up' = up /\ sealing' = sealing \cup {x}
    <3>1. SealedUpdates' \subseteq SealedUpdates \cup {x} /\ SealedUpdates \subseteq SealedUpdates'
          /\ (x \in SealedUpdates' => m.kind = "update")
      BY <2>3, <2>5 DEF SealedUpdates
    <3>2. SealedNumbers' \subseteq SealedNumbers \cup N
      BY <1>1, <2>3, <3>1 DEF SealedNumbers
    <3>3. OnConnections' = OnConnections
      BY <2>5 DEF OnConnections
    <3> DEFINE S == SealedNumbers'
    <3>4. S \subseteq SealedNumbers \cup N
      BY <3>2
    <3> HIDE DEF S
    <3>5. Apart(NumbersOf(svc.queue), OnConnections, S, Applied, K2)
      <4>1. Moved(NumbersOf(svc.queue), OnConnections, SealedNumbers, Applied,
                  NumbersOf(svc.queue), OnConnections, S, Applied, N, s)
        BY <1>6, <3>4 DEF Moved
      <4> QED
        BY <1>1, <1>2, <4>1, MovedApart
    <3>6. \A y, z \in SealedUpdates' : y.message.n = z.message.n => y = z
      BY <1>3, <2>3, <3>1 DEF Once, SealedNumbers
    <3> QED
      BY <1>0, <1>2, <1>5, <2>5, <3>3, <3>5, <3>6 DEF Once, S
  <2> QED
    BY <2>1, <2>4, <2>5
<1> QED
  BY <1>4, <1>5 DEF Placed

\* Nothing is sent, queued or handled.
LEMMA StillOnce ==
  ASSUME Types, Once, UNCHANGED <<sealing, member, applied, updates>>, svc'.queue = svc.queue, up' = up
  PROVE  Messaging' /\ Once'
<1>1. Messaging'
  BY DEF Types, Messaging
<1>2. /\ SealedUpdates' = SealedUpdates /\ SealedNumbers' = SealedNumbers /\ OnConnections' = OnConnections
      /\ Applied' = Applied
  BY DEF SealedUpdates, SealedNumbers, OnConnections, Applied
<1> QED
  BY <1>1, <1>2 DEF Once

-----------------------------------------------------------------------------
(* Steps between which the server handles nothing and no socket opens.      *)

\* What is sent and being sealed keeps to the rooms.
Sent ==
  /\ \A s \in Sockets : Homely(up'[s], member[s])
  /\ \A s \in Sockets : ready[s] = "open" =>
       /\ JoinsOnly(up'[s], room.room)
       /\ \A x \in sealing' : x.socket = s /\ x.message.kind # "leave" => x.message.room = room.room
  /\ \A s \in Sockets : Fresh(s) /\ ready[s] # "open" => up'[s] = <<>> /\ \A x \in sealing' : x.socket # s
  /\ \A x \in sealing' : x.message.kind # "join"

\* Sending nothing does.
LEMMA NothingSent ==
  ASSUME Homes, UNCHANGED <<up, sealing>>
  PROVE  Sent
BY DEF Homes, Sent, AtHome, Fresh

\* So does a leave, or an update for the client's room.
LEMMA PlacedSent ==
  ASSUME Types, Homes, NEW m \in Messages, Placed(m), m.kind = "leave" \/ (m.kind = "update" /\ m.room = room.room)
  PROVE  Sent
<1>1. CASE UNCHANGED <<up, sealing>>
  BY <1>1, NothingSent
<1>2. CASE Open(svc, ready) /\ Send(svc, m)
  <2> DEFINE s == svc.ws
             q == Append(up[s], m)
             x == [socket |-> s, room |-> svc.key, message |-> m]
  <2>1. /\ s \in Sockets /\ ready[s] = "open"
        /\ \/ /\ up' = [up EXCEPT ![s] = q] /\ sealing' = sealing
           \/ /\ up' = up /\ sealing' = sealing \cup {x} /\ m.kind # "join"
    BY <1>2, SentTypes
  <2>2. up \in [Sockets -> Seq(Messages)] /\ up[s] \in Seq(Messages)
    BY <2>1 DEF Types, Messaging
  <2>3. Homely(up[s], member[s]) /\ JoinsOnly(up[s], room.room) /\ member[s] \in {None, room.room}
    BY <2>1 DEF Homes, AtHome
  <2>4. Homely(q, member[s]) /\ JoinsOnly(q, room.room)
    BY <2>2, <2>3, HomelyLonger
  <2>5. x.socket = s /\ x.message = m
    OBVIOUS
  <2> HIDE DEF q, x, s
  <2>6. CASE up' = [up EXCEPT ![s] = q] /\ sealing' = sealing
    <3>1. \A t \in Sockets : up'[t] = IF t = s THEN q ELSE up[t]
      BY <2>2, <2>6
    <3> QED
      BY <2>1, <2>4, <2>6, <3>1 DEF Homes, Sent, AtHome, Fresh
  <2>7. CASE up' = up /\ sealing' = sealing \cup {x} /\ m.kind # "join"
    BY <2>1, <2>5, <2>7 DEF Homes, Sent, AtHome, Fresh
  <2> QED
    BY <2>1, <2>6, <2>7
<1> QED
  BY <1>1, <1>2 DEF Placed

\* The rooms are kept if no socket opens and the client stays in its room as
\* long as one is open.
Calm ==
  /\ UNCHANGED <<member, applied>>
  /\ \A s \in Sockets : ready'[s] = "open" => ready[s] = "open" /\ room'.room = room.room
  /\ \A s \in Sockets : ready'[s] \in {"new", "connecting"} => Fresh(s) /\ ready[s] # "open"
  /\ \A i \in DOMAIN svc'.queue : svc'.queue[i].kind # "join"
  /\ \/ svc'.key \in {None, svc.key}
     \/ \E i \in DOMAIN inbound : inbound[i].kind = "key" /\ svc'.key = inbound[i].room
  /\ \A i \in DOMAIN inbound' : \E j \in DOMAIN inbound : inbound'[i] = inbound[j]
  /\ (\A s \in Sockets : ready'[s] \notin {"open", "closing"}) => svc'.key = None /\ inbound' = <<>>

\* Then the rooms are kept.
LEMMA CalmHomes ==
  ASSUME Homes, Sent, Calm
  PROVE  Homes'
<1>1. member' = member /\ applied' = applied
  BY DEF Calm
<1>2. \A s \in Sockets : Homely(up'[s], member'[s])
  BY <1>1 DEF Sent
<1>3. ASSUME NEW s \in Sockets, ready'[s] = "open"
      PROVE  AtHome(s)'
  <2>1. ready[s] = "open" /\ room'.room = room.room /\ AtHome(s)
    BY <1>3 DEF Calm, Homes
  <2>2. member'[s] \in {None, room'.room} /\ JoinsOnly(up'[s], room'.room)
    BY <1>1, <2>1 DEF Sent, AtHome
  <2>3. \A x \in sealing' : x.socket = s /\ x.message.kind # "leave" => x.message.room = room'.room
    BY <2>1 DEF Sent
  <2>4. svc'.key \in {None, room'.room}
    BY <2>1 DEF Calm, AtHome
  <2>5. \A i \in DOMAIN inbound' : inbound'[i].kind = "key" => inbound'[i].room = room'.room
    BY <2>1 DEF Calm, AtHome
  <2> QED
    BY <2>2, <2>3, <2>4, <2>5 DEF AtHome
<1>4. ASSUME NEW s \in Sockets, ready'[s] \in {"new", "connecting"}
      PROVE  Fresh(s)'
  <2>1. Fresh(s) /\ ready[s] # "open"
    BY <1>4 DEF Calm
  <2> QED
    BY <1>1, <2>1 DEF Sent, Fresh
<1>5. (\A s \in Sockets : ready'[s] \notin {"open", "closing"}) => svc'.key = None /\ inbound' = <<>>
  BY DEF Calm
<1>6. \A i \in DOMAIN svc'.queue : svc'.queue[i].kind # "join"
  BY DEF Calm
<1>7. \A x \in sealing' : x.message.kind # "join"
  BY DEF Sent
<1>8. \A i \in DOMAIN applied' : applied'[i].of = applied'[i].in
  BY <1>1 DEF Homes
<1> QED
  BY <1>2, <1>3, <1>4, <1>5, <1>6, <1>7, <1>8 DEF Homes

\* A leave that is queued, or nothing.
LEMMA QueueWithoutJoins ==
  ASSUME Types, Homes, NEW m \in Messages, m.kind # "join",
         svc'.queue = svc.queue \/ QueueTakes(svc.queue, svc'.queue, m)
  PROVE  \A i \in DOMAIN svc'.queue : svc'.queue[i].kind # "join"
<1>1. svc.queue \in Seq(Messages) /\ Len(svc.queue) <= MaxQueue
  BY DEF Types, ServiceOK, Service
<1>2. CASE svc'.queue = svc.queue
  BY <1>2 DEF Homes
<1>3. CASE QueueTakes(svc.queue, svc'.queue, m)
  <2>1. \A i \in DOMAIN svc'.queue : svc'.queue[i] = m \/ \E j \in DOMAIN svc.queue : svc'.queue[i] = svc.queue[j]
    BY <1>1, <1>3, Queueing
  <2> QED
    BY <2>1 DEF Homes
<1> QED
  BY <1>2, <1>3

-----------------------------------------------------------------------------
(* One lemma per action. *)

\* A connect without another socket.
LEMMA ConnectCalm ==
  ASSUME Steady, Types, Homes, NEW s \in Free, \A t \in Sockets : Over(t),
         ready' = [ready EXCEPT ![s] = "connecting"], UNCHANGED <<member, applied, inbound>>,
         svc'.key = svc.key, \A i \in DOMAIN svc'.queue : svc'.queue[i].kind # "join"
  PROVE  Calm
<1>1. \A t \in Sockets : ready'[t] = IF t = s THEN "connecting" ELSE ready[t]
  BY DEF Steady, Typing
<1>2. s \in Sockets /\ Fresh(s) /\ ready[s] # "open"
  BY DEF Free, Fresh
<1>3. svc.key = None /\ inbound = <<>>
  BY DEF Homes, Over
<1> QED
  BY <1>1, <1>2, <1>3 DEF Calm, Over, Homes

\* Where a socket is opened no other is lost.
LEMMA ConnectPlaces ==
  ASSUME Steady, Types, NEW s \in Free, ready' = [ready EXCEPT ![s] = "connecting"], lost' = lost \ {s},
         waiting' = waiting \/ \E r \in Rooms \cup {"reconnect"} : waiting' = [waiting EXCEPT ![s] = r],
         room' \in {room, Left, [room EXCEPT !.connected = FALSE]}, inbound' = inbound
  PROVE  Places'
<1>1. \A t \in Sockets : ready'[t] = IF t = s THEN "connecting" ELSE ready[t]
  BY DEF Steady, Typing
<1>2. s \in Sockets
  BY DEF Free
<1>3. lost' \subseteq {t \in Sockets : ready'[t] \in {"open", "closing"}}
  BY <1>1, <1>2 DEF Types, Places
<1>4. waiting' \in [Sockets -> Rooms \cup {None, "reconnect"}]
  BY <1>2 DEF Types, Places
<1>5. room' \in [room : Rooms \cup {None}, connected : BOOLEAN, shown : Rooms \cup {None, "error"}]
  <2>1. room \in [room : Rooms \cup {None}, connected : BOOLEAN, shown : Rooms \cup {None, "error"}]
    BY DEF Types, Places
  <2>2. Left \in [room : Rooms \cup {None}, connected : BOOLEAN, shown : Rooms \cup {None, "error"}]
    BY DEF Left
  <2>3. [room EXCEPT !.connected = FALSE] \in [room : Rooms \cup {None}, connected : BOOLEAN, shown : Rooms \cup {None, "error"}]
    BY <2>1
  <2> QED
    BY <2>1, <2>2, <2>3
<1> QED
  BY <1>3, <1>4, <1>5 DEF Types, Places

\* joinRoom sends nothing, for no socket is open; it may queue a leave.
LEMMA JoinRoomHome ==
  ASSUME HomeInv, ~Hasty, NEW r \in Rooms, JoinRoom(r), overlap' # "now"
  PROVE  Types' /\ Homes' /\ Once'
<1>1. Steady /\ Types /\ Homes /\ Once
  BY DEF HomeInv
<1>2. \A t \in Sockets : Over(t)
  BY DEF JoinRoom, JoinFailed, Overlaps, Settled, Ended, Over
<1>3. ~ Open(svc, ready)
  BY <1>1, <1>2 DEF Open, Steady, Typing, IsService, Over
<1>4. Closing(ready, svc.ws) = ready
  BY <1>1, <1>2 DEF Steady, Typing, IsService, Used, Over, Closing
<1>5. UNCHANGED <<up, sealing>>
  BY <1>3 DEF JoinRoom, SendNothing, SendLeave
<1>6. PICK s \in Free :
        /\ waiting' = [waiting EXCEPT ![s] = r] /\ lost' = lost \ {s}
        /\ ready' = [ready EXCEPT ![s] = "connecting"]
        /\ room' = Left
        /\ \/ svc' = Connecting(svc, s)
           \/ svc' = Connecting(AfterLeave, s) /\ room.room # None
  BY <1>4 DEF JoinRoom
<1>7. UNCHANGED <<inbound, member, applied, updates>>
  BY DEF JoinRoom
<1>8. s \in Sockets
  BY DEF Free
<1>9. Places'
  BY <1>1, <1>6, <1>7, ConnectPlaces
<1>10. Sent
  BY <1>1, <1>5, NothingSent
<1>11. CASE svc' = Connecting(svc, s)
  <2>1. ServiceOK(svc') /\ svc'.key = svc.key /\ svc'.queue = svc.queue
    BY <1>1, <1>8, <1>11, ConnectingOK DEF Types
  <2>2. Messaging' /\ Once'
    BY <1>1, <1>5, <1>7, <2>1, StillOnce
  <2>3. Calm
    BY <1>1, <1>2, <1>6, <1>7, <2>1, ConnectCalm DEF Homes
  <2> QED
    BY <1>1, <1>9, <1>10, <2>1, <2>2, <2>3, CalmHomes DEF Types
<1>12. CASE svc' = Connecting(AfterLeave, s) /\ room.room # None
  <2> DEFINE m == Message("leave", room.room, 0)
  <2>1. room.room \in Rooms
    BY <1>1, <1>12 DEF Types, Places
  <2>2. /\ ServiceOK(AfterLeave) /\ AfterLeave.key = svc.key /\ m \in Messages
        /\ AfterLeave.queue = svc.queue \/ QueueTakes(svc.queue, AfterLeave.queue, m)
    BY <1>1, <2>1, AfterLeaveOK DEF Types
  <2>3. m.kind = "leave"
    BY DEF Message
  <2> HIDE DEF m
  <2>4. ServiceOK(svc') /\ svc'.key = svc.key /\ (svc'.queue = svc.queue \/ QueueTakes(svc.queue, svc'.queue, m))
    BY <1>8, <1>12, <2>2, ConnectingOK
  <2>5. \A i \in DOMAIN svc'.queue : svc'.queue[i].kind # "join"
    BY <1>1, <2>2, <2>3, <2>4, QueueWithoutJoins
  <2>6. Calm
    BY <1>1, <1>2, <1>6, <1>7, <2>4, <2>5, ConnectCalm
  <2>7. Messaging' /\ Once'
    <3>1. CASE svc'.queue = svc.queue
      BY <1>1, <1>5, <1>7, <3>1, StillOnce
    <3>2. CASE QueueTakes(svc.queue, svc'.queue, m)
      <4>1. Placed(m) /\ updates' = updates /\ updates' \in 0..MaxUpdates
        BY <1>1, <1>5, <1>7, <3>2 DEF Placed, Types, Messaging
      <4> QED
        BY <1>1, <1>7, <2>2, <2>3, <4>1, PlacedTypes, PlacedOnce
    <3> QED
      BY <2>4, <3>1, <3>2
  <2> QED
    BY <1>1, <1>9, <1>10, <2>4, <2>6, <2>7, CalmHomes DEF Types
<1> QED
  BY <1>6, <1>11, <1>12

\* A reconnect, by the button or by the timer, when no socket is left.
LEMMA ReconnectHome ==
  ASSUME HomeInv, svc.state = "reconnecting", NEW s \in Free, NEW w, ServiceOK(w), w.key = svc.key, w.queue = svc.queue,
         svc' = Connecting(w, s), ready' = [ready EXCEPT ![s] = "connecting"], lost' = lost \ {s},
         waiting' = waiting \/ waiting' = [waiting EXCEPT ![s] = "reconnect"],
         room' \in {room, [room EXCEPT !.connected = FALSE]},
         UNCHANGED <<inbound, sealing, up, member, applied, updates>>
  PROVE  Types' /\ Homes' /\ Once'
<1>1. Steady /\ Types /\ Homes /\ Once
  BY DEF HomeInv
<1>2. \A t \in Sockets : Over(t)
  BY <1>1 DEF Steady, Reconnects
<1>3. s \in Sockets
  BY DEF Free
<1>4. ServiceOK(svc') /\ svc'.key = svc.key /\ svc'.queue = svc.queue
  BY <1>3, ConnectingOK
<1>5. Messaging' /\ Once'
  BY <1>1, <1>4, StillOnce
<1>6. Places'
  BY <1>1, ConnectPlaces
<1>7. Calm
  BY <1>1, <1>2, <1>4, ConnectCalm DEF Homes
<1>8. Sent
  BY <1>1, NothingSent
<1> QED
  BY <1>1, <1>4, <1>5, <1>6, <1>7, <1>8, CalmHomes DEF Types

\* reconnect.
LEMMA ForceReconnectHome ==
  ASSUME HomeInv, ForceReconnect
  PROVE  Types' /\ Homes' /\ Once'
<1> DEFINE u == CancelReconnect(svc)  w == [u EXCEPT !.attempts = 0]
<1>1. ServiceOK(u) /\ u.key = svc.key /\ u.queue = svc.queue
  BY CancelOK DEF HomeInv, Types
<1>2. PICK s \in Free : /\ svc' = Connecting(w, s) /\ ready' = [ready EXCEPT ![s] = "connecting"]
                        /\ lost' = lost \ {s} /\ waiting' = [waiting EXCEPT ![s] = "reconnect"]
  BY DEF ForceReconnect
<1>3. /\ room' = [room EXCEPT !.connected = FALSE] /\ svc.state = "reconnecting"
      /\ UNCHANGED <<inbound, sealing, up, member, applied, updates>>
  BY DEF ForceReconnect
<1> HIDE DEF u
<1>4. 0 \in 0..MaxAttempts
  BY ConnectionAssumption
<1>5. ServiceOK(w) /\ w.key = svc.key /\ w.queue = svc.queue
  <2>1. w \in Service
    BY <1>1, <1>4 DEF ServiceOK, Service
  <2>2. w.key = u.key /\ w.queue = u.queue
    BY <1>1 DEF ServiceOK, Service
  <2> QED
    BY <1>1, <2>1, <2>2 DEF ServiceOK
<1> HIDE DEF w
<1> QED
  BY <1>2, <1>3, <1>5, ReconnectHome

\* What a step that sends nothing and leaves the sockets alone keeps.
LEMMA QuietHome ==
  ASSUME HomeInv, ready' = ready, ServiceOK(svc'), svc'.key = svc.key, svc'.queue = svc.queue,
         UNCHANGED <<lost, waiting, room, sealing, inbound, up, member, applied, updates>>
  PROVE  Types' /\ Homes' /\ Once'
<1>1. Types /\ Homes /\ Once
  BY DEF HomeInv
<1>2. Messaging' /\ Once'
  BY <1>1, StillOnce
<1>3. Sent /\ Calm
  BY <1>1, NothingSent DEF Calm, Homes
<1>4. Places'
  BY <1>1 DEF Types, Places
<1> QED
  BY <1>1, <1>2, <1>3, <1>4, CalmHomes DEF Types

\* The timer.
LEMMA ReconnectTimerHome ==
  ASSUME HomeInv, ReconnectTimer
  PROVE  Types' /\ Homes' /\ Once'
<1> DEFINE w == IF svc.timer THEN [svc EXCEPT !.timer = FALSE] ELSE [svc EXCEPT !.stray = FALSE]
<1>1. ServiceOK(w) /\ w.key = svc.key /\ w.queue = svc.queue
  BY DEF HomeInv, Types, ServiceOK, Service
<1>2. UNCHANGED <<waiting, room, sealing, inbound, up, member, applied, updates>>
  BY DEF ReconnectTimer, server
<1>3. \/ svc.state = "reconnecting" /\ \E s \in Free : /\ svc' = Connecting(w, s) /\ lost' = lost \ {s}
                                                      /\ ready' = [ready EXCEPT ![s] = "connecting"]
      \/ svc' = w /\ UNCHANGED <<ready, lost>>
  BY DEF ReconnectTimer
<1> HIDE DEF w
<1>4. CASE svc' = w /\ UNCHANGED <<ready, lost>>
  BY <1>1, <1>2, <1>4, QuietHome
<1>5. ASSUME svc.state = "reconnecting",
             NEW s \in Free, svc' = Connecting(w, s), lost' = lost \ {s}, ready' = [ready EXCEPT ![s] = "connecting"]
      PROVE  Types' /\ Homes' /\ Once'
  BY <1>1, <1>2, <1>5, ReconnectHome
<1> QED
  BY <1>3, <1>4, <1>5

\* leaveRoom sends a leave, or queues it, and the socket is no longer open.
LEMMA LeaveRoomHome ==
  ASSUME HomeInv, LeaveRoom
  PROVE  Types' /\ Homes' /\ Once'
<1> DEFINE m == Message("leave", room.room, 0)
<1>1. Steady /\ Types /\ Homes /\ Once
  BY DEF HomeInv
<1>2. /\ svc' = AfterLeave /\ ready' = Closing(ready, svc.ws) /\ room' = Left
      /\ UNCHANGED <<lost, waiting, inbound, member, applied, updates>>
  BY DEF LeaveRoom
<1>3. room.room \in Rooms
  BY <1>1 DEF LeaveRoom, Types, Places
<1>4. /\ ServiceOK(svc') /\ svc'.key = svc.key /\ m \in Messages
      /\ IF room.connected /\ ~ Open(svc, ready) THEN QueueTakes(svc.queue, svc'.queue, m)
         ELSE svc'.queue = svc.queue
  BY <1>1, <1>2, <1>3, AfterLeaveOK DEF Types
<1>5. IF room.connected /\ Open(svc, ready) THEN Send(svc, m) ELSE UNCHANGED <<up, sealing>>
  BY DEF LeaveRoom, SendLeave, SendNothing
<1>6. m.kind = "leave" /\ m.kind # "join"
  BY DEF Message
<1> HIDE DEF m
<1>7. Placed(m) \/ (svc'.queue = svc.queue /\ UNCHANGED <<up, sealing>>)
  BY <1>4, <1>5 DEF Placed
<1>8. Sent /\ Messaging' /\ Once'
  <2>1. CASE svc'.queue = svc.queue /\ UNCHANGED <<up, sealing>>
    BY <1>1, <1>2, <2>1, NothingSent, StillOnce
  <2>2. CASE Placed(m)
    <3>1. updates' = updates /\ updates' \in 0..MaxUpdates
      BY <1>1, <1>2 DEF Types, Messaging
    <3> QED
      BY <1>1, <1>2, <1>4, <1>6, <2>2, <3>1, PlacedSent, PlacedTypes, PlacedOnce
  <2> QED
    BY <1>7, <2>1, <2>2
<1>9. svc.ws \in Sockets \cup {None} /\ (svc.ws # None => ready[svc.ws] # "new")
  BY <1>1 DEF Steady, Typing, IsService, Used
<1>10. \A s \in Sockets : \/ ready'[s] = ready[s] /\ (s = svc.ws /\ s # None => ready[s] = "closed")
                          \/ s = svc.ws /\ ready[s] \notin {"new", "closed"} /\ ready'[s] = "closing"
  BY <1>1, <1>2, <1>9 DEF Steady, Typing, Closing
<1>11. \A s \in Sockets : ready'[s] # "open"
  <2> SUFFICES ASSUME NEW s \in Sockets, ready'[s] = "open"
               PROVE  FALSE
    OBVIOUS
  <2>1. ready[s] = "open" /\ (s = svc.ws => s = None) /\ s # None
    BY <1>10, ConnectionAssumption
  <2> QED
    BY <1>1, <2>1 DEF Steady, Held
<1>12. \A i \in DOMAIN svc'.queue : svc'.queue[i].kind # "join"
  BY <1>1, <1>4, <1>6, QueueWithoutJoins
<1>13. Calm
  BY <1>1, <1>2, <1>4, <1>10, <1>11, <1>12 DEF Calm, Homes
<1>14. Places'
  <2>1. \A s \in lost : ready'[s] \in {"open", "closing"}
    BY <1>1, <1>10 DEF Types, Places
  <2>2. room' \in [room : Rooms \cup {None}, connected : BOOLEAN, shown : Rooms \cup {None, "error"}]
    BY <1>2 DEF Left
  <2> QED
    BY <1>1, <1>2, <2>1, <2>2 DEF Types, Places
<1> QED
  BY <1>1, <1>4, <1>8, <1>13, <1>14, CalmHomes DEF Types

\* An edit, to be sent to the client's room, or to be queued.
LEMMA UpdateHome ==
  ASSUME HomeInv, Update
  PROVE  Types' /\ Homes' /\ Once'
<1> DEFINE m == Message("update", room.room, updates + 1)
<1>1. Steady /\ Types /\ Homes /\ Once
  BY DEF HomeInv
<1>2. /\ updates' = updates + 1 /\ updates' \in 0..MaxUpdates
      /\ UNCHANGED <<ready, lost, waiting, room, inbound, member, applied>>
  BY <1>1, ConnectionAssumption DEF Update, Types, Messaging
<1>3. room.room \in Rooms
  BY <1>1 DEF Update, Types, Places
<1>4. m \in Messages
  BY <1>2, <1>3 DEF Message, Messages, Kinds
<1>5. IF Open(svc, ready) THEN Send(svc, m) /\ svc' = svc ELSE UNCHANGED <<up, sealing>> /\ svc' = Queued(svc, m)
  BY DEF Update, SendNothing
<1>6. m.kind = "update" /\ m.n = updates + 1 /\ m.room = room.room /\ m.kind # "join"
  BY DEF Message
<1> HIDE DEF m
<1>7. ServiceOK(svc') /\ svc'.key = svc.key /\ Placed(m)
  <2>1. ServiceOK(Queued(svc, m)) /\ Queued(svc, m).key = svc.key /\ QueueTakes(svc.queue, Queued(svc, m).queue, m)
    BY <1>1, <1>4, QueuedOK DEF Types
  <2> QED
    BY <1>1, <1>5, <2>1 DEF Placed, Types
<1>8. Messaging' /\ Once'
  BY <1>1, <1>2, <1>4, <1>6, <1>7, PlacedTypes, PlacedOnce
<1>9. Sent
  BY <1>1, <1>4, <1>6, <1>7, PlacedSent
<1>10. \A i \in DOMAIN svc'.queue : svc'.queue[i].kind # "join"
  BY <1>1, <1>4, <1>6, <1>7, QueueWithoutJoins DEF Placed
<1>11. Calm
  BY <1>1, <1>2, <1>7, <1>10 DEF Calm, Homes
<1>12. Places'
  BY <1>1, <1>2 DEF Types, Places
<1> QED
  BY <1>1, <1>7, <1>8, <1>9, <1>11, <1>12, CalmHomes DEF Types

\* A socket closes when its frames have been opened, and the key is gone.
LEMMA OnCloseHome ==
  ASSUME HomeInv, ~Hasty, NEW s \in Sockets, OnClose(s)
  PROVE  Types' /\ Homes' /\ Once'
<1>1. Steady /\ Types /\ Homes /\ Once
  BY DEF HomeInv
<1>2. /\ inbound = <<>> /\ ready' = [ready EXCEPT ![s] = "closed"] /\ lost' = lost \ {s} /\ svc' = Dropped(svc)
      /\ \E shown \in {room.shown, "error"} : room' = [room EXCEPT !.connected = FALSE, !.shown = shown]
      /\ waiting' = [waiting EXCEPT ![s] = None]
      /\ UNCHANGED <<sealing, inbound, up, member, applied, updates>>
  BY DEF OnClose, server
<1>3. ServiceOK(svc') /\ svc'.key = None /\ svc'.queue = svc.queue
  BY <1>1, <1>2, DroppedOK DEF Types
<1>4. \A t \in Sockets : ready'[t] = IF t = s THEN "closed" ELSE ready[t]
  BY <1>1, <1>2 DEF Steady, Typing
<1>5. Messaging' /\ Once'
  BY <1>1, <1>2, <1>3, StillOnce
<1>6. room'.room = room.room
  BY <1>1, <1>2 DEF Types, Places
<1>7. Sent
  BY <1>1, <1>2, NothingSent
<1>8. Calm
  BY <1>1, <1>2, <1>3, <1>4, <1>6 DEF Calm, Homes
<1>9. Places'
  <2>1. room' \in [room : Rooms \cup {None}, connected : BOOLEAN, shown : Rooms \cup {None, "error"}]
    BY <1>1, <1>2 DEF Types, Places
  <2>2. waiting' \in [Sockets -> Rooms \cup {None, "reconnect"}]
    BY <1>1, <1>2 DEF Types, Places
  <2> QED
    BY <1>1, <1>2, <1>4, <2>1, <2>2 DEF Types, Places
<1> QED
  BY <1>1, <1>3, <1>5, <1>7, <1>8, <1>9, CalmHomes DEF Types

\* The network of an open socket goes away.
LEMMA NetworkDiesHome ==
  ASSUME HomeInv, NEW s \in Sockets, NetworkDies(s)
  PROVE  Types' /\ Homes' /\ Once'
<1>1. Types /\ Homes /\ Once
  BY DEF HomeInv
<1>2. /\ ready[s] = "open" /\ lost' = lost \cup {s}
      /\ UNCHANGED <<ready, svc, room, sealing, inbound, waiting, up, member, applied, updates>>
  BY DEF NetworkDies, client, server
<1>3. Messaging' /\ Once'
  BY <1>1, <1>2, StillOnce
<1>4. Sent /\ Calm
  BY <1>1, <1>2, NothingSent DEF Calm, Homes
<1>5. Places' /\ ServiceOK(svc')
  BY <1>1, <1>2 DEF Types, Places
<1> QED
  BY <1>1, <1>3, <1>4, <1>5, CalmHomes DEF Types

\* A heartbeat without answer begins to close the socket.
LEMMA HeartbeatHome ==
  ASSUME HomeInv, Heartbeat
  PROVE  Types' /\ Homes' /\ Once'
<1> DEFINE n == IF svc.ws \in lost THEN svc.silence + 1 ELSE 0
           k == IF n < 3 THEN n ELSE 3
<1>1. Steady /\ Types /\ Homes /\ Once
  BY DEF HomeInv
<1>2. /\ svc' = [svc EXCEPT !.silence = k] /\ (ready' = ready \/ ready' = Closing(ready, svc.ws))
      /\ UNCHANGED <<lost, waiting, room, sealing, inbound, up, member, applied, updates>>
  BY DEF Heartbeat, server
<1>3. k \in 0..3
  BY <1>1 DEF Types, ServiceOK, Service
<1> HIDE DEF k
<1>4. ServiceOK(svc') /\ svc'.key = svc.key /\ svc'.queue = svc.queue
  BY <1>1, <1>2, <1>3 DEF Types, ServiceOK, Service
<1>5. svc.ws \in Sockets /\ ready[svc.ws] = "open"
  BY <1>1 DEF Heartbeat, Open, Types, ServiceOK, Service
<1>6. \A s \in Sockets : ready'[s] = ready[s] \/ (ready[s] = "open" /\ ready'[s] = "closing")
  BY <1>1, <1>2, <1>5 DEF Steady, Typing, Closing
<1>7. Messaging' /\ Once'
  BY <1>1, <1>2, <1>4, StillOnce
<1>8. Sent
  BY <1>1, <1>2, NothingSent
<1>9. Calm
  BY <1>1, <1>2, <1>4, <1>6 DEF Calm, Homes
<1>10. Places'
  BY <1>1, <1>2, <1>6 DEF Types, Places
<1> QED
  BY <1>1, <1>4, <1>7, <1>8, <1>9, <1>10, CalmHomes DEF Types

\* A frame has been opened; a key is that of the room joined on this connection.
LEMMA ProcessInboundHome ==
  ASSUME HomeInv, ProcessInbound
  PROVE  Types' /\ Homes' /\ Once'
<1> DEFINE f == Head(inbound)
<1>1. Steady /\ Types /\ Homes /\ Once
  BY DEF HomeInv
<1>2. /\ inbound' = Tail(inbound) /\ svc' = Armed(svc, f) /\ (room' = room \/ room' = Handled(f))
      /\ UNCHANGED <<ready, lost, waiting, sealing, up, member, applied, updates>>
  BY DEF ProcessInbound, server
<1>3. /\ inbound # <<>> /\ inbound \in Seq(Frames)
  BY <1>1 DEF ProcessInbound, Types, Places
<1>4. /\ f \in Frames /\ 1 \in DOMAIN inbound /\ f = inbound[1]
      /\ inbound' \in Seq(Frames) /\ \A i \in DOMAIN inbound' : i + 1 \in DOMAIN inbound /\ inbound'[i] = inbound[i + 1]
  BY <1>2, <1>3
<1> HIDE DEF f
<1>5. /\ ServiceOK(svc') /\ svc'.queue = svc.queue
      /\ svc'.key = IF f.kind = "key" THEN f.room ELSE svc.key
  BY <1>1, <1>2, <1>4, ArmedOK DEF Types
<1>6. /\ room'.room = room.room
      /\ room' \in [room : Rooms \cup {None}, connected : BOOLEAN, shown : Rooms \cup {None, "error"}]
  <2>1. room \in [room : Rooms \cup {None}, connected : BOOLEAN, shown : Rooms \cup {None, "error"}]
    BY <1>1 DEF Types, Places
  <2>2. f.room \in Rooms
    BY <1>4 DEF Frames
  <2>3. Handled(f) = room \/ \E shown \in {f.room, "error"} : Handled(f) = [room EXCEPT !.shown = shown]
    BY DEF Handled
  <2>4. CASE room' = room
    BY <2>1, <2>4
  <2>5. ASSUME NEW shown \in {f.room, "error"}, room' = [room EXCEPT !.shown = shown]
        PROVE  /\ room'.room = room.room
               /\ room' \in [room : Rooms \cup {None}, connected : BOOLEAN, shown : Rooms \cup {None, "error"}]
    BY <2>1, <2>2, <2>5
  <2> QED
    BY <1>2, <2>3, <2>4, <2>5
<1>7. Messaging' /\ Once'
  BY <1>1, <1>2, <1>5, StillOnce
<1>8. Sent
  BY <1>1, <1>2, NothingSent
<1>9. Calm
  <2>1. svc'.key = svc.key \/ \E i \in DOMAIN inbound : inbound[i].kind = "key" /\ svc'.key = inbound[i].room
    BY <1>4, <1>5
  <2>2. \A i \in DOMAIN inbound' : \E j \in DOMAIN inbound : inbound'[i] = inbound[j]
    BY <1>4
  <2>3. ~ \A s \in Sockets : ready'[s] \notin {"open", "closing"}
    BY <1>1, <1>2, <1>3 DEF Homes
  <2> QED
    BY <1>1, <1>2, <1>5, <1>6, <2>1, <2>2, <2>3 DEF Calm, Homes
<1>10. Places'
  BY <1>1, <1>2, <1>4, <1>6 DEF Types, Places
<1> QED
  BY <1>1, <1>5, <1>7, <1>8, <1>9, <1>10, CalmHomes DEF Types

\* A message has been sealed: it is on its connection, or nowhere.
LEMMA SealDoneHome ==
  ASSUME HomeInv, SealDone
  PROVE  Types' /\ Homes' /\ Once'
<1>1. Steady /\ Types /\ Homes /\ Once
  BY DEF HomeInv
<1>2. PICK x \in sealing :
        /\ sealing' = sealing \ {x}
        /\ up' = IF ready[x.socket] = "open" THEN [up EXCEPT ![x.socket] = Append(@, x.message)] ELSE up
  BY DEF SealDone
<1>3. UNCHANGED <<ready, lost, svc, room, inbound, waiting, member, applied, updates>>
  BY DEF SealDone
<1>4. PICK s, m : s = x.socket /\ m = x.message
  OBVIOUS
<1>5. s \in Sockets /\ m \in Messages /\ m.kind \in {"leave", "update"}
  BY <1>1, <1>2, <1>4 DEF Types, Messaging, Messages, Kinds, Homes
<1>6. PICK q : q = Append(up[s], m)
  OBVIOUS
<1>7. up \in [Sockets -> Seq(Messages)] /\ up[s] \in Seq(Messages) /\ q \in Seq(Messages)
  BY <1>1, <1>5, <1>6 DEF Types, Messaging
<1>8. up' = up \/ (ready[s] = "open" /\ up' = [up EXCEPT ![s] = q])
  BY <1>2, <1>4, <1>6
<1>9. Sent
  <2>1. CASE up' = up
    BY <1>1, <1>2, <2>1 DEF Homes, Sent, AtHome, Fresh
  <2>2. CASE ready[s] = "open" /\ up' = [up EXCEPT ![s] = q]
    <3>1. \A t \in Sockets : up'[t] = IF t = s THEN q ELSE up[t]
      BY <1>7, <2>2
    <3>2. /\ Homely(up[s], member[s]) /\ JoinsOnly(up[s], room.room) /\ member[s] \in {None, room.room}
          /\ m.kind = "leave" \/ (m.kind = "update" /\ m.room = room.room)
      BY <1>1, <1>2, <1>4, <1>5, <2>2 DEF Homes, AtHome
    <3>3. Homely(q, member[s]) /\ JoinsOnly(q, room.room)
      BY <1>5, <1>6, <1>7, <3>2, HomelyLonger
    <3> QED
      BY <1>1, <1>2, <2>2, <3>1, <3>3 DEF Homes, Sent, AtHome, Fresh
  <2> QED
    BY <1>8, <2>1, <2>2
<1>10. Calm
  BY <1>1, <1>3 DEF Calm, Homes
<1>11. Types'
  <2>1. Messaging'
    BY <1>1, <1>2, <1>3, <1>5, <1>7, <1>8 DEF Types, Messaging
  <2> QED
    BY <1>1, <1>3, <2>1 DEF Types, Places
<1>12. Once'
  <2>1. PICK N, K, Q, U, S, A : /\ N = NumberOf(m) /\ K = 1..updates /\ Q = NumbersOf(svc.queue)
                                /\ U = OnConnections /\ S = SealedNumbers /\ A = Applied
    OBVIOUS
  <2>2. PICK U2, S2 : U2 = OnConnections' /\ S2 = SealedNumbers'
    OBVIOUS
  <2>3. Apart(Q, U, S, A, K)
    BY <1>1, <2>1 DEF Once
  <2>4. N \subseteq S /\ (m.kind = "update" => x \in SealedUpdates /\ m.n \in S)
    BY <1>2, <1>4, <2>1 DEF NumberOf, SealedNumbers, SealedUpdates
  <2>5. SealedUpdates' \subseteq SealedUpdates /\ x \notin SealedUpdates'
    BY <1>2 DEF SealedUpdates
  <2>6. S2 \subseteq S /\ S2 \cap N = {}
    <3>1. S2 \subseteq S
      BY <2>1, <2>2, <2>5 DEF SealedNumbers
    <3>2. ASSUME NEW n \in S2, n \in N
          PROVE  FALSE
      <4>1. n = m.n /\ m.kind = "update"
        BY <2>1, <3>2 DEF NumberOf
      <4>2. PICK y \in SealedUpdates' : y.message.n = n
        BY <2>2 DEF SealedNumbers
      <4>3. y \in SealedUpdates /\ x \in SealedUpdates /\ y.message.n = x.message.n /\ y # x
        BY <1>4, <2>4, <2>5, <4>1, <4>2
      <4> QED
        BY <1>1, <4>3 DEF Once
    <3> QED
      BY <3>1, <3>2
  <2>7. /\ NumbersOf(q) \subseteq NumbersOf(up[s]) \cup N /\ (Distinct(up[s]) => Distinct(q))
    <3>1. m.kind = "update" => m.n \notin NumbersOf(up[s])
      BY <1>5, <2>1, <2>3, <2>4 DEF Apart, OnConnections
    <3> QED
      BY <1>5, <1>6, <1>7, <2>1, <3>1, Longer DEF NumberOf
  <2>8. \A t \in Sockets : up'[t] = up[t] \/ (t = s /\ up'[t] = q)
    BY <1>7, <1>8
  <2>9. \A t \in Sockets : U2[t] \subseteq IF t = s THEN U[t] \cup N ELSE U[t]
    BY <2>1, <2>2, <2>7, <2>8 DEF OnConnections
  <2>10. Moved(Q, U, S, A, Q, U2, S2, A, N, s)
    BY <2>3, <2>4, <2>6, <2>9 DEF Moved, Apart
  <2>11. Within(K, K) /\ Within(N, K)
    BY <2>3, <2>4 DEF Within, Apart
  <2>12. Apart(Q, U2, S2, A, K)
    BY <2>3, <2>10, <2>11, MovedApart
  <2>13. \A t \in Sockets : Distinct(up'[t])
    BY <1>1, <2>7, <2>8 DEF Once
  <2>14. \A y, z \in SealedUpdates' : y.message.n = z.message.n => y = z
    BY <1>1, <2>5 DEF Once
  <2>15. Applied' = A /\ NumbersOf(svc'.queue) = Q /\ (1..updates)' = K
    BY <1>3, <2>1 DEF Applied
  <2> QED
    BY <1>1, <1>3, <2>2, <2>12, <2>13, <2>14, <2>15 DEF Once
<1> QED
  BY <1>1, <1>9, <1>10, <1>11, <1>12, CalmHomes

\* What the opening of a socket comes to: the socket is the one the service
\* holds, there is no key yet, and the queue goes out before the join.
OpensWith(s, joins) ==
  /\ svc.ws = s /\ svc.key = None /\ inbound = <<>> /\ Fresh(s)
  /\ \A t \in Sockets : t # s => Over(t)
  /\ ready' = [ready EXCEPT ![s] = "open"]
  /\ svc' = [Opened(svc) EXCEPT !.queue = <<>>]
  /\ up' = [up EXCEPT ![s] = svc.queue \o joins] /\ sealing' = sealing
  /\ joins = <<>> \/ (room'.room \in Rooms /\ joins = <<Message("join", room'.room, 0)>>)
  /\ room' \in [room : Rooms \cup {None}, connected : BOOLEAN, shown : Rooms \cup {None, "error"}]

\* It comes to that.
LEMMA OnOpenMeans ==
  ASSUME HomeInv, NEW s \in Sockets, OnOpen(s)
  PROVE  \E joins : OpensWith(s, joins)
<1>1. Steady /\ Types /\ Homes /\ s # None
  BY ConnectionAssumption DEF HomeInv
<1>2. ready[s] = "connecting" /\ ready' = [ready EXCEPT ![s] = "open"] /\ ready'[s] = "open"
  BY <1>1 DEF OnOpen, Steady, Typing
<1>3. svc.ws = s /\ Fresh(s) /\ \A t \in Sockets : t # s => Over(t)
  BY <1>1, <1>2 DEF Steady, Held, OneSocket, Over, Homes
<1>4. svc.key = None /\ inbound = <<>>
  BY <1>1, <1>2, <1>3 DEF Homes, Over
<1>5. Open(svc, ready')
  BY <1>1, <1>2, <1>3 DEF Open
<1>6. Opened(svc).attempts = 0
  BY <1>1, OpenedOK DEF Types
<1>7. Rejoin(Opened(svc)) = <<>>
  BY <1>6 DEF Rejoin
<1> DEFINE joins == JoinAfter(s)
           ms == svc.queue \o Rejoin(Opened(svc)) \o joins
<1>8. SendAll(svc, ms) /\ svc' = Flushed(Opened(svc), TRUE)
  BY <1>5 DEF OnOpen
<1>9. svc' = [Opened(svc) EXCEPT !.queue = <<>>]
  BY <1>8 DEF Flushed
<1>10. room' = IF waiting[s] \notin Rooms
                 THEN [room EXCEPT !.connected = room.connected \/ room.room # None]
                 ELSE [room EXCEPT !.room = waiting[s], !.connected = TRUE]
  BY <1>5 DEF OnOpen
<1>11. room \in [room : Rooms \cup {None}, connected : BOOLEAN, shown : Rooms \cup {None, "error"}]
  BY <1>1 DEF Types, Places
<1>12. waiting[s] \in Rooms \cup {None, "reconnect"}
  BY <1>1 DEF Types, Places
<1>13. /\ room' \in [room : Rooms \cup {None}, connected : BOOLEAN, shown : Rooms \cup {None, "error"}]
       /\ room'.room = IF waiting[s] \in Rooms THEN waiting[s] ELSE room.room
  BY <1>10, <1>11
<1>14. JoinAfter(s) = <<>> \/ (room'.room \in Rooms /\ JoinAfter(s) = <<Message("join", room'.room, 0)>>)
  BY <1>11, <1>13 DEF JoinAfter
<1>15. ms = svc.queue \o joins
  <2>1. svc.queue \o <<>> = svc.queue
    BY <1>1 DEF Types, ServiceOK, Service
  <2> QED
    BY <1>7, <2>1
<1> HIDE DEF joins, ms
<1>16. svc.queue \o joins \in Seq(Messages)
  <2>1. svc.queue \in Seq(Messages) /\ \A i \in DOMAIN svc.queue : svc.queue[i].kind # "join"
    BY <1>1 DEF Types, ServiceOK, Service, Homes
  <2>2. joins = <<>> \/ (room'.room \in Rooms /\ joins = <<Message("join", room'.room, 0)>>)
    BY <1>14 DEF joins
  <2> QED
    BY <2>1, <2>2, Flushing
<1>17. up' = [up EXCEPT ![s] = svc.queue \o joins] /\ sealing' = sealing
  <2> DEFINE p == svc.queue \o joins
  <2>1. p \in Seq(Messages) /\ up[s] = <<>>
    BY <1>3, <1>16 DEF Fresh
  <2> HIDE DEF p
  <2>2. up' = [up EXCEPT ![s] = up[s] \o p]
    BY <1>3, <1>4, <1>8, <1>15 DEF SendAll, p
  <2>3. <<>> \o p = p
    BY <2>1
  <2>4. sealing' = sealing
    BY <1>4, <1>8 DEF SendAll
  <2> QED
    BY <2>1, <2>2, <2>3, <2>4 DEF p
<1>18. OpensWith(s, JoinAfter(s))
  BY <1>2, <1>3, <1>4, <1>9, <1>13, <1>14, <1>17 DEF OpensWith, joins
<1> QED
  BY <1>18

\* The queue is on the connection then, and the join behind it.
LEMMA OnOpenHome ==
  ASSUME HomeInv, NEW s \in Sockets, OnOpen(s)
  PROVE  Types' /\ Homes' /\ Once'
<1>1. Steady /\ Types /\ Homes /\ Once
  BY DEF HomeInv
<1>2. PICK joins : OpensWith(s, joins)
  BY OnOpenMeans
<1>3. waiting' = [waiting EXCEPT ![s] = None] /\ UNCHANGED <<lost, inbound, member, applied, updates>>
  BY DEF OnOpen
<1>4. PICK p, q, r : p = svc.queue \o joins /\ q = svc.queue /\ r = room'.room
  OBVIOUS
<1>5. q \in Seq(Messages) /\ (\A i \in DOMAIN q : q[i].kind # "join") /\ Distinct(q)
  BY <1>1, <1>4 DEF Types, ServiceOK, Service, Homes, Once
<1>6. /\ p \in Seq(Messages) /\ Homely(p, None) /\ JoinsOnly(p, r)
      /\ NumbersOf(p) = NumbersOf(q) /\ Distinct(p)
  BY <1>2, <1>4, <1>5, Flushing DEF OpensWith
<1>7. ServiceOK(svc') /\ svc'.key = None /\ svc'.queue = <<>>
  BY <1>1, <1>2, OpenedOK DEF OpensWith, Types
<1>8. \A t \in Sockets : up'[t] = IF t = s THEN p ELSE up[t]
  BY <1>1, <1>2, <1>4 DEF OpensWith, Types, Messaging
<1>9. \A t \in Sockets : ready'[t] = IF t = s THEN "open" ELSE ready[t]
  BY <1>1, <1>2 DEF OpensWith, Steady, Typing
<1>10. /\ sealing' = sealing /\ inbound = <<>> /\ up[s] = <<>> /\ member[s] = None
       /\ (\A x \in sealing : x.socket # s) /\ \A t \in Sockets : t # s => Over(t)
  BY <1>2 DEF OpensWith, Fresh
<1>11. Types'
  <2>1. Messaging'
    BY <1>1, <1>2, <1>3, <1>4, <1>6 DEF OpensWith, Types, Messaging
  <2>2. waiting' \in [Sockets -> Rooms \cup {None, "reconnect"}]
    BY <1>1, <1>3 DEF Types, Places
  <2>3. Places'
    BY <1>1, <1>2, <1>3, <1>9, <2>2 DEF OpensWith, Types, Places
  <2> QED
    BY <1>7, <2>1, <2>3 DEF Types
<1>12. Homes'
  <2>1. \A t \in Sockets : Homely(up'[t], member'[t])
    BY <1>1, <1>3, <1>6, <1>8, <1>10 DEF Homes
  <2>2. AtHome(s)'
    BY <1>3, <1>4, <1>6, <1>7, <1>8, <1>10 DEF AtHome
  <2>3. \A t \in Sockets : ready'[t] = "open" => t = s
    BY <1>9, <1>10 DEF Over
  <2>4. ASSUME NEW t \in Sockets, ready'[t] \in {"new", "connecting"}
        PROVE  Fresh(t)'
    <3>1. t # s /\ ready[t] \in {"new", "connecting"}
      BY <1>9, <2>4
    <3>2. Fresh(t)
      BY <1>1, <3>1 DEF Homes
    <3> QED
      BY <1>3, <1>8, <1>10, <3>1, <3>2 DEF Fresh
  <2>5. /\ \A i \in DOMAIN svc'.queue : svc'.queue[i].kind # "join"
        /\ \A x \in sealing' : x.message.kind # "join"
        /\ \A i \in DOMAIN applied' : applied'[i].of = applied'[i].in
    <3>1. DOMAIN svc'.queue = {}
      BY <1>7
    <3> QED
      BY <1>1, <1>3, <1>10, <3>1 DEF Homes
  <2>6. ready'[s] = "open"
    BY <1>9
  <2> QED
    BY <2>1, <2>2, <2>3, <2>4, <2>5, <2>6 DEF Homes
<1>13. Once'
  <2>1. PICK N, K, U, S, A, U2 : /\ N = NumbersOf(q) /\ K = 1..updates /\ U = OnConnections
                                 /\ S = SealedNumbers /\ A = Applied /\ U2 = OnConnections'
    OBVIOUS
  <2>2. Apart(N, U, S, A, K)
    BY <1>1, <1>4, <2>1 DEF Once
  <2>3. NumbersOf(<<>>) = {} /\ Distinct(<<>>)
    BY DEF NumbersOf, UpdatesOf, Distinct
  <2>4. \A t \in Sockets : U2[t] \subseteq IF t = s THEN U[t] \cup N ELSE U[t]
    BY <1>6, <1>8, <2>1 DEF OnConnections
  <2>5. Moved(N, U, S, A, {}, U2, S, A, N, s)
    BY <2>2, <2>4 DEF Moved, Apart
  <2>6. Within(K, K) /\ Within(N, K)
    BY <2>2 DEF Within, Apart
  <2>7. Apart({}, U2, S, A, K)
    BY <2>2, <2>5, <2>6, MovedApart
  <2>8. Applied' = A /\ SealedUpdates' = SealedUpdates /\ SealedNumbers' = S /\ (1..updates)' = K
    BY <1>3, <1>10, <2>1 DEF Applied, SealedNumbers, SealedUpdates
  <2>9. \A t \in Sockets : Distinct(up'[t])
    BY <1>1, <1>6, <1>8 DEF Once
  <2> QED
    BY <1>1, <1>3, <1>7, <2>1, <2>3, <2>7, <2>8, <2>9 DEF Once
<1> QED
  BY <1>11, <1>12, <1>13

\* Of one frame or two.
LEMMA FewFrames ==
  ASSUME NEW r, NEW f \in Frames, NEW g \in Frames, NEW a, a = <<f>> \/ a = <<f, g>>,
         f.kind = "key" => f.room = r, g.kind = "key" => g.room = r
  PROVE  a \in Seq(Frames) /\ \A i \in DOMAIN a : a[i].kind = "key" => a[i].room = r
<1>1. CASE a = <<f>>
  BY <1>1
<1>2. CASE a = <<f, g>>
  BY <1>2
<1> QED
  BY <1>1, <1>2

\* A key that the server sends is that of the room it was asked for.
LEMMA AnswersOK ==
  ASSUME NEW s, member[s] \in Rooms \cup {None}, NEW r \in Rooms, NEW a \in Answers(r) \cup Refusals(s, r)
  PROVE  a \in Seq(Frames) /\ \A i \in DOMAIN a : a[i].kind = "key" => a[i].room = r
<1>1. ASSUME NEW kind \in {"key", "state", "error"}, NEW q \in Rooms, NEW sealed \in BOOLEAN
      PROVE  Frame(kind, q, sealed) \in Frames /\ Frame(kind, q, sealed).kind = kind
               /\ Frame(kind, q, sealed).room = q
  BY DEF Frame, Frames
<1>2. PICK k, t, u, j, e, d :
        /\ k = Frame("key", r, FALSE) /\ t = Frame("state", r, TRUE) /\ u = Frame("state", r, FALSE)
        /\ j = Junk(r) /\ e = Frame("error", r, FALSE) /\ d = Frame("error", member[s], TRUE)
  OBVIOUS
<1>3. k \in Frames /\ t \in Frames /\ u \in Frames /\ j \in Frames /\ e \in Frames
  BY <1>1, <1>2 DEF Junk
<1>5. /\ k.room = r /\ t.kind = "state" /\ u.kind = "state" /\ j.kind = "error" /\ e.kind = "error"
      /\ d.kind = "error"
  BY <1>2 DEF Junk, Frame
<1>6. member[s] # None => d \in Frames
  BY <1>1, <1>2
<1>4. \/ a \in {<<k, t>>, <<k, j>>, <<j>>, <<u>>, <<e>>}
      \/ member[s] # None /\ a = <<d>>
  BY <1>2 DEF Answers, Refusals
<1> HIDE DEF Frames
<1>7. CASE a \in {<<k, t>>, <<k, j>>}
  BY <1>3, <1>5, <1>7, FewFrames
<1>8. ASSUME NEW f \in {j, u, e}, a = <<f>>
      PROVE  a \in Seq(Frames) /\ \A i \in DOMAIN a : a[i].kind = "key" => a[i].room = r
  <2>1. f \in Frames /\ f.kind # "key"
    BY <1>3, <1>5, <1>8
  <2> QED
    BY <1>8, <2>1, FewFrames
<1>9. CASE member[s] # None /\ a = <<d>>
  BY <1>5, <1>6, <1>9, FewFrames
<1> QED
  BY <1>4, <1>7, <1>8, <1>9

\* The server reads a message of the connection.
LEMMA ServerHandlesHome ==
  ASSUME HomeInv, NEW s \in Sockets, ServerHandles(s)
  PROVE  Types' /\ Homes' /\ Once'
<1>1. Steady /\ Types /\ Homes /\ Once
  BY DEF HomeInv
<1>2. UNCHANGED <<ready, lost, svc, room, sealing, waiting, updates>> /\ up[s] # <<>>
  BY DEF ServerHandles
<1>3. PICK q, m, in, out : q = Tail(up[s]) /\ m = Head(up[s]) /\ in = member[s] /\ out = member'[s]
  OBVIOUS
<1>4. up \in [Sockets -> Seq(Messages)] /\ up[s] \in Seq(Messages)
  BY <1>1 DEF Types, Messaging
<1>5. /\ q \in Seq(Messages) /\ m \in Messages /\ 1 \in DOMAIN up[s] /\ m = up[s][1]
      /\ NumbersOf(q) \subseteq NumbersOf(up[s]) /\ Distinct(q)
      /\ m.kind = "update" => m.n \in NumbersOf(up[s]) /\ m.n \notin NumbersOf(q)
  <2>1. Distinct(up[s])
    BY <1>1 DEF Once
  <2> QED
    BY <1>2, <1>3, <1>4, <2>1, Shorter
<1>6. \A t \in Sockets : up'[t] = IF t = s THEN q ELSE up[t]
  BY <1>3, <1>4 DEF ServerHandles
<1>7. /\ member \in [Sockets -> Rooms \cup {None}]
      /\ \A t \in Sockets : member'[t] = IF t = s THEN out ELSE member[t]
      /\ out \in {in, None} \/ (m.kind = "join" /\ out = m.room)
      /\ member' \in [Sockets -> Rooms \cup {None}]
  <2>1. member \in [Sockets -> Rooms \cup {None}] /\ m.room \in Rooms
    BY <1>1, <1>5 DEF Types, Messaging, Messages
  <2>2. \/ member' = member
        \/ m.kind = "join" /\ member' = [member EXCEPT ![s] = m.room]
        \/ member' = [member EXCEPT ![s] = None]
    BY <1>3 DEF ServerHandles
  <2> QED
    BY <1>3, <2>1, <2>2
<1>8. \/ applied' = applied
      \/ /\ m.kind = "update" /\ in # None
         /\ applied' = Append(applied, [n |-> m.n, of |-> m.room, in |-> in])
  BY <1>3 DEF ServerHandles
<1>9. PICK answer \in {<<>>} \cup Answers(m.room) \cup Refusals(s, m.room) :
        /\ inbound' = inbound \/ (ready[s] = "open" /\ inbound' = inbound \o answer)
        /\ answer = <<>> \/ m.kind = "join"
  <2>1. CASE inbound' = inbound
    BY <2>1
  <2>2. ASSUME m.kind = "join", NEW frames \in Answers(m.room) \cup Refusals(s, m.room),
               inbound' = IF ready[s] = "open" THEN inbound \o frames ELSE inbound
        PROVE  \E answer \in {<<>>} \cup Answers(m.room) \cup Refusals(s, m.room) :
                 /\ inbound' = inbound \/ (ready[s] = "open" /\ inbound' = inbound \o answer)
                 /\ answer = <<>> \/ m.kind = "join"
    BY <2>2
  <2> QED
    BY <1>3, <2>1, <2>2 DEF ServerHandles
<1>10. answer \in Seq(Frames) /\ \A i \in DOMAIN answer : m.kind = "join" /\ (answer[i].kind = "key" => answer[i].room = m.room)
  <2>1. m.room \in Rooms /\ member[s] \in Rooms \cup {None}
    BY <1>5, <1>7 DEF Messages
  <2>2. ASSUME answer \in Answers(m.room) \cup Refusals(s, m.room)
        PROVE  answer \in Seq(Frames) /\ \A i \in DOMAIN answer : answer[i].kind = "key" => answer[i].room = m.room
    BY <2>1, <2>2, AnswersOK
  <2>3. CASE answer = <<>>
    BY <2>3
  <2>4. CASE answer # <<>>
    BY <1>9, <2>2, <2>4
  <2> QED
    BY <2>3, <2>4
<1>11. Homely(up[s], in)
  BY <1>1, <1>3 DEF Homes
<1>12. /\ Homely(q, out) /\ (JoinsOnly(up[s], room.room) => JoinsOnly(q, room.room))
       /\ m.kind = "update" /\ in # None => m.room = in
  BY <1>2, <1>3, <1>4, <1>7, <1>11, HomelyShorter
<1>13. applied \in Seq([n : 1..MaxUpdates, of : Rooms, in : Rooms]) /\ updates \in 0..MaxUpdates /\ MaxUpdates \in Nat
  BY <1>1, ConnectionAssumption DEF Types, Messaging
<1>14. m.kind = "update" => m.n \in 1..MaxUpdates
  <2>1. m.kind = "update" => m.n \in 1..updates
    BY <1>1, <1>5 DEF Once, Apart, OnConnections
  <2> QED
    BY <1>13, <2>1
<1>15. Types'
  <2>1. applied' \in Seq([n : 1..MaxUpdates, of : Rooms, in : Rooms])
    <3>1. m.room \in Rooms /\ in \in Rooms \cup {None}
      BY <1>3, <1>5, <1>7 DEF Messages
    <3>2. m.kind = "update" /\ in # None => [n |-> m.n, of |-> m.room, in |-> in] \in [n : 1..MaxUpdates, of : Rooms, in : Rooms]
      BY <1>14, <3>1
    <3>3. PICK e, T : /\ e = [n |-> m.n, of |-> m.room, in |-> in]
                      /\ T = [n : 1..MaxUpdates, of : Rooms, in : Rooms]
      OBVIOUS
    <3>4. applied \in Seq(T) /\ (applied' = applied \/ (e \in T /\ applied' = Append(applied, e)))
      BY <1>8, <1>13, <3>2, <3>3
    <3>5. applied' \in Seq(T)
      BY <3>4
    <3> QED
      BY <3>3, <3>5
  <2>2. member' \in [Sockets -> Rooms \cup {None}]
    BY <1>7
  <2>3. up' \in [Sockets -> Seq(Messages)]
    BY <1>3, <1>4, <1>5 DEF ServerHandles
  <2>4. inbound' \in Seq(Frames)
    <3>1. inbound \in Seq(Frames)
      BY <1>1 DEF Types, Places
    <3>2. answer \in Seq(Frames)
      BY <1>10
    <3>3. inbound \o answer \in Seq(Frames)
      BY <3>1, <3>2
    <3> QED
      BY <1>9, <3>1, <3>3
  <2> QED
    BY <1>1, <1>2, <2>1, <2>2, <2>3, <2>4 DEF Types, Places, Messaging
<1>16. Homes'
  <2>1. \A t \in Sockets : Homely(up'[t], member'[t])
    BY <1>1, <1>6, <1>7, <1>12 DEF Homes
  <2>2. ASSUME NEW t \in Sockets, ready'[t] = "open"
        PROVE  AtHome(t)'
    <3>1. ready[t] = "open" /\ AtHome(t) /\ room' = room /\ sealing' = sealing /\ svc' = svc
      BY <1>1, <1>2, <2>2 DEF Homes
    <3>2. ready[s] = "open" => t = s
      BY <1>1, <3>1 DEF Steady, OneSocket, Over
    <3>3. m.kind = "join" /\ t = s => m.room = room.room
      BY <1>5, <3>1 DEF AtHome, JoinsOnly
    <3>4. member'[t] \in {None, room.room}
      BY <1>3, <1>7, <3>1, <3>3 DEF AtHome
    <3>5. JoinsOnly(up'[t], room.room)
      BY <1>6, <1>12, <3>1 DEF AtHome
    <3>6. \A i \in DOMAIN inbound' : inbound'[i].kind = "key" => inbound'[i].room = room.room
      <4>1. CASE inbound' = inbound
        BY <3>1, <4>1 DEF AtHome
      <4>2. CASE ready[s] = "open" /\ inbound' = inbound \o answer
        <5>1. inbound \in Seq(Frames)
          BY <1>1 DEF Types, Places
        <5>2. \A i \in DOMAIN inbound' : \/ i \in DOMAIN inbound /\ inbound'[i] = inbound[i]
                                         \/ \E j \in DOMAIN answer : inbound'[i] = answer[j]
          BY <1>10, <4>2, <5>1
        <5> QED
          BY <1>10, <3>1, <3>2, <3>3, <4>2, <5>2 DEF AtHome
      <4> QED
        BY <1>9, <4>1, <4>2
    <3> QED
      BY <3>1, <3>4, <3>5, <3>6 DEF AtHome
  <2>3. ASSUME NEW t \in Sockets, ready'[t] \in {"new", "connecting"}
        PROVE  Fresh(t)'
    <3>1. Fresh(t)
      BY <1>1, <1>2, <2>3 DEF Homes
    <3>2. t # s
      BY <1>2, <3>1 DEF Fresh
    <3> QED
      BY <1>2, <1>6, <1>7, <3>1, <3>2 DEF Fresh
  <2>4. (\A t \in Sockets : ready'[t] \notin {"open", "closing"}) => svc'.key = None /\ inbound' = <<>>
    BY <1>1, <1>2, <1>9 DEF Homes
  <2>5. \A i \in DOMAIN applied' : applied'[i].of = applied'[i].in
    BY <1>1, <1>8, <1>12, <1>13 DEF Homes
  <2> QED
    BY <1>1, <1>2, <2>1, <2>2, <2>3, <2>4, <2>5 DEF Homes
<1>17. Once'
  <2>1. PICK N, K, Q, U, S, A : /\ N = NumberOf(m) /\ K = 1..updates /\ Q = NumbersOf(svc.queue)
                                /\ U = OnConnections /\ S = SealedNumbers /\ A = Applied
    OBVIOUS
  <2>2. PICK U2, A2 : U2 = OnConnections' /\ A2 = Applied'
    OBVIOUS
  <2>3. Apart(Q, U, S, A, K)
    BY <1>1, <2>1 DEF Once
  <2>4. U[s] = NumbersOf(up[s]) /\ U2[s] = NumbersOf(q) /\ \A t \in Sockets : t # s => U2[t] = U[t]
    BY <1>6, <2>1, <2>2 DEF OnConnections
  <2>5. N \subseteq U[s] /\ U2[s] \subseteq U[s] /\ U2[s] \cap N = {}
    BY <1>5, <2>1, <2>4 DEF NumberOf
  <2>6. A2 \subseteq A \cup N /\ (m.kind = "update" => m.n \notin A)
    <3>1. m.kind = "update" => m.n \in U[s] /\ N = {m.n}
      BY <1>5, <2>1, <2>4 DEF NumberOf
    <3>2. \A i \in DOMAIN applied' : \/ i \in DOMAIN applied /\ applied'[i] = applied[i]
                                     \/ m.kind = "update" /\ applied'[i].n = m.n
      <4>1. PICK e, T : applied \in Seq(T) /\ e.n = m.n
                        /\ (applied' = applied \/ (m.kind = "update" /\ applied' = Append(applied, e)))
        BY <1>8, <1>13
      <4> QED
        BY <4>1
    <3> QED
      BY <2>1, <2>2, <2>3, <3>1, <3>2 DEF Apart, Applied
  <2>7. Moved(Q, U, S, A, Q, U2, S, A2, N, s)
    BY <2>3, <2>4, <2>5, <2>6 DEF Moved, Apart
  <2>8. Within(K, K) /\ Within(N, K)
    BY <2>3, <2>5 DEF Within, Apart
  <2>9. Apart(Q, U2, S, A2, K)
    BY <2>3, <2>7, <2>8, MovedApart
  <2>10. \A t \in Sockets : Distinct(up'[t])
    BY <1>1, <1>5, <1>6 DEF Once
  <2>11. \A i, j \in DOMAIN applied' : applied'[i].n = applied'[j].n => i = j
    <3>1. \A i \in DOMAIN applied' : \/ i \in DOMAIN applied /\ applied'[i] = applied[i]
                                     \/ i = Len(applied) + 1 /\ m.kind = "update" /\ applied'[i].n = m.n
      BY <1>8, <1>13
    <3>2. \A i \in DOMAIN applied : m.kind = "update" => applied[i].n # m.n
      BY <2>1, <2>6 DEF Applied
    <3> QED
      BY <1>1, <3>1, <3>2 DEF Once
  <2>12. /\ NumbersOf(svc'.queue) = Q /\ Distinct(svc'.queue) /\ SealedUpdates' = SealedUpdates
         /\ SealedNumbers' = S /\ (1..updates)' = K
    BY <1>1, <1>2, <2>1 DEF Once, SealedNumbers, SealedUpdates
  <2> QED
    BY <1>1, <2>2, <2>9, <2>10, <2>11, <2>12 DEF Once
<1> QED
  BY <1>15, <1>16, <1>17

\* What the server had not read of a closed connection is lost.
LEMMA ServerDropsHome ==
  ASSUME HomeInv, NEW s \in Sockets, ServerDrops(s)
  PROVE  Types' /\ Homes' /\ Once'
<1>1. Steady /\ Types /\ Homes /\ Once
  BY DEF HomeInv
<1>2. /\ ready[s] = "closed" /\ up' = [up EXCEPT ![s] = <<>>] /\ member' = [member EXCEPT ![s] = None]
      /\ UNCHANGED <<ready, lost, svc, room, sealing, inbound, waiting, applied, updates>>
  BY DEF ServerDrops, client
<1>3. \A t \in Sockets : /\ up'[t] = IF t = s THEN <<>> ELSE up[t]
                         /\ member'[t] = IF t = s THEN None ELSE member[t]
  BY <1>1, <1>2 DEF Types, Messaging
<1>4. Types'
  <2>1. up' \in [Sockets -> Seq(Messages)] /\ member' \in [Sockets -> Rooms \cup {None}]
    BY <1>1, <1>2 DEF Types, Messaging
  <2> QED
    BY <1>1, <1>2, <2>1 DEF Types, Places, Messaging
<1>5. Homes'
  <2>1. Homely(<<>>, None)
    BY DEF Homely
  <2>2. \A t \in Sockets : Homely(up'[t], member'[t])
    BY <1>1, <1>3, <2>1 DEF Homes
  <2>3. ASSUME NEW t \in Sockets, ready'[t] = "open"
        PROVE  AtHome(t)'
    <3>1. t # s /\ AtHome(t)
      BY <1>1, <1>2, <2>3 DEF Homes
    <3> QED
      BY <1>2, <1>3, <3>1 DEF AtHome
  <2>4. ASSUME NEW t \in Sockets, ready'[t] \in {"new", "connecting"}
        PROVE  Fresh(t)'
    <3>1. t # s /\ Fresh(t)
      BY <1>1, <1>2, <2>4 DEF Homes
    <3> QED
      BY <1>2, <1>3, <3>1 DEF Fresh
  <2> QED
    BY <1>1, <1>2, <2>2, <2>3, <2>4 DEF Homes
<1>6. Once'
  <2>1. PICK K, Q, U, S, A, U2 : /\ K = 1..updates /\ Q = NumbersOf(svc.queue) /\ U = OnConnections
                                 /\ S = SealedNumbers /\ A = Applied /\ U2 = OnConnections'
    OBVIOUS
  <2>2. Apart(Q, U, S, A, K)
    BY <1>1, <2>1 DEF Once
  <2>3. NumbersOf(<<>>) = {} /\ Distinct(<<>>)
    BY DEF NumbersOf, UpdatesOf, Distinct
  <2>4. \A t \in Sockets : U2[t] \subseteq U[t]
    BY <1>3, <2>1, <2>3 DEF OnConnections
  <2>5. Moved(Q, U, S, A, Q, U2, S, A, {}, s) /\ Within(K, K) /\ Within({}, K)
    BY <2>4 DEF Moved, Within
  <2>6. Apart(Q, U2, S, A, K)
    BY <2>2, <2>5, MovedApart
  <2>7. \A t \in Sockets : Distinct(up'[t])
    BY <1>1, <1>3, <2>3 DEF Once
  <2>8. /\ NumbersOf(svc'.queue) = Q /\ Distinct(svc'.queue) /\ SealedUpdates' = SealedUpdates
        /\ SealedNumbers' = S /\ Applied' = A /\ (1..updates)' = K
    BY <1>1, <1>2, <2>1 DEF Once, SealedNumbers, SealedUpdates, Applied
  <2> QED
    BY <1>1, <1>2, <2>1, <2>6, <2>7, <2>8 DEF Once
<1> QED
  BY <1>4, <1>5, <1>6

-----------------------------------------------------------------------------
(* The invariant, and what follows from it.                                  *)

\* Before the first click nothing is anywhere.
LEMMA HomeInit == Init => HomeInv
<1> SUFFICES ASSUME Init PROVE HomeInv
  OBVIOUS
<1>1. Steady
  BY InitHolds
<1>2. ServiceOK(svc)
  <2>1. 0 \in 0..MaxAttempts /\ 0 \in 0..3 /\ 0 \in Nat /\ 0 <= MaxQueue
    BY ConnectionAssumption
  <2>2. <<>> \in Seq(Messages) /\ Len(<<>>) = 0
    OBVIOUS
  <2> QED
    BY <2>1, <2>2 DEF Init, ServiceOK, Service, States
<1>3. Places
  BY DEF Init, Places, Left
<1>4. Messaging
  BY ConnectionAssumption DEF Init, Messaging
<1>5. /\ svc.queue = <<>> /\ svc.key = None /\ inbound = <<>> /\ applied = <<>> /\ sealing = {}
      /\ \A s \in Sockets : up[s] = <<>> /\ member[s] = None /\ ready[s] = "new"
  BY DEF Init
<1>6. Homes
  BY <1>5 DEF Homes, Homely, Fresh
<1>7. NumbersOf(<<>>) = {} /\ Distinct(<<>>)
  BY DEF NumbersOf, UpdatesOf, Distinct
<1>8. SealedUpdates = {} /\ SealedNumbers = {} /\ Applied = {}
  BY <1>5 DEF SealedUpdates, SealedNumbers, Applied
<1>9. Once
  BY <1>5, <1>7, <1>8 DEF Once, Apart, OnConnections
<1> QED
  BY <1>1, <1>2, <1>3, <1>4, <1>6, <1>9 DEF HomeInv, Types

\* Every step keeps it, except a join that is tried again too early.
LEMMA HomeStep ==
  ASSUME HomeInv, ~Hasty, [Next]_rvars, overlap' # "now"
  PROVE  HomeInv'
<1>0. SUFFICES Types' /\ Homes' /\ Once'
  BY SteadyKeeps DEF HomeInv
<1>1. ASSUME NEW r \in Rooms, JoinRoom(r) PROVE Types' /\ Homes' /\ Once'
  BY <1>1, JoinRoomHome
<1>2. CASE LeaveRoom
  BY <1>2, LeaveRoomHome
<1>3. CASE ForceReconnect
  BY <1>3, ForceReconnectHome
<1>4. CASE Update
  BY <1>4, UpdateHome
<1>5. CASE ReconnectTimer
  BY <1>5, ReconnectTimerHome
<1>6. CASE Heartbeat
  BY <1>6, HeartbeatHome
<1>7. CASE SealDone
  BY <1>7, SealDoneHome
<1>8. CASE ProcessInbound
  BY <1>8, ProcessInboundHome
<1>9. ASSUME NEW s \in Sockets, OnOpen(s) PROVE Types' /\ Homes' /\ Once'
  BY <1>9, OnOpenHome
<1>10. ASSUME NEW s \in Sockets, OnClose(s) PROVE Types' /\ Homes' /\ Once'
  BY <1>10, OnCloseHome
<1>11. ASSUME NEW s \in Sockets, NetworkDies(s) PROVE Types' /\ Homes' /\ Once'
  BY <1>11, NetworkDiesHome
<1>12. ASSUME NEW s \in Sockets, ServerHandles(s) PROVE Types' /\ Homes' /\ Once'
  BY <1>12, ServerHandlesHome
<1>13. ASSUME NEW s \in Sockets, ServerDrops(s) PROVE Types' /\ Homes' /\ Once'
  BY <1>13, ServerDropsHome
<1>14. CASE UNCHANGED rvars
  <2>1. /\ UNCHANGED <<ready, svc>>
        /\ UNCHANGED <<lost, waiting, room, sealing, inbound, up, member, applied, updates>>
    BY <1>14 DEF rvars, client, server
  <2>2. ServiceOK(svc')
    BY <2>1 DEF HomeInv, Types
  <2> QED
    BY <2>1, <2>2, QuietHome
<1> QED
  BY <1>1, <1>2, <1>3, <1>4, <1>5, <1>6, <1>7, <1>8, <1>9, <1>10, <1>11, <1>12, <1>13, <1>14 DEF Next

\* So it holds as long as there was no such join.
LEMMA HomeAlways ==
  ASSUME ~Hasty
  PROVE  Spec => [](overlap # "never" \/ HomeInv)
<1>1. overlap # "never" /\ [Next]_rvars => overlap' # "never"
  BY DEF Next, rvars, history, client, server, JoinRoom, LeaveRoom, ForceReconnect, Update,
     ReconnectTimer, Heartbeat, SealDone, ProcessInbound, OnOpen, OnClose, NetworkDies, ServerHandles, ServerDrops
<1>2. (overlap # "never" \/ HomeInv) /\ [Next]_rvars => (overlap # "never" \/ HomeInv)'
  BY <1>1, HomeStep
<1> QED
  BY <1>2, HomeInit, PTL DEF Spec

\* The counts.
LEMMA CountsKeep ==
  ASSUME Counts, [Next]_rvars
  PROVE  Counts'
<1>0. MaxEvents \in Nat
  BY ConnectionAssumption
<1>1. overlap' \in {"never", "now", "before"}
  BY DEF Counts, Next, rvars, history, client, server, JoinRoom, LeaveRoom, ForceReconnect, Update,
     ReconnectTimer, Heartbeat, SealDone, ProcessInbound, OnOpen, OnClose, NetworkDies, ServerHandles, ServerDrops
<1>2. Event \/ events' = events
  BY DEF Next, rvars, history, client, server, JoinRoom, LeaveRoom, ForceReconnect, Update,
     ReconnectTimer, Heartbeat, SealDone, ProcessInbound, OnOpen, OnClose, NetworkDies, ServerHandles, ServerDrops
<1> QED
  BY <1>0, <1>1, <1>2 DEF Counts, Event

\* The fields have their types; the queue keeps to its bound, also when it is
\* flushed or takes what a lost connection could not send (websocket.ts:382-420),
\* as long as no failed join was tried again too early.
THEOREM ConnTypesHold ==
  ASSUME ~Hasty
  PROVE  Spec => [](overlap # "never" \/ ConnTypeOK)
<1>1. Init => Counts
  BY ConnectionAssumption DEF Init, Counts
<1>2. Counts /\ [Next]_rvars => Counts'
  BY CountsKeep
<1>3. (overlap # "never" \/ HomeInv) /\ Counts => overlap # "never" \/ ConnTypeOK
  BY DEF HomeInv, Steady, Typing, Types, Counts, ServiceOK, Service, States, Places, Messaging, ConnTypeOK
<1> QED
  BY <1>1, <1>2, <1>3, HomeAlways, PTL DEF Spec

\* An update made in one room is never applied in another, though it may wait
\* in the queue from one connection to the next and the server asks the
\* connection for the room (handler.go:600-640); and none is applied twice.
\* Only a failed join that is tried again too early may end that.
THEOREM UpdatesStayHome ==
  ASSUME ~Hasty
  PROVE  Spec => []UpdatesGoHome
<1>1. overlap # "never" \/ HomeInv => UpdatesGoHome
  BY DEF HomeInv, Homes, Once, UpdatesGoHome
<1> QED
  BY <1>1, HomeAlways, PTL

\* What is sent is sealed with the key of the room the client is in: a key of
\* an earlier connection is gone before another can be used
\* (websocket.ts:121-133), with the same exception.
THEOREM KeyIsTheRooms ==
  ASSUME ~Hasty
  PROVE  Spec => []KeyMatches
<1>1. overlap # "never" \/ HomeInv => KeyMatches
  BY DEF HomeInv, Steady, Typing, IsService, Homes, AtHome, Open, KeyMatches
<1> QED
  BY <1>1, HomeAlways, PTL

=============================================================================
