---------------------------- MODULE MCRoomStore ----------------------------
(* Instances of RoomStore for TLC. *)
EXTENDS RoomStore

CONSTANTS r1, e1, e2, c1, c2

MCRooms   == {r1}
MCElems   == {e1, e2}
OneElem   == {e1}
OneConn   == {c1}
TwoConns  == {c1, c2}
DeleteAny == {{e} : e \in Elems}
NoDeletes == {}

Message(a, u, d) == [added |-> a, updated |-> u, deleted |-> d]

Peers == Permutations(Conns)

OneEach == {Message({e1}, {}, {}), Message({}, {e1}, {}), Message({}, {}, {e1})}

\* One element added, updated or deleted; both elements touched at once.
AllKinds ==
  {Message({e1}, {}, {}), Message({}, {e1}, {}), Message({}, {}, {e1}), Message({e2}, {e1}, {})}

AddsAndUpdates == {Message({e1}, {}, {}), Message({}, {e1}, {}), Message({e2}, {}, {})}

Adds == {Message({e1}, {}, {}), Message({e2}, {}, {})}

=============================================================================
