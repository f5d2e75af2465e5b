--------------------------- MODULE MCPersistence ---------------------------
(* Instances of Persistence for TLC. *)
EXTENDS Persistence

CONSTANTS r1, e1, e2, c1

MCRooms == {r1}
MCElems == {e1, e2}
OneConn == {c1}
NoConns == {}
AnyOne  == {{e} : e \in MCElems}
NoDeletes == {}

=============================================================================
