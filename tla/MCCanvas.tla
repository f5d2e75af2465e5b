------------------------------ MODULE MCCanvas ------------------------------
(* Instances of Canvas for TLC. *)
EXTENDS Canvas

CONSTANTS r1, e1, e2, c1, c2, w1, w2

MCRooms   == {r1}
MCElems   == {e1, e2}
OneConn   == {c1}
TwoConns  == {c1, c2}
OneWorker == {w1}
TwoWorkers == {w1, w2}
NoDeletes == {}
Adds == {[added |-> {e}, updated |-> {}, deleted |-> {}] : e \in MCElems}

Peers == Permutations(Conns) \cup Permutations(Workers)

=============================================================================
