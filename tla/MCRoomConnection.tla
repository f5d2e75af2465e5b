------------------------- MODULE MCRoomConnection -------------------------
(* Instances of RoomConnection for TLC. *)
EXTENDS RoomConnection

CONSTANTS r1, r2, s1, s2, s3

OneRoom      == {r1}
TwoRooms     == {r1, r2}
TwoSockets   == {s1, s2}
ThreeSockets == {s1, s2, s3}

=============================================================================
