------------------------------- MODULE MCHub -------------------------------
(* Instances of Hub for TLC. *)
EXTENDS Hub, TLC

CONSTANTS c1, c2, c3, r1, r2, alice, bob

TwoConns   == {c1, c2}
ThreeConns == {c1, c2, c3}
OneRoom    == {r1}
TwoRooms   == {r1, r2}
OneAccount == {alice}
TwoAccounts == {alice, bob}

\* Connections that log in alike are interchangeable.
ConnsAlike == Permutations(Conns)

AliceAndBob   == [c \in Conns |-> IF c = c1 THEN alice ELSE bob]
AllGuests     == [c \in Conns |-> Nobody]
AliceTwice    == [c \in Conns |-> IF c = c3 THEN Nobody ELSE alice]
AliceAndGuest == [c \in Conns |-> IF c = c1 THEN alice ELSE Nobody]

=============================================================================
