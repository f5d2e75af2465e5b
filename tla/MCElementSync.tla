--------------------------- MODULE MCElementSync ---------------------------
(* Instances of ElementSync for TLC. *)
EXTENDS ElementSync

CONSTANTS c1, c2, c3, e1, e2

TwoClients   == {c1, c2}
ThreeClients == {c1, c2, c3}
OneElem      == {e1}
TwoElems     == {e1, e2}

\* Everybody works on elements of their own, one client draws everything, or
\* all work on the same elements.
OneEditorEach == [e \in Elems |-> IF e = e1 THEN {c1} ELSE {c2}]
OneAuthor     == [e \in Elems |-> {c1}]
AllEditors    == [e \in Elems |-> Clients]

=============================================================================
