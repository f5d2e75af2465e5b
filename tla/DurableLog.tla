----------------------------- MODULE DurableLog -----------------------------
(***************************************************************************)
(* What write-behind persistence promises: each room has a log of edits of *)
(* which a prefix is durable.  The database shows exactly the state after  *)
(* that prefix, the prefix only grows, and a crash loses at most the edits *)
(* after it.                                                               *)
(***************************************************************************)
EXTENDS Naturals, Sequences

CONSTANTS Rooms, Elems, Edits, NoRow

VARIABLES
  log,      \* edits of each room, in the order in which the server took them
  durable,  \* length of the durable prefix of each log
  table     \* what the database shows

lvars == <<log, durable, table>>

\* The latest of the first n edits of a log to element e, 0 when there is none.
LatestEdit(s, n, e) ==
  CHOOSE k \in 0..n :
    /\ k # 0 => s[k].elem = e
    /\ \A j \in (k + 1)..n : s[j].elem # e

StateAfter(s, n) ==
  [e \in Elems |-> LET k == LatestEdit(s, n, e) IN IF k = 0 THEN NoRow ELSE s[k].stamp]

Append1(r, u) ==
  /\ log' = [log EXCEPT ![r] = Append(@, u)]
  /\ UNCHANGED <<durable, table>>

Persist(r, n) ==
  /\ durable' = [durable EXCEPT ![r] = n]
  /\ table' = [table EXCEPT ![r] = StateAfter(log[r], n)]
  /\ UNCHANGED log

LoseTail ==
  /\ log' = [r \in Rooms |-> SubSeq(log[r], 1, durable[r])]
  /\ UNCHANGED <<durable, table>>

LogInit ==
  /\ log = [r \in Rooms |-> <<>>]
  /\ durable = [r \in Rooms |-> 0]
  /\ table = [r \in Rooms |-> [e \in Elems |-> NoRow]]

LogNext ==
  \/ \E r \in Rooms, u \in Edits : Append1(r, u)
  \/ \E r \in Rooms : \E n \in (durable[r] + 1)..Len(log[r]) : Persist(r, n)
  \/ LoseTail

LogSpec == LogInit /\ [][LogNext]_lvars

=============================================================================
