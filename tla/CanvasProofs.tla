---------------------------- MODULE CanvasProofs ----------------------------
(***************************************************************************)
(* Nothing a room shows exists in memory only, for any number of rooms,    *)
(* elements, connections, messages and edits, when clients wait for the    *)
(* loaded scene before they edit: for rooms that have their database id    *)
(* whatever fails, and for all rooms when the database answers.  Then the  *)
(* same beside the canvas requests; and no element of a saved canvas is    *)
(* lost unless somebody clears it.                                         *)
(*                                                                         *)
(* KnownRoomIsBacked says nothing while a handler is under way, so the     *)
(* invariant says of what such a handler has put into the room that the    *)
(* stage that queues it is still ahead (Owes, Ordered); that an id is      *)
(* found only while the room is empty (Loads) and nobody edits a room that *)
(* is being loaded (Edits); and that what is loaded was saved (RowsSaved). *)
(*                                                                         *)
(* SavedCanvasStays only speaks of the rows, which five writers replace or *)
(* extend from copies they made earlier.  The invariant says of each copy  *)
(* that it has what was saved for good: what a loaded room shows (Kept),   *)
(* what its loader has found (Comes), the snapshot of an eviction or of    *)
(* the shutdown (Kept), what a save or a restore has read (Copies).  A     *)
(* room that is being loaded may show nothing for a while.                 *)
(*                                                                         *)
(* Before the first request, messages may delete elements, too: a loaded   *)
(* room shows all that was saved or is on its way and was not deleted      *)
(* (OnShow), which an eviction copies and a loader finds again (RoomStays).*)
(***************************************************************************)
EXTENDS Canvas, PersistenceProofs

-----------------------------------------------------------------------------
(* The rooms. *)

StageNames == {"add", "update", "delete", "dbid", "queueAdded", "queueUpdated", "queueDeleted", "flush"}

MessageType == [added : SUBSET Elems, updated : SUBSET Elems, deleted : SUBSET Elems]

Handlers == [todo : Seq(StageNames), room : Rooms \cup {NoOp.room},
             msg : MessageType, stamp : 0..MaxStamp]

Loaders == [at : {"resolve", "query", "replace", "done"}, found : SUBSET Updates]

Typing ==
  /\ TypeOK
  /\ live \subseteq Rooms /\ ids \subseteq Rooms
  /\ mem \in [Rooms -> SUBSET Updates]
  /\ members \in [Rooms -> SUBSET Conns]
  /\ load \in [Rooms -> Loaders]
  /\ op \in [Conns -> Handlers]

\* Rooms with members or handlers are there.
Members ==
  /\ \A r \in Rooms : members[r] # {} => r \in live
  /\ \A c \in Conns : op[c].todo # <<>> => op[c].room \in live

\* Every row is of an update that was saved.
RowsSaved ==
  \A r \in Rooms, u \in Updates : rows[r][u.elem] = u.stamp => u \in saved[r]

\* A loader waits for the id of a room that shows what was saved, if anything,
\* and has found what was saved.
Loads ==
  \A r \in Rooms :
    /\ load[r].at = "resolve" => mem[r] \subseteq saved[r]
    /\ load[r].found \subseteq saved[r]

\* Stage a of a handler is followed by stage b.
Followed(todo, a, b) ==
  \A i \in 1..Len(todo) : todo[i] = a => \E j \in 1..Len(todo) : i < j /\ todo[j] = b

Ordered(todo) == Followed(todo, "add", "queueAdded") /\ Followed(todo, "update", "queueUpdated")

Editing(c) == op[c].todo # <<>> /\ op[c].todo # <<"flush">>

\* A message is handled after its room was loaded.
Edits ==
  \A c \in Conns : Editing(c) =>
    /\ op[c].stamp \in Stamps
    /\ op[c].msg \in Messages
    /\ load[op[c].room].at = "done"
    /\ "flush" \notin ToSet(op[c].todo)
    /\ Ordered(op[c].todo)

\* The handler of c still has to queue x for room r.
Owes(c, r, x) ==
  /\ op[c].room = r
  /\ x.stamp = op[c].stamp
  /\ \/ "queueAdded" \in ToSet(op[c].todo) /\ x.elem \in op[c].msg.added
     \/ "queueUpdated" \in ToSet(op[c].todo) /\ x.elem \in op[c].msg.updated

Backed ==
  \A r \in ids : \A x \in mem[r] : x \in accepted[r] \cup saved[r] \/ \E c \in Conns : Owes(c, r, x)

\* With a healthy database a room has its id once it has been resolved.
Resolved == ~DbMayFail => \A r \in live : load[r].at = "resolve" \/ r \in ids

RoomInv == Typing /\ Members /\ RowsSaved /\ Loads /\ Edits /\ Backed /\ Resolved

-----------------------------------------------------------------------------
(* Stages. *)

\* SetToSeq lists the elements of a finite set.
LEMMA ListOfSet ==
  ASSUME NEW S, IsFiniteSet(S)
  PROVE  SetToSeq(S) \in Seq(S) /\ ToSet(SetToSeq(S)) = S
<1>1. Cardinality(S) \in Nat /\ ExistsBijection(1..Cardinality(S), S)
  BY FS_CardinalityType
<1>2. \E f \in [1..Cardinality(S) -> S] : IsInjective(f)
  BY <1>1 DEF ExistsBijection, Bijection, Injection
<1>3. SetToSeq(S) \in [1..Cardinality(S) -> S] /\ IsInjective(SetToSeq(S))
  BY <1>2 DEF SetToSeq
<1>4. SetToSeq(S) \in Injection(1..Cardinality(S), S)
  BY <1>3 DEF Injection
<1>5. Cardinality(1..Cardinality(S)) = Cardinality(S)
  BY <1>1, FS_Interval
<1>6. SetToSeq(S) \in Surjection(1..Cardinality(S), S)
  BY <1>4, <1>5, FS_Injection
<1>7. SetToSeq(S) \in Seq(S) /\ DOMAIN SetToSeq(S) = 1..Cardinality(S)
  BY <1>1, <1>3
<1>8. \A x \in S : \E i \in DOMAIN SetToSeq(S) : SetToSeq(S)[i] = x
  BY <1>6, <1>7 DEF Surjection
<1> QED
  BY <1>3, <1>7, <1>8 DEF ToSet

\* The stages of a list are in order.
LEMMA StageType ==
  ASSUME NEW name \in StageNames, NEW els
  PROVE  /\ Stage(name, els) \in Seq(StageNames)
         /\ ToSet(Stage(name, els)) = IF els = {} THEN {} ELSE {name}
BY DEF Stage, ToSet

\* A stage that is in the first part of a handler is followed by one in the second.
LEMMA FollowedConcat ==
  ASSUME NEW s \in Seq(StageNames), NEW t \in Seq(StageNames), NEW a, NEW b,
         a \in ToSet(s) => b \in ToSet(t), a \notin ToSet(t)
  PROVE  Followed(s \o t, a, b)
<1> SUFFICES ASSUME NEW i \in 1..Len(s \o t), (s \o t)[i] = a
             PROVE  \E j \in 1..Len(s \o t) : i < j /\ (s \o t)[j] = b
  BY DEF Followed
<1>1. i <= Len(s)
  <2>1. CASE i > Len(s)
    <3>1. i - Len(s) \in 1..Len(t) /\ t[i - Len(s)] = a
      BY <2>1
    <3> QED
      BY <3>1 DEF ToSet
  <2> QED
    BY <2>1
<1>2. a \in ToSet(s)
  BY <1>1 DEF ToSet
<1>3. PICK k \in 1..Len(t) : t[k] = b
  BY <1>2 DEF ToSet
<1>4. Len(s) + k \in 1..Len(s \o t) /\ (s \o t)[Len(s) + k] = b /\ i < Len(s) + k
  BY <1>1, <1>3
<1> QED
  BY <1>4

\* Lists of stages, one after the other.
LEMMA StagesConcat ==
  ASSUME NEW s \in Seq(StageNames), NEW t \in Seq(StageNames)
  PROVE  s \o t \in Seq(StageNames) /\ ToSet(s \o t) = ToSet(s) \cup ToSet(t)
BY ToSetConcat

\* The stages of a message: those that edit the room, then the others.
LEMMA StagesSplit ==
  ASSUME NEW m
  PROVE  \E s, t \in Seq(StageNames) :
           /\ Stages(m) = s \o t
           /\ ToSet(s) = (IF m.added = {} THEN {} ELSE {"add"})
                          \cup (IF m.updated = {} THEN {} ELSE {"update"})
                          \cup (IF m.deleted = {} THEN {} ELSE {"delete"})
           /\ ToSet(t) = {"dbid"} \cup (IF m.added = {} THEN {} ELSE {"queueAdded"})
                          \cup (IF m.updated = {} THEN {} ELSE {"queueUpdated"})
                          \cup (IF m.deleted = {} THEN {} ELSE {"queueDeleted"})
<1> DEFINE dbid == <<"dbid">>
           qa == Stage("queueAdded", m.added)
           qu == Stage("queueUpdated", m.updated)
           qd == Stage("queueDeleted", m.deleted)
           a == Stage("add", m.added)
           u == Stage("update", m.updated)
           d == Stage("delete", m.deleted)
           aud == (a \o u) \o d
           rest == ((dbid \o qa) \o qu) \o qd
<1>1. /\ {a, u, d, qa, qu, qd, dbid} \subseteq Seq(StageNames)
      /\ ToSet(a) = IF m.added = {} THEN {} ELSE {"add"}
      /\ ToSet(u) = IF m.updated = {} THEN {} ELSE {"update"}
      /\ ToSet(d) = IF m.deleted = {} THEN {} ELSE {"delete"}
      /\ ToSet(qa) = IF m.added = {} THEN {} ELSE {"queueAdded"}
      /\ ToSet(qu) = IF m.updated = {} THEN {} ELSE {"queueUpdated"}
      /\ ToSet(qd) = IF m.deleted = {} THEN {} ELSE {"queueDeleted"}
      /\ ToSet(dbid) = {"dbid"}
  <2>1. dbid \in Seq(StageNames) /\ ToSet(dbid) = {"dbid"}
    BY DEF StageNames, ToSet
  <2>2. {"add", "update", "delete", "queueAdded", "queueUpdated", "queueDeleted"} \subseteq StageNames
    BY DEF StageNames
  <2>3. a \in Seq(StageNames) /\ ToSet(a) = IF m.added = {} THEN {} ELSE {"add"}
    BY <2>2, StageType
  <2>4. u \in Seq(StageNames) /\ ToSet(u) = IF m.updated = {} THEN {} ELSE {"update"}
    BY <2>2, StageType
  <2>5. d \in Seq(StageNames) /\ ToSet(d) = IF m.deleted = {} THEN {} ELSE {"delete"}
    BY <2>2, StageType
  <2>6. qa \in Seq(StageNames) /\ ToSet(qa) = IF m.added = {} THEN {} ELSE {"queueAdded"}
    BY <2>2, StageType
  <2>7. qu \in Seq(StageNames) /\ ToSet(qu) = IF m.updated = {} THEN {} ELSE {"queueUpdated"}
    BY <2>2, StageType
  <2>8. qd \in Seq(StageNames) /\ ToSet(qd) = IF m.deleted = {} THEN {} ELSE {"queueDeleted"}
    BY <2>2, StageType
  <2> HIDE DEF dbid, a, u, d, qa, qu, qd
  <2> QED
    BY <2>1, <2>3, <2>4, <2>5, <2>6, <2>7, <2>8
<1>2. Stages(m) = ((((aud \o dbid) \o qa) \o qu) \o qd)
  BY DEF Stages, MemoryStages
<1> HIDE DEF dbid, a, u, d, qa, qu, qd
<1>3. aud \in Seq(StageNames) /\ ToSet(aud) = ToSet(a) \cup ToSet(u) \cup ToSet(d)
  <2>1. a \o u \in Seq(StageNames) /\ ToSet(a \o u) = ToSet(a) \cup ToSet(u)
    BY <1>1, StagesConcat
  <2>2. (a \o u) \o d \in Seq(StageNames) /\ ToSet((a \o u) \o d) = ToSet(a \o u) \cup ToSet(d)
    BY <1>1, <2>1, StagesConcat
  <2> QED
    BY <2>1, <2>2
<1>4. /\ dbid \o qa \in Seq(StageNames) /\ ToSet(dbid \o qa) = ToSet(dbid) \cup ToSet(qa)
      /\ (dbid \o qa) \o qu \in Seq(StageNames)
      /\ ToSet((dbid \o qa) \o qu) = ToSet(dbid) \cup ToSet(qa) \cup ToSet(qu)
  <2>1. dbid \o qa \in Seq(StageNames) /\ ToSet(dbid \o qa) = ToSet(dbid) \cup ToSet(qa)
    BY <1>1, StagesConcat
  <2>2. /\ (dbid \o qa) \o qu \in Seq(StageNames)
        /\ ToSet((dbid \o qa) \o qu) = ToSet(dbid \o qa) \cup ToSet(qu)
    BY <1>1, <2>1, StagesConcat
  <2> QED
    BY <2>1, <2>2
<1>5. rest \in Seq(StageNames) /\ ToSet(rest) = ToSet(dbid) \cup ToSet(qa) \cup ToSet(qu) \cup ToSet(qd)
  <2>1. ToSet(rest) = ToSet((dbid \o qa) \o qu) \cup ToSet(qd) /\ rest \in Seq(StageNames)
    BY <1>1, <1>4, StagesConcat
  <2> QED
    BY <1>4, <2>1
<1> HIDE DEF aud
<1>6. Stages(m) = aud \o rest
  <2> DEFINE tail == dbid \o qa
             queues == tail \o qu
  <2>1. /\ aud \in Seq(StageNames) /\ dbid \in Seq(StageNames) /\ qa \in Seq(StageNames)
        /\ qu \in Seq(StageNames) /\ qd \in Seq(StageNames)
    BY <1>1, <1>3
  <2>2. tail \in Seq(StageNames) /\ queues \in Seq(StageNames)
    BY <1>4
  <2>3. (aud \o dbid) \o qa = aud \o tail
    BY <2>1
  <2> HIDE DEF tail
  <2>4. (aud \o tail) \o qu = aud \o queues
    BY <2>1, <2>2
  <2> HIDE DEF queues
  <2>5. (aud \o queues) \o qd = aud \o (queues \o qd)
    BY <2>1, <2>2
  <2>6. rest = queues \o qd
    BY Zenon DEF tail, queues
  <2> HIDE DEF rest
  <2> QED
    BY <1>2, <2>3, <2>4, <2>5, <2>6, Zenon
<1> HIDE DEF rest
<1> QED
  BY <1>1, <1>3, <1>5, <1>6

\* What a message puts into the room, it queues afterwards.
LEMMA StagesOrdered ==
  ASSUME NEW m
  PROVE  /\ Stages(m) \in Seq(StageNames)
         /\ "flush" \notin ToSet(Stages(m))
         /\ Ordered(Stages(m))
<1>1. PICK s \in Seq(StageNames), t \in Seq(StageNames) :
        /\ Stages(m) = s \o t
        /\ ToSet(s) = (IF m.added = {} THEN {} ELSE {"add"})
                       \cup (IF m.updated = {} THEN {} ELSE {"update"})
                       \cup (IF m.deleted = {} THEN {} ELSE {"delete"})
        /\ ToSet(t) = {"dbid"} \cup (IF m.added = {} THEN {} ELSE {"queueAdded"})
                       \cup (IF m.updated = {} THEN {} ELSE {"queueUpdated"})
                       \cup (IF m.deleted = {} THEN {} ELSE {"queueDeleted"})
  BY StagesSplit
<1>2. ToSet(Stages(m)) = ToSet(s) \cup ToSet(t) /\ Stages(m) \in Seq(StageNames)
  BY <1>1, StagesConcat
<1>3. Followed(s \o t, "add", "queueAdded")
  BY <1>1, FollowedConcat
<1>4. Followed(s \o t, "update", "queueUpdated")
  BY <1>1, FollowedConcat
<1> QED
  BY <1>1, <1>2, <1>3, <1>4 DEF Ordered

\* Of a handler that has done a stage, the others are in their order.
LEMMA TailFollowed ==
  ASSUME NEW s \in Seq(StageNames), s # <<>>, NEW a, NEW b, Followed(s, a, b)
  PROVE  Followed(Tail(s), a, b) /\ (Head(s) = a => b \in ToSet(Tail(s)))
<1> DEFINE t == Tail(s)
<1>1. t \in Seq(StageNames) /\ Len(t) = Len(s) - 1 /\ \A i \in 1..Len(t) : t[i] = s[i + 1]
  OBVIOUS
<1>2. \A i \in 1..Len(s) : i # 1 => i - 1 \in 1..Len(t) /\ s[i] = t[i - 1]
  BY <1>1
<1>3. Head(s) = s[1] /\ 1 \in 1..Len(s)
  OBVIOUS
<1> HIDE DEF t
<1>4. ASSUME NEW i \in 1..Len(t), t[i] = a
      PROVE  \E j \in 1..Len(t) : i < j /\ t[j] = b
  <2>1. i + 1 \in 1..Len(s) /\ s[i + 1] = a
    BY <1>1, <1>4
  <2>2. PICK j \in 1..Len(s) : i + 1 < j /\ s[j] = b
    BY <2>1 DEF Followed
  <2>3. j - 1 \in 1..Len(t) /\ t[j - 1] = b /\ i < j - 1
    BY <1>2, <2>2
  <2> QED
    BY <2>3
<1>5. ASSUME Head(s) = a PROVE b \in ToSet(t)
  <2>1. PICK j \in 1..Len(s) : 1 < j /\ s[j] = b
    BY <1>3, <1>5 DEF Followed
  <2>2. j - 1 \in 1..Len(t) /\ t[j - 1] = b
    BY <1>2, <2>1
  <2> QED
    BY <1>1, <2>2 DEF ToSet
<1> QED
  BY <1>4, <1>5 DEF Followed, t

\* A handler that has done a stage has the others left, in their order.
LEMMA TailOrdered ==
  ASSUME NEW s \in Seq(StageNames), s # <<>>
  PROVE  /\ Tail(s) \in Seq(StageNames)
         /\ ToSet(Tail(s)) \subseteq ToSet(s)
         /\ \A x \in ToSet(s) : x # Head(s) => x \in ToSet(Tail(s))
         /\ Ordered(s) => Ordered(Tail(s))
         /\ Ordered(s) /\ Head(s) = "add" => "queueAdded" \in ToSet(Tail(s))
         /\ Ordered(s) /\ Head(s) = "update" => "queueUpdated" \in ToSet(Tail(s))
<1> DEFINE t == Tail(s)
<1>1. t \in Seq(StageNames) /\ Len(t) = Len(s) - 1 /\ \A i \in 1..Len(t) : t[i] = s[i + 1]
  OBVIOUS
<1>2. \A i \in 1..Len(s) : i # 1 => i - 1 \in 1..Len(t) /\ s[i] = t[i - 1]
  BY <1>1
<1>3. Head(s) = s[1]
  OBVIOUS
<1>4. \A a, b : Followed(s, a, b) => Followed(t, a, b) /\ (Head(s) = a => b \in ToSet(t))
  BY TailFollowed
<1> HIDE DEF t
<1>5. ToSet(t) \subseteq ToSet(s)
  BY <1>1 DEF ToSet
<1>6. \A x \in ToSet(s) : x # Head(s) => x \in ToSet(t)
  BY <1>1, <1>2, <1>3 DEF ToSet
<1> QED
  BY <1>1, <1>4, <1>5, <1>6 DEF Ordered, t

-----------------------------------------------------------------------------
(* The goroutines of the PersistenceManager. *)

SavedGrows == \A r \in Rooms : saved[r] \subseteq saved'[r]

\* An update is its element and its stamp.
LEMMA SameUpdate ==
  ASSUME NEW u \in Updates, NEW v \in Updates, u.elem = v.elem, u.stamp = v.stamp
  PROVE  u = v
BY DEF Updates

\* A row that a batch has written is of an update of the batch.
LEMMA UpsertRows ==
  ASSUME NEW t \in Table, NEW s \in Seq(Updates), NEW u \in Updates, Upsert(t, s)[u.elem] = u.stamp
  PROVE  u \in ToSet(s) \/ t[u.elem] = u.stamp
<1> DEFINE e == u.elem
           i == CHOOSE i \in DOMAIN s : LastWrite(s, i, e)
<1>1. e \in Elems
  BY DEF Updates
<1>2. CASE \E j \in DOMAIN s : LastWrite(s, j, e)
  <2>1. i \in DOMAIN s /\ LastWrite(s, i, e)
    BY <1>2
  <2>2. s[i] \in Updates /\ s[i] \in ToSet(s) /\ s[i].elem = e
    BY <2>1 DEF LastWrite, ToSet
  <2>3. s[i].stamp = u.stamp
    BY <1>1, <1>2 DEF Upsert
  <2> QED
    BY <2>2, <2>3, SameUpdate
<1>3. CASE ~\E j \in DOMAIN s : LastWrite(s, j, e)
  BY <1>1, <1>3 DEF Upsert
<1> QED
  BY <1>2, <1>3

\* A row of a snapshot is of one of its elements.
LEMMA ReplacedRows ==
  ASSUME NEW els \in SUBSET Updates, NEW u \in Updates, Replaced(els)[u.elem] = u.stamp,
         PersistenceAssumption
  PROVE  u \in els
<1> DEFINE y == CHOOSE x \in els : x.elem = u.elem
<1>1. u.elem \in Elems /\ u.stamp # NoRow
  BY DEF Updates, Stamps, NoRow, PersistenceAssumption
<1>2. \E x \in els : x.elem = u.elem
  BY <1>1 DEF Replaced
<1>3. y \in els /\ y.elem = u.elem
  BY <1>2
<1>4. y.stamp = u.stamp
  BY <1>1, <1>2 DEF Replaced
<1> QED
  BY <1>3, <1>4, SameUpdate

\* A batch that is written leaves rows of saved updates only.
LEMMA CommitRows ==
  ASSUME TypeOK, RowsSaved, NEW f \in Flushers, NEW r \in Rooms,
         rows'  = [rows  EXCEPT ![r] = Upsert(@, batch[f][r])],
         saved' = [saved EXCEPT ![r] = @ \cup ToSet(batch[f][r])]
  PROVE  RowsSaved' /\ SavedGrows
<1>1. rows \in [Rooms -> Table] /\ saved \in [Rooms -> SUBSET Updates] /\ batch[f][r] \in Seq(Updates)
  BY DEF TypeOK
<1>2. SavedGrows
  BY <1>1 DEF SavedGrows
<1>3. ASSUME NEW q \in Rooms, NEW u \in Updates, rows'[q][u.elem] = u.stamp
      PROVE  u \in saved'[q]
  <2>1. CASE q = r
    <3>1. Upsert(rows[r], batch[f][r])[u.elem] = u.stamp
      BY <1>1, <1>3, <2>1
    <3>2. u \in ToSet(batch[f][r]) \/ rows[r][u.elem] = u.stamp
      BY <1>1, <3>1, UpsertRows
    <3> QED
      BY <1>1, <2>1, <3>2 DEF RowsSaved
  <2>2. CASE q # r
    BY <1>1, <1>3, <2>2 DEF RowsSaved
  <2> QED
    BY <2>1, <2>2
<1> QED
  BY <1>2, <1>3 DEF RowsSaved

\* While the rooms stay as they are, more may be saved.
LEMMA RoomsKept ==
  ASSUME RoomInv, UNCHANGED <<rvars, accepted>>, TypeOK', RowsSaved', SavedGrows
  PROVE  RoomInv'
<1>1. Typing' /\ Members' /\ Edits' /\ Resolved'
  BY DEF RoomInv, Typing, Members, Edits, Editing, Ordered, Followed, Resolved, rvars
<1>2. Loads'
  BY DEF RoomInv, Typing, Loads, SavedGrows, rvars
<1>3. Backed'
  <2>1. ids \subseteq Rooms
    BY DEF RoomInv, Typing
  <2> QED
    BY <2>1 DEF RoomInv, Backed, Owes, SavedGrows, rvars
<1> QED
  BY <1>1, <1>2, <1>3 DEF RoomInv

\* The flush loop, saves, deletions and snapshots.
LEMMA BackgroundKeeps ==
  ASSUME PersistenceAssumption, RoomInv, Background
  PROVE  RoomInv'
<1> USE DEF RoomInv, Typing
<1>1. UNCHANGED rvars
  BY DEF Background
<1>2. CASE TickerTakes
  <2>1. TypeOK'
    BY <1>2, TypeStep DEF Next
  <2> QED
    BY <1>1, <1>2, <2>1, RoomsKept DEF TickerTakes, RowsSaved, SavedGrows
<1>3. ASSUME NEW f \in Flushers, NEW r \in Rooms, Save(f, r) PROVE RoomInv'
  <2>1. TypeOK'
    BY <1>3, TypeStep DEF Next
  <2>2. RowsSaved' /\ SavedGrows
    BY <1>3, CommitRows DEF Save
  <2> QED
    BY <1>1, <1>3, <2>1, <2>2, RoomsKept DEF Save
<1>4. ASSUME NEW f \in Flushers, NEW r \in Rooms, SaveFails(f, r) PROVE RoomInv'
  <2>1. TypeOK'
    BY <1>4, TypeStep DEF Next
  <2>2. RowsSaved' /\ SavedGrows
    <3>1. CASE UNCHANGED <<rows, saved>>
      BY <3>1 DEF RowsSaved, SavedGrows
    <3> QED
      BY <1>4, <3>1, CommitRows DEF SaveFails
  <2> QED
    BY <1>1, <1>4, <2>1, <2>2, RoomsKept DEF SaveFails
<1>5. ASSUME NEW d \in deletions, RunDeletion(d) PROVE RoomInv'
  <2>1. TypeOK'
    BY <1>5, TypeStep DEF Next
  <2>2. ASSUME NEW r \in Rooms, NEW u \in Updates, rows'[r][u.elem] = u.stamp
        PROVE  rows[r][u.elem] = u.stamp
    <3>1. u.elem \in Elems /\ u.stamp # NoRow
      BY DEF Updates, Stamps, NoRow, PersistenceAssumption
    <3>2. rows'[r] = rows[r] \/ rows'[r] = Without(rows[r], d.ids)
      BY <1>5 DEF RunDeletion, TypeOK
    <3> QED
      BY <2>2, <3>1, <3>2 DEF Without
  <2>3. UNCHANGED <<accepted, saved>>
    BY <1>5 DEF RunDeletion
  <2>4. RowsSaved' /\ SavedGrows
    BY <2>2, <2>3 DEF RowsSaved, SavedGrows
  <2> QED
    BY <1>1, <2>1, <2>3, <2>4, RoomsKept
<1>6. ASSUME NEW s \in snapshots, RunSnapshot(s) PROVE RoomInv'
  <2>1. s.room \in Rooms /\ s.elements \in SUBSET Updates
    BY DEF TypeOK
  <2>2. Replaced(s.elements) \in Table
    <3>1. ASSUME NEW e \in Elems, \E x \in s.elements : x.elem = e
          PROVE  (CHOOSE x \in s.elements : x.elem = e).stamp \in Stamps
      BY <2>1, <3>1 DEF Updates
    <3> QED
      BY <3>1 DEF Replaced, Table
  <2>3. TypeOK'
    <3>1. rows' \in [Rooms -> Table]
      BY <1>6, <2>2 DEF RunSnapshot, TypeOK
    <3>2. saved' \in [Rooms -> SUBSET Updates]
      <4>1. saved \in [Rooms -> SUBSET Updates]
        BY DEF TypeOK
      <4>2. saved' = saved \/ saved' = [saved EXCEPT ![s.room] = @ \cup s.elements]
        BY <1>6 DEF RunSnapshot
      <4> HIDE DEF RoomInv, Typing
      <4> QED
        BY <2>1, <4>1, <4>2
    <3>3. snapshots' \subseteq snapshots
      BY <1>6 DEF RunSnapshot
    <3> QED
      BY <1>6, <3>1, <3>2, <3>3 DEF RunSnapshot, TypeOK
  <2>4. UNCHANGED accepted
    BY <1>6 DEF RunSnapshot
  <2>5. CASE UNCHANGED <<rows, saved>>
    BY <1>1, <2>3, <2>4, <2>5, RoomsKept DEF RowsSaved, SavedGrows
  <2>6. CASE /\ rows'  = [rows  EXCEPT ![s.room] = Replaced(s.elements)]
             /\ saved' = [saved EXCEPT ![s.room] = @ \cup s.elements]
    <3>1. SavedGrows
      BY <2>6 DEF SavedGrows, TypeOK
    <3>2. ASSUME NEW r \in Rooms, NEW u \in Updates, rows'[r][u.elem] = u.stamp
          PROVE  u \in saved'[r]
      <4>1. CASE r = s.room
        <5>1. Replaced(s.elements)[u.elem] = u.stamp
          BY <2>6, <3>2, <4>1 DEF TypeOK
        <5>2. u \in s.elements
          BY <2>1, <5>1, ReplacedRows
        <5> QED
          BY <2>6, <4>1, <5>2 DEF TypeOK
      <4>2. CASE r # s.room
        BY <2>6, <3>2, <4>2 DEF TypeOK, RowsSaved
      <4> QED
        BY <4>1, <4>2
    <3> QED
      BY <1>1, <2>3, <2>4, <3>1, <3>2, RoomsKept DEF RowsSaved
  <2> QED
    BY <1>6, <2>5, <2>6 DEF RunSnapshot
<1>7. CASE Exit
  <2>1. TypeOK'
    BY <1>7, TypeStep DEF Next
  <2> QED
    BY <1>1, <1>7, <2>1, RoomsKept DEF Exit, RowsSaved, SavedGrows
<1> QED
  BY <1>2, <1>3, <1>4, <1>5, <1>6, <1>7 DEF Background

-----------------------------------------------------------------------------
(* A handler does a stage. *)

\* A handler of an edit that is about to do a stage works on a loaded room.
LEMMA AtStage ==
  ASSUME RoomInv, NEW c \in Conns, NEW stage \in StageNames \ {"flush"}, At(c, stage)
  PROVE  /\ op[c] \in Handlers /\ Editing(c) /\ op[c].room \in live /\ op[c].room \in Rooms
         /\ op[c].msg \in Messages /\ op[c].stamp \in Stamps
         /\ load[op[c].room].at = "done"
<1>1. op[c] \in Handlers
  BY DEF RoomInv, Typing
<1>2. Editing(c)
  BY DEF At, Editing
<1> QED
  BY <1>1, <1>2 DEF RoomInv, Typing, Members, Edits, At

\* What remains to do is still in order, and what is owed still is, if it is
\* not queued by this very stage.
LEMMA StageLeaves ==
  ASSUME RoomInv, NEW c \in Conns, NEW stage \in StageNames \ {"flush"}, At(c, stage),
         StageDone(c), UNCHANGED <<live, members, load>>
  PROVE  /\ op' \in [Conns -> Handlers]
         /\ Members' /\ Edits'
         /\ \A d \in Conns, r \in Rooms, x \in Updates :
              Owes(d, r, x) /\ (d = c => stage \notin {"queueAdded", "queueUpdated"}) => Owes(d, r, x)'
         /\ op'[c] = [op[c] EXCEPT !.todo = Tail(@)]
<1>1. /\ op[c] \in Handlers /\ Editing(c) /\ op[c].room \in live
      /\ op[c].todo \in Seq(StageNames) /\ op[c].todo # <<>> /\ Head(op[c].todo) = stage
  BY AtStage DEF At, Handlers
<1>2. /\ op \in [Conns -> Handlers] /\ op'[c] = [op[c] EXCEPT !.todo = Tail(@)]
      /\ \A d \in Conns \ {c} : op'[d] = op[d]
  BY DEF RoomInv, Typing, StageDone
<1>3. /\ op'[c].todo = Tail(op[c].todo) /\ op'[c].room = op[c].room
      /\ op'[c].msg = op[c].msg /\ op'[c].stamp = op[c].stamp
  BY <1>1, <1>2 DEF Handlers
<1>4. /\ Tail(op[c].todo) \in Seq(StageNames)
      /\ ToSet(Tail(op[c].todo)) \subseteq ToSet(op[c].todo)
      /\ \A x \in ToSet(op[c].todo) : x # stage => x \in ToSet(Tail(op[c].todo))
      /\ Ordered(op[c].todo) => Ordered(Tail(op[c].todo))
  BY <1>1, TailOrdered
<1>5. op' \in [Conns -> Handlers]
  BY <1>1, <1>2, <1>4 DEF StageDone, Handlers
<1>6. Members'
  BY <1>1, <1>2, <1>3 DEF RoomInv, Members
<1>7. Edits'
  <2>1. ASSUME NEW d \in Conns, Editing(d)'
        PROVE  /\ op'[d].stamp \in Stamps /\ op'[d].msg \in Messages
               /\ load[op'[d].room].at = "done"
               /\ "flush" \notin ToSet(op'[d].todo) /\ Ordered(op'[d].todo)
    <3>1. CASE d = c
      BY <1>1, <1>3, <1>4, <3>1 DEF RoomInv, Edits
    <3>2. CASE d # c
      BY <1>2, <2>1, <3>2 DEF RoomInv, Edits, Editing
    <3> QED
      BY <3>1, <3>2
  <2> QED
    BY <2>1 DEF Edits, Ordered, Followed
<1>8. ASSUME NEW d \in Conns, NEW r \in Rooms, NEW x \in Updates, Owes(d, r, x),
             d = c => stage \notin {"queueAdded", "queueUpdated"}
      PROVE  Owes(d, r, x)'
  <2>1. CASE d = c
    BY <1>3, <1>4, <1>8, <2>1 DEF Owes
  <2>2. CASE d # c
    BY <1>2, <1>8, <2>2 DEF Owes
  <2> QED
    BY <2>1, <2>2
<1> QED
  BY <1>2, <1>5, <1>6, <1>7, <1>8

\* What a stage puts into the room is owed from then on.
LEMMA MemoryKeeps ==
  ASSUME RoomInv, NEW c \in Conns, NEW stage \in {"add", "update", "delete"},
         NEW els \in SUBSET Updates, EditsMemory(c, stage, els), NEW q, q = op[c].room,
         \A x \in els : x \in mem[q] \/ Owes(c, q, x)'
  PROVE  RoomInv'
<1>1. stage \in StageNames \ {"flush"} /\ At(c, stage) /\ StageDone(c)
  BY DEF StageNames, EditsMemory
<1>2. UNCHANGED <<live, ids, members, load>> /\ UNCHANGED pvars
  BY DEF EditsMemory
<1>3. op[c].room \in Rooms /\ load[op[c].room].at = "done"
  BY <1>1, AtStage
<1>4. /\ op' \in [Conns -> Handlers] /\ Members' /\ Edits'
      /\ \A d \in Conns, r \in Rooms, x \in Updates : Owes(d, r, x) => Owes(d, r, x)'
  BY <1>1, <1>2, StageLeaves
<1>5. /\ mem \in [Rooms -> SUBSET Updates] /\ mem' = [mem EXCEPT ![op[c].room] = els]
  BY DEF RoomInv, Typing, EditsMemory
<1>6. TypeOK' /\ RowsSaved'
  BY <1>2 DEF RoomInv, Typing, TypeOK, RowsSaved, pvars
<1>7. Typing'
  BY <1>2, <1>4, <1>5, <1>6 DEF RoomInv, Typing
<1>8. Loads' /\ Resolved'
  BY <1>2, <1>3, <1>5 DEF RoomInv, Loads, Resolved, pvars
<1>9. Backed'
  <2>1. ASSUME NEW r \in ids, NEW x \in mem'[r]
        PROVE  x \in accepted[r] \cup saved[r] \/ \E d \in Conns : Owes(d, r, x)'
    <3>1. r \in Rooms /\ x \in Updates
      BY <1>5, <2>1 DEF RoomInv, Typing
    <3>2. CASE x \in mem[r]
      <4>1. x \in accepted[r] \cup saved[r] \/ \E d \in Conns : Owes(d, r, x)
        BY <2>1, <3>2 DEF RoomInv, Backed
      <4> QED
        BY <1>4, <3>1, <4>1
    <3>3. CASE x \notin mem[r]
      <4>1. r = q /\ x \in els
        BY <1>5, <2>1, <3>1, <3>3
      <4> QED
        BY <3>3, <4>1
    <3> QED
      BY <3>2, <3>3
  <2> QED
    BY <1>2, <2>1 DEF Backed, pvars
<1> QED
  BY <1>4, <1>6, <1>7, <1>8, <1>9 DEF RoomInv

\* Versions of a message's elements are updates.
LEMMA VersionsType ==
  ASSUME NEW es \in SUBSET Elems, NEW n \in Stamps
  PROVE  /\ Versions(es, n) \in SUBSET Updates
         /\ \A x \in Versions(es, n) : x.elem \in es /\ x.stamp = n
         /\ \A x \in Updates : x.elem \in es /\ x.stamp = n => x \in Versions(es, n)
<1>1. Versions(es, n) \in SUBSET Updates /\ \A x \in Versions(es, n) : x.elem \in es /\ x.stamp = n
  BY DEF Versions, Updates
<1>2. ASSUME NEW x \in Updates, x.elem \in es, x.stamp = n PROVE x \in Versions(es, n)
  <2>1. x = [elem |-> x.elem, stamp |-> n]
    BY <1>2 DEF Updates
  <2> QED
    BY <1>2, <2>1 DEF Versions
<1> QED
  BY <1>1, <1>2

\* There are as many of them as elements.
LEMMA VersionsFinite ==
  ASSUME NEW es, IsFiniteSet(es), NEW n
  PROVE  IsFiniteSet(Versions(es, n))
<1> DEFINE f == [e \in es |-> [elem |-> e, stamp |-> n]]
<1>1. f \in Injection(es, Versions(es, n))
  BY DEF Injection, IsInjective, Versions
<1>2. f \in Surjection(es, Versions(es, n))
  BY DEF Surjection, Versions
<1>3. ExistsBijection(es, Versions(es, n))
  BY <1>1, <1>2 DEF ExistsBijection, Bijection
<1> QED
  BY <1>3, FS_Bijection

\* AddElements, UpdateElements and DeleteElements.
LEMMA EditKeeps ==
  ASSUME RoomStoreAssumption, RoomInv, NEW c \in Conns, NEW r, r = op[c].room,
         AddElements(c) \/ UpdateElements(c) \/ DeleteElements(c)
  PROVE  RoomInv'
<1> DEFINE m == op[c].msg
           n == op[c].stamp
<1>1. ASSUME NEW stage \in {"add", "update", "delete"}, At(c, stage), StageDone(c)
      PROVE  /\ r \in Rooms /\ n \in Stamps /\ m.added \subseteq Elems /\ m.updated \subseteq Elems
             /\ mem[r] \in SUBSET Updates
             /\ op'[c].room = r /\ op'[c].msg = m /\ op'[c].stamp = n
             /\ stage = "add" => "queueAdded" \in ToSet(op'[c].todo)
             /\ stage = "update" => "queueUpdated" \in ToSet(op'[c].todo)
  <2>1. /\ op[c] \in Handlers /\ Editing(c) /\ r \in Rooms /\ n \in Stamps /\ m \in Messages
        /\ op \in [Conns -> Handlers]
    BY <1>1, AtStage DEF StageNames, RoomInv, Typing
  <2>2. Ordered(op[c].todo) /\ op[c].todo \in Seq(StageNames) /\ op[c].todo # <<>> /\ Head(op[c].todo) = stage
    BY <1>1, <2>1 DEF RoomInv, Edits, At, Handlers
  <2>3. op'[c] = [op[c] EXCEPT !.todo = Tail(@)]
    BY <1>1, <2>1 DEF StageDone
  <2>4. /\ op'[c].todo = Tail(op[c].todo)
        /\ op'[c].room = r /\ op'[c].msg = m /\ op'[c].stamp = n
    BY <2>1, <2>3 DEF Handlers
  <2>5. m.added \subseteq Elems /\ m.updated \subseteq Elems
    BY <2>1 DEF RoomStoreAssumption
  <2>6. mem[r] \in SUBSET Updates
    BY <2>1 DEF RoomInv, Typing
  <2> HIDE DEF m, n
  <2> QED
    BY <2>1, <2>2, <2>4, <2>5, <2>6, TailOrdered
<1>2. CASE AddElements(c)
  <2> DEFINE els == mem[r] \cup Versions(m.added, n)
  <2>1. EditsMemory(c, "add", els) /\ At(c, "add") /\ StageDone(c)
    BY <1>2 DEF AddElements, EditsMemory
  <2>2. els \in SUBSET Updates
    BY <1>1, <2>1, VersionsType
  <2>3. \A x \in els : x \in mem[r] \/ Owes(c, r, x)'
    BY <1>1, <2>1, VersionsType DEF Owes
  <2> QED
    BY <2>1, <2>2, <2>3, MemoryKeeps
<1>3. CASE UpdateElements(c)
  <2> DEFINE els == {x \in Deduplicated(mem[r]) : x.elem \notin m.updated} \cup Versions(m.updated, n)
  <2>1. EditsMemory(c, "update", els) /\ At(c, "update") /\ StageDone(c)
    BY <1>3 DEF UpdateElements, EditsMemory
  <2>2. Deduplicated(mem[r]) \subseteq mem[r]
    BY DEF Deduplicated
  <2>3. els \in SUBSET Updates
    BY <1>1, <2>1, <2>2, VersionsType
  <2>4. \A x \in els : x \in mem[r] \/ Owes(c, r, x)'
    BY <1>1, <2>1, <2>2, VersionsType DEF Owes
  <2> QED
    BY <2>1, <2>3, <2>4, MemoryKeeps
<1>4. CASE DeleteElements(c)
  <2> DEFINE els == {x \in mem[r] : x.elem \notin m.deleted}
  <2>1. EditsMemory(c, "delete", els) /\ At(c, "delete") /\ StageDone(c)
    BY <1>4 DEF DeleteElements, EditsMemory
  <2>2. els \in SUBSET Updates
    BY <1>1, <2>1
  <2> QED
    BY <2>1, <2>2, MemoryKeeps
<1> QED
  BY <1>2, <1>3, <1>4

\* QueuePersistence hands a list to the queue, and the handler owes it no longer.
LEMMA QueuesKeeps ==
  ASSUME PersistenceAssumption, RoomStoreAssumption, RoomInv, NEW c \in Conns,
         QueueAdded(c) \/ QueueUpdated(c)
  PROVE  RoomInv'
<1> DEFINE m == op[c].msg
           n == op[c].stamp
           q == op[c].room
<1>1. ASSUME NEW stage \in {"queueAdded", "queueUpdated"}, NEW es, QueuesUpdates(c, stage, es),
             es = IF stage = "queueAdded" THEN m.added ELSE m.updated
      PROVE  RoomInv'
  <2> DEFINE us == SetToSeq(Versions(es, n))
  <2>1. stage \in StageNames \ {"flush"} /\ At(c, stage) /\ StageDone(c)
    BY <1>1 DEF StageNames, QueuesUpdates
  <2>2. /\ UNCHANGED <<live, ids, mem, members, load, snapped, clock>>
        /\ UNCHANGED <<batch, deletions, snapshots, rows, phase, stops, saved, deleted>>
        /\ pending'  = [pending  EXCEPT ![q] = @ \o us]
        /\ accepted' = [accepted EXCEPT ![q] = @ \cup ToSet(us)]
    BY <1>1 DEF QueuesUpdates, QueueElementUpdates
  <2>3. q \in Rooms /\ n \in Stamps /\ m \in Messages
    BY <2>1, AtStage
  <2>4. es \in SUBSET Elems /\ IsFiniteSet(es)
    BY <1>1, <2>3 DEF RoomStoreAssumption
  <2>5. IsFiniteSet(Versions(es, n))
    BY <2>4, VersionsFinite
  <2>6. us \in Seq(Versions(es, n)) /\ ToSet(us) = Versions(es, n)
    BY <2>5, ListOfSet
  <2>7. Versions(es, n) \in SUBSET Updates /\ us \in Seq(Updates)
    BY <2>3, <2>4, <2>6, VersionsType
  <2> HIDE DEF us
  <2>8. TypeOK'
    <3>1. pending' \in [Rooms -> Seq(Updates)]
      BY <2>2, <2>3, <2>7 DEF RoomInv, Typing, TypeOK
    <3>2. accepted' \in [Rooms -> SUBSET Updates]
      BY <2>2, <2>3, <2>6, <2>7 DEF RoomInv, Typing, TypeOK
    <3> QED
      BY <2>2, <3>1, <3>2 DEF RoomInv, Typing, TypeOK
  <2>9. /\ op' \in [Conns -> Handlers] /\ Members' /\ Edits'
        /\ \A d \in Conns, r \in Rooms, x \in Updates : Owes(d, r, x) /\ d # c => Owes(d, r, x)'
        /\ op'[c] = [op[c] EXCEPT !.todo = Tail(@)]
    BY <2>1, <2>2, StageLeaves
  <2>10. Typing'
    BY <2>2, <2>8, <2>9 DEF RoomInv, Typing
  <2>11. RowsSaved' /\ Loads' /\ Resolved'
    BY <2>2 DEF RoomInv, RowsSaved, Loads, Resolved
  <2>12. \A r \in Rooms, x \in Updates :
           Owes(c, r, x) => Owes(c, r, x)' \/ (r = q /\ x \in Versions(es, n))
    <3>1. ASSUME NEW r \in Rooms, NEW x \in Updates, Owes(c, r, x)
          PROVE  Owes(c, r, x)' \/ (r = q /\ x \in Versions(es, n))
      <4>1. r = q /\ x.stamp = n
        BY <3>1 DEF Owes
      <4>2. CASE x.elem \in es
        BY <2>3, <2>4, <4>1, <4>2, VersionsType
      <4>3. CASE x.elem \notin es
        <5>1. op[c] \in Handlers /\ op[c].todo \in Seq(StageNames) /\ op[c].todo # <<>> /\ Head(op[c].todo) = stage
          BY <2>1 DEF RoomInv, Typing, Handlers, At
        <5>2. /\ op'[c].todo = Tail(op[c].todo) /\ op'[c].room = q
              /\ op'[c].msg = m /\ op'[c].stamp = n
          BY <2>9, <5>1 DEF Handlers
        <5>3. \A y \in ToSet(op[c].todo) : y # stage => y \in ToSet(op'[c].todo)
          BY <5>1, <5>2, TailOrdered
        <5>4. CASE stage = "queueAdded"
          BY <1>1, <3>1, <4>1, <4>3, <5>2, <5>3, <5>4 DEF Owes
        <5>5. CASE stage = "queueUpdated"
          BY <1>1, <3>1, <4>1, <4>3, <5>2, <5>3, <5>5 DEF Owes
        <5> QED
          BY <5>4, <5>5
      <4> QED
        BY <4>2, <4>3
    <3> QED
      BY <3>1
  <2>13. Backed'
    <3>1. ASSUME NEW r \in ids, NEW x \in mem[r]
          PROVE  x \in accepted'[r] \cup saved[r] \/ \E d \in Conns : Owes(d, r, x)'
      <4>1. r \in Rooms /\ x \in Updates
        BY <3>1 DEF RoomInv, Typing
      <4>2. accepted[r] \subseteq accepted'[r] /\ (r = q => Versions(es, n) \subseteq accepted'[r])
        BY <2>2, <2>6, <4>1 DEF RoomInv, Typing, TypeOK
      <4>3. x \in accepted[r] \cup saved[r] \/ \E d \in Conns : Owes(d, r, x)
        BY <3>1 DEF RoomInv, Backed
      <4> QED
        BY <2>9, <2>12, <4>1, <4>2, <4>3
    <3> QED
      BY <2>2, <3>1 DEF Backed
  <2> QED
    BY <2>9, <2>10, <2>11, <2>13 DEF RoomInv
<1> QED
  BY <1>1 DEF QueueAdded, QueueUpdated

\* Deletions do not pass through the queue.
LEMMA QueueDeletedKeeps ==
  ASSUME RoomStoreAssumption, RoomInv, NEW c \in Conns, QueueDeleted(c)
  PROVE  RoomInv'
<1>1. "queueDeleted" \in StageNames \ {"flush"} /\ At(c, "queueDeleted") /\ StageDone(c)
  BY DEF StageNames, QueueDeleted
<1>2. /\ UNCHANGED <<live, ids, mem, members, load, snapped, clock>>
      /\ QueueElementDeletion(op[c].room, op[c].msg.deleted, op[c].stamp)
  BY DEF QueueDeleted
<1>3. op[c].room \in Rooms /\ op[c].stamp \in Stamps /\ op[c].msg \in Messages
  BY <1>1, AtStage
<1>4. op[c].msg.deleted \in SUBSET Elems
  BY <1>3 DEF RoomStoreAssumption
<1>5. TypeOK'
  <2>1. op[c].stamp \in 0..MaxStamp
    BY <1>3 DEF Stamps
  <2>2. deletions' \subseteq [room : Rooms, ids : SUBSET Elems, stamp : Stamps]
    BY <1>2, <1>3, <1>4 DEF QueueElementDeletion, RoomInv, Typing, TypeOK
  <2>3. deleted' \in [Rooms -> [Elems -> 0..MaxStamp]]
    BY <1>2, <1>3, <2>1 DEF QueueElementDeletion, RoomInv, Typing, TypeOK
  <2> QED
    BY <1>2, <2>2, <2>3 DEF QueueElementDeletion, RoomInv, Typing, TypeOK
<1>6. /\ op' \in [Conns -> Handlers] /\ Members' /\ Edits'
      /\ \A d \in Conns, r \in Rooms, x \in Updates : Owes(d, r, x) => Owes(d, r, x)'
  BY <1>1, <1>2, StageLeaves
<1>7. Typing'
  BY <1>2, <1>5, <1>6 DEF RoomInv, Typing
<1>8. RowsSaved' /\ Loads' /\ Resolved'
  BY <1>2 DEF QueueElementDeletion, RoomInv, RowsSaved, Loads, Resolved
<1>9. Backed'
  <2>1. ASSUME NEW r \in ids, NEW x \in mem[r]
        PROVE  x \in accepted[r] \cup saved[r] \/ \E d \in Conns : Owes(d, r, x)'
    <3>1. r \in Rooms /\ x \in Updates
      BY <2>1 DEF RoomInv, Typing
    <3>2. x \in accepted[r] \cup saved[r] \/ \E d \in Conns : Owes(d, r, x)
      BY <2>1 DEF RoomInv, Backed
    <3> QED
      BY <1>6, <3>1, <3>2
  <2> QED
    BY <1>2, <2>1 DEF Backed, QueueElementDeletion
<1> QED
  BY <1>6, <1>7, <1>8, <1>9 DEF RoomInv

-----------------------------------------------------------------------------
(* A handler begins or ends. *)

\* A handler without a stage of an edit, in a room that is there.
Plain(h) ==
  /\ h \in Handlers
  /\ h.todo = <<>> \/ (h.todo = <<"flush">> /\ h.room \in live)

\* So are no handler and one that only flushes.
LEMMA PlainHandlers ==
  ASSUME PersistenceAssumption
  PROVE  /\ NoOp \in Handlers /\ Plain(NoOp)
         /\ \A r \in Rooms : r \in live => Plain([NoOp EXCEPT !.todo = <<"flush">>, !.room = r])
<1>1. 0 \in 0..MaxStamp /\ <<>> \in Seq(StageNames) /\ <<"flush">> \in Seq(StageNames)
  BY DEF PersistenceAssumption, StageNames
<1>2. NoOp \in Handlers
  BY <1>1 DEF NoOp, Handlers, MessageType
<1>3. NoOp.todo = <<>>
  BY DEF NoOp
<1>4. Plain(NoOp)
  BY <1>2, <1>3 DEF Plain
<1> QED
  BY <1>1, <1>2, <1>4 DEF NoOp, Handlers, Plain

\* A handler without stages of an edit disturbs nobody's.
LEMMA HandlerReplaced ==
  ASSUME RoomInv, NEW c \in Conns, NEW h \in Handlers, h.todo = <<>> \/ h.todo = <<"flush">>,
         op' = [op EXCEPT ![c] = h], UNCHANGED load
  PROVE  /\ op' \in [Conns -> Handlers] /\ op'[c] = h /\ Edits'
         /\ \A d \in Conns \ {c} : op'[d] = op[d]
         /\ \A d \in Conns \ {c}, r \in Rooms, x \in Updates : Owes(d, r, x) => Owes(d, r, x)'
<1>1. /\ op' \in [Conns -> Handlers] /\ op'[c] = h
      /\ \A d \in Conns \ {c} : op'[d] = op[d]
  BY DEF RoomInv, Typing
<1>2. ASSUME NEW d \in Conns, Editing(d)'
      PROVE  /\ op'[d].stamp \in Stamps /\ op'[d].msg \in Messages
             /\ load[op'[d].room].at = "done"
             /\ "flush" \notin ToSet(op'[d].todo) /\ Ordered(op'[d].todo)
  <2>1. d # c
    BY <1>1, <1>2 DEF Editing
  <2> QED
    BY <1>1, <1>2, <2>1 DEF RoomInv, Edits, Editing
<1>3. Edits'
  BY <1>2 DEF Edits, Ordered, Followed
<1> QED
  BY <1>1, <1>3 DEF Owes

\* Who neither edits nor queues owes nothing.
LEMMA OwesNothing ==
  ASSUME NEW c, op[c].todo = <<>> \/ op[c].todo = <<"flush">>, NEW r, NEW x
  PROVE  ~Owes(c, r, x)
BY DEF Owes, ToSet

\* A step that replaces the handler of c by one that only flushes, or by none,
\* and takes nobody from a room that is not there.
LEMMA HandlerKeeps ==
  ASSUME RoomInv, NEW c \in Conns, NEW h, Plain(h), op' = [op EXCEPT ![c] = h],
         ~(Editing(c) /\ op[c].room \in ids),
         TypeOK', members' \in [Rooms -> SUBSET Conns], \A r \in Rooms : members'[r] \subseteq members[r],
         UNCHANGED <<live, ids, mem, load, rows, accepted, saved>>
  PROVE  RoomInv'
<1>1. /\ op' \in [Conns -> Handlers] /\ op'[c] = h /\ Edits'
      /\ \A d \in Conns \ {c} : op'[d] = op[d]
      /\ \A d \in Conns \ {c}, r \in Rooms, x \in Updates : Owes(d, r, x) => Owes(d, r, x)'
  BY HandlerReplaced DEF Plain
<1>2. Typing'
  BY <1>1 DEF RoomInv, Typing
<1>3. Members'
  BY <1>1 DEF RoomInv, Typing, Members, Plain
<1>4. RowsSaved' /\ Loads' /\ Resolved'
  BY DEF RoomInv, RowsSaved, Loads, Resolved
<1>5. Backed'
  <2>1. ASSUME NEW r \in ids, NEW x \in mem[r]
        PROVE  x \in accepted[r] \cup saved[r] \/ \E d \in Conns : Owes(d, r, x)'
    <3>1. r \in Rooms /\ x \in Updates
      BY <2>1 DEF RoomInv, Typing
    <3>2. x \in accepted[r] \cup saved[r] \/ \E d \in Conns : Owes(d, r, x)
      BY <2>1 DEF RoomInv, Backed
    <3>3. ~Owes(c, r, x)
      <4>1. CASE ~Editing(c)
        BY <4>1, OwesNothing DEF Editing
      <4>2. CASE op[c].room \notin ids
        BY <2>1, <4>2 DEF Owes
      <4> QED
        BY <4>1, <4>2
    <3> QED
      BY <1>1, <3>1, <3>2, <3>3
  <2> QED
    BY <2>1 DEF Backed
<1> QED
  BY <1>1, <1>2, <1>3, <1>4, <1>5 DEF RoomInv

\* QueuePersistence goes on, or gives up without an id: then nothing is owed to
\* a known room.
LEMMA ReadDBIDKeeps ==
  ASSUME PersistenceAssumption, RoomInv, NEW c \in Conns, ReadDBID(c)
  PROVE  RoomInv'
<1>1. UNCHANGED <<pvars, live, ids, mem, members, load, snapped>> /\ At(c, "dbid")
  BY DEF ReadDBID
<1>2. TypeOK' /\ members \in [Rooms -> SUBSET Conns]
  BY <1>1 DEF RoomInv, Typing, TypeOK, pvars
<1>3. CASE op[c].room \notin ids
  <2>1. op' = [op EXCEPT ![c] = NoOp]
    BY <1>3 DEF ReadDBID
  <2>2. Plain(NoOp)
    BY PlainHandlers
  <2>3. /\ members' \in [Rooms -> SUBSET Conns] /\ \A r \in Rooms : members'[r] \subseteq members[r]
        /\ UNCHANGED <<live, ids, mem, load, rows, accepted, saved>>
    BY <1>1, <1>2 DEF pvars
  <2> QED
    BY <1>2, <1>3, <2>1, <2>2, <2>3, HandlerKeeps
<1>4. CASE op[c].room \in ids
  <2>1. StageDone(c) /\ "dbid" \in StageNames \ {"flush"}
    BY <1>4 DEF ReadDBID, StageNames
  <2>2. /\ op' \in [Conns -> Handlers] /\ Members' /\ Edits'
        /\ \A d \in Conns, r \in Rooms, x \in Updates : Owes(d, r, x) => Owes(d, r, x)'
    BY <1>1, <2>1, StageLeaves
  <2>3. Typing'
    BY <1>1, <1>2, <2>2 DEF RoomInv, Typing
  <2>4. RowsSaved' /\ Loads' /\ Resolved'
    BY <1>1 DEF RoomInv, RowsSaved, Loads, Resolved, pvars
  <2>5. Backed'
    <3>1. ASSUME NEW r \in ids, NEW x \in mem[r]
          PROVE  x \in accepted[r] \cup saved[r] \/ \E d \in Conns : Owes(d, r, x)'
      <4>1. r \in Rooms /\ x \in Updates
        BY <3>1 DEF RoomInv, Typing
      <4>2. x \in accepted[r] \cup saved[r] \/ \E d \in Conns : Owes(d, r, x)
        BY <3>1 DEF RoomInv, Backed
      <4> QED
        BY <2>2, <4>1, <4>2
    <3> QED
      BY <1>1, <3>1 DEF Backed, pvars
  <2> QED
    BY <2>2, <2>3, <2>4, <2>5 DEF RoomInv
<1> QED
  BY <1>3, <1>4

\* RemoveUser of handleLeaveRoom.
LEMMA LeaveKeeps ==
  ASSUME PersistenceAssumption, RoomInv, NEW c \in Conns, NEW r \in Rooms, Leave(c, r)
  PROVE  RoomInv'
<1> DEFINE h == [NoOp EXCEPT !.todo = <<"flush">>, !.room = r]
<1>1. /\ UNCHANGED <<pvars, live, ids, mem, load, snapped>> /\ ~Busy(c) /\ c \in members[r]
      /\ members' = [members EXCEPT ![r] = @ \ {c}] /\ op' = [op EXCEPT ![c] = h]
  BY DEF Leave
<1>2. r \in live /\ members \in [Rooms -> SUBSET Conns]
  BY <1>1 DEF RoomInv, Typing, Members
<1>3. Plain(h)
  BY <1>2, PlainHandlers
<1>4. members' \in [Rooms -> SUBSET Conns] /\ \A q \in Rooms : members'[q] \subseteq members[q]
  BY <1>1, <1>2
<1>5. TypeOK' /\ ~Editing(c)
  BY <1>1 DEF RoomInv, Typing, TypeOK, pvars, Busy, Editing
<1> HIDE DEF h
<1> QED
  BY <1>1, <1>3, <1>4, <1>5, HandlerKeeps DEF pvars

\* FlushRoom of the connection that has left.
LEMMA LeaverFlushesKeeps ==
  ASSUME PersistenceAssumption, RoomInv, NEW c \in Conns, LeaverFlushes(c)
  PROVE  RoomInv'
<1>1. /\ UNCHANGED <<live, ids, mem, members, load, snapped>> /\ At(c, "flush")
      /\ op' = [op EXCEPT ![c] = NoOp]
  BY DEF LeaverFlushes
<1>2. ~Editing(c)
  <2>1. op[c] \in Handlers
    BY DEF RoomInv, Typing
  <2>2. op[c].todo \in Seq(StageNames) /\ op[c].todo # <<>> /\ Head(op[c].todo) = "flush"
    BY <1>1, <2>1 DEF At, Handlers
  <2>3. "flush" \in ToSet(op[c].todo)
    BY <2>2 DEF ToSet
  <2> QED
    BY <2>3 DEF RoomInv, Edits
<1>3. TypeOK' /\ UNCHANGED <<rows, accepted, saved>>
  <2>1. CASE FlushRoomTakes(c, op[c].room) /\ op[c].room \in ids
    <3>1. op[c].room \in Rooms
      BY <2>1 DEF RoomInv, Typing
    <3>2. TypeOK'
      BY <2>1, <3>1, TypeStep DEF Next, RoomInv, Typing
    <3> QED
      BY <2>1, <3>2 DEF FlushRoomTakes
  <2>2. CASE UNCHANGED pvars
    BY <2>2 DEF RoomInv, Typing, TypeOK, pvars
  <2> QED
    BY <2>1, <2>2 DEF LeaverFlushes
<1>4. members' \in [Rooms -> SUBSET Conns] /\ \A r \in Rooms : members'[r] \subseteq members[r]
  BY <1>1 DEF RoomInv, Typing
<1>5. Plain(NoOp)
  BY PlainHandlers
<1> QED
  BY <1>1, <1>2, <1>3, <1>4, <1>5, HandlerKeeps

\* A message is taken for a room that is loaded.
LEMMA ReceiveKeeps ==
  ASSUME PersistenceAssumption, RoomStoreAssumption, ~EditWhileLoading, RoomInv,
         NEW c \in Conns, NEW r \in Rooms, NEW m \in Messages, Receive(c, r, m)
  PROVE  RoomInv'
<1> DEFINE h == [todo |-> Stages(m), room |-> r, msg |-> m, stamp |-> clock + 1]
<1>1. /\ UNCHANGED <<pending, batch, deletions, snapshots, rows, phase, stops, accepted, saved, deleted>>
      /\ UNCHANGED <<live, ids, mem, members, load, snapped>>
      /\ ~Busy(c) /\ c \in members[r] /\ load[r] = NoLoad
      /\ clock < MaxStamp /\ clock' = clock + 1 /\ op' = [op EXCEPT ![c] = h]
  BY DEF Receive
<1>2. clock + 1 \in Stamps /\ clock + 1 \in 0..MaxStamp
  BY <1>1 DEF RoomInv, Typing, TypeOK, Stamps, PersistenceAssumption
<1>3. /\ Stages(m) \in Seq(StageNames) /\ "flush" \notin ToSet(Stages(m)) /\ Ordered(Stages(m))
  BY StagesOrdered
<1>4. m \in MessageType
  BY DEF RoomStoreAssumption, MessageType
<1>5. h \in Handlers /\ h.todo = Stages(m) /\ h.room = r /\ h.msg = m /\ h.stamp = clock + 1
  BY <1>2, <1>3, <1>4 DEF Handlers
<1> HIDE DEF h
<1>6. op' \in [Conns -> Handlers] /\ op'[c] = h /\ \A d \in Conns \ {c} : op'[d] = op[d]
  BY <1>1, <1>5 DEF RoomInv, Typing
<1>7. Typing'
  <2>1. TypeOK'
    BY <1>1, <1>2 DEF RoomInv, Typing, TypeOK
  <2> QED
    BY <1>1, <1>6, <2>1 DEF RoomInv, Typing
<1>8. Members'
  BY <1>1, <1>5, <1>6 DEF RoomInv, Members
<1>9. RowsSaved' /\ Loads' /\ Resolved'
  BY <1>1 DEF RoomInv, RowsSaved, Loads, Resolved
<1>10. Edits'
  <2>1. load[r].at = "done"
    BY <1>1 DEF NoLoad
  <2>2. ASSUME NEW d \in Conns, Editing(d)'
        PROVE  /\ op'[d].stamp \in Stamps /\ op'[d].msg \in Messages
               /\ load[op'[d].room].at = "done"
               /\ "flush" \notin ToSet(op'[d].todo) /\ Ordered(op'[d].todo)
    <3>1. CASE d = c
      BY <1>2, <1>3, <1>5, <1>6, <2>1, <3>1
    <3>2. CASE d # c
      BY <1>6, <2>2, <3>2 DEF RoomInv, Edits, Editing
    <3> QED
      BY <3>1, <3>2
  <2> QED
    BY <1>1, <2>2 DEF Edits, Ordered, Followed
<1>11. Backed'
  <2>1. op[c].todo = <<>>
    BY <1>1 DEF Busy
  <2>2. ASSUME NEW q \in ids, NEW x \in mem[q]
        PROVE  x \in accepted[q] \cup saved[q] \/ \E d \in Conns : Owes(d, q, x)'
    <3>1. x \in accepted[q] \cup saved[q] \/ \E d \in Conns : Owes(d, q, x)
      BY <2>2 DEF RoomInv, Backed
    <3>2. ASSUME NEW d \in Conns, Owes(d, q, x) PROVE Owes(d, q, x)'
      <4>1. d # c
        BY <2>1, <3>2, OwesNothing
      <4> QED
        BY <1>6, <3>2, <4>1 DEF Owes
    <3> QED
      BY <3>1, <3>2
  <2> QED
    BY <1>1, <2>2 DEF Backed
<1> QED
  BY <1>7, <1>8, <1>9, <1>10, <1>11 DEF RoomInv

-----------------------------------------------------------------------------
(* Rooms come, are loaded and go. *)

\* A step that leaves the handlers and what is stored alone.
LEMMA RoomsOnly ==
  ASSUME RoomInv, UNCHANGED <<op, rows, accepted, saved>>, TypeOK',
         live' \subseteq Rooms, ids' \subseteq Rooms, mem' \in [Rooms -> SUBSET Updates],
         members' \in [Rooms -> SUBSET Conns], load' \in [Rooms -> Loaders],
         Members', Loads', Resolved',
         \A c \in Conns : Editing(c) => load'[op[c].room].at = "done",
         \A r \in ids' : \A x \in mem'[r] : x \in saved[r] \/ (r \in ids /\ x \in mem[r])
  PROVE  RoomInv'
<1>1. Typing' /\ RowsSaved' /\ Edits'
  BY DEF RoomInv, Typing, RowsSaved, Edits, Editing, Ordered, Followed
<1>2. Backed'
  BY DEF RoomInv, Backed, Owes
<1> QED
  BY <1>1, <1>2 DEF RoomInv

\* A room that is made is empty, and waits for its id.
LEMMA JoinKeeps ==
  ASSUME RoomInv, NEW c \in Conns, NEW r \in Rooms, Join(c, r)
  PROVE  RoomInv'
<1>1. /\ UNCHANGED <<pvars, ids, op, snapped>> /\ live' = live \cup {r}
      /\ members' = [members EXCEPT ![r] = @ \cup {c}]
      /\ r \in live => UNCHANGED <<mem, load>>
      /\ r \notin live => /\ mem' = [mem EXCEPT ![r] = {}]
                         /\ load' = [load EXCEPT ![r] = [at |-> "resolve", found |-> {}]]
  BY DEF Join
<1>2. TypeOK' /\ UNCHANGED <<rows, accepted, saved>>
  BY <1>1 DEF RoomInv, Typing, TypeOK, pvars
<1>3. /\ live \subseteq Rooms /\ mem \in [Rooms -> SUBSET Updates] /\ members \in [Rooms -> SUBSET Conns]
      /\ load \in [Rooms -> Loaders] /\ [at |-> "resolve", found |-> {}] \in Loaders
  BY DEF RoomInv, Typing, Loaders
<1>4. /\ live' \subseteq Rooms /\ ids' \subseteq Rooms /\ mem' \in [Rooms -> SUBSET Updates]
      /\ members' \in [Rooms -> SUBSET Conns] /\ load' \in [Rooms -> Loaders]
  BY <1>1, <1>3 DEF RoomInv, Typing
<1>5. Members' /\ Resolved'
  BY <1>1, <1>3 DEF RoomInv, Members, Resolved
<1>6. Loads'
  BY <1>1, <1>2, <1>3 DEF RoomInv, Loads
<1>7. ASSUME NEW d \in Conns, Editing(d) PROVE load'[op[d].room].at = "done"
  <2>1. op[d].room \in live /\ load[op[d].room].at = "done"
    BY <1>7 DEF RoomInv, Members, Edits, Editing
  <2> QED
    BY <1>1, <1>3, <2>1
<1>8. \A q \in ids' : \A x \in mem'[q] : q \in ids /\ x \in mem[q]
  BY <1>1, <1>3 DEF RoomInv, Typing
<1> QED
  BY <1>1, <1>2, <1>4, <1>5, <1>6, <1>7, <1>8, RoomsOnly

\* The room is empty when its id is found, and is given what was saved.
LEMMA LoaderKeeps ==
  ASSUME PersistenceAssumption, RoomInv, NEW r \in Rooms, Loader(r)
  PROVE  RoomInv'
<1>1. /\ UNCHANGED <<pvars, live, members, op, snapped>> /\ load[r].at # "done"
  BY DEF Loader, LoaderResolves, LoaderQueries, LoaderReplaces
<1>2. TypeOK' /\ UNCHANGED <<rows, accepted, saved>>
  BY <1>1 DEF RoomInv, Typing, TypeOK, pvars
<1>3. /\ live \subseteq Rooms /\ ids \subseteq Rooms
      /\ mem \in [Rooms -> SUBSET Updates] /\ members \in [Rooms -> SUBSET Conns]
      /\ load \in [Rooms -> Loaders] /\ load[r] \in Loaders /\ NoLoad \in Loaders
      /\ saved \in [Rooms -> SUBSET Updates]
  BY DEF RoomInv, Typing, Loaders, NoLoad, TypeOK
<1>4. Members'
  BY <1>1 DEF RoomInv, Members
<1>5. ASSUME \A q \in Rooms \ {r} : load'[q] = load[q]
      PROVE  \A c \in Conns : Editing(c) => load'[op[c].room].at = "done"
  <2>1. ASSUME NEW c \in Conns, Editing(c) PROVE load'[op[c].room].at = "done"
    <3>1. op[c].room \in Rooms /\ load[op[c].room].at = "done"
      BY <1>3, <2>1 DEF RoomInv, Members, Edits, Editing
    <3> QED
      BY <1>1, <1>5, <3>1
  <2> QED
    BY <2>1
<1>6. CASE LoaderResolves(r)
  <2>1. /\ UNCHANGED mem /\ load[r].at = "resolve"
        /\ \/ ids' = ids \cup {r} /\ load' = [load EXCEPT ![r].at = "query"]
           \/ DbMayFail /\ load' = [load EXCEPT ![r] = NoLoad] /\ UNCHANGED ids
    BY <1>6 DEF LoaderResolves
  <2>2. load' \in [Rooms -> Loaders] /\ load'[r].found \subseteq load[r].found
        /\ load'[r].at # "resolve" /\ \A q \in Rooms \ {r} : load'[q] = load[q]
    BY <1>3, <2>1 DEF Loaders, NoLoad
  <2>3. mem[r] \subseteq saved[r]
    BY <2>1 DEF RoomInv, Loads
  <2>4. Loads'
    BY <1>2, <2>1, <2>2 DEF RoomInv, Loads
  <2>5. Resolved'
    BY <1>1, <1>3, <2>1, <2>2 DEF RoomInv, Resolved
  <2>6. ids' \subseteq Rooms /\ \A q \in ids' : \A x \in mem'[q] : x \in saved[q] \/ (q \in ids /\ x \in mem[q])
    BY <1>3, <2>1, <2>3
  <2> QED
    BY <1>1, <1>2, <1>3, <1>4, <1>5, <2>1, <2>2, <2>4, <2>5, <2>6, RoomsOnly
<1>7. CASE LoaderQueries(r)
  <2> DEFINE found == {u \in Updates : rows[r][u.elem] = u.stamp}
  <2>1. /\ UNCHANGED <<mem, ids>> /\ load[r].at = "query"
        /\ \/ load' = [load EXCEPT ![r] = NoLoad]
           \/ load' = [load EXCEPT ![r] = [at |-> "replace", found |-> found]]
    BY <1>7 DEF LoaderQueries
  <2>2. found \subseteq saved[r] /\ found \subseteq Updates
    BY DEF RoomInv, RowsSaved
  <2> HIDE DEF found
  <2>3. load' \in [Rooms -> Loaders] /\ load'[r].found \subseteq saved[r]
        /\ load'[r].at # "resolve" /\ \A q \in Rooms \ {r} : load'[q] = load[q]
    BY <1>3, <2>1, <2>2 DEF Loaders, NoLoad
  <2>4. Loads'
    BY <1>2, <2>1, <2>3 DEF RoomInv, Loads
  <2>5. Resolved'
    BY <1>1, <1>3, <2>1, <2>3 DEF RoomInv, Resolved
  <2> QED
    BY <1>1, <1>2, <1>3, <1>4, <1>5, <2>1, <2>3, <2>4, <2>5, RoomsOnly
<1>8. CASE LoaderReplaces(r)
  <2>1. /\ UNCHANGED ids /\ load[r].at = "replace" /\ mem' = [mem EXCEPT ![r] = load[r].found]
        /\ load' = [load EXCEPT ![r] = NoLoad]
    BY <1>8 DEF LoaderReplaces
  <2>2. load[r].found \subseteq saved[r] /\ load[r].found \subseteq Updates
    BY <1>3 DEF RoomInv, Loads, Loaders
  <2>3. load' \in [Rooms -> Loaders] /\ load'[r] = NoLoad /\ \A q \in Rooms \ {r} : load'[q] = load[q]
    BY <1>3, <2>1
  <2>4. mem' \in [Rooms -> SUBSET Updates] /\ mem'[r] \subseteq saved[r]
        /\ \A q \in Rooms \ {r} : mem'[q] = mem[q]
    BY <1>3, <2>1, <2>2
  <2>5. Loads'
    BY <1>2, <2>3, <2>4 DEF RoomInv, Loads, NoLoad
  <2>6. Resolved'
    BY <1>1, <1>3, <2>1, <2>3 DEF RoomInv, Resolved, NoLoad
  <2>7. \A q \in ids : \A x \in mem'[q] : x \in saved[q] \/ x \in mem[q]
    BY <1>3, <2>4
  <2> QED
    BY <1>1, <1>2, <1>3, <1>4, <1>5, <2>1, <2>3, <2>4, <2>5, <2>6, <2>7, RoomsOnly
<1> QED
  BY <1>6, <1>7, <1>8 DEF Loader

\* A room that is evicted has no members and no handlers.
LEMMA CleanupKeeps ==
  ASSUME RoomInv, NEW r \in Rooms, Cleanup(r)
  PROVE  RoomInv'
<1>1. /\ live' = live \ {r} /\ ids' = ids \ {r} /\ mem' = [mem EXCEPT ![r] = {}]
      /\ UNCHANGED <<members, load, op, snapped>>
      /\ UNCHANGED <<pending, batch, deletions, rows, phase, clock, stops, accepted, saved, deleted>>
      /\ members[r] = {} /\ \A c \in Conns : Busy(c) => op[c].room # r
      /\ SaveRoomSnapshot(r, mem[r]) \/ UNCHANGED snapshots
  BY DEF Cleanup
<1>2. mem \in [Rooms -> SUBSET Updates] /\ mem' \in [Rooms -> SUBSET Updates] /\ mem'[r] = {}
  BY <1>1 DEF RoomInv, Typing
<1>3. TypeOK'
  <2>1. snapshots' \subseteq [room : Rooms, elements : SUBSET Updates, stamp : 0..MaxStamp]
    BY <1>1, <1>2 DEF SaveRoomSnapshot, RoomInv, Typing, TypeOK
  <2> QED
    BY <1>1, <2>1 DEF RoomInv, Typing, TypeOK
<1>4. Members'
  BY <1>1 DEF RoomInv, Members, Busy
<1>5. Loads' /\ Resolved'
  BY <1>1, <1>2 DEF RoomInv, Loads, Resolved
<1>6. \A q \in ids' : \A x \in mem'[q] : q \in ids /\ x \in mem[q]
  BY <1>1, <1>2 DEF RoomInv, Typing
<1>7. \A c \in Conns : Editing(c) => load'[op[c].room].at = "done"
  BY <1>1 DEF RoomInv, Edits
<1> QED
  BY <1>1, <1>2, <1>3, <1>4, <1>5, <1>6, <1>7, RoomsOnly DEF RoomInv, Typing

\* StopPersistence makes copies, and stops the manager.
LEMMA ShutdownKeeps ==
  ASSUME PersistenceAssumption, RoomInv, SnapshotRooms \/ StopPersistence
  PROVE  RoomInv'
<1>1. CASE SnapshotRooms
  <2>1. snapshots' \subseteq [room : Rooms, elements : SUBSET Updates, stamp : 0..MaxStamp]
    BY <1>1 DEF SnapshotRooms, RoomInv, Typing, TypeOK
  <2>2. TypeOK'
    BY <1>1, <2>1 DEF SnapshotRooms, RoomInv, Typing, TypeOK
  <2>3. Members' /\ Loads' /\ Resolved'
    BY <1>1 DEF SnapshotRooms, RoomInv, Members, Loads, Resolved
  <2> QED
    BY <1>1, <2>2, <2>3, RoomsOnly DEF SnapshotRooms, RoomInv, Typing, Edits
<1>2. CASE StopPersistence
  <2>1. UNCHANGED <<rvars, rows, accepted, saved>> /\ Stop /\ UNCHANGED snapshots
    BY <1>2 DEF StopPersistence, Stop
  <2>2. TypeOK'
    BY <2>1, TypeStep DEF Next, RoomInv, Typing
  <2> QED
    BY <2>1, <2>2, RoomsKept DEF RoomInv, RowsSaved, SavedGrows
<1> QED
  BY <1>1, <1>2

\* A process that starts has no rooms.
LEMMA FreshRooms ==
  ASSUME PersistenceAssumption, TypeOK', RowsSaved', Reset
  PROVE  RoomInv'
<1>1. /\ live' = {} /\ ids' = {} /\ mem' = None /\ members' = None
      /\ load' = [r \in Rooms |-> NoLoad] /\ op' = [c \in Conns |-> NoOp]
  BY DEF Reset
<1>2. NoOp \in Handlers /\ NoOp.todo = <<>> /\ NoLoad \in Loaders
  BY PlainHandlers DEF NoOp, NoLoad, Loaders
<1>3. Typing'
  BY <1>1, <1>2 DEF Typing, None
<1>4. Members' /\ Edits'
  BY <1>1, <1>2 DEF Members, Edits, Editing, None
<1>5. Loads'
  BY <1>1 DEF Loads, NoLoad, None
<1>6. Backed' /\ Resolved'
  BY <1>1 DEF Backed, Resolved
<1> QED
  BY <1>3, <1>4, <1>5, <1>6 DEF RoomInv

\* A crash or a restart leaves the tables.
LEMMA RestartKeeps ==
  ASSUME PersistenceAssumption, RoomInv, Restart \/ Crash, Reset
  PROVE  RoomInv'
<1>1. TypeOK'
  BY TypeStep DEF Next, RoomInv, Typing
<1>2. RowsSaved'
  BY DEF Restart, Crash, FreshProcess, RoomInv, RowsSaved
<1> QED
  BY <1>1, <1>2, FreshRooms

-----------------------------------------------------------------------------

\* Every step keeps the invariant.
LEMMA RoomNextKeeps ==
  ASSUME PersistenceAssumption, RoomStoreAssumption, ~EditWhileLoading, RoomInv, [RoomNext]_vars
  PROVE  RoomInv'
<1>1. ASSUME NEW c \in Conns, Handler(c) PROVE RoomInv'
  BY <1>1, JoinKeeps, LeaveKeeps, ReceiveKeeps, LeaverFlushesKeeps, EditKeeps, ReadDBIDKeeps,
     QueuesKeeps, QueueDeletedKeeps DEF Handler
<1>2. CASE UNCHANGED vars
  <2>1. TypeOK' /\ RowsSaved' /\ SavedGrows
    BY <1>2 DEF vars, pvars, RoomInv, Typing, TypeOK, RowsSaved, SavedGrows
  <2> QED
    BY <1>2, <2>1, RoomsKept DEF vars, pvars
<1> QED
  BY <1>1, <1>2, LoaderKeeps, CleanupKeeps, BackgroundKeeps, ShutdownKeeps, RestartKeeps DEF RoomNext

\* There are no rooms at first, and no rows.
LEMMA RoomStarts ==
  ASSUME PersistenceAssumption, RoomInit
  PROVE  RoomInv
<1>1. NoOp \in Handlers /\ NoOp.todo = <<>> /\ NoLoad \in Loaders
  BY PlainHandlers DEF NoOp, NoLoad, Loaders
<1>2. /\ live = {} /\ ids = {} /\ mem = None /\ members = None
      /\ load = [r \in Rooms |-> NoLoad] /\ op = [c \in Conns |-> NoOp]
      /\ rows = [r \in Rooms |-> [e \in Elems |-> NoRow]]
  BY DEF RoomInit, Init
<1>3. Typing
  BY <1>1, <1>2, TypeInit DEF Typing, None, RoomInit
<1>4. Members /\ Edits
  BY <1>1, <1>2 DEF Members, Edits, Editing, None
<1>5. Loads
  BY <1>2 DEF Loads, NoLoad, None
<1>6. Backed /\ Resolved
  BY <1>2 DEF Backed, Resolved
<1>7. RowsSaved
  <2>1. \A u \in Updates : u.elem \in Elems /\ u.stamp # NoRow
    BY DEF Updates, Stamps, NoRow, PersistenceAssumption
  <2> QED
    BY <1>2, <2>1 DEF RowsSaved
<1> QED
  BY <1>3, <1>4, <1>5, <1>6, <1>7 DEF RoomInv

\* The invariant holds at all times.
LEMMA RoomInvariance ==
  ASSUME ~EditWhileLoading
  PROVE  RoomSpec => []RoomInv
<1>1. RoomInit => RoomInv
  BY RoomStarts, PersistenceAssumption
<1>2. RoomInv /\ [RoomNext]_vars => RoomInv'
  BY RoomNextKeeps, PersistenceAssumption, RoomStoreAssumption
<1> QED
  BY <1>1, <1>2, PTL DEF RoomSpec

\* Whatever fails, every element of a room that got its database id comes from
\* the database or has been handed to the queue once its handlers are done.
THEOREM KnownRoomsAreBacked ==
  ASSUME ~EditWhileLoading
  PROVE  RoomSpec => []KnownRoomIsBacked
<1>1. RoomInv => KnownRoomIsBacked
  BY DEF RoomInv, Backed, KnownRoomIsBacked, Handling, Owes, ToSet
<1> QED
  BY <1>1, RoomInvariance, PTL

\* When the database answers, a room without its id is being loaded and shows
\* what was saved.
LEMMA AllRoomsBacked ==
  ASSUME ~DbMayFail, RoomInv
  PROVE  MemoryIsBacked
<1>1. ASSUME NEW r \in live, ~Handling(r) PROVE mem[r] \subseteq accepted[r] \cup saved[r]
  <2>1. CASE r \in ids
    BY <1>1, <2>1 DEF RoomInv, Backed, Handling, Owes, ToSet
  <2>2. CASE r \notin ids
    BY <1>1, <2>2 DEF RoomInv, Resolved, Loads, Typing
  <2> QED
    BY <2>1, <2>2
<1> QED
  BY <1>1 DEF MemoryIsBacked

\* With a database that answers this holds of all rooms: an edit that a room
\* shows is never one that nothing will save (manager.go:132-158).
THEOREM MemoryIsAlwaysBacked ==
  ASSUME ~EditWhileLoading, ~DbMayFail
  PROVE  RoomSpec => []MemoryIsBacked
<1>1. RoomInv => MemoryIsBacked
  BY AllRoomsBacked
<1> QED
  BY <1>1, RoomInvariance, PTL

-----------------------------------------------------------------------------
(* The canvas requests. *)

\* No message deletes elements.  What is deleted after a save is not restored
\* by it, and SavedCanvasStays does not follow it.
NobodyDeletes == \A m \in Messages : m.deleted = {}

RequestType == [at : {"none", "save", "restore", "clear"}, room : Rooms \cup {NoRequest.room},
                elements : SUBSET Updates]

\* A request is about a room, and restores what was saved.
Requested ==
  /\ request \in [Workers -> RequestType]
  /\ \A w \in Workers :
       /\ request[w].at # "none" => request[w].room \in Rooms
       /\ request[w].at = "restore" => request[w].elements \subseteq saved[request[w].room]

\* The elements a room has rows for.
RowNames(r) == {e \in Elems : rows[r][e] # NoRow}

Loading(r) == load[r].at # "done"

\* Nobody has anything of the room that is still to be written.
Held(r) == pending[r] = <<>> /\ \A f \in Flushers : batch[f][r] = <<>>

\* A room that is not in memory shows nothing.
Away(r) == r \notin live => mem[r] = {} /\ ~Loading(r)

\* Nor does one that is being loaded, unless it was restored meanwhile, and its
\* loader has found what was saved for good.
Comes(r) ==
  Loading(r) =>
    /\ mem[r] = {} \/ kept[r] \subseteq Names(mem[r])
    /\ load[r].at = "replace" => kept[r] \subseteq Names(load[r].found)

\* What was saved for good is stored, shown once the room is loaded, and part of
\* every snapshot that will replace the rows.
Kept(r) ==
  /\ kept[r] \subseteq RowNames(r)
  /\ r \in live /\ ~Loading(r) => kept[r] \subseteq Names(mem[r])
  /\ \A s \in snapshots : s.room = r => kept[r] \subseteq Names(s.elements)

\* ... and of every copy that a save or a restore will write.
Copies(r) == \A w \in Workers : Copying(w, r) => kept[r] \subseteq Names(request[w].elements)

\* What has to be known of each room.
RoomKeeps(r) == Away(r) /\ Comes(r) /\ Kept(r) /\ Copies(r)

\* No request is about a room whose snapshot is still to be written.
Guarded == \A w \in Workers : request[w].at # "none" => \A s \in snapshots : s.room # request[w].room

KeptInv ==
  /\ kept \in [Rooms -> SUBSET Elems]
  /\ \A d \in deletions : d.ids = {}
  /\ Guarded
  /\ \A r \in Rooms : RoomKeeps(r)

-----------------------------------------------------------------------------
(* Tables and versions. *)

\* The tables after all rows of a room were replaced.
LEMMA ReplaceRows ==
  ASSUME PersistenceAssumption, TypeOK, RowsSaved, NEW r \in Rooms, NEW els \in SUBSET Updates,
         rows'  = [rows  EXCEPT ![r] = Replaced(els)],
         saved' = [saved EXCEPT ![r] = @ \cup els]
  PROVE  rows' \in [Rooms -> Table] /\ saved' \in [Rooms -> SUBSET Updates] /\ RowsSaved' /\ SavedGrows
<1>1. rows \in [Rooms -> Table] /\ saved \in [Rooms -> SUBSET Updates]
  BY DEF TypeOK
<1>2. Replaced(els) \in Table
  <2>1. ASSUME NEW e \in Elems, \E x \in els : x.elem = e
        PROVE  (CHOOSE x \in els : x.elem = e).stamp \in Stamps
    BY <2>1 DEF Updates
  <2> QED
    BY <2>1 DEF Replaced, Table
<1>3. SavedGrows
  BY <1>1 DEF SavedGrows
<1>4. ASSUME NEW q \in Rooms, NEW u \in Updates, rows'[q][u.elem] = u.stamp
      PROVE  u \in saved'[q]
  <2>1. CASE q = r
    <3>1. Replaced(els)[u.elem] = u.stamp
      BY <1>1, <1>4, <2>1
    <3>2. u \in els
      BY <3>1, ReplacedRows
    <3> QED
      BY <1>1, <2>1, <3>2
  <2>2. CASE q # r
    BY <1>1, <1>4, <2>2 DEF RowsSaved
  <2> QED
    BY <2>1, <2>2
<1> QED
  BY <1>1, <1>2, <1>3, <1>4 DEF RowsSaved

\* Nothing that was saved is forgotten.
LEMMA SavedNeverShrinks ==
  ASSUME RoomInv, RoomNext
  PROVE  SavedGrows
<1>1. saved \in [Rooms -> SUBSET Updates]
  BY DEF RoomInv, Typing, TypeOK
<1>2. CASE UNCHANGED saved
  BY <1>1, <1>2 DEF SavedGrows
<1>3. ASSUME NEW r, NEW us, saved' = [saved EXCEPT ![r] = @ \cup us] PROVE SavedGrows
  BY <1>1, <1>3 DEF SavedGrows
<1>4. ASSUME NEW c \in Conns, Handler(c) PROVE UNCHANGED saved
  <2>1. CASE LeaverFlushes(c)
    BY <2>1 DEF LeaverFlushes, FlushRoomTakes, pvars
  <2>2. CASE \/ \E r \in Rooms : Join(c, r) \/ Leave(c, r) \/ \E m \in Messages : Receive(c, r, m)
             \/ ReadDBID(c)
    BY <2>2 DEF Join, Leave, Receive, ReadDBID, pvars
  <2>3. CASE AddElements(c) \/ UpdateElements(c) \/ DeleteElements(c)
    BY <2>3 DEF AddElements, UpdateElements, DeleteElements, EditsMemory, pvars
  <2>4. CASE QueueAdded(c) \/ QueueUpdated(c) \/ QueueDeleted(c)
    BY <2>4 DEF QueueAdded, QueueUpdated, QueuesUpdates, QueueElementUpdates, QueueDeleted, QueueElementDeletion
  <2> QED
    BY <1>4, <2>1, <2>2, <2>3, <2>4 DEF Handler
<1>5. ASSUME NEW r \in Rooms, Loader(r) \/ Cleanup(r) PROVE UNCHANGED saved
  BY <1>5 DEF Loader, LoaderResolves, LoaderQueries, LoaderReplaces, Cleanup, pvars
<1>6. CASE Background
  <2>1. CASE TickerTakes \/ Exit \/ \E d \in deletions : RunDeletion(d)
    BY <1>2, <2>1 DEF TickerTakes, Exit, RunDeletion
  <2>2. CASE \E f \in Flushers, r \in Rooms : Save(f, r) \/ SaveFails(f, r)
    BY <1>2, <1>3, <2>2 DEF Save, SaveFails
  <2>3. CASE \E s \in snapshots : RunSnapshot(s)
    BY <1>2, <1>3, <2>3 DEF RunSnapshot
  <2> QED
    BY <1>6, <2>1, <2>2, <2>3 DEF Background
<1>7. CASE SnapshotRooms \/ StopPersistence \/ Restart \/ Crash
  BY <1>2, <1>7 DEF SnapshotRooms, StopPersistence, Stop, Restart, Crash, FreshProcess
<1> QED
  BY <1>2, <1>4, <1>5, <1>6, <1>7 DEF RoomNext

\* Next to the requests the rooms do what they did.
LEMMA RoomStepKeeps ==
  ASSUME PersistenceAssumption, RoomStoreAssumption, ~EditWhileLoading,
         RoomInv, Requested, RoomStep
  PROVE  RoomInv' /\ Requested'
<1>1. RoomInv' /\ SavedGrows
  BY RoomNextKeeps, SavedNeverShrinks DEF RoomStep
<1>2. NoRequest \in RequestType /\ NoRequest.at = "none"
  BY DEF NoRequest, RequestType
<1>3. request' = request \/ request' = [w \in Workers |-> NoRequest]
  BY DEF RoomStep
<1> QED
  BY <1>1, <1>2, <1>3 DEF Requested, SavedGrows

\* A request finds what is there, and restores what was saved.
LEMMA RequestKeeps ==
  ASSUME PersistenceAssumption, RoomInv, Requested, Request
  PROVE  RoomInv' /\ Requested'
<1>1. /\ TypeOK /\ live \subseteq Rooms /\ ids \subseteq Rooms /\ mem \in [Rooms -> SUBSET Updates]
      /\ members \in [Rooms -> SUBSET Conns] /\ load \in [Rooms -> Loaders]
      /\ saved \in [Rooms -> SUBSET Updates]
  BY DEF RoomInv, Typing, TypeOK
<1>2. NoRequest \in RequestType /\ NoRequest.at = "none"
  BY DEF NoRequest, RequestType
<1>3. ASSUME UNCHANGED vars PROVE RoomInv'
  <2>1. UNCHANGED <<rvars, accepted>> /\ TypeOK' /\ RowsSaved' /\ SavedGrows
    BY <1>3 DEF vars, pvars, RoomInv, Typing, TypeOK, RowsSaved, SavedGrows
  <2> QED
    BY <2>1, RoomsKept
<1>4. ASSUME NEW w \in Workers, NEW r \in Rooms, NEW stage \in {"save", "restore", "clear"},
             NEW els \in SUBSET Updates, Begin(w, r, stage, els),
             stage = "restore" => els \subseteq saved[r], UNCHANGED saved
      PROVE  Requested'
  <2>1. request' = [request EXCEPT ![w] = [at |-> stage, room |-> r, elements |-> els]]
    BY <1>4 DEF Begin
  <2>2. [at |-> stage, room |-> r, elements |-> els] \in RequestType
    BY DEF RequestType
  <2> QED
    BY <1>4, <2>1, <2>2 DEF Requested
<1>5. ASSUME NEW w \in Workers, Done(w), SavedGrows PROVE Requested'
  BY <1>2, <1>5 DEF Requested, Done, SavedGrows
<1>7. ASSUME NEW w \in Workers, NEW r \in Rooms, SaveCanvasReads(w, r) PROVE RoomInv' /\ Requested'
  <2>1. Begin(w, r, "save", mem[r]) /\ UNCHANGED vars /\ mem[r] \in SUBSET Updates
    BY <1>1, <1>7 DEF SaveCanvasReads
  <2> QED
    BY <1>3, <1>4, <2>1 DEF vars, pvars
<1>8. ASSUME NEW w \in Workers, NEW r \in Rooms, RestoreCanvasReads(w, r) PROVE RoomInv' /\ Requested'
  <2>1. Begin(w, r, "restore", Stored(r)) /\ UNCHANGED vars
    BY <1>8 DEF RestoreCanvasReads
  <2>2. Stored(r) \subseteq saved[r] /\ Stored(r) \in SUBSET Updates
    BY DEF Stored, RoomInv, RowsSaved
  <2> QED
    BY <1>3, <1>4, <2>1, <2>2 DEF vars, pvars
<1>9. ASSUME NEW w \in Workers, NEW r \in Rooms, ClearCanvasMemory(w, r) PROVE RoomInv' /\ Requested'
  <2>1. /\ Begin(w, r, "clear", {}) /\ mem' = [mem EXCEPT ![r] = {}]
        /\ UNCHANGED <<pvars, live, ids, members, load, op, snapped>>
    BY <1>9 DEF ClearCanvasMemory
  <2>2. mem' \in [Rooms -> SUBSET Updates] /\ mem'[r] = {} /\ \A q \in Rooms \ {r} : mem'[q] = mem[q]
    BY <1>1, <2>1
  <2>3. TypeOK' /\ UNCHANGED <<op, rows, accepted, saved>>
    BY <1>1, <2>1 DEF pvars, TypeOK
  <2>4. Members' /\ Loads' /\ Resolved'
    BY <2>1, <2>2, <2>3 DEF RoomInv, Members, Loads, Resolved
  <2>5. \A c \in Conns : Editing(c) => load'[op[c].room].at = "done"
    BY <2>1 DEF RoomInv, Edits
  <2>6. \A q \in ids' : \A x \in mem'[q] : q \in ids /\ x \in mem[q]
    BY <1>1, <2>1, <2>2
  <2>7. RoomInv'
    BY <1>1, <2>1, <2>2, <2>3, <2>4, <2>5, <2>6, RoomsOnly
  <2> QED
    BY <1>4, <2>1, <2>3, <2>7
<1>10. ASSUME NEW w \in Workers, SaveCanvasWrites(w) PROVE RoomInv' /\ Requested'
  <2> DEFINE r == request[w].room
             els == request[w].elements
  <2>1. /\ request[w].at = "save" /\ Done(w) /\ UNCHANGED rvars
        /\ UNCHANGED <<pending, batch, deletions, snapshots, phase, clock, stops, accepted, deleted>>
        /\ \/ UNCHANGED <<rows, saved>>
           \/ /\ rows'  = [rows  EXCEPT ![r] = Replaced(els)]
              /\ saved' = [saved EXCEPT ![r] = @ \cup els]
    BY <1>10 DEF SaveCanvasWrites, InRequest
  <2>2. r \in Rooms /\ els \in SUBSET Updates
    BY <2>1 DEF Requested, RequestType
  <2> HIDE DEF r, els
  <2>3. rows' \in [Rooms -> Table] /\ saved' \in [Rooms -> SUBSET Updates] /\ RowsSaved' /\ SavedGrows
    <3>1. CASE UNCHANGED <<rows, saved>>
      BY <1>1, <3>1 DEF RoomInv, RowsSaved, SavedGrows, TypeOK
    <3> QED
      BY <1>1, <2>1, <2>2, <3>1, ReplaceRows DEF RoomInv
  <2>4. TypeOK'
    BY <1>1, <2>1, <2>3 DEF TypeOK
  <2>5. RoomInv'
    BY <2>1, <2>3, <2>4, RoomsKept
  <2> QED
    BY <1>5, <2>1, <2>3, <2>5
<1>11. ASSUME NEW w \in Workers, RestoreCanvasReplaces(w) PROVE RoomInv' /\ Requested'
  <2> DEFINE r == request[w].room
             els == request[w].elements
  <2>1. /\ request[w].at = "restore" /\ Done(w) /\ live' = live \cup {r}
        /\ mem' = [mem EXCEPT ![r] = els]
        /\ r \in live => load' = load
        /\ r \notin live => load' = [load EXCEPT ![r] = [at |-> "resolve", found |-> {}]]
        /\ UNCHANGED <<pvars, ids, members, op, snapped>>
    BY <1>11 DEF RestoreCanvasReplaces, InRequest
  <2>2. r \in Rooms /\ els \in SUBSET Updates /\ els \subseteq saved[r]
    BY <2>1 DEF Requested, RequestType
  <2> HIDE DEF r, els
  <2>3. /\ mem' \in [Rooms -> SUBSET Updates] /\ mem'[r] \subseteq saved[r]
        /\ \A q \in Rooms \ {r} : mem'[q] = mem[q]
    BY <1>1, <2>1, <2>2
  <2>4. TypeOK' /\ UNCHANGED <<op, rows, accepted, saved>>
    BY <1>1, <2>1 DEF pvars, TypeOK
  <2>5. [at |-> "resolve", found |-> {}] \in Loaders
    BY DEF Loaders
  <2>6. load' \in [Rooms -> Loaders]
    BY <1>1, <2>1, <2>5
  <2>7. \A q \in Rooms : \/ q = r /\ r \notin live /\ load'[q] = [at |-> "resolve", found |-> {}]
                         \/ load'[q] = load[q] /\ (q \in live' => q \in live)
    BY <1>1, <2>1, <2>2
  <2>8. Members' /\ Loads' /\ Resolved'
    <3>1. Members'
      BY <2>1 DEF RoomInv, Members
    <3>2. Loads'
      BY <2>2, <2>3, <2>4, <2>7 DEF RoomInv, Loads
    <3>3. Resolved'
      BY <1>1, <2>1, <2>2, <2>7 DEF RoomInv, Resolved
    <3> QED
      BY <3>1, <3>2, <3>3
  <2>9. \A c \in Conns : Editing(c) => load'[op[c].room].at = "done"
    <3>1. \A c \in Conns : Editing(c) => op[c].room \in live /\ load[op[c].room].at = "done"
      BY DEF RoomInv, Edits, Members, Editing
    <3> QED
      BY <1>1, <2>7, <3>1
  <2>10. \A q \in ids' : \A x \in mem'[q] : x \in saved[q] \/ (q \in ids /\ x \in mem[q])
    BY <1>1, <2>1, <2>3
  <2>11. live' \subseteq Rooms
    BY <1>1, <2>1, <2>2
  <2>12. RoomInv'
    BY <1>1, <2>1, <2>3, <2>4, <2>6, <2>8, <2>9, <2>10, <2>11, RoomsOnly
  <2>13. SavedGrows
    BY <2>4 DEF SavedGrows
  <2> QED
    BY <1>5, <2>1, <2>12, <2>13
<1>12. ASSUME NEW w \in Workers, ClearCanvasDatabase(w) PROVE RoomInv' /\ Requested'
  <2>1. UNCHANGED vars /\ Done(w) /\ UNCHANGED saved
    BY <1>12 DEF ClearCanvasDatabase, vars, pvars
  <2> QED
    BY <1>3, <1>5, <2>1 DEF SavedGrows
<1> QED
  BY <1>7, <1>8, <1>9, <1>10, <1>11, <1>12 DEF Request

-----------------------------------------------------------------------------
(* The saved canvas. *)

\* A nonempty set of numbers has a least one.
LEMMA LeastOf ==
  ASSUME NEW T \in SUBSET Nat, T # {}
  PROVE  \E x \in T : \A y \in T : x <= y
<1> DEFINE R == {ss \in Nat \X Nat : ss[1] < ss[2]}
<1>1. IsWellFoundedOn(R, Nat)
  BY NatLessThanWellFounded, Zenon DEF OpToRel
<1>2. \A x, y \in Nat : x < y => <<x, y>> \in R
  OBVIOUS
<1> HIDE DEF R
<1>3. PICK x \in T : \A y \in T : ~(<<y, x>> \in R)
  BY <1>1, WFMin
<1>4. \A y \in T : ~(y < x)
  BY <1>2, <1>3
<1> QED
  BY <1>4, <1>3

\* Of every element one version is the latest.
LEMMA DeduplicatedNames ==
  ASSUME PersistenceAssumption, NEW S \in SUBSET Updates
  PROVE  Names(Deduplicated(S)) = Names(S)
<1>1. ASSUME NEW u \in S PROVE u.elem \in Names(Deduplicated(S))
  <2> DEFINE same == {x \in S : x.elem = u.elem}
             T == {MaxStamp - x.stamp : x \in same}
  <2>1. \A x \in S : x.stamp \in 1..MaxStamp
    BY DEF Updates, Stamps
  <2>2. T \in SUBSET Nat /\ T # {}
    BY <1>1, <2>1 DEF PersistenceAssumption
  <2>3. PICK t \in T : \A y \in T : t <= y
    BY <2>2, LeastOf
  <2>4. PICK x \in same : t = MaxStamp - x.stamp
    BY <2>3
  <2>5. ASSUME NEW y \in S, y.elem = x.elem PROVE y.stamp <= x.stamp
    <3>1. t <= MaxStamp - y.stamp
      BY <2>3, <2>4, <2>5
    <3>2. x.stamp \in Nat /\ y.stamp \in Nat
      BY <2>1, <2>4, <2>5
    <3> QED
      BY <2>4, <3>1, <3>2 DEF PersistenceAssumption
  <2>6. x \in Deduplicated(S)
    BY <2>4, <2>5 DEF Deduplicated
  <2> QED
    BY <2>4, <2>6 DEF Names
<1>2. Deduplicated(S) \subseteq S
  BY DEF Deduplicated
<1> QED
  BY <1>1, <1>2 DEF Names

\* A batch takes no row away.
LEMMA UpsertNames ==
  ASSUME PersistenceAssumption, NEW t \in Table, NEW s \in Seq(Updates), NEW e \in Elems, t[e] # NoRow
  PROVE  Upsert(t, s)[e] # NoRow
<1> DEFINE i == CHOOSE i \in DOMAIN s : LastWrite(s, i, e)
<1>1. CASE \E j \in DOMAIN s : LastWrite(s, j, e)
  <2>1. i \in DOMAIN s
    BY <1>1
  <2>2. s[i] \in Updates
    BY <2>1
  <2>3. s[i].stamp # NoRow
    BY <2>2 DEF Updates, Stamps, NoRow
  <2> QED
    BY <1>1, <2>3 DEF Upsert
<1>2. CASE ~\E j \in DOMAIN s : LastWrite(s, j, e)
  BY <1>2 DEF Upsert
<1> QED
  BY <1>1, <1>2

\* The rows after a snapshot are those of its elements.
LEMMA ReplacedNames ==
  ASSUME NEW els \in SUBSET Updates, NEW e \in Elems
  PROVE  Replaced(els)[e] # NoRow <=> e \in Names(els)
<1>1. CASE \E x \in els : x.elem = e
  <2>1. (CHOOSE x \in els : x.elem = e) \in els
    BY <1>1
  <2>2. (CHOOSE x \in els : x.elem = e).stamp # NoRow
    BY <2>1 DEF Updates, Stamps, NoRow
  <2> QED
    BY <1>1, <2>2 DEF Replaced, Names
<1>2. CASE ~\E x \in els : x.elem = e
  BY <1>2 DEF Replaced, Names
<1> QED
  BY <1>1, <1>2

\* What is read from the database has the names of its rows.
LEMMA StoredNames ==
  ASSUME TypeOK, NEW r \in Rooms
  PROVE  Names(Stored(r)) = RowNames(r)
<1>1. rows[r] \in [Elems -> Stamps \cup {NoRow}]
  BY DEF TypeOK, Table
<1>2. ASSUME NEW e \in RowNames(r) PROVE e \in Names(Stored(r))
  <2> DEFINE u == [elem |-> e, stamp |-> rows[r][e]]
  <2>1. u \in Updates /\ rows[r][u.elem] = u.stamp
    BY <1>1, <1>2 DEF RowNames, Updates
  <2>2. u \in Stored(r) /\ u.elem = e
    BY <2>1 DEF Stored
  <2> HIDE DEF u
  <2> QED
    BY <2>2 DEF Names
<1>3. ASSUME NEW u \in Stored(r) PROVE u.elem \in RowNames(r)
  BY <1>3 DEF Stored, RowNames, Updates, Stamps, NoRow
<1> QED
  BY <1>2, <1>3 DEF Names

\* Who takes the queue of a room that has none takes nothing.
LEMMA TakeHeld ==
  ASSUME TypeOK, NEW g \in Flushers, NEW R, Take(g, R), NEW r \in Rooms, Held(r)
  PROVE  Held(r)'
BY DEF TypeOK, Take, Held

\* What nobody touches stays as it is.
LEMMA UntouchedRoom ==
  ASSUME NEW r \in Rooms, RoomKeeps(r),
         rows'[r] = rows[r], mem'[r] = mem[r], load'[r] = load[r], kept'[r] = kept[r],
         r \in live' <=> r \in live,
         \A s \in snapshots' : s.room = r => s \in snapshots,
         \A w \in Workers : request'[w] = request[w] \/ request'[w].at = "none" \/ request'[w].room # r
  PROVE  RoomKeeps(r)'
<1>1. RowNames(r)' = RowNames(r)
  BY DEF RowNames
<1>2. Loading(r)' <=> Loading(r)
  BY DEF Loading
<1>3. Away(r)' /\ Kept(r)'
  BY <1>1, <1>2 DEF RoomKeeps, Away, Kept
<1>4. Comes(r)'
  BY <1>1, <1>2 DEF RoomKeeps, Comes
<1>5. Copies(r)'
  BY DEF RoomKeeps, Copies, Copying
<1> QED
  BY <1>3, <1>4, <1>5 DEF RoomKeeps

\* The rooms go on beside the requests, or lose them.
Beside ==
  /\ UNCHANGED kept
  /\ \A w \in Workers : request'[w] = request[w] \/ request'[w].at = "none"
  /\ Guarded'

\* What a step that leaves the rooms alone has to show.
LEMMA KeptBeside ==
  ASSUME KeptInv, Beside, \A d \in deletions' : d.ids = {}, \A r \in Rooms : RoomKeeps(r)'
  PROVE  KeptInv'
BY DEF KeptInv, Beside

\* The steps that leave a room alone, as far as it can be seen beside a request.
LEMMA UntouchedBeside ==
  ASSUME KeptInv, Beside, NEW r \in Rooms,
         rows'[r] = rows[r], mem'[r] = mem[r], load'[r] = load[r], r \in live' <=> r \in live,
         \A s \in snapshots' : s.room = r => s \in snapshots
  PROVE  RoomKeeps(r)'
<1>1. RoomKeeps(r)
  BY DEF KeptInv
<1> QED
  BY <1>1, UntouchedRoom DEF Beside

\* Nothing that was saved for good leaves the copies of the requests.
LEMMA CopiesBeside ==
  ASSUME KeptInv, Beside, NEW r \in Rooms
  PROVE  Copies(r)'
BY DEF KeptInv, Beside, RoomKeeps, Copies, Copying

\* A save adds rows to a room.
LEMMA SaveBeside ==
  ASSUME PersistenceAssumption, TypeOK, KeptInv, Beside, NEW f \in Flushers, NEW q \in Rooms, Save(f, q),
         UNCHANGED rvars
  PROVE  KeptInv'
<1>1. /\ rows' = [rows EXCEPT ![q] = Upsert(@, batch[f][q])]
      /\ UNCHANGED <<deletions, snapshots, live, mem, load, kept>>
  BY DEF Save, rvars, Beside
<1>2. /\ rows \in [Rooms -> Table] /\ batch \in [Flushers -> [Rooms -> Seq(Updates)]]
  BY DEF TypeOK
<1>3. RoomKeeps(q)
  BY DEF KeptInv
<1>4. RowNames(q) \subseteq RowNames(q)'
  <2>1. rows'[q] = Upsert(rows[q], batch[f][q]) /\ batch[f][q] \in Seq(Updates) /\ rows[q] \in Table
    BY <1>1, <1>2
  <2> QED
    BY <2>1, UpsertNames DEF RowNames
<1>5. RoomKeeps(q)'
  <2>1. Away(q)' /\ Comes(q)' /\ Kept(q)'
    BY <1>1, <1>3, <1>4 DEF RoomKeeps, Away, Comes, Kept, Loading
  <2> QED
    BY <2>1, CopiesBeside DEF RoomKeeps
<1>6. ASSUME NEW r \in Rooms, r # q PROVE RoomKeeps(r)'
  <2>1. rows'[r] = rows[r]
    BY <1>1, <1>2, <1>6
  <2> QED
    BY <1>1, <2>1, UntouchedBeside
<1> QED
  BY <1>1, <1>5, <1>6, KeptBeside DEF KeptInv

\* A snapshot replaces the rows by what the room shows, or showed when it was
\* evicted.
LEMMA SnapshotBeside ==
  ASSUME PersistenceAssumption, TypeOK, KeptInv, Beside, NEW s \in snapshots, RunSnapshot(s), UNCHANGED rvars
  PROVE  KeptInv'
<1> DEFINE q == s.room
<1>1. /\ snapshots' = snapshots \ {s} /\ UNCHANGED <<deletions, live, mem, load, kept>>
      /\ UNCHANGED rows \/ rows' = [rows EXCEPT ![q] = Replaced(s.elements)]
  BY DEF RunSnapshot, rvars, Beside
<1>2. rows \in [Rooms -> Table] /\ q \in Rooms /\ s.elements \in SUBSET Updates
  BY DEF TypeOK
<1>3. RoomKeeps(q) /\ kept[q] \subseteq Names(s.elements)
  BY <1>2 DEF KeptInv, RoomKeeps, Kept
<1> HIDE DEF q
<1>4. ASSUME NEW r \in Rooms, rows'[r] = rows[r] PROVE RoomKeeps(r)'
  BY <1>1, <1>4, UntouchedBeside
<1>5. ASSUME rows' = [rows EXCEPT ![q] = Replaced(s.elements)] PROVE RoomKeeps(q)'
  <2>1. RowNames(q)' = Names(s.elements)
    <3>1. rows'[q] = Replaced(s.elements)
      BY <1>2, <1>5
    <3>2. Names(s.elements) \subseteq Elems
      BY <1>2 DEF Names, Updates
    <3> QED
      BY <1>2, <3>1, <3>2, ReplacedNames DEF RowNames
  <2>2. Away(q)' /\ Comes(q)' /\ Kept(q)'
    BY <1>1, <1>3, <2>1 DEF RoomKeeps, Away, Comes, Kept, Loading
  <2> QED
    BY <1>2, <2>2, CopiesBeside DEF RoomKeeps
<1>6. ASSUME NEW r \in Rooms PROVE RoomKeeps(r)'
  <2>1. CASE rows'[r] = rows[r]
    BY <1>4, <2>1
  <2>2. CASE rows'[r] # rows[r]
    BY <1>1, <1>2, <1>5, <2>2
  <2> QED
    BY <2>1, <2>2
<1> QED
  BY <1>1, <1>6, KeptBeside DEF KeptInv

\* A step that leaves rooms and tables alone.
LEMMA NothingBeside ==
  ASSUME KeptInv, Beside, UNCHANGED <<rows, mem, load, live, snapshots>>,
         \A d \in deletions' : d.ids = {}
  PROVE  KeptInv'
<1>1. \A r \in Rooms : RoomKeeps(r)'
  BY UntouchedBeside
<1> QED
  BY <1>1, KeptBeside

\* The goroutines of the PersistenceManager.
LEMMA BackgroundBeside ==
  ASSUME PersistenceAssumption, ~DbMayFail, TypeOK, KeptInv, Beside, Background
  PROVE  KeptInv'
<1>1. UNCHANGED rvars
  BY DEF Background
<1>2. UNCHANGED <<live, mem, load>>
  BY <1>1 DEF rvars
<1>3. CASE TickerTakes \/ Exit
  <2>1. UNCHANGED <<deletions, snapshots, rows>>
    BY <1>3 DEF TickerTakes, Exit
  <2> QED
    BY <1>2, <2>1, NothingBeside DEF KeptInv
<1>4. ASSUME NEW f \in Flushers, NEW r \in Rooms, Save(f, r) \/ SaveFails(f, r) PROVE KeptInv'
  BY <1>1, <1>4, SaveBeside DEF SaveFails
<1>5. ASSUME NEW d \in deletions, RunDeletion(d) PROVE KeptInv'
  <2>1. rows' = [rows EXCEPT ![d.room] = Without(@, d.ids)] /\ deletions' \subseteq deletions
        /\ UNCHANGED snapshots
    BY <1>5 DEF RunDeletion
  <2>2. d.ids = {} /\ d.room \in Rooms /\ rows \in [Rooms -> [Elems -> Stamps \cup {NoRow}]]
    BY DEF KeptInv, TypeOK, Table
  <2>3. Without(rows[d.room], d.ids) = rows[d.room]
    BY <2>2 DEF Without
  <2>4. UNCHANGED rows
    BY <2>1, <2>2, <2>3
  <2> QED
    BY <1>2, <2>1, <2>4, NothingBeside DEF KeptInv
<1>6. ASSUME NEW s \in snapshots, RunSnapshot(s) PROVE KeptInv'
  BY <1>1, <1>6, SnapshotBeside
<1> QED
  BY <1>3, <1>4, <1>5, <1>6 DEF Background

\* A step in a loaded room, from which it takes no element.
LEMMA LoadedBeside ==
  ASSUME KeptInv, Beside, NEW q \in Rooms, q \in live, ~Loading(q),
         UNCHANGED <<rows, load, live, deletions, snapshots>>,
         Names(mem[q]) \subseteq Names(mem'[q]),
         \A r \in Rooms \ {q} : mem'[r] = mem[r]
  PROVE  KeptInv'
<1>1. RoomKeeps(q) /\ ~Loading(q)' /\ RowNames(q)' = RowNames(q)
  BY DEF KeptInv, Loading, RowNames
<1>2. Away(q)' /\ Comes(q)'
  BY <1>1 DEF Away, Comes
<1>3. Kept(q)'
  BY <1>1 DEF RoomKeeps, Kept, Beside
<1>4. \A r \in Rooms \ {q} : RoomKeeps(r)'
  BY UntouchedBeside
<1>5. RoomKeeps(q)'
  BY <1>2, <1>3, CopiesBeside DEF RoomKeeps
<1> QED
  BY <1>4, <1>5, KeptBeside DEF KeptInv

\* A join makes a room that is not there and shows nothing until it is loaded.
LEMMA JoinBeside ==
  ASSUME RoomInv, KeptInv, Beside, NEW c \in Conns, NEW r \in Rooms, Join(c, r)
  PROVE  KeptInv'
<1>1. /\ UNCHANGED pvars /\ live' = live \cup {r}
      /\ r \in live => UNCHANGED <<mem, load>>
      /\ r \notin live => /\ mem' = [mem EXCEPT ![r] = {}]
                         /\ load' = [load EXCEPT ![r] = [at |-> "resolve", found |-> {}]]
  BY DEF Join
<1>2. UNCHANGED <<rows, deletions, snapshots>>
  BY <1>1 DEF pvars
<1>3. mem \in [Rooms -> SUBSET Updates] /\ load \in [Rooms -> Loaders]
  BY DEF RoomInv, Typing
<1>4. ASSUME NEW q \in Rooms, q # r \/ r \in live PROVE RoomKeeps(q)'
  BY <1>1, <1>2, <1>3, <1>4, UntouchedBeside
<1>5. ASSUME r \notin live PROVE RoomKeeps(r)'
  <2>1. RoomKeeps(r)
    BY DEF KeptInv
  <2>2. mem'[r] = {} /\ load'[r].at = "resolve" /\ r \in live'
    BY <1>1, <1>3, <1>5
  <2>3. Away(r)' /\ Comes(r)'
    BY <2>2 DEF Away, Comes
  <2>4. Kept(r)'
    BY <1>1, <1>2, <2>1, <2>2 DEF RoomKeeps, Kept, RowNames, Loading, Beside
  <2> QED
    BY <2>3, <2>4, CopiesBeside DEF RoomKeeps
<1> QED
  BY <1>2, <1>4, <1>5, KeptBeside DEF KeptInv

\* Edits add to a loaded room, and queue what they added.
LEMMA EditBeside ==
  ASSUME PersistenceAssumption, RoomStoreAssumption, NobodyDeletes, RoomInv, KeptInv, Beside, NEW c \in Conns,
         \/ AddElements(c) \/ UpdateElements(c) \/ DeleteElements(c)
         \/ QueueAdded(c) \/ QueueUpdated(c) \/ QueueDeleted(c)
  PROVE  KeptInv'
<1> DEFINE q == op[c].room
           m == op[c].msg
<1>1. ASSUME NEW stage \in StageNames \ {"flush"}, At(c, stage)
      PROVE  q \in Rooms /\ q \in live /\ ~Loading(q) /\ m.deleted = {}
  BY <1>1, AtStage DEF Loading, NobodyDeletes
<1>2. mem \in [Rooms -> SUBSET Updates] /\ pending \in [Rooms -> Seq(Updates)]
  BY DEF RoomInv, Typing, TypeOK
<1>3. ASSUME NEW stage \in StageNames \ {"flush"}, NEW els, EditsMemory(c, stage, els),
             Names(mem[q]) \subseteq Names(els)
      PROVE  KeptInv'
  <2>1. At(c, stage) /\ mem' = [mem EXCEPT ![q] = els] /\ UNCHANGED <<pvars, live, load>>
    BY <1>3 DEF EditsMemory
  <2>2. UNCHANGED <<rows, pending, batch, deletions, snapshots>>
    BY <2>1 DEF pvars
  <2>3. q \in Rooms /\ q \in live /\ ~Loading(q)
    BY <1>1, <2>1
  <2> HIDE DEF q, m
  <2>4. mem'[q] = els /\ \A r \in Rooms \ {q} : mem'[r] = mem[r] /\ pending'[r] = pending[r]
    BY <1>2, <2>1, <2>2, <2>3
  <2> QED
    BY <1>3, <2>1, <2>2, <2>3, <2>4, LoadedBeside
<1>4. ASSUME NEW stage \in StageNames \ {"flush"}, NEW es, QueuesUpdates(c, stage, es)
      PROVE  KeptInv'
  <2>1. /\ At(c, stage) /\ UNCHANGED <<mem, live, load, rows, batch, deletions, snapshots>>
        /\ pending' = [pending EXCEPT ![q] = @ \o SetToSeq(Versions(es, op[c].stamp))]
    BY <1>4 DEF QueuesUpdates, QueueElementUpdates
  <2>2. q \in Rooms /\ q \in live /\ ~Loading(q)
    BY <1>1, <2>1
  <2> HIDE DEF q, m
  <2>3. \A r \in Rooms \ {q} : mem'[r] = mem[r] /\ pending'[r] = pending[r]
    BY <1>2, <2>1, <2>2
  <2> QED
    BY <2>1, <2>2, <2>3, LoadedBeside
<1>5. {"add", "update", "delete", "queueAdded", "queueUpdated", "queueDeleted"} \subseteq StageNames \ {"flush"}
  BY DEF StageNames
<1>6. CASE AddElements(c)
  <2>1. Names(mem[q]) \subseteq Names(mem[q] \cup Versions(m.added, op[c].stamp))
    BY DEF Names
  <2> QED
    BY <1>3, <1>5, <1>6, <2>1 DEF AddElements
<1>7. CASE UpdateElements(c)
  <2> DEFINE els == {x \in Deduplicated(mem[q]) : x.elem \notin m.updated} \cup Versions(m.updated, op[c].stamp)
  <2>1. At(c, "update") /\ EditsMemory(c, "update", els)
    BY <1>7 DEF UpdateElements, EditsMemory
  <2>2. mem[q] \in SUBSET Updates
    BY <1>1, <1>2, <1>5, <2>1
  <2>3. ASSUME NEW x \in Deduplicated(mem[q]) PROVE x.elem \in Names(els)
    <3>1. CASE x.elem \in m.updated
      <4> DEFINE v == [elem |-> x.elem, stamp |-> op[c].stamp]
      <4>1. v \in els /\ v.elem = x.elem
        BY <3>1 DEF Versions
      <4> HIDE DEF v, els
      <4> QED
        BY <4>1 DEF Names
    <3>2. CASE x.elem \notin m.updated
      BY <3>2 DEF Names
    <3> QED
      BY <3>1, <3>2
  <2>4. Names(Deduplicated(mem[q])) \subseteq Names(els)
    BY <2>3 DEF Names
  <2> HIDE DEF els
  <2>5. Names(mem[q]) \subseteq Names(els)
    BY <2>2, <2>4, DeduplicatedNames
  <2> QED
    BY <1>3, <1>5, <2>1, <2>5
<1>8. CASE DeleteElements(c)
  <2>1. At(c, "delete")
    BY <1>8 DEF DeleteElements, EditsMemory
  <2>2. {x \in mem[q] : x.elem \notin m.deleted} = mem[q]
    BY <1>1, <1>5, <2>1
  <2> QED
    BY <1>3, <1>5, <1>8, <2>2 DEF DeleteElements
<1>9. CASE QueueAdded(c) \/ QueueUpdated(c)
  BY <1>4, <1>5, <1>9 DEF QueueAdded, QueueUpdated
<1>10. CASE QueueDeleted(c)
  <2>1. /\ At(c, "queueDeleted") /\ UNCHANGED <<rows, mem, load, live, pending, batch, snapshots>>
        /\ deletions' = deletions \cup {[room |-> q, ids |-> m.deleted, stamp |-> op[c].stamp]}
    BY <1>10 DEF QueueDeleted, QueueElementDeletion
  <2>2. \A d \in deletions' : d.ids = {}
    BY <1>1, <1>5, <2>1 DEF KeptInv
  <2> QED
    BY <2>1, <2>2, NothingBeside
<1> QED
  BY <1>6, <1>7, <1>8, <1>9, <1>10

\* The handlers of the connections.
LEMMA HandlerBeside ==
  ASSUME PersistenceAssumption, RoomStoreAssumption, NobodyDeletes, RoomInv, KeptInv, Beside,
         NEW c \in Conns, Handler(c)
  PROVE  KeptInv'
<1>1. CASE \/ \E r \in Rooms : Leave(c, r) \/ \E m \in Messages : Receive(c, r, m)
           \/ ReadDBID(c)
  <2>1. UNCHANGED <<rows, mem, load, live, snapshots, deletions>>
    BY <1>1 DEF Leave, Receive, ReadDBID, pvars
  <2> QED
    BY <2>1, NothingBeside DEF KeptInv
<1>2. CASE LeaverFlushes(c)
  <2>1. UNCHANGED <<rows, mem, load, live, snapshots, deletions>>
    BY <1>2 DEF LeaverFlushes, FlushRoomTakes, pvars
  <2> QED
    BY <2>1, NothingBeside DEF KeptInv
<1> QED
  BY <1>1, <1>2, JoinBeside, EditBeside DEF Handler

\* The loader shows what is stored.
LEMMA LoaderBeside ==
  ASSUME ~DbMayFail, RoomInv, KeptInv, Beside, NEW q \in Rooms, Loader(q)
  PROVE  KeptInv'
<1>1. /\ UNCHANGED <<rows, live, snapshots, deletions>> /\ Loading(q)
  BY DEF Loader, LoaderResolves, LoaderQueries, LoaderReplaces, pvars, Loading
<1>2. mem \in [Rooms -> SUBSET Updates] /\ load \in [Rooms -> Loaders] /\ TypeOK
  BY DEF RoomInv, Typing
<1>3. /\ RoomKeeps(q) /\ q \in live /\ kept[q] \subseteq RowNames(q) /\ RowNames(q)' = RowNames(q)
  BY <1>1 DEF KeptInv, RoomKeeps, Away, Kept, RowNames
<1>4. ASSUME \A r \in Rooms \ {q} : mem'[r] = mem[r] /\ load'[r] = load[r], Comes(q)', Kept(q)'
      PROVE  KeptInv'
  <2>1. ASSUME NEW r \in Rooms, r # q PROVE RoomKeeps(r)'
    BY <1>1, <1>4, <2>1, UntouchedBeside
  <2>2. Away(q)'
    BY <1>1, <1>3 DEF Away
  <2> QED
    BY <1>1, <1>4, <2>1, <2>2, KeptBeside, CopiesBeside DEF KeptInv, RoomKeeps
\* ... once it is loaded ...
<1>5. ASSUME load'[q] = NoLoad, kept[q] \subseteq Names(mem'[q]),
             \A r \in Rooms \ {q} : mem'[r] = mem[r] /\ load'[r] = load[r]
      PROVE  KeptInv'
  <2>1. ~Loading(q)'
    BY <1>5 DEF Loading, NoLoad
  <2>2. Kept(q)' /\ Comes(q)'
    BY <1>1, <1>3, <1>5, <2>1 DEF RoomKeeps, Kept, Comes, Beside
  <2> QED
    BY <1>4, <1>5, <2>2
\* ... and on its way.
<1>6. ASSUME UNCHANGED mem, Loading(q)', load'[q].at = "replace" => kept[q] \subseteq Names(load'[q].found),
             \A r \in Rooms \ {q} : mem'[r] = mem[r] /\ load'[r] = load[r]
      PROVE  KeptInv'
  <2>1. Kept(q)' /\ Comes(q)'
    BY <1>1, <1>3, <1>6 DEF RoomKeeps, Kept, Comes, Beside
  <2> QED
    BY <1>4, <1>6, <2>1
<1>7. CASE LoaderResolves(q)
  <2>1. load' = [load EXCEPT ![q].at = "query"] /\ UNCHANGED mem
    BY <1>7 DEF LoaderResolves
  <2>2. load'[q].at = "query" /\ \A r \in Rooms \ {q} : mem'[r] = mem[r] /\ load'[r] = load[r]
    BY <1>2, <2>1 DEF Loaders
  <2> QED
    BY <1>6, <2>1, <2>2 DEF Loading
<1>8. CASE LoaderQueries(q)
  <2>1. UNCHANGED mem /\ load' = [load EXCEPT ![q] = IF Stored(q) = {} THEN NoLoad
                                                    ELSE [at |-> "replace", found |-> Stored(q)]]
    BY <1>8 DEF LoaderQueries, Stored
  <2>2. Names(Stored(q)) = RowNames(q)
    BY <1>2, StoredNames
  <2>3. \A r \in Rooms \ {q} : mem'[r] = mem[r] /\ load'[r] = load[r]
    BY <1>2, <2>1
  <2>4. CASE Stored(q) = {}
    <3>1. load'[q] = NoLoad /\ RowNames(q) = {}
      BY <1>2, <2>1, <2>2, <2>4 DEF Names
    <3> QED
      BY <1>3, <1>5, <2>3, <3>1
  <2>5. CASE Stored(q) # {}
    <3>1. load'[q] = [at |-> "replace", found |-> Stored(q)]
      BY <1>2, <2>1, <2>5
    <3>2. Loading(q)' /\ load'[q].found = Stored(q)
      BY <3>1 DEF Loading
    <3> QED
      BY <1>3, <1>6, <2>1, <2>2, <2>3, <3>2
  <2> QED
    BY <2>4, <2>5
<1>9. CASE LoaderReplaces(q)
  <2>1. /\ load[q].at = "replace" /\ mem' = [mem EXCEPT ![q] = load[q].found]
        /\ load' = [load EXCEPT ![q] = NoLoad]
    BY <1>9 DEF LoaderReplaces
  <2>2. /\ mem'[q] = load[q].found /\ load'[q] = NoLoad
        /\ \A r \in Rooms \ {q} : mem'[r] = mem[r] /\ load'[r] = load[r]
    BY <1>2, <2>1
  <2>3. kept[q] \subseteq Names(mem'[q])
    BY <1>1, <1>3, <2>1, <2>2 DEF RoomKeeps, Comes
  <2> QED
    BY <1>5, <2>2, <2>3
<1> QED
  BY <1>7, <1>8, <1>9 DEF Loader

\* A room is evicted with a snapshot of what it showed.
LEMMA CleanupBeside ==
  ASSUME ~DbMayFail, RoomInv, KeptInv, Beside, NEW q \in Rooms, Cleanup(q)
  PROVE  KeptInv'
<1>1. /\ q \in live /\ live' = live \ {q} /\ mem' = [mem EXCEPT ![q] = {}] /\ load[q] = NoLoad
      /\ UNCHANGED <<load, rows, deletions>>
      /\ IF q \in ids THEN SaveRoomSnapshot(q, mem[q]) ELSE UNCHANGED snapshots
  BY DEF Cleanup
<1>2. q \in ids
  BY <1>1 DEF RoomInv, Resolved, NoLoad
<1>3. snapshots' = snapshots \cup (IF mem[q] = {} THEN {} ELSE {[room |-> q, elements |-> mem[q], stamp |-> clock]})
  BY <1>1, <1>2 DEF SaveRoomSnapshot
<1>4. mem \in [Rooms -> SUBSET Updates]
  BY DEF RoomInv, Typing
<1>5. RoomKeeps(q) /\ ~Loading(q) /\ RowNames(q)' = RowNames(q)
  BY <1>1 DEF KeptInv, Loading, NoLoad, RowNames
<1>6. mem'[q] = {} /\ ~Loading(q)' /\ q \notin live'
  BY <1>1, <1>4, <1>5 DEF Loading
<1>7. kept[q] \subseteq Names(mem[q])
  BY <1>1, <1>5 DEF RoomKeeps, Kept
<1>8. RoomKeeps(q)'
  <2>1. Away(q)' /\ Comes(q)'
    BY <1>6 DEF Away, Comes
  <2>2. Kept(q)'
    <3>1. ASSUME NEW s \in snapshots', s.room = q PROVE kept[q] \subseteq Names(s.elements)
      <4>1. CASE s \in snapshots
        BY <1>5, <3>1, <4>1 DEF RoomKeeps, Kept
      <4>2. CASE s \notin snapshots
        BY <1>3, <1>7, <4>2
      <4> QED
        BY <4>1, <4>2
    <3> QED
      BY <1>5, <1>6, <3>1 DEF RoomKeeps, Kept, Beside
  <2> QED
    BY <2>1, <2>2, CopiesBeside DEF RoomKeeps
<1>9. ASSUME NEW r \in Rooms, r # q PROVE RoomKeeps(r)'
  <2>1. mem'[r] = mem[r] /\ (r \in live' <=> r \in live) /\ \A s \in snapshots' : s.room = r => s \in snapshots
    BY <1>1, <1>3, <1>4, <1>9
  <2> QED
    BY <1>1, <2>1, UntouchedBeside
<1> QED
  BY <1>1, <1>8, <1>9, KeptBeside DEF KeptInv

\* StopPersistence copies what the rooms show.
LEMMA ShutdownBeside ==
  ASSUME KeptInv, Beside, SnapshotRooms \/ StopPersistence
  PROVE  KeptInv'
<1>1. CASE StopPersistence
  <2>1. UNCHANGED <<deletions, snapshots, rows, live, mem, load>>
    BY <1>1 DEF StopPersistence, Stop, rvars
  <2> QED
    BY <2>1, NothingBeside DEF KeptInv
<1>2. CASE SnapshotRooms
  <2>1. /\ UNCHANGED <<rows, deletions, live, mem, load>>
        /\ snapshots' = snapshots \cup
             {[room |-> r, elements |-> mem[r], stamp |-> clock] : r \in {q \in live \cap ids : mem[q] # {}}}
    BY <1>2 DEF SnapshotRooms
  <2>2. ASSUME NEW r \in Rooms PROVE RoomKeeps(r)'
    <3>1. RoomKeeps(r) /\ RowNames(r)' = RowNames(r) /\ (Loading(r)' <=> Loading(r))
      BY <2>1 DEF KeptInv, RowNames, Loading
    <3>2. \A s \in snapshots' : s.room = r => s \in snapshots \/ (r \in live /\ mem[r] # {} /\ s.elements = mem[r])
      BY <2>1
    <3>3. r \in live /\ mem[r] # {} => kept[r] \subseteq Names(mem[r])
      BY <3>1 DEF RoomKeeps, Kept, Comes
    <3>4. Away(r)' /\ Comes(r)'
      BY <2>1, <3>1 DEF RoomKeeps, Away, Comes, Beside
    <3>5. Kept(r)'
      BY <2>1, <3>1, <3>2, <3>3 DEF RoomKeeps, Kept, Beside
    <3> QED
      BY <3>4, <3>5, CopiesBeside DEF RoomKeeps
  <2> QED
    BY <2>1, <2>2, KeptBeside DEF KeptInv
<1> QED
  BY <1>1, <1>2

\* A new process finds the rows.
LEMMA RestartBeside ==
  ASSUME KeptInv, UNCHANGED kept, \A w \in Workers : request'[w].at = "none", Restart \/ Crash, Reset
  PROVE  KeptInv'
<1>1. /\ deletions' = {} /\ snapshots' = {}
      /\ UNCHANGED rows /\ live' = {} /\ mem' = None /\ load' = [r \in Rooms |-> NoLoad]
  BY DEF Restart, Crash, FreshProcess, Reset
<1>2. ASSUME NEW r \in Rooms PROVE RoomKeeps(r)'
  <2>1. RoomKeeps(r) /\ RowNames(r)' = RowNames(r)
    BY <1>1 DEF KeptInv, RowNames
  <2>2. ~Loading(r)' /\ mem'[r] = {}
    BY <1>1 DEF Loading, NoLoad, None
  <2>3. Away(r)' /\ Comes(r)'
    BY <2>2 DEF Away, Comes
  <2>4. Kept(r)'
    BY <1>1, <2>1 DEF RoomKeeps, Kept
  <2>5. Copies(r)'
    BY DEF Copies, Copying
  <2> QED
    BY <2>3, <2>4, <2>5 DEF RoomKeeps
<1> QED
  BY <1>1, <1>2 DEF KeptInv, Guarded

\* What a canvas is saved from may change beside the requests.
LEMMA RoomStepKept ==
  ASSUME PersistenceAssumption, RoomStoreAssumption, NobodyDeletes, ~LateSnapshots, ~DbMayFail,
         RoomInv, KeptInv, RoomStep, SnapshotsFirst
  PROVE  KeptInv'
<1>1. RoomNext /\ UNCHANGED kept /\ request' = IF Restart \/ Crash THEN [w \in Workers |-> NoRequest] ELSE request
  BY DEF RoomStep
<1>2. NoRequest.at = "none" /\ TypeOK
  BY DEF NoRequest, RoomInv, Typing
<1>3. \A w \in Workers : request'[w] = request[w] \/ request'[w].at = "none"
  BY <1>1, <1>2
<1>4. Beside
  BY <1>1, <1>3 DEF Beside, Guarded, SnapshotsFirst
<1>5. CASE (Restart \/ Crash) /\ Reset
  <2>1. \A w \in Workers : request'[w].at = "none"
    BY <1>1, <1>2, <1>5
  <2> QED
    BY <1>1, <1>5, <2>1, RestartBeside
<1> QED
  BY <1>1, <1>2, <1>4, <1>5, HandlerBeside, LoaderBeside, CleanupBeside, BackgroundBeside, ShutdownBeside
     DEF RoomNext

\* What a request leaves as it was, of the rooms and of the other requests.
LEMMA RequestUntouched ==
  ASSUME RoomInv, KeptInv, NEW w \in Workers, NEW q \in Rooms, NEW r \in Rooms \ {q},
         UNCHANGED snapshots, rows'[r] = rows[r], mem'[r] = mem[r], load'[r] = load[r], kept'[r] = kept[r],
         r \in live' <=> r \in live, \A v \in Workers \ {w} : request'[v] = request[v],
         request'[w].at = "none" \/ request'[w].room = q
  PROVE  RoomKeeps(r)'
<1>1. RoomKeeps(r)
  BY DEF KeptInv
<1>2. \A v \in Workers : request'[v] = request[v] \/ request'[v].at = "none" \/ request'[v].room # r
  OBVIOUS
<1> QED
  BY <1>1, <1>2, UntouchedRoom

\* A save or a restore begins with a copy of what is there, a clear with
\* nothing; only the clear forgets.
LEMMA RequestBegins ==
  ASSUME RoomInv, Requested, KeptInv, Guarded', NEW w \in Workers, NEW r \in Rooms,
         SaveCanvasReads(w, r) \/ RestoreCanvasReads(w, r) \/ ClearCanvasMemory(w, r)
  PROVE  KeptInv'
<1>1. /\ mem \in [Rooms -> SUBSET Updates] /\ TypeOK /\ kept \in [Rooms -> SUBSET Elems]
      /\ RoomKeeps(r) /\ request \in [Workers -> RequestType]
  BY DEF RoomInv, Typing, KeptInv, Requested
<1>2. UNCHANGED <<rows, deletions, snapshots, live, load>>
  BY DEF SaveCanvasReads, RestoreCanvasReads, ClearCanvasMemory, Begin, vars, pvars, rvars
<1>3. RowNames(r)' = RowNames(r) /\ (Loading(r)' <=> Loading(r))
  BY <1>2 DEF RowNames, Loading
<1>4. ASSUME NEW stage, NEW els, Begin(w, r, stage, els)
      PROVE  request'[w] = [at |-> stage, room |-> r, elements |-> els]
             /\ \A v \in Workers \ {w} : request'[v] = request[v]
  BY <1>1, <1>4 DEF Begin
<1>5. ASSUME RoomKeeps(r)', kept' \in [Rooms -> SUBSET Elems],
             \A q \in Rooms \ {r} : mem'[q] = mem[q] /\ kept'[q] = kept[q],
             request'[w].room = r, \A v \in Workers \ {w} : request'[v] = request[v]
      PROVE  KeptInv'
  <2>1. ASSUME NEW q \in Rooms \ {r} PROVE RoomKeeps(q)'
    BY <1>2, <1>5, <2>1, RequestUntouched
  <2> QED
    BY <1>2, <1>5, <2>1 DEF KeptInv
<1>6. CASE SaveCanvasReads(w, r)
  <2>1. r \in live /\ Begin(w, r, "save", mem[r]) /\ UNCHANGED <<mem, kept>>
    BY <1>6 DEF SaveCanvasReads, vars, rvars
  <2>2. /\ request'[w] = [at |-> "save", room |-> r, elements |-> mem[r]]
        /\ \A v \in Workers \ {w} : request'[v] = request[v]
    BY <1>4, <2>1
  <2>3. Away(r)' /\ Comes(r)' /\ Kept(r)'
    BY <1>1, <1>2, <1>3, <2>1 DEF RoomKeeps, Away, Comes, Kept
  <2>4. mem[r] # {} => kept[r] \subseteq Names(mem[r])
    BY <1>1, <2>1 DEF RoomKeeps, Kept, Comes
  <2>5. Copies(r)'
    BY <1>1, <2>1, <2>2, <2>4 DEF RoomKeeps, Copies, Copying
  <2> QED
    BY <1>1, <1>5, <2>1, <2>2, <2>3, <2>5 DEF RoomKeeps
<1>7. CASE RestoreCanvasReads(w, r)
  <2>1. Begin(w, r, "restore", Stored(r)) /\ UNCHANGED <<mem, kept>>
    BY <1>7 DEF RestoreCanvasReads, vars, rvars
  <2>2. /\ request'[w] = [at |-> "restore", room |-> r, elements |-> Stored(r)]
        /\ \A v \in Workers \ {w} : request'[v] = request[v]
    BY <1>4, <2>1
  <2>3. Away(r)' /\ Comes(r)' /\ Kept(r)'
    BY <1>1, <1>2, <1>3, <2>1 DEF RoomKeeps, Away, Comes, Kept
  <2>4. Names(Stored(r)) = RowNames(r) /\ kept[r] \subseteq RowNames(r)
    BY <1>1, StoredNames DEF RoomKeeps, Kept
  <2>5. Copies(r)'
    BY <1>1, <2>1, <2>2, <2>4 DEF RoomKeeps, Copies, Copying
  <2> QED
    BY <1>1, <1>5, <2>1, <2>2, <2>3, <2>5 DEF RoomKeeps
<1>8. CASE ClearCanvasMemory(w, r)
  <2>1. Begin(w, r, "clear", {}) /\ mem' = [mem EXCEPT ![r] = {}] /\ kept' = [kept EXCEPT ![r] = {}]
    BY <1>8 DEF ClearCanvasMemory
  <2>2. /\ request'[w] = [at |-> "clear", room |-> r, elements |-> {}]
        /\ \A v \in Workers \ {w} : request'[v] = request[v]
    BY <1>4, <2>1
  <2>3. /\ mem'[r] = {} /\ kept'[r] = {} /\ kept' \in [Rooms -> SUBSET Elems]
        /\ \A q \in Rooms \ {r} : mem'[q] = mem[q] /\ kept'[q] = kept[q]
    BY <1>1, <2>1
  <2>4. Away(r)' /\ Comes(r)'
    BY <1>1, <1>2, <1>3, <2>3 DEF RoomKeeps, Away, Comes
  <2>5. Kept(r)' /\ Copies(r)'
    BY <2>3 DEF Kept, Copies
  <2> QED
    BY <1>5, <2>2, <2>3, <2>4, <2>5 DEF RoomKeeps
<1> QED
  BY <1>6, <1>7, <1>8

\* The rows become what the room shows, or showed when the save began; what
\* every other copy has, too, is saved for good.
LEMMA SaveWrites ==
  ASSUME PersistenceAssumption, RoomInv, Requested, KeptInv, NEW w \in Workers, SaveCanvasWrites(w),
         NEW q, q = request[w].room, NEW els, els = request[w].elements
  PROVE  KeptInv'
<1> DEFINE all == Names(els) \cap Everywhere(w, q)
<1>1. /\ request[w].at = "save" /\ Done(w)
      /\ UNCHANGED <<deletions, snapshots, live, mem, load>>
      /\ \/ UNCHANGED <<rows, kept>>
         \/ /\ els # {} /\ rows'  = [rows  EXCEPT ![q] = Replaced(els)]
            /\ \/ UNCHANGED kept
               \/ kept' = [kept  EXCEPT ![q] = @ \cup all]
  BY DEF SaveCanvasWrites, InRequest, rvars
<1>2. q \in Rooms /\ els \in SUBSET Updates /\ request \in [Workers -> RequestType]
  BY <1>1 DEF Requested, RequestType
<1>3. request'[w].at = "none" /\ \A v \in Workers \ {w} : request'[v] = request[v]
  BY <1>1, <1>2 DEF Done, NoRequest
<1>4. rows \in [Rooms -> Table] /\ kept \in [Rooms -> SUBSET Elems] /\ RoomKeeps(q)
  BY <1>2 DEF RoomInv, Typing, TypeOK, KeptInv
<1>5. \A s \in snapshots : s.room # q
  BY <1>1 DEF KeptInv, Guarded
<1>6. Guarded'
  BY <1>1, <1>3 DEF KeptInv, Guarded
<1>7. /\ all \subseteq Elems /\ all \subseteq Names(els)
      /\ q \in live => all \subseteq Names(mem[q])
      /\ load[q].at = "replace" => all \subseteq Names(load[q].found)
      /\ \A v \in Workers \ {w} : Copying(v, q) => all \subseteq Names(request[v].elements)
  BY DEF Everywhere
<1> HIDE DEF all
<1>8. ASSUME NEW r \in Rooms, rows'[r] = rows[r], kept'[r] = kept[r] PROVE RoomKeeps(r)'
  <2>1. \A v \in Workers : request'[v] = request[v] \/ request'[v].at = "none" \/ request'[v].room # r
    BY <1>3
  <2>2. RoomKeeps(r)
    BY DEF KeptInv
  <2> QED
    BY <1>1, <1>8, <2>1, <2>2, UntouchedRoom
<1>9. CASE UNCHANGED <<rows, kept>>
  BY <1>1, <1>6, <1>8, <1>9 DEF KeptInv
<1>10. CASE els # {} /\ rows'  = [rows  EXCEPT ![q] = Replaced(els)]
  <2>1. kept[q] \subseteq Names(els)
    BY <1>1, <1>4, <1>10 DEF RoomKeeps, Copies, Copying
  <2>2. RowNames(q)' = Names(els)
    <3>1. rows'[q] = Replaced(els)
      BY <1>2, <1>4, <1>10
    <3>2. Names(els) \subseteq Elems
      BY <1>2 DEF Names, Updates
    <3> QED
      BY <1>2, <3>1, <3>2, ReplacedNames DEF RowNames
  <2>3. /\ kept' \in [Rooms -> SUBSET Elems] /\ kept'[q] \subseteq kept[q] \cup all
        /\ \A r \in Rooms \ {q} : rows'[r] = rows[r] /\ kept'[r] = kept[r]
    BY <1>1, <1>2, <1>4, <1>7, <1>10
  <2>4. Away(q)'
    BY <1>1, <1>4 DEF RoomKeeps, Away, Loading
  <2>5. Loading(q) => q \in live
    BY <1>4 DEF RoomKeeps, Away
  <2>6. Comes(q)'
    <3>1. Loading(q) => /\ mem[q] = {} \/ kept'[q] \subseteq Names(mem[q])
                        /\ load[q].at = "replace" => kept'[q] \subseteq Names(load[q].found)
      BY <1>4, <1>7, <2>3, <2>5 DEF RoomKeeps, Comes
    <3> QED
      BY <1>1, <3>1 DEF Comes, Loading
  <2>7. Kept(q)'
    <3>1. kept'[q] \subseteq Names(els)
      BY <1>7, <2>1, <2>3
    <3>2. q \in live /\ ~Loading(q) => kept'[q] \subseteq Names(mem[q])
      BY <1>4, <1>7, <2>3 DEF RoomKeeps, Kept
    <3> QED
      BY <1>1, <1>5, <2>2, <3>1, <3>2 DEF Kept, Loading
  <2>8. Copies(q)'
    <3>1. ASSUME NEW v \in Workers, Copying(v, q)' PROVE kept'[q] \subseteq Names(request'[v].elements)
      <4>1. v # w /\ request'[v] = request[v] /\ Copying(v, q)
        BY <1>3, <3>1 DEF Copying
      <4>2. kept[q] \subseteq Names(request[v].elements)
        BY <1>4, <4>1 DEF RoomKeeps, Copies
      <4> QED
        BY <1>7, <2>3, <4>1, <4>2
    <3> QED
      BY <3>1 DEF Copies
  <2>9. RoomKeeps(q)'
    BY <2>4, <2>6, <2>7, <2>8 DEF RoomKeeps
  <2> QED
    BY <1>1, <1>6, <1>8, <2>3, <2>9 DEF KeptInv
<1> QED
  BY <1>1, <1>9, <1>10

\* The room shows what was stored, and is made if it is not there.
LEMMA RestoreReplaces ==
  ASSUME RoomInv, Requested, KeptInv, NEW w \in Workers, RestoreCanvasReplaces(w),
         NEW q, q = request[w].room, NEW els, els = request[w].elements
  PROVE  KeptInv'
<1>1. /\ request[w].at = "restore" /\ Done(w)
      /\ live' = live \cup {q} /\ mem' = [mem EXCEPT ![q] = els]
      /\ q \in live => load' = load
      /\ q \notin live => load' = [load EXCEPT ![q] = [at |-> "resolve", found |-> {}]]
      /\ UNCHANGED <<rows, deletions, snapshots, kept>>
  BY DEF RestoreCanvasReplaces, InRequest, pvars
<1>2. q \in Rooms /\ request \in [Workers -> RequestType]
  BY <1>1 DEF Requested
<1>3. request'[w].at = "none" /\ \A v \in Workers \ {w} : request'[v] = request[v]
  BY <1>1, <1>2 DEF Done, NoRequest
<1>4. /\ mem \in [Rooms -> SUBSET Updates] /\ load \in [Rooms -> Loaders] /\ RoomKeeps(q)
      /\ \A s \in snapshots : s.room # q
  BY <1>1, <1>2 DEF RoomInv, Typing, KeptInv, Guarded
<1>5. Guarded'
  BY <1>1, <1>3 DEF KeptInv, Guarded
<1>6. kept[q] \subseteq Names(els)
  BY <1>1, <1>4 DEF RoomKeeps, Copies, Copying
<1>7. mem'[q] = els /\ q \in live' /\ RowNames(q)' = RowNames(q)
  BY <1>1, <1>2, <1>4 DEF RowNames
<1>8. load'[q] = load[q] \/ load'[q].at = "resolve"
  BY <1>1, <1>2, <1>4
<1>9. Comes(q)' /\ Away(q)' /\ Kept(q)'
  BY <1>1, <1>4, <1>6, <1>7, <1>8 DEF RoomKeeps, Comes, Away, Kept, Loading
<1>10. Copies(q)'
  BY <1>1, <1>3, <1>4 DEF RoomKeeps, Copies, Copying
<1>11. ASSUME NEW r \in Rooms \ {q} PROVE RoomKeeps(r)'
  <2>1. mem'[r] = mem[r] /\ load'[r] = load[r] /\ (r \in live' <=> r \in live)
    BY <1>1, <1>4, <1>11
  <2> QED
    BY <1>1, <1>2, <1>3, <2>1, RequestUntouched
<1> QED
  BY <1>1, <1>5, <1>9, <1>10, <1>11 DEF KeptInv, RoomKeeps

\* A request, whatever it does.
LEMMA RequestKept ==
  ASSUME PersistenceAssumption, ~LateSnapshots, RoomInv, Requested, KeptInv, Request, SnapshotsFirst
  PROVE  KeptInv'
<1>1. Guarded'
  BY DEF Guarded, SnapshotsFirst
<1>2. PICK w \in Workers :
        \/ \E r \in Rooms : SaveCanvasReads(w, r) \/ RestoreCanvasReads(w, r) \/ ClearCanvasMemory(w, r)
        \/ SaveCanvasWrites(w) \/ RestoreCanvasReplaces(w) \/ ClearCanvasDatabase(w)
  BY DEF Request
<1>3. CASE ClearCanvasDatabase(w)
  <2>1. UNCHANGED <<rows, deletions, snapshots, live, mem, load, kept>> /\ Done(w)
    BY <1>3 DEF ClearCanvasDatabase, vars, pvars, rvars
  <2>2. \A v \in Workers : request'[v] = request[v] \/ request'[v].at = "none"
    BY <2>1 DEF Requested, Done, NoRequest
  <2>3. ASSUME NEW r \in Rooms PROVE RoomKeeps(r)'
    <3>1. RoomKeeps(r)
      BY DEF KeptInv
    <3> QED
      BY <2>1, <2>2, <3>1, UntouchedRoom
  <2> QED
    BY <1>1, <2>1, <2>3 DEF KeptInv
<1> QED
  BY <1>1, <1>2, <1>3, RequestBegins, SaveWrites, RestoreReplaces

\* The rooms and requests, at first and at every step.
LEMMA CanvasStarts ==
  ASSUME PersistenceAssumption, CanvasInit
  PROVE  RoomInv /\ Requested /\ KeptInv
<1>1. /\ RoomInit /\ request = [w \in Workers |-> NoRequest] /\ kept = None
  BY DEF CanvasInit
<1>2. NoRequest \in RequestType /\ NoRequest.at = "none"
  BY DEF NoRequest, RequestType
<1>3. RoomInv /\ Requested
  BY <1>1, <1>2, RoomStarts DEF Requested
<1>4. ASSUME NEW r \in Rooms PROVE RoomKeeps(r)
  <2>1. mem[r] = {} /\ ~Loading(r) /\ kept[r] = {}
    BY <1>1 DEF RoomInit, Init, None, Loading, NoLoad
  <2> QED
    BY <2>1 DEF RoomKeeps, Away, Comes, Kept, Copies
<1>5. KeptInv
  BY <1>1, <1>2, <1>4 DEF KeptInv, Guarded, RoomInit, Init, None
<1> QED
  BY <1>3, <1>5

\* No step, of a room or of a request, shows what nobody will save.
LEMMA CanvasBackedStep ==
  ASSUME PersistenceAssumption, RoomStoreAssumption, ~EditWhileLoading,
         RoomInv, Requested, [CanvasNext]_<<vars, cvars>>
  PROVE  RoomInv' /\ Requested'
<1>1. CASE UNCHANGED <<vars, cvars>>
  <2>1. [RoomNext]_vars /\ UNCHANGED <<request, saved>>
    BY <1>1 DEF vars, pvars, cvars
  <2> QED
    BY <2>1, RoomNextKeeps DEF Requested
<1> QED
  BY <1>1, RoomStepKeeps, RequestKeeps DEF CanvasNext

\* No step loses a saved element from a copy that will be written.
LEMMA CanvasKeptStep ==
  ASSUME PersistenceAssumption, RoomStoreAssumption, NobodyDeletes, ~LateSnapshots, ~DbMayFail,
         RoomInv, Requested, KeptInv, [CanvasNext]_<<vars, cvars>>
  PROVE  KeptInv'
<1>1. CASE UNCHANGED <<vars, cvars>>
  <2>1. UNCHANGED <<rows, deletions, snapshots, live, mem, load, kept, request>>
    BY <1>1 DEF vars, pvars, rvars, cvars
  <2>2. ASSUME NEW r \in Rooms PROVE RoomKeeps(r)'
    <3>1. RoomKeeps(r)
      BY DEF KeptInv
    <3> QED
      BY <2>1, <3>1, UntouchedRoom
  <2> QED
    BY <2>1, <2>2 DEF KeptInv, Guarded
<1> QED
  BY <1>1, RoomStepKept, RequestKept DEF CanvasNext

\* Saving, restoring and clearing canvases leaves no edit in a room that nothing
\* will save, however many requests are under way: a restored scene is one that
\* was saved, and what is drawn on a cleared one is queued as any edit is
\* (canvas_handlers.go:44-237).
THEOREM CanvasIsBacked ==
  ASSUME ~EditWhileLoading, ~DbMayFail
  PROVE  CanvasSpec => []MemoryIsBacked
<1>1. CanvasInit => RoomInv /\ Requested
  BY CanvasStarts, PersistenceAssumption
<1>2. RoomInv /\ Requested /\ [CanvasNext]_<<vars, cvars>> => RoomInv' /\ Requested'
  BY CanvasBackedStep, PersistenceAssumption, RoomStoreAssumption
<1>3. RoomInv => MemoryIsBacked
  BY AllRoomsBacked
<1> QED
  BY <1>1, <1>2, <1>3, PTL DEF CanvasSpec

\* A user who saved the canvas finds its elements in the database from then on,
\* whoever saves, restores, joins, leaves or draws meanwhile, in any number of
\* requests at once, some of which fail, through evictions, shutdowns and
\* restarts, until somebody clears the canvas; unless a save or a restore was
\* under way that had read an older canvas (canvas_handlers.go:44-200,
\* repository.go:175-230).
THEOREM SavedStays ==
  ASSUME ~EditWhileLoading, ~LateSnapshots, ~DbMayFail, NobodyDeletes
  PROVE  CanvasSpec => []SavedCanvasStays
<1> DEFINE Inv == RoomInv /\ Requested /\ KeptInv
<1>1. CanvasInit => Inv
  BY CanvasStarts, PersistenceAssumption
<1>2. Inv /\ [CanvasNext]_<<vars, cvars>> => Inv'
  BY CanvasBackedStep, CanvasKeptStep, PersistenceAssumption, RoomStoreAssumption
<1>3. Inv => SavedCanvasStays
  BY DEF KeptInv, RoomKeeps, Kept, RowNames, SavedCanvasStays
<1> HIDE DEF Inv
<1> QED
  BY <1>1, <1>2, <1>3, PTL DEF CanvasSpec

-----------------------------------------------------------------------------
(* The rooms before the first request. *)

\* Element e of room r has been deleted, or a handler is about to record it.
Gone(r, e) == e \in Elems /\ deleted[r][e] # 0

Going(c, r, e) ==
  /\ op[c].room = r
  /\ "queueDeleted" \in ToSet(op[c].todo)
  /\ e \in op[c].msg.deleted

\* Element e is where the users of room r expect it.
OnShow(r, e) == e \in Names(mem[r]) \/ Gone(r, e) \/ \E c \in Conns : Going(c, r, e)

\* All updates of S are of elements in es, or were deleted.
Covered(r, S, es) == \A u \in S : Gone(r, u.elem) \/ u.elem \in es

\* What the process has taken is located.  Of a room that is not there or is
\* being loaded nothing is on its way; a loaded one shows what is saved or on
\* its way; and what was saved is stored, found by a loader, and part of the
\* snapshot of a room that has gone.
RoomStays(r) ==
  /\ accepted[r] \subseteq Located(r)
  /\ r \notin live \/ Loading(r) => Held(r)
  /\ r \notin live => ~Loading(r)
  /\ Covered(r, saved[r], RowNames(r))
  /\ load[r].at = "replace" => Covered(r, saved[r], Names(load[r].found))
  /\ r \in live /\ ~Loading(r) => \A u \in Located(r) : OnShow(r, u.elem)
  /\ \A s \in snapshots : s.room = r => r \notin live /\ Covered(r, saved[r], Names(s.elements))

MemoryStageNames == {"add", "update", "delete"}

\* The stages that edit the room are done before the others.
MemoryFirst(todo) ==
  \A i, j \in 1..Len(todo) : i < j /\ todo[j] \in MemoryStageNames => todo[i] \in MemoryStageNames

\* A handler deletes from the room what it will record as deleted, and has put
\* into it what it is about to queue.
HandlerStays(c) ==
  Editing(c) =>
    /\ MemoryFirst(op[c].todo)
    /\ Followed(op[c].todo, "delete", "queueDeleted")
    /\ \A e \in op[c].msg.added : "add" \in ToSet(op[c].todo) \/ OnShow(op[c].room, e)
    /\ \A e \in op[c].msg.updated : "update" \in ToSet(op[c].todo) \/ OnShow(op[c].room, e)

StaysInv ==
  /\ phase = "running"
  /\ \A d \in deletions : \A e \in d.ids : Gone(d.room, e)
  /\ \A s, t \in snapshots : s.room = t.room => s = t
  /\ \A r \in Rooms : RoomStays(r)
  /\ \A c \in Conns : HandlerStays(c)

-----------------------------------------------------------------------------
(* Stages of a handler, and queues. *)

\* The lists of a message are put into the room before anything else happens.
LEMMA StagesInOrder ==
  ASSUME NEW m
  PROVE  /\ MemoryFirst(Stages(m))
         /\ Followed(Stages(m), "delete", "queueDeleted")
         /\ m.added # {} => "add" \in ToSet(Stages(m))
         /\ m.updated # {} => "update" \in ToSet(Stages(m))
<1>1. PICK s \in Seq(StageNames), t \in Seq(StageNames) :
        /\ Stages(m) = s \o t
        /\ ToSet(s) = (IF m.added = {} THEN {} ELSE {"add"})
                       \cup (IF m.updated = {} THEN {} ELSE {"update"})
                       \cup (IF m.deleted = {} THEN {} ELSE {"delete"})
        /\ ToSet(t) = {"dbid"} \cup (IF m.added = {} THEN {} ELSE {"queueAdded"})
                       \cup (IF m.updated = {} THEN {} ELSE {"queueUpdated"})
                       \cup (IF m.deleted = {} THEN {} ELSE {"queueDeleted"})
  BY StagesSplit
<1>2. ToSet(Stages(m)) = ToSet(s) \cup ToSet(t)
  BY <1>1, StagesConcat
<1>3. Followed(s \o t, "delete", "queueDeleted")
  BY <1>1, FollowedConcat
<1>4. ToSet(s) \subseteq MemoryStageNames /\ ToSet(t) \cap MemoryStageNames = {}
  BY <1>1 DEF MemoryStageNames
<1>5. ASSUME NEW i \in 1..Len(s \o t), NEW j \in 1..Len(s \o t), i < j, (s \o t)[j] \in MemoryStageNames
      PROVE  (s \o t)[i] \in MemoryStageNames
  <2>1. j <= Len(s)
    <3>1. CASE j > Len(s)
      <4>1. j - Len(s) \in 1..Len(t) /\ t[j - Len(s)] = (s \o t)[j]
        BY <3>1
      <4>2. (s \o t)[j] \in ToSet(t)
        BY <4>1 DEF ToSet
      <4> QED
        BY <1>4, <1>5, <4>2
    <3> QED
      BY <3>1
  <2>2. i \in 1..Len(s) /\ (s \o t)[i] = s[i]
    BY <1>5, <2>1
  <2>3. s[i] \in ToSet(s)
    BY <2>2 DEF ToSet
  <2> QED
    BY <1>4, <2>2, <2>3
<1>6. MemoryFirst(s \o t)
  BY <1>5 DEF MemoryFirst
<1> QED
  BY <1>1, <1>2, <1>3, <1>6

\* They stay in this order, and once another stage is reached they are done.
LEMMA TailMemoryFirst ==
  ASSUME NEW s \in Seq(StageNames), s # <<>>, MemoryFirst(s)
  PROVE  /\ MemoryFirst(Tail(s))
         /\ Head(s) \notin MemoryStageNames => ToSet(s) \cap MemoryStageNames = {}
<1>1. Head(s) = s[1] /\ 1 \in 1..Len(s)
  OBVIOUS
<1>2. ASSUME Head(s) \notin MemoryStageNames PROVE ToSet(s) \cap MemoryStageNames = {}
  <2>1. \A j \in 1..Len(s) : s[j] \notin MemoryStageNames
    BY <1>1, <1>2 DEF MemoryFirst
  <2> QED
    BY <2>1 DEF ToSet
<1> DEFINE t == Tail(s)
<1>3. Len(t) = Len(s) - 1 /\ \A i \in 1..Len(t) : i + 1 \in 1..Len(s) /\ t[i] = s[i + 1]
  OBVIOUS
<1> HIDE DEF t
<1>4. ASSUME NEW i \in 1..Len(t), NEW j \in 1..Len(t), i < j, t[j] \in MemoryStageNames
      PROVE  t[i] \in MemoryStageNames
  <2>1. i + 1 \in 1..Len(s) /\ j + 1 \in 1..Len(s) /\ t[i] = s[i + 1] /\ t[j] = s[j + 1]
    BY <1>3
  <2>2. i + 1 < j + 1
    BY <1>4
  <2> QED
    BY <1>4, <2>1, <2>2 DEF MemoryFirst
<1>5. MemoryFirst(t)
  BY <1>4 DEF MemoryFirst
<1> QED
  BY <1>2, <1>5 DEF t

\* Who swaps takes nothing that was not there.
LEMMA TakeAdds ==
  ASSUME TypeOK, NEW f \in Flushers, NEW R, Take(f, R), UNCHANGED saved, NEW r \in Rooms
  PROVE  Located(r)' \subseteq Located(r)
<1>1. /\ \A g \in Flushers : batch'[g][r] = batch[g][r] \/ batch'[g][r] = pending[r]
      /\ pending'[r] = <<>> \/ pending'[r] = pending[r]
  BY DEF Take, TypeOK
<1>2. InFlight(r)' \subseteq InFlight(r) \cup ToSet(pending[r])
  BY <1>1 DEF InFlight
<1>3. ToSet(pending[r])' \subseteq ToSet(pending[r])
  BY <1>1, ToSetEmpty
<1> QED
  BY <1>2, <1>3 DEF Located

\* A batch writes every element it has an update of.
LEMMA UpsertWrites ==
  ASSUME NEW t \in Table, NEW s \in Seq(Updates), NEW u \in ToSet(s)
  PROVE  u.elem \in Elems /\ Upsert(t, s)[u.elem] # NoRow
<1>1. PICK i \in 1..Len(s) : s[i] = u
  BY DEF ToSet
<1>0. u \in Updates
  BY <1>1
<1>2. u \in Updates /\ u.elem \in Elems
  BY <1>0 DEF Updates
<1>3. PICK j \in 1..Len(s) : LastWrite(s, j, u.elem)
  BY <1>1, LastWriteExists
<1> DEFINE k == CHOOSE k \in DOMAIN s : LastWrite(s, k, u.elem)
<1>4. \E n \in DOMAIN s : LastWrite(s, n, u.elem)
  BY <1>3
<1>5. k \in DOMAIN s
  BY <1>4
<1>6. Upsert(t, s)[u.elem] = s[k].stamp
  BY <1>2, <1>4 DEF Upsert
<1> HIDE DEF k
<1>7. s[k] \in Updates
  BY <1>5
<1> QED
  BY <1>2, <1>6, <1>7 DEF Updates, Stamps, NoRow

-----------------------------------------------------------------------------
(* Steps. *)

\* With nothing on its way, all that a room has was saved.
LEMMA HeldLocated ==
  ASSUME NEW r \in Rooms, Held(r)
  PROVE  Located(r) = saved[r]
BY ToSetEmpty DEF Held, Located, InFlight

\* An element that stays in the room, or is deleted, is still shown.
LEMMA ShownSame ==
  ASSUME NEW r, mem'[r] = mem[r], deleted'[r] = deleted[r], UNCHANGED op
  PROVE  \A e : OnShow(r, e) => OnShow(r, e)'
BY DEF OnShow, Gone, Going

\* A handler that does nothing now.
LEMMA HandlerSame ==
  ASSUME NEW c \in Conns, HandlerStays(c), op'[c] = op[c],
         Editing(c) => \A e : OnShow(op[c].room, e) => OnShow(op[c].room, e)'
  PROVE  HandlerStays(c)'
<1>1. Editing(c)' <=> Editing(c)
  BY DEF Editing
<1>2. MemoryFirst(op[c].todo)' <=> MemoryFirst(op[c].todo)
  BY DEF MemoryFirst
<1>3. Followed(op[c].todo, "delete", "queueDeleted")' <=> Followed(op[c].todo, "delete", "queueDeleted")
  BY DEF Followed
<1> QED
  BY <1>1, <1>2, <1>3 DEF HandlerStays

\* A room of which no more is saved or shown.
LEMMA RoomSame ==
  ASSUME NEW r \in Rooms, RoomStays(r),
         accepted'[r] \subseteq Located(r)', Located(r)' \subseteq Located(r),
         saved'[r] = saved[r], RowNames(r)' = RowNames(r), load'[r] = load[r], r \in live' <=> r \in live,
         Held(r) => Held(r)',
         \A e : Gone(r, e) => Gone(r, e)',
         \A e : OnShow(r, e) => OnShow(r, e)',
         \A s \in snapshots' : s.room = r => s \in snapshots
  PROVE  RoomStays(r)'
<1>1. Loading(r)' <=> Loading(r)
  BY DEF Loading
<1>2. \A S, T : Covered(r, S, T) => \A u \in S : Gone(r, u.elem)' \/ u.elem \in T
  BY DEF Covered
<1>3. Covered(r, saved[r], RowNames(r))'
  BY <1>2 DEF RoomStays, Covered
<1>4. load'[r].at = "replace" => Covered(r, saved[r], Names(load[r].found))'
  BY <1>2 DEF RoomStays, Covered
<1>5. \A s \in snapshots' : s.room = r => r \notin live' /\ Covered(r, saved[r], Names(s.elements))'
  BY <1>2 DEF RoomStays, Covered
<1> QED
  BY <1>1, <1>3, <1>4, <1>5 DEF RoomStays

\* A save writes what is on its way for a loaded room.
LEMMA SaveStays ==
  ASSUME PersistenceAssumption, TypeOK, StaysInv, NEW f \in Flushers, NEW q \in Rooms, Save(f, q),
         UNCHANGED rvars
  PROVE  StaysInv'
<1>1. /\ rows' = [rows EXCEPT ![q] = Upsert(@, batch[f][q])]
      /\ saved' = [saved EXCEPT ![q] = @ \cup ToSet(batch[f][q])]
      /\ batch' = [batch EXCEPT ![f][q] = <<>>] /\ batch[f][q] # <<>>
      /\ UNCHANGED <<pending, deletions, snapshots, phase, live, mem, load, op, accepted, deleted>>
  BY DEF Save, rvars
<1>2. /\ rows \in [Rooms -> Table] /\ batch \in [Flushers -> [Rooms -> Seq(Updates)]]
      /\ saved \in [Rooms -> SUBSET Updates]
  BY DEF TypeOK
<1>3. \A r \in Rooms : \A e : (Gone(r, e) <=> Gone(r, e)') /\ (OnShow(r, e) <=> OnShow(r, e)')
  BY <1>1 DEF OnShow, Gone, Going
<1>4. RoomStays(q) /\ ~Held(q)
  BY <1>1 DEF StaysInv, Held
<1>5. q \in live /\ ~Loading(q)
  BY <1>4 DEF RoomStays
<1>6. saved'[q] = saved[q] \cup ToSet(batch[f][q]) /\ \A r \in Rooms \ {q} : saved'[r] = saved[r]
  BY <1>1, <1>2
<1>7. \A g \in Flushers, r \in Rooms : batch'[g][r] = batch[g][r] \/ (g = f /\ r = q /\ batch'[g][r] = <<>>)
  BY <1>1, <1>2
<1>8. ASSUME NEW r \in Rooms PROVE Located(r) \subseteq Located(r)'
  <2>1. saved[r] \subseteq saved'[r] /\ ToSet(pending'[r]) = ToSet(pending[r])
    BY <1>1, <1>6
  <2> QED
    BY <1>1, <1>6, <2>1, ReleaseKeeps
<1>9. ASSUME NEW r \in Rooms PROVE Located(r)' \subseteq Located(r)
  <2>1. InFlight(r)' \subseteq InFlight(r)
    BY <1>7, ToSetEmpty DEF InFlight
  <2>2. saved'[r] \subseteq Located(r)
    BY <1>6 DEF Located, InFlight
  <2> QED
    BY <1>1, <2>1, <2>2 DEF Located
<1>10. RoomStays(q)'
  <2>1. ~Loading(q)' /\ q \in live'
    BY <1>1, <1>5 DEF Loading
  <2>2. accepted'[q] \subseteq Located(q)'
    BY <1>1, <1>4, <1>8 DEF RoomStays
  <2>3. Covered(q, saved[q], RowNames(q)) /\ \A s \in snapshots : s.room # q
    BY <1>4, <1>5 DEF RoomStays
  <2>4. rows'[q] = Upsert(rows[q], batch[f][q]) /\ batch[f][q] \in Seq(Updates) /\ rows[q] \in Table
    BY <1>1, <1>2
  <2>5. RowNames(q) \subseteq RowNames(q)'
    BY <2>4, UpsertNames DEF RowNames
  <2>6. \A u \in ToSet(batch[f][q]) : u.elem \in RowNames(q)'
    BY <2>4, UpsertWrites DEF RowNames
  <2>7. Covered(q, saved[q], RowNames(q))'
    BY <1>3, <1>6, <2>3, <2>5, <2>6 DEF Covered
  <2>8. \A u \in Located(q)' : OnShow(q, u.elem)'
    BY <1>3, <1>4, <1>5, <1>9 DEF RoomStays
  <2> QED
    BY <1>1, <2>1, <2>2, <2>3, <2>7, <2>8 DEF RoomStays, Loading
<1>11. ASSUME NEW r \in Rooms, r # q PROVE RoomStays(r)'
  <2>1. RoomStays(r) /\ accepted'[r] \subseteq Located(r)'
    BY <1>1, <1>8 DEF StaysInv, RoomStays
  <2>2. RowNames(r)' = RowNames(r)
    BY <1>1, <1>2, <1>11 DEF RowNames
  <2>3. Held(r) => Held(r)'
    BY <1>1, <1>7, <1>11 DEF Held
  <2> QED
    BY <1>1, <1>3, <1>6, <1>9, <1>11, <2>1, <2>2, <2>3, RoomSame
<1>12. ASSUME NEW c \in Conns PROVE HandlerStays(c)'
  <2>1. HandlerStays(c) /\ op'[c] = op[c]
    BY <1>1 DEF StaysInv
  <2>2. \A e : OnShow(op[c].room, e) => OnShow(op[c].room, e)'
    BY <1>1, ShownSame
  <2> QED
    BY <2>1, <2>2, HandlerSame
<1>13. \A d \in deletions' : \A e \in d.ids : Gone(d.room, e)'
  BY <1>1 DEF StaysInv, Gone
<1> QED
  BY <1>1, <1>10, <1>11, <1>12, <1>13 DEF StaysInv

\* A snapshot replaces the rows by what the room showed when it was evicted.
LEMMA SnapshotStays ==
  ASSUME PersistenceAssumption, TypeOK, ~DbMayFail, StaysInv, NEW s \in snapshots, RunSnapshot(s),
         UNCHANGED rvars, NEW q, q = s.room
  PROVE  StaysInv'
<1>1. /\ snapshots' = snapshots \ {s}
      /\ \/ /\ rows'  = [rows  EXCEPT ![q] = Replaced(s.elements)]
            /\ saved' = [saved EXCEPT ![q] = @ \cup s.elements]
         \/ UNCHANGED <<rows, saved>>
      /\ UNCHANGED <<pending, batch, deletions, phase, live, mem, load, op, accepted, deleted>>
  BY DEF RunSnapshot, rvars
<1>2. /\ rows \in [Rooms -> Table] /\ saved \in [Rooms -> SUBSET Updates]
      /\ q \in Rooms /\ s.elements \in SUBSET Updates
  BY DEF TypeOK
<1>3. \A r \in Rooms : \A e : (Gone(r, e) <=> Gone(r, e)') /\ (OnShow(r, e) <=> OnShow(r, e)')
  BY <1>1 DEF OnShow, Gone, Going
<1>4. /\ RoomStays(q) /\ q \notin live /\ ~Loading(q) /\ Covered(q, saved[q], Names(s.elements))
      /\ \A t \in snapshots' : t.room # q
  BY <1>1, <1>2 DEF StaysInv, RoomStays
<1>5. \A r \in Rooms : saved[r] \subseteq saved'[r]
  BY <1>1, <1>2
<1>6. ASSUME NEW r \in Rooms
      PROVE  Located(r) \subseteq Located(r)' /\ (saved'[r] = saved[r] => Located(r)' = Located(r))
             /\ (Held(r)' <=> Held(r))
  BY <1>1, <1>5 DEF Located, InFlight, Held
<1>7. ASSUME NEW r \in Rooms, rows'[r] = rows[r], saved'[r] = saved[r] PROVE RoomStays(r)'
  <2>1. RoomStays(r) /\ accepted'[r] \subseteq Located(r)'
    BY <1>1, <1>6 DEF StaysInv, RoomStays
  <2>2. RowNames(r)' = RowNames(r)
    BY <1>7 DEF RowNames
  <2> QED
    BY <1>1, <1>3, <1>6, <1>7, <2>1, <2>2, RoomSame
<1>8. ASSUME UNCHANGED <<rows, saved>> PROVE \A r \in Rooms : RoomStays(r)'
  BY <1>7, <1>8
<1>9. ASSUME rows'  = [rows  EXCEPT ![q] = Replaced(s.elements)],
             saved' = [saved EXCEPT ![q] = @ \cup s.elements]
      PROVE  \A r \in Rooms : RoomStays(r)'
  <2>1. rows'[q] = Replaced(s.elements) /\ saved'[q] = saved[q] \cup s.elements
    BY <1>2, <1>9
  <2>2. \A u \in Updates : u.elem \in Elems
    BY DEF Updates
  <2>3. RowNames(q)' = Names(s.elements)
    BY <1>2, <2>1, <2>2, ReplacedNames DEF RowNames, Names
  <2>4. Covered(q, saved[q], RowNames(q))'
    BY <1>2, <1>3, <1>4, <2>1, <2>3 DEF Covered, Names
  <2>5. RoomStays(q)'
    <3>1. accepted'[q] \subseteq Located(q)' /\ Held(q)' /\ ~Loading(q)' /\ q \notin live'
      BY <1>1, <1>4, <1>6, <1>2 DEF RoomStays, Loading
    <3> QED
      BY <1>4, <2>4, <3>1 DEF RoomStays, Loading
  <2>6. \A r \in Rooms \ {q} : rows'[r] = rows[r] /\ saved'[r] = saved[r]
    BY <1>2, <1>9
  <2> QED
    BY <1>7, <2>5, <2>6
<1>10. \A r \in Rooms : RoomStays(r)'
  BY <1>1, <1>8, <1>9
<1>11. ASSUME NEW c \in Conns PROVE HandlerStays(c)'
  <2>1. HandlerStays(c) /\ op'[c] = op[c]
    BY <1>1 DEF StaysInv
  <2>2. \A e : OnShow(op[c].room, e) => OnShow(op[c].room, e)'
    BY <1>1, ShownSame
  <2> QED
    BY <2>1, <2>2, HandlerSame
<1>12. \A d \in deletions' : \A e \in d.ids : Gone(d.room, e)'
  BY <1>1 DEF StaysInv, Gone
<1> QED
  BY <1>1, <1>10, <1>11, <1>12 DEF StaysInv

\* The ticker moves a queue; a deletion deletes what has been deleted.
LEMMA BackgroundStays ==
  ASSUME PersistenceAssumption, TypeOK, ~DbMayFail, StaysInv, Background
  PROVE  StaysInv'
<1>1. UNCHANGED rvars /\ phase = "running"
  BY DEF Background, StaysInv
<1>2. CASE TickerTakes \/ \E d \in deletions : RunDeletion(d)
  <2>1. /\ UNCHANGED <<snapshots, phase, live, mem, load, op, accepted, saved, deleted>>
        /\ deletions' \subseteq deletions
    BY <1>1, <1>2 DEF TickerTakes, RunDeletion, rvars
  <2>2. \A r \in Rooms : \A e : (Gone(r, e) <=> Gone(r, e)') /\ (OnShow(r, e) <=> OnShow(r, e)')
    BY <2>1 DEF OnShow, Gone, Going
  <2>3. ASSUME NEW c \in Conns PROVE HandlerStays(c)'
    <3>1. HandlerStays(c) /\ op'[c] = op[c]
      BY <2>1 DEF StaysInv
    <3>2. \A e : OnShow(op[c].room, e) => OnShow(op[c].room, e)'
      BY <2>1, ShownSame
    <3> QED
      BY <3>1, <3>2, HandlerSame
  <2>4. \A d \in deletions' : \A e \in d.ids : Gone(d.room, e)'
    BY <2>1 DEF StaysInv, Gone
  <2>5. ASSUME NEW r \in Rooms PROVE RoomStays(r)'
    <3>1. RoomStays(r)
      BY DEF StaysInv
    <3>2. CASE TickerTakes
      <4>1. Take(Ticker, Rooms) /\ Idle(Ticker) /\ Ticker \in Flushers /\ UNCHANGED rows
        BY <3>2 DEF TickerTakes, Flushers
      <4>2. Located(r) \subseteq Located(r)' /\ Located(r)' \subseteq Located(r)
        BY <2>1, <4>1, TakeKeeps, TakeAdds
      <4>3. (Held(r) => Held(r)') /\ RowNames(r)' = RowNames(r)
        BY <4>1, TakeHeld DEF RowNames
      <4>4. accepted'[r] \subseteq Located(r)'
        BY <2>1, <3>1, <4>2 DEF RoomStays
      <4> QED
        BY <2>1, <2>2, <3>1, <4>2, <4>3, <4>4, RoomSame
    <3>3. ASSUME NEW d \in deletions, RunDeletion(d) PROVE RoomStays(r)'
      <4>1. rows' = [rows EXCEPT ![d.room] = Without(@, d.ids)] /\ UNCHANGED <<pending, batch>>
        BY <3>3 DEF RunDeletion
      <4>2. \A e \in RowNames(r) : e \in RowNames(r)' \/ Gone(r, e)
        <5>1. rows \in [Rooms -> Table] /\ d.room \in Rooms
          BY DEF TypeOK
        <5>2. CASE r = d.room
          <6>1. rows'[r] = Without(rows[r], d.ids)
            BY <4>1, <5>1, <5>2
          <6>2. \A e \in d.ids : Gone(r, e)
            BY <5>2 DEF StaysInv
          <6> QED
            BY <6>1, <6>2 DEF RowNames, Without
        <5>3. CASE r # d.room
          BY <4>1, <5>1, <5>3 DEF RowNames
        <5> QED
          BY <5>2, <5>3
      <4>3. Covered(r, saved[r], RowNames(r))'
        BY <2>1, <2>2, <3>1, <4>2 DEF RoomStays, Covered
      <4>4. Located(r)' = Located(r) /\ (Held(r)' <=> Held(r)) /\ (Loading(r)' <=> Loading(r))
        BY <2>1, <4>1 DEF Located, InFlight, Held, Loading
      <4>5. load'[r].at = "replace" => Covered(r, saved[r], Names(load[r].found))'
        BY <2>1, <2>2, <3>1 DEF RoomStays, Covered
      <4>6. \A s \in snapshots' : s.room = r => r \notin live' /\ Covered(r, saved[r], Names(s.elements))'
        BY <2>1, <2>2, <3>1 DEF RoomStays, Covered
      <4> QED
        BY <2>1, <2>2, <3>1, <4>3, <4>4, <4>5, <4>6 DEF RoomStays
    <3> QED
      BY <1>2, <3>2, <3>3
  <2> QED
    BY <2>1, <2>3, <2>4, <2>5 DEF StaysInv
<1> QED
  BY <1>1, <1>2, SaveStays, SnapshotStays DEF Background, Exit, SaveFails

\* Rooms may come and go elsewhere: a handler is left alone when the rooms of
\* all handlers are.
LEMMA HandlersSame ==
  ASSUME RoomInv, StaysInv, UNCHANGED <<op, deleted>>,
         \A c \in Conns : Editing(c) => mem'[op[c].room] = mem[op[c].room]
  PROVE  \A c \in Conns : HandlerStays(c)'
<1> SUFFICES ASSUME NEW c \in Conns PROVE HandlerStays(c)'
  OBVIOUS
<1>1. HandlerStays(c) /\ op'[c] = op[c]
  BY DEF StaysInv
<1>2. Editing(c) => \A e : OnShow(op[c].room, e) => OnShow(op[c].room, e)'
  BY ShownSame
<1> QED
  BY <1>1, <1>2, HandlerSame

\* A room that is made is loaded from what was saved.
LEMMA JoinStays ==
  ASSUME RoomInv, StaysInv, ~LateSnapshots, NEW c \in Conns, NEW q \in Rooms, Join(c, q)
  PROVE  StaysInv'
<1>1. /\ UNCHANGED <<pvars, op>> /\ live' = live \cup {q}
      /\ q \in live => UNCHANGED <<mem, load>>
      /\ q \notin live => /\ mem' = [mem EXCEPT ![q] = {}]
                          /\ load' = [load EXCEPT ![q] = [at |-> "resolve", found |-> {}]]
      /\ \A s \in snapshots : s.room # q
  BY DEF Join
<1>2. mem \in [Rooms -> SUBSET Updates] /\ load \in [Rooms -> Loaders] /\ live \subseteq Rooms
  BY DEF RoomInv, Typing
<1>3. /\ UNCHANGED <<pending, batch, deletions, snapshots, rows, phase, accepted, saved, deleted>>
      /\ \A r \in Rooms : Located(r)' = Located(r) /\ (Held(r)' <=> Held(r)) /\ RowNames(r)' = RowNames(r)
      /\ \A r \in Rooms : \A e : Gone(r, e)' <=> Gone(r, e)
  BY <1>1 DEF pvars, Located, InFlight, Held, RowNames, Gone
<1>4. ASSUME NEW r \in Rooms, mem'[r] = mem[r], load'[r] = load[r], r \in live' <=> r \in live
      PROVE  RoomStays(r)'
  <2>1. RoomStays(r) /\ accepted'[r] \subseteq Located(r)'
    BY <1>3 DEF StaysInv, RoomStays
  <2>2. \A e : OnShow(r, e) => OnShow(r, e)'
    BY <1>1, <1>3, <1>4, ShownSame
  <2> QED
    BY <1>3, <1>4, <2>1, <2>2, RoomSame
<1>5. RoomStays(q)'
  <2>1. CASE q \in live
    BY <1>1, <1>4, <2>1
  <2>2. CASE q \notin live
    <3>1. RoomStays(q) /\ Held(q)
      BY <2>2 DEF StaysInv, RoomStays
    <3>2. load'[q].at = "resolve" /\ q \in live'
      BY <1>1, <1>2, <2>2
    <3>3. Covered(q, saved[q], RowNames(q))'
      BY <1>3, <3>1 DEF RoomStays, Covered
    <3> QED
      BY <1>1, <1>3, <3>1, <3>2, <3>3 DEF RoomStays, Loading
  <2> QED
    BY <2>1, <2>2
<1>6. ASSUME NEW r \in Rooms, r # q PROVE RoomStays(r)'
  BY <1>1, <1>2, <1>4, <1>6
<1>7. ASSUME NEW d \in Conns, Editing(d) PROVE mem'[op[d].room] = mem[op[d].room]
  <2>1. op[d].room \in live
    BY <1>7 DEF RoomInv, Members, Editing
  <2> QED
    BY <1>1, <1>2, <2>1
<1>8. \A d \in Conns : HandlerStays(d)'
  BY <1>1, <1>3, <1>7, HandlersSame
<1>9. \A d \in deletions' : \A e \in d.ids : Gone(d.room, e)'
  BY <1>3 DEF StaysInv, Gone
<1> QED
  BY <1>3, <1>5, <1>6, <1>8, <1>9 DEF StaysInv

\* A loader shows what was saved, but for what was deleted.
LEMMA LoaderStays ==
  ASSUME RoomInv, StaysInv, ~DbMayFail, NEW q \in Rooms, Loader(q)
  PROVE  StaysInv'
<1>1. UNCHANGED <<pvars, live, members, op, snapped>> /\ load[q].at # "done"
  BY DEF Loader, LoaderResolves, LoaderQueries, LoaderReplaces
<1>2. mem \in [Rooms -> SUBSET Updates] /\ load \in [Rooms -> Loaders] /\ TypeOK
  BY DEF RoomInv, Typing
<1>3. /\ UNCHANGED <<pending, batch, deletions, snapshots, rows, phase, accepted, saved, deleted>>
      /\ \A r \in Rooms : Located(r)' = Located(r) /\ (Held(r)' <=> Held(r)) /\ RowNames(r)' = RowNames(r)
      /\ \A r \in Rooms : \A e : Gone(r, e)' <=> Gone(r, e)
  BY <1>1 DEF pvars, Located, InFlight, Held, RowNames, Gone
<1>4. /\ RoomStays(q) /\ Held(q) /\ q \in live /\ Located(q) = saved[q]
      /\ Covered(q, saved[q], RowNames(q))
  <2>1. RoomStays(q) /\ Held(q) /\ q \in live
    BY <1>1 DEF StaysInv, RoomStays, Loading
  <2> QED
    BY <2>1, HeldLocated DEF RoomStays
<1>5. /\ accepted'[q] \subseteq Located(q)' /\ Held(q)' /\ q \in live' /\ Covered(q, saved[q], RowNames(q))'
      /\ \A s \in snapshots' : s.room # q
  BY <1>1, <1>3, <1>4 DEF RoomStays, Covered
<1>6. \A r \in Rooms \ {q} : mem'[r] = mem[r] /\ load'[r] = load[r]
  BY <1>2 DEF Loader, LoaderResolves, LoaderQueries, LoaderReplaces
<1>7. ASSUME NEW es, Covered(q, saved[q], es), es \subseteq Names(mem'[q]), NEW u \in Located(q)'
      PROVE  OnShow(q, u.elem)'
  BY <1>3, <1>4, <1>7 DEF Covered, OnShow
<1>8. RoomStays(q)'
  <2>1. CASE LoaderResolves(q)
    <3>1. load'[q].at = "query"
      BY <1>2, <2>1 DEF LoaderResolves, Loaders
    <3> QED
      BY <1>5, <3>1 DEF RoomStays, Loading
  <2>2. CASE LoaderQueries(q)
    <3>1. /\ Stored(q) = {} => load'[q] = NoLoad
          /\ Stored(q) # {} => load'[q] = [at |-> "replace", found |-> Stored(q)]
      BY <1>2, <2>2 DEF LoaderQueries, Stored
    <3>2. Names(Stored(q)) = RowNames(q)
      BY <1>2, StoredNames
    <3>3. CASE Stored(q) = {}
      <4>1. \A u \in Located(q)' : OnShow(q, u.elem)'
        BY <1>4, <1>7, <3>2, <3>3 DEF Names
      <4> QED
        BY <1>5, <3>1, <3>3, <4>1 DEF RoomStays, Loading, NoLoad
    <3>4. CASE Stored(q) # {}
      <4>1. load'[q].at = "replace" /\ Names(load'[q].found) = RowNames(q)'
        BY <1>3, <3>1, <3>2, <3>4
      <4>2. Covered(q, saved[q], Names(load[q].found))'
        BY <1>5, <4>1 DEF Covered
      <4> QED
        BY <1>5, <4>1, <4>2 DEF RoomStays, Loading
    <3> QED
      BY <3>3, <3>4
  <2>3. CASE LoaderReplaces(q)
    <3>1. load[q].at = "replace" /\ mem'[q] = load[q].found /\ load'[q] = NoLoad
      BY <1>2, <2>3 DEF LoaderReplaces
    <3>2. Covered(q, saved[q], Names(mem'[q]))
      BY <1>4, <3>1 DEF RoomStays
    <3>3. \A u \in Located(q)' : OnShow(q, u.elem)'
      BY <1>7, <3>2
    <3> QED
      BY <1>5, <3>1, <3>3 DEF RoomStays, Loading, NoLoad
  <2> QED
    BY <2>1, <2>2, <2>3 DEF Loader
<1>9. ASSUME NEW r \in Rooms, r # q PROVE RoomStays(r)'
  <2>1. RoomStays(r) /\ accepted'[r] \subseteq Located(r)'
    BY <1>3 DEF StaysInv, RoomStays
  <2>2. \A e : OnShow(r, e) => OnShow(r, e)'
    BY <1>1, <1>3, <1>6, <1>9, ShownSame
  <2> QED
    BY <1>1, <1>3, <1>6, <1>9, <2>1, <2>2, RoomSame
<1>10. ASSUME NEW d \in Conns, Editing(d) PROVE mem'[op[d].room] = mem[op[d].room]
  <2>1. op[d].room \in Rooms /\ load[op[d].room].at = "done"
    BY <1>10 DEF RoomInv, Members, Edits, Editing, Typing
  <2> QED
    BY <1>1, <1>6, <2>1
<1>11. \A d \in Conns : HandlerStays(d)'
  BY <1>1, <1>3, <1>10, HandlersSame
<1>12. \A d \in deletions' : \A e \in d.ids : Gone(d.room, e)'
  BY <1>3 DEF StaysInv, Gone
<1> QED
  BY <1>3, <1>8, <1>9, <1>11, <1>12 DEF StaysInv

\* Everything that is on its way for a room was saved before it is evicted.
LEMMA NothingHeld ==
  ASSUME TypeOK, NEW r \in Rooms, InFlight(r) = {}, pending[r] = <<>>
  PROVE  Held(r)
<1>1. ASSUME NEW f \in Flushers PROVE batch[f][r] = <<>>
  <2>1. ToSet(batch[f][r]) = {}
    BY DEF InFlight
  <2>2. batch[f][r] \in Seq(Updates)
    BY DEF TypeOK
  <2>3. 1 \notin DOMAIN batch[f][r]
    BY <2>1 DEF ToSet
  <2> QED
    BY <2>2, <2>3
<1> QED
  BY <1>1 DEF Held

\* An eviction copies the room, which shows what was saved.
LEMMA CleanupStays ==
  ASSUME RoomInv, StaysInv, ~DbMayFail, NEW q \in Rooms, Cleanup(q)
  PROVE  StaysInv'
<1>1. /\ q \in live /\ load[q] = NoLoad /\ InFlight(q) = {} /\ pending[q] = <<>>
      /\ \A c \in Conns : Busy(c) => op[c].room # q
      /\ IF q \in ids THEN SaveRoomSnapshot(q, mem[q]) ELSE UNCHANGED snapshots
      /\ live' = live \ {q} /\ mem' = [mem EXCEPT ![q] = {}]
      /\ UNCHANGED <<pending, batch, deletions, rows, phase, clock, stops, accepted, saved, deleted>>
      /\ UNCHANGED <<members, load, op, snapped>>
  BY DEF Cleanup
<1>2. mem \in [Rooms -> SUBSET Updates] /\ TypeOK
  BY DEF RoomInv, Typing
<1>3. /\ \A r \in Rooms : Located(r)' = Located(r) /\ (Held(r)' <=> Held(r)) /\ RowNames(r)' = RowNames(r)
      /\ \A r \in Rooms : \A e : Gone(r, e)' <=> Gone(r, e)
  BY <1>1 DEF Located, InFlight, Held, RowNames, Gone
<1>4. q \in ids
  BY <1>1 DEF RoomInv, Resolved, NoLoad
<1>5. RoomStays(q) /\ Held(q) /\ Located(q) = saved[q] /\ ~Loading(q)
  BY <1>1, <1>2, NothingHeld, HeldLocated DEF StaysInv, Loading, NoLoad
<1>6. \A s \in snapshots : s.room # q
  BY <1>1, <1>5 DEF RoomStays
<1>7. \A s \in snapshots' : s \in snapshots \/ (s.room = q /\ s.elements = mem[q])
  BY <1>1, <1>4 DEF SaveRoomSnapshot
<1>8. \A s, t \in snapshots' : s.room = t.room => s = t
  <2>1. \A s \in snapshots' : s \in snapshots \/ s = [room |-> q, elements |-> mem[q], stamp |-> clock]
    BY <1>1, <1>4 DEF SaveRoomSnapshot
  <2> QED
    BY <1>6, <2>1 DEF StaysInv
<1>9. Covered(q, saved[q], Names(mem[q]))
  <2>1. ASSUME NEW u \in saved[q] PROVE Gone(q, u.elem) \/ u.elem \in Names(mem[q])
    <3>1. OnShow(q, u.elem)
      BY <1>1, <1>5 DEF RoomStays
    <3>2. \A c \in Conns : ~Going(c, q, u.elem)
      BY <1>1 DEF Going, Busy, ToSet
    <3> QED
      BY <3>1, <3>2 DEF OnShow
  <2> QED
    BY <2>1 DEF Covered
<1>10. RoomStays(q)'
  <2>1. /\ accepted'[q] \subseteq Located(q)' /\ Held(q)' /\ q \notin live' /\ ~Loading(q)'
        /\ Covered(q, saved[q], RowNames(q))'
    BY <1>1, <1>3, <1>5 DEF RoomStays, Covered, Loading
  <2>2. \A s \in snapshots' : s.room = q => Covered(q, saved[q], Names(s.elements))'
    BY <1>1, <1>3, <1>6, <1>7, <1>9 DEF Covered
  <2> QED
    BY <2>1, <2>2 DEF RoomStays, Loading
<1>11. ASSUME NEW r \in Rooms, r # q PROVE RoomStays(r)'
  <2>1. RoomStays(r) /\ accepted'[r] \subseteq Located(r)'
    BY <1>1, <1>3 DEF StaysInv, RoomStays
  <2>2. \A e : OnShow(r, e) => OnShow(r, e)'
    BY <1>1, <1>2, <1>11, ShownSame
  <2>3. \A s \in snapshots' : s.room = r => s \in snapshots
    BY <1>7, <1>11
  <2> QED
    BY <1>1, <1>3, <1>11, <2>1, <2>2, <2>3, RoomSame
<1>12. \A d \in Conns : Editing(d) => mem'[op[d].room] = mem[op[d].room]
  <2>1. \A d \in Conns : Editing(d) => op[d].room # q /\ op[d].room \in Rooms
    BY <1>1 DEF Editing, Busy, RoomInv, Members, Typing
  <2> QED
    BY <1>1, <1>2, <2>1
<1>13. \A d \in Conns : HandlerStays(d)'
  BY <1>1, <1>12, HandlersSame
<1>14. \A d \in deletions' : \A e \in d.ids : Gone(d.room, e)'
  BY <1>1 DEF StaysInv, Gone
<1> QED
  BY <1>1, <1>8, <1>10, <1>11, <1>13, <1>14 DEF StaysInv

-----------------------------------------------------------------------------
(* Handlers. *)

\* A step of one handler, in its room q: what is saved stays, what is shown and
\* what is gone stay so; what it queues is shown.
LEMMA HandlerStep ==
  ASSUME RoomInv, StaysInv, NEW c \in Conns, HandlerStays(c)',
         UNCHANGED <<batch, snapshots, rows, phase, saved, live, load>>,
         \A d \in Conns \ {c} : op'[d] = op[d],
         \A r \in Rooms : /\ accepted'[r] \subseteq Located(r)'
                          /\ pending'[r] = pending[r] \/ (r \in live /\ ~Loading(r))
                          /\ \A e : Gone(r, e) => Gone(r, e)'
                          /\ \A e : OnShow(r, e) => OnShow(r, e)'
                          /\ \A u \in Located(r)' : u \in Located(r) \/ OnShow(r, u.elem)',
         \A d \in deletions' : \A e \in d.ids : Gone(d.room, e)'
  PROVE  StaysInv'
<1>1. ASSUME NEW r \in Rooms PROVE RoomStays(r)'
  <2>1. RoomStays(r)
    BY DEF StaysInv
  <2>2. RowNames(r)' = RowNames(r) /\ (Loading(r)' <=> Loading(r))
    BY DEF RowNames, Loading
  <2>3. r \notin live \/ Loading(r) => Held(r)'
    BY <2>1 DEF RoomStays, Held
  <2>4. \A S, T : Covered(r, S, T) => \A u \in S : Gone(r, u.elem)' \/ u.elem \in T
    BY DEF Covered
  <2>5. Covered(r, saved[r], RowNames(r))'
    BY <2>1, <2>2, <2>4 DEF RoomStays, Covered
  <2>6. load'[r].at = "replace" => Covered(r, saved[r], Names(load[r].found))'
    BY <2>1, <2>4 DEF RoomStays, Covered
  <2>7. \A s \in snapshots' : s.room = r => r \notin live' /\ Covered(r, saved[r], Names(s.elements))'
    BY <2>1, <2>4 DEF RoomStays, Covered
  <2>8. r \in live /\ ~Loading(r) => \A u \in Located(r)' : OnShow(r, u.elem)'
    BY <2>1 DEF RoomStays
  <2> QED
    BY <2>1, <2>2, <2>3, <2>5, <2>6, <2>7, <2>8 DEF RoomStays
<1>2. ASSUME NEW d \in Conns, d # c PROVE HandlerStays(d)'
  <2>1. HandlerStays(d) /\ op'[d] = op[d]
    BY <1>2 DEF StaysInv
  <2>2. Editing(d) => op[d].room \in Rooms
    BY DEF RoomInv, Members, Editing, Typing
  <2>3. Editing(d) => \A e : OnShow(op[d].room, e) => OnShow(op[d].room, e)'
    BY <2>1, <2>2
  <2> QED
    BY <2>1, <2>3, HandlerSame
<1> QED
  BY <1>1, <1>2 DEF StaysInv

\* Of a room with which nothing happens but to a handler or to what it shows.
LEMMA NothingQueued ==
  ASSUME RoomInv, StaysInv, NEW c \in Conns, HandlerStays(c)',
         UNCHANGED <<pending, batch, deletions, snapshots, rows, phase, saved, accepted, deleted, live, load>>,
         \A d \in Conns \ {c} : op'[d] = op[d],
         \A r \in Rooms : \A e : OnShow(r, e) => OnShow(r, e)'
  PROVE  StaysInv'
<1>1. \A r \in Rooms : Located(r)' = Located(r) /\ \A e : Gone(r, e) => Gone(r, e)'
  BY DEF Located, InFlight, Gone
<1>2. \A r \in Rooms : accepted'[r] \subseteq Located(r)'
  BY <1>1 DEF StaysInv, RoomStays
<1>3. \A d \in deletions' : \A e \in d.ids : Gone(d.room, e)'
  BY DEF StaysInv, Gone
<1> QED
  BY <1>1, <1>2, <1>3, HandlerStep

\* A handler that was idle, or only flushed, was about to delete nothing.
LEMMA IdleGoing ==
  ASSUME NEW c, op[c].todo = <<>> \/ op[c].todo = <<"flush">>, NEW r, NEW e
  PROVE  ~Going(c, r, e)
BY DEF Going, ToSet

\* What is shown stays shown when c gets another handler that was about to
\* delete nothing.
LEMMA ShownBeside ==
  ASSUME NEW c \in Conns, \A r, e : ~Going(c, r, e), UNCHANGED <<mem, deleted>>,
         \A d \in Conns \ {c} : op'[d] = op[d]
  PROVE  \A r, e : OnShow(r, e) => OnShow(r, e)'
<1> SUFFICES ASSUME NEW r, NEW e, OnShow(r, e) PROVE OnShow(r, e)'
  OBVIOUS
<1>1. \A d \in Conns : Going(d, r, e) => Going(d, r, e)'
  BY DEF Going
<1>2. Gone(r, e)' <=> Gone(r, e)
  BY DEF Gone
<1> QED
  BY <1>1, <1>2 DEF OnShow

\* A member leaves, or a message arrives.
LEMMA BeginStays ==
  ASSUME RoomInv, StaysInv, NEW c \in Conns, NEW q \in Rooms,
         Leave(c, q) \/ \E m \in Messages : Receive(c, q, m)
  PROVE  StaysInv'
<1>1. /\ UNCHANGED <<pending, batch, deletions, snapshots, rows, phase, saved, accepted, deleted>>
      /\ UNCHANGED <<live, load, mem>> /\ op[c].todo = <<>>
  BY DEF Leave, Receive, pvars, Busy
<1>2. \A d \in Conns \ {c} : op'[d] = op[d]
  BY DEF Leave, Receive, RoomInv, Typing
<1>3. \A r, e : OnShow(r, e) => OnShow(r, e)'
  BY <1>1, <1>2, IdleGoing, ShownBeside
<1>4. HandlerStays(c)'
  <2>1. CASE Leave(c, q)
    <3>1. op'[c].todo = <<"flush">>
      BY <2>1 DEF Leave, RoomInv, Typing
    <3> QED
      BY <3>1 DEF HandlerStays, Editing
  <2>2. ASSUME NEW m \in Messages, Receive(c, q, m) PROVE HandlerStays(c)'
    <3>1. op'[c] = [todo |-> Stages(m), room |-> q, msg |-> m, stamp |-> clock + 1]
      BY <2>2 DEF Receive, RoomInv, Typing
    <3>2. op'[c].todo = Stages(m) /\ op'[c].msg = m
      BY <3>1
    <3>3. /\ MemoryFirst(Stages(m)) /\ Followed(Stages(m), "delete", "queueDeleted")
          /\ m.added # {} => "add" \in ToSet(Stages(m))
          /\ m.updated # {} => "update" \in ToSet(Stages(m))
      BY StagesInOrder
    <3>4. MemoryFirst(op[c].todo)' /\ Followed(op[c].todo, "delete", "queueDeleted")'
      BY <3>2, <3>3 DEF MemoryFirst, Followed
    <3>5. /\ \A e \in op'[c].msg.added : "add" \in ToSet(op'[c].todo)
          /\ \A e \in op'[c].msg.updated : "update" \in ToSet(op'[c].todo)
      BY <3>2, <3>3
    <3> QED
      BY <3>4, <3>5 DEF HandlerStays
  <2> QED
    BY <2>1, <2>2
<1> QED
  BY <1>1, <1>2, <1>3, <1>4, NothingQueued

\* A handler that has done a stage goes on with the others, in their order.
LEMMA StageStays ==
  ASSUME RoomInv, StaysInv, NEW c \in Conns, NEW stage \in StageNames \ {"flush"}, At(c, stage),
         StageDone(c)
  PROVE  /\ op'[c].room = op[c].room /\ op'[c].msg = op[c].msg /\ \A d \in Conns \ {c} : op'[d] = op[d]
         /\ Editing(c) /\ op[c].room \in live /\ op[c].room \in Rooms /\ ~Loading(op[c].room)
         /\ op[c].msg \in Messages /\ op[c].stamp \in Stamps
         /\ \A x \in ToSet(op[c].todo) : x # stage => x \in ToSet(op'[c].todo)
         /\ MemoryFirst(op[c].todo)' /\ Followed(op[c].todo, "delete", "queueDeleted")'
         /\ stage \notin MemoryStageNames => ToSet(op[c].todo) \cap MemoryStageNames = {}
         /\ stage = "delete" => "queueDeleted" \in ToSet(op'[c].todo)
         /\ \A d \in Conns : \A r, e : Going(d, r, e) /\ (d = c => stage # "queueDeleted") => Going(d, r, e)'
<1>1. /\ op[c] \in Handlers /\ Editing(c) /\ op[c].room \in live /\ op[c].room \in Rooms
      /\ op[c].msg \in Messages /\ op[c].stamp \in Stamps /\ load[op[c].room].at = "done"
  BY AtStage
<1>2. /\ op[c].todo \in Seq(StageNames) /\ op[c].todo # <<>> /\ Head(op[c].todo) = stage
  BY <1>1 DEF At, Handlers
<1>3. /\ op'[c].todo = Tail(op[c].todo) /\ op'[c].room = op[c].room /\ op'[c].msg = op[c].msg
      /\ \A d \in Conns \ {c} : op'[d] = op[d]
  BY <1>1 DEF StageDone, RoomInv, Typing, Handlers
<1>4. HandlerStays(c)
  BY DEF StaysInv
<1>5. /\ MemoryFirst(op[c].todo) /\ Followed(op[c].todo, "delete", "queueDeleted")
  BY <1>1, <1>4 DEF HandlerStays
<1>6. /\ MemoryFirst(Tail(op[c].todo))
      /\ stage \notin MemoryStageNames => ToSet(op[c].todo) \cap MemoryStageNames = {}
  BY <1>2, <1>5, TailMemoryFirst
<1>7. /\ Followed(Tail(op[c].todo), "delete", "queueDeleted")
      /\ stage = "delete" => "queueDeleted" \in ToSet(Tail(op[c].todo))
  BY <1>2, <1>5, TailFollowed
<1>8. \A x \in ToSet(op[c].todo) : x # stage => x \in ToSet(Tail(op[c].todo))
  BY <1>2, TailOrdered
<1>9. MemoryFirst(op[c].todo)' /\ Followed(op[c].todo, "delete", "queueDeleted")'
  BY <1>3, <1>6, <1>7 DEF MemoryFirst, Followed
<1>10. ASSUME NEW d \in Conns, NEW r, NEW e, Going(d, r, e), d = c => stage # "queueDeleted"
       PROVE  Going(d, r, e)'
  BY <1>3, <1>8, <1>10 DEF Going
<1> QED
  BY <1>1, <1>3, <1>6, <1>7, <1>8, <1>9, <1>10 DEF Loading

\* What it has put into the room is shown.
LEMMA StageHandler ==
  ASSUME RoomInv, StaysInv, NEW c \in Conns, NEW stage \in StageNames \ {"flush"}, At(c, stage),
         StageDone(c), NEW q, q = op[c].room, NEW m, m = op[c].msg,
         \A e : OnShow(q, e) => OnShow(q, e)',
         stage = "add" => \A e \in m.added : OnShow(q, e)',
         stage = "update" => \A e \in m.updated : OnShow(q, e)'
  PROVE  HandlerStays(c)'
<1>1. /\ op'[c].room = q /\ op'[c].msg = m /\ Editing(c)
      /\ MemoryFirst(op[c].todo)' /\ Followed(op[c].todo, "delete", "queueDeleted")'
      /\ \A x \in ToSet(op[c].todo) : x # stage => x \in ToSet(op'[c].todo)
  BY StageStays
<1>2. /\ \A e \in m.added : "add" \in ToSet(op[c].todo) \/ OnShow(q, e)
      /\ \A e \in m.updated : "update" \in ToSet(op[c].todo) \/ OnShow(q, e)
  BY <1>1 DEF StaysInv, HandlerStays
<1>3. ASSUME NEW e \in m.added PROVE "add" \in ToSet(op'[c].todo) \/ OnShow(q, e)'
  BY <1>1, <1>2
<1>4. ASSUME NEW e \in m.updated PROVE "update" \in ToSet(op'[c].todo) \/ OnShow(q, e)'
  BY <1>1, <1>2
<1> QED
  BY <1>1, <1>3, <1>4 DEF HandlerStays

\* A room keeps what it shows when elements are added or updated; those that
\* are deleted will be recorded as such.
LEMMA MemoryStays ==
  ASSUME PersistenceAssumption, RoomStoreAssumption, RoomInv, StaysInv, NEW c \in Conns,
         AddElements(c) \/ UpdateElements(c) \/ DeleteElements(c),
         NEW q, q = op[c].room, NEW m, m = op[c].msg, NEW n, n = op[c].stamp
  PROVE  StaysInv'
<1>1. mem \in [Rooms -> SUBSET Updates]
  BY DEF RoomInv, Typing
<1>2. ASSUME NEW stage \in {"add", "update", "delete"}, NEW els, EditsMemory(c, stage, els),
             \A e \in Names(mem[q]) : e \in Names(els) \/ (stage = "delete" /\ e \in m.deleted),
             stage = "add" => m.added \subseteq Names(els),
             stage = "update" => m.updated \subseteq Names(els)
      PROVE  StaysInv'
  <2>1. /\ stage \in StageNames \ {"flush"} /\ At(c, stage) /\ StageDone(c)
        /\ mem' = [mem EXCEPT ![q] = els] /\ UNCHANGED <<pvars, live, ids, members, load, snapped>>
    BY <1>2 DEF EditsMemory, StageNames
  <2>2. /\ op'[c].room = q /\ op'[c].msg = m /\ \A d \in Conns \ {c} : op'[d] = op[d]
        /\ q \in Rooms
        /\ stage = "delete" => "queueDeleted" \in ToSet(op'[c].todo)
        /\ \A d \in Conns : \A r, e : Going(d, r, e) => Going(d, r, e)'
    <3>1. stage # "queueDeleted"
      BY <1>2
    <3> QED
      BY <2>1, <3>1, StageStays
  <2>3. UNCHANGED <<pending, batch, deletions, snapshots, rows, phase, saved, accepted, deleted, live, load>>
    BY <2>1 DEF pvars
  <2>4. mem'[q] = els /\ \A r \in Rooms \ {q} : mem'[r] = mem[r]
    BY <1>1, <2>1, <2>2
  <2>5. ASSUME NEW r \in Rooms, NEW e, OnShow(r, e) PROVE OnShow(r, e)'
    <3>1. Gone(r, e) => Gone(r, e)'
      BY <2>3 DEF Gone
    <3>2. CASE Gone(r, e) \/ \E d \in Conns : Going(d, r, e)
      BY <2>2, <3>1, <3>2 DEF OnShow
    <3>3. CASE e \in Names(mem[r])
      <4>1. CASE e \in Names(mem'[r])
        BY <4>1 DEF OnShow
      <4>2. CASE e \notin Names(mem'[r])
        <5>1. r = q /\ stage = "delete" /\ e \in m.deleted
          BY <1>2, <2>4, <3>3, <4>2
        <5>2. Going(c, r, e)'
          BY <2>2, <5>1 DEF Going
        <5> QED
          BY <5>2 DEF OnShow
      <4> QED
        BY <4>1, <4>2
    <3> QED
      BY <2>5, <3>2, <3>3 DEF OnShow
  <2>6. \A e \in Names(els) : OnShow(q, e)'
    BY <2>4 DEF OnShow
  <2>7. HandlerStays(c)'
    BY <1>2, <2>1, <2>2, <2>5, <2>6, StageHandler
  <2> QED
    BY <2>2, <2>3, <2>5, <2>7, NothingQueued
<1>3. ASSUME NEW stage \in StageNames \ {"flush"}, At(c, stage)
      PROVE  q \in Rooms /\ n \in Stamps /\ m.added \subseteq Elems /\ m.updated \subseteq Elems
  BY <1>3, AtStage DEF RoomStoreAssumption
<1>4. ASSUME NEW es PROVE Names(Versions(es, n)) = es
  <2>1. ASSUME NEW e \in es PROVE \E u \in Versions(es, n) : u.elem = e
    <3> DEFINE u == [elem |-> e, stamp |-> n]
    <3>1. u \in Versions(es, n) /\ u.elem = e
      BY DEF Versions
    <3> HIDE DEF u
    <3> QED
      BY <3>1
  <2>2. \A e \in es : e \in Names(Versions(es, n))
    BY <2>1 DEF Names
  <2>3. \A x \in Versions(es, n) : x.elem \in es
    BY DEF Versions
  <2> QED
    BY <2>2, <2>3 DEF Names
<1>5. \A S, T : Names(S \cup T) = Names(S) \cup Names(T)
  BY DEF Names
<1>6. CASE AddElements(c)
  <2> DEFINE els == mem[q] \cup Versions(m.added, n)
  <2>1. EditsMemory(c, "add", els)
    BY <1>6 DEF AddElements
  <2>2. Names(els) = Names(mem[q]) \cup m.added
    BY <1>4, <1>5
  <2> HIDE DEF els
  <2> QED
    BY <1>2, <2>1, <2>2
<1>7. CASE UpdateElements(c)
  <2> DEFINE old == {x \in Deduplicated(mem[q]) : x.elem \notin m.updated}
             els == old \cup Versions(m.updated, n)
  <2>1. EditsMemory(c, "update", els)
    BY <1>7 DEF UpdateElements
  <2>2. Names(els) = Names(old) \cup m.updated
    BY <1>4, <1>5
  <2>3. q \in Rooms
    BY <1>3, <2>1 DEF EditsMemory, StageNames
  <2>4. Names(Deduplicated(mem[q])) = Names(mem[q])
    BY <1>1, <2>3, DeduplicatedNames
  <2>5. Names(mem[q]) \subseteq Names(old) \cup m.updated
    BY <2>4 DEF Names
  <2> HIDE DEF els, old
  <2> QED
    BY <1>2, <2>1, <2>2, <2>5
<1>8. CASE DeleteElements(c)
  <2> DEFINE els == {x \in mem[q] : x.elem \notin m.deleted}
  <2>1. EditsMemory(c, "delete", els)
    BY <1>8 DEF DeleteElements
  <2>2. \A e \in Names(mem[q]) : e \in Names(els) \/ e \in m.deleted
    BY DEF Names
  <2> HIDE DEF els
  <2> QED
    BY <1>2, <2>1, <2>2
<1> QED
  BY <1>6, <1>7, <1>8

\* A room that is edited has its id.
LEMMA ReadDBIDStays ==
  ASSUME RoomInv, StaysInv, ~DbMayFail, NEW c \in Conns, ReadDBID(c)
  PROVE  StaysInv'
<1>1. /\ At(c, "dbid") /\ "dbid" \in StageNames \ {"flush"}
      /\ op[c].room \in ids => StageDone(c)
      /\ UNCHANGED <<pvars, live, ids, mem, members, load, snapped>>
  BY DEF ReadDBID, StageNames
<1>2. op[c].room \in live /\ load[op[c].room].at = "done"
  BY <1>1, AtStage
<1>3. op[c].room \in ids
  BY <1>2 DEF RoomInv, Resolved
<1>4. StageDone(c)
  BY <1>1, <1>3
<1>5. /\ \A d \in Conns \ {c} : op'[d] = op[d]
      /\ \A d \in Conns : \A r, e : Going(d, r, e) => Going(d, r, e)'
  BY <1>1, <1>4, StageStays
<1>6. ASSUME NEW r, NEW e, OnShow(r, e) PROVE OnShow(r, e)'
  BY <1>1, <1>5, <1>6 DEF OnShow, Gone, pvars
<1>7. HandlerStays(c)'
  BY <1>1, <1>4, <1>6, StageHandler
<1> QED
  BY <1>1, <1>5, <1>6, <1>7, NothingQueued DEF pvars

\* What is queued has been put into the room.
LEMMA QueuesStay ==
  ASSUME PersistenceAssumption, RoomStoreAssumption, RoomInv, StaysInv, NEW c \in Conns,
         NEW stage \in {"queueAdded", "queueUpdated"}, NEW es, QueuesUpdates(c, stage, es),
         NEW q, q = op[c].room, NEW m, m = op[c].msg, NEW n, n = op[c].stamp,
         es = IF stage = "queueAdded" THEN m.added ELSE m.updated
  PROVE  StaysInv'
<1>1. /\ stage \in StageNames \ {"flush"} /\ At(c, stage) /\ StageDone(c)
      /\ stage \notin MemoryStageNames /\ stage # "queueDeleted"
      /\ QueueElementUpdates(q, SetToSeq(Versions(es, n)))
      /\ UNCHANGED <<clock, live, ids, mem, members, load, snapped>>
  BY DEF QueuesUpdates, StageNames, MemoryStageNames
<1>2. /\ Editing(c) /\ \A d \in Conns \ {c} : op'[d] = op[d]
      /\ q \in live /\ q \in Rooms /\ ~Loading(q) /\ m \in Messages /\ n \in Stamps
      /\ ToSet(op[c].todo) \cap MemoryStageNames = {}
      /\ \A d \in Conns : \A r, e : Going(d, r, e) => Going(d, r, e)'
  BY <1>1, StageStays
<1>3. es \in SUBSET Elems /\ IsFiniteSet(es)
  BY <1>2 DEF RoomStoreAssumption
<1> DEFINE us == SetToSeq(Versions(es, n))
<1>4. Versions(es, n) \in SUBSET Updates /\ \A x \in Versions(es, n) : x.elem \in es
  BY <1>2, <1>3, VersionsType
<1>5. us \in Seq(Versions(es, n)) /\ ToSet(us) = Versions(es, n)
  BY <1>3, VersionsFinite, ListOfSet
<1>6. us \in Seq(Updates)
  BY <1>4, <1>5
<1>7. /\ pending' = [pending EXCEPT ![q] = @ \o us] /\ accepted' = [accepted EXCEPT ![q] = @ \cup ToSet(us)]
      /\ UNCHANGED <<batch, deletions, snapshots, rows, phase, saved, deleted>>
  BY <1>1 DEF QueueElementUpdates
<1> HIDE DEF us
<1>8. pending \in [Rooms -> Seq(Updates)] /\ accepted \in [Rooms -> SUBSET Updates]
  BY DEF RoomInv, Typing, TypeOK
<1>9. /\ pending'[q] = pending[q] \o us /\ accepted'[q] = accepted[q] \cup Versions(es, n)
      /\ \A r \in Rooms \ {q} : pending'[r] = pending[r] /\ accepted'[r] = accepted[r]
  BY <1>2, <1>5, <1>7, <1>8
<1>10. ToSet(pending'[q]) = ToSet(pending[q]) \cup Versions(es, n)
  <2>1. pending[q] \in Seq(Updates)
    BY <1>2, <1>8
  <2> QED
    BY <1>5, <1>6, <1>9, <2>1, ToSetConcat
<1>11. /\ Located(q)' = Located(q) \cup Versions(es, n)
       /\ \A r \in Rooms \ {q} : Located(r)' = Located(r)
  BY <1>7, <1>9, <1>10 DEF Located, InFlight
<1>12. ASSUME NEW r \in Rooms PROVE accepted'[r] \subseteq Located(r)'
  BY <1>9, <1>11 DEF StaysInv, RoomStays
<1>13. ASSUME NEW r, NEW e, OnShow(r, e) PROVE OnShow(r, e)'
  BY <1>1, <1>2, <1>7, <1>13 DEF OnShow, Gone
<1>14. \A e \in es : OnShow(q, e)
  <2>1. "add" \notin ToSet(op[c].todo) /\ "update" \notin ToSet(op[c].todo)
    BY <1>2 DEF MemoryStageNames
  <2> QED
    BY <1>2, <2>1 DEF StaysInv, HandlerStays
<1>15. HandlerStays(c)'
  <2>1. stage # "add" /\ stage # "update"
    OBVIOUS
  <2> QED
    BY <1>1, <1>13, <2>1, StageHandler
<1>16. ASSUME NEW r \in Rooms, NEW u \in Located(r)' PROVE u \in Located(r) \/ OnShow(r, u.elem)'
  BY <1>4, <1>11, <1>13, <1>14, <1>16
<1>17. \A r \in Rooms : pending'[r] = pending[r] \/ (r \in live /\ ~Loading(r))
  BY <1>2, <1>9
<1>18. \A d \in deletions' : \A e \in d.ids : Gone(d.room, e)'
  BY <1>7 DEF StaysInv, Gone
<1>19. \A r, e : Gone(r, e) => Gone(r, e)'
  BY <1>7 DEF Gone
<1> QED
  BY <1>1, <1>2, <1>7, <1>12, <1>13, <1>15, <1>16, <1>17, <1>18, <1>19, HandlerStep

\* What is about to be deleted is recorded as deleted.
LEMMA QueueDeletedStays ==
  ASSUME RoomStoreAssumption, RoomInv, StaysInv, NEW c \in Conns, QueueDeleted(c),
         NEW q, q = op[c].room, NEW m, m = op[c].msg, NEW n, n = op[c].stamp
  PROVE  StaysInv'
<1>1. /\ "queueDeleted" \in StageNames \ {"flush"} /\ At(c, "queueDeleted") /\ StageDone(c)
      /\ deletions' = deletions \cup {[room |-> q, ids |-> m.deleted, stamp |-> n]}
      /\ deleted' = [deleted EXCEPT ![q] = [e \in Elems |-> IF e \in m.deleted THEN n ELSE @[e]]]
      /\ UNCHANGED <<pending, batch, snapshots, rows, phase, accepted, saved, live, mem, load>>
  BY DEF QueueDeleted, QueueElementDeletion, StageNames
<1>2. /\ \A d \in Conns \ {c} : op'[d] = op[d]
      /\ q \in Rooms /\ m \in Messages /\ n \in Stamps
      /\ \A d \in Conns \ {c} : \A r, e : Going(d, r, e) => Going(d, r, e)'
  BY <1>1, StageStays
<1>3. m.deleted \subseteq Elems /\ n # 0 /\ deleted \in [Rooms -> [Elems -> 0..MaxStamp]]
  BY <1>2 DEF RoomStoreAssumption, Stamps, RoomInv, Typing, TypeOK
<1>4. /\ deleted'[q] = [e \in Elems |-> IF e \in m.deleted THEN n ELSE deleted[q][e]]
      /\ \A r \in Rooms \ {q} : deleted'[r] = deleted[r]
  BY <1>1, <1>2, <1>3
<1>5. ASSUME NEW r \in Rooms, NEW e, Gone(r, e) PROVE Gone(r, e)'
  BY <1>3, <1>4, <1>5 DEF Gone
<1>6. \A e \in m.deleted : Gone(q, e)'
  BY <1>3, <1>4 DEF Gone
<1>7. ASSUME NEW r \in Rooms, NEW e, OnShow(r, e) PROVE OnShow(r, e)'
  <2>1. CASE e \in Names(mem[r])
    BY <1>1, <2>1 DEF OnShow
  <2>2. CASE Gone(r, e)
    BY <1>5, <2>2 DEF OnShow
  <2>3. ASSUME NEW d \in Conns, Going(d, r, e) PROVE OnShow(r, e)'
    <3>1. CASE d = c
      <4>1. r = q /\ e \in m.deleted
        BY <2>3, <3>1 DEF Going
      <4> QED
        BY <1>6, <4>1 DEF OnShow
    <3>2. CASE d # c
      BY <1>2, <2>3, <3>2 DEF OnShow
    <3> QED
      BY <3>1, <3>2
  <2> QED
    BY <1>7, <2>1, <2>2, <2>3 DEF OnShow
<1>8. HandlerStays(c)'
  <2>1. \A e : OnShow(q, e) => OnShow(q, e)'
    BY <1>2, <1>7
  <2> QED
    BY <1>1, <2>1, StageHandler
<1>9. \A r \in Rooms : Located(r)' = Located(r) /\ accepted'[r] \subseteq Located(r)'
  BY <1>1 DEF Located, InFlight, StaysInv, RoomStays
<1>10. \A d \in deletions' : \A e \in d.ids : Gone(d.room, e)'
  <2>1. ASSUME NEW d \in deletions, NEW e \in d.ids PROVE Gone(d.room, e)'
    <3>1. d.room \in Rooms /\ Gone(d.room, e)
      BY DEF RoomInv, Typing, TypeOK, StaysInv
    <3> QED
      BY <1>5, <3>1
  <2> QED
    BY <1>1, <1>6, <2>1
<1> QED
  BY <1>1, <1>2, <1>5, <1>7, <1>8, <1>9, <1>10, HandlerStep

\* A leaver takes the queue, and is done.
LEMMA LeaverFlushesStays ==
  ASSUME RoomInv, StaysInv, NEW c \in Conns, LeaverFlushes(c)
  PROVE  StaysInv'
<1>1. /\ op[c].todo # <<>> /\ Head(op[c].todo) = "flush" /\ op' = [op EXCEPT ![c] = NoOp]
      /\ UNCHANGED <<deletions, snapshots, rows, phase, accepted, saved, deleted, live, mem, load>>
      /\ FlushRoomTakes(c, op[c].room) \/ UNCHANGED <<pending, batch>>
  BY DEF LeaverFlushes, At, FlushRoomTakes, pvars
<1>2. op'[c] = NoOp /\ \A d \in Conns \ {c} : op'[d] = op[d]
  BY <1>1 DEF RoomInv, Typing
<1>3. op[c].todo = <<"flush">>
  <2>1. op[c].todo \in Seq(StageNames)
    BY DEF RoomInv, Typing, Handlers
  <2>2. "flush" \in ToSet(op[c].todo)
    BY <1>1, <2>1 DEF ToSet
  <2>3. ~Editing(c)
    BY <2>2 DEF RoomInv, Edits
  <2> QED
    BY <1>1, <2>3 DEF Editing
<1>4. \A r, e : OnShow(r, e) => OnShow(r, e)'
  BY <1>1, <1>2, <1>3, IdleGoing, ShownBeside
<1>5. \A d \in Conns : HandlerStays(d)'
  <2>1. ASSUME NEW d \in Conns \ {c} PROVE HandlerStays(d)'
    <3>1. HandlerStays(d) /\ op'[d] = op[d]
      BY <1>2 DEF StaysInv
    <3>2. \A e : OnShow(op[d].room, e) => OnShow(op[d].room, e)'
      BY <1>4, <3>1
    <3> QED
      BY <3>1, <3>2, HandlerSame
  <2>2. HandlerStays(c)'
    BY <1>2 DEF HandlerStays, Editing, NoOp
  <2> QED
    BY <2>1, <2>2
<1>6. ASSUME NEW r \in Rooms PROVE RoomStays(r)'
  <2>1. RoomStays(r) /\ TypeOK /\ c \in Flushers
    BY DEF StaysInv, RoomInv, Typing, Flushers
  <2>2. Located(r) \subseteq Located(r)' /\ Located(r)' \subseteq Located(r) /\ (Held(r) => Held(r)')
    <3>1. CASE FlushRoomTakes(c, op[c].room)
      BY <1>1, <2>1, <3>1, TakeKeeps, TakeAdds, TakeHeld DEF FlushRoomTakes
    <3>2. CASE UNCHANGED <<pending, batch>>
      BY <1>1, <3>2 DEF Located, InFlight, Held
    <3> QED
      BY <1>1, <3>1, <3>2
  <2>3. RowNames(r)' = RowNames(r) /\ accepted'[r] \subseteq Located(r)'
    BY <1>1, <2>1, <2>2 DEF RowNames, RoomStays
  <2>4. \A e : Gone(r, e) => Gone(r, e)'
    BY <1>1 DEF Gone
  <2> QED
    BY <1>1, <1>4, <2>1, <2>2, <2>3, <2>4, RoomSame
<1>7. \A d \in deletions' : \A e \in d.ids : Gone(d.room, e)'
  BY <1>1 DEF StaysInv, Gone
<1> QED
  BY <1>1, <1>5, <1>6, <1>7 DEF StaysInv

-----------------------------------------------------------------------------

\* After a crash all rooms are to be loaded from what was saved.
LEMMA CrashStays ==
  ASSUME StaysInv, Crash, Reset
  PROVE  StaysInv'
<1>1. /\ pending' = Empty /\ batch' = [f \in Flushers |-> Empty] /\ deletions' = {} /\ snapshots' = {}
      /\ accepted' = None /\ phase' = "running" /\ live' = {} /\ load' = [r \in Rooms |-> NoLoad]
      /\ op' = [c \in Conns |-> NoOp] /\ UNCHANGED <<rows, saved, deleted>>
  BY DEF Crash, FreshProcess, Reset
<1>2. ASSUME NEW r \in Rooms PROVE RoomStays(r)'
  <2>1. Held(r)' /\ ~Loading(r)' /\ load'[r].at = "done" /\ accepted'[r] = {}
    BY <1>1 DEF Held, Loading, NoLoad, Empty, None
  <2>2. Covered(r, saved[r], RowNames(r))'
    BY <1>1 DEF StaysInv, RoomStays, Covered, RowNames, Gone
  <2> QED
    BY <1>1, <2>1, <2>2 DEF RoomStays
<1>3. \A c \in Conns : HandlerStays(c)'
  BY <1>1 DEF HandlerStays, Editing, NoOp
<1> QED
  BY <1>1, <1>2, <1>3 DEF StaysInv

\* Every step of a process that nobody stops.
LEMMA RoomNextStays ==
  ASSUME PersistenceAssumption, RoomStoreAssumption, ~LateSnapshots, ~DbMayFail, MaxStops = 0,
         RoomInv, StaysInv, [RoomNext]_vars
  PROVE  StaysInv'
<1>1. TypeOK
  BY DEF RoomInv, Typing
<1>2. phase = "running" /\ stops = 0
  BY <1>1 DEF StaysInv, TypeOK
<1>3. ASSUME NEW c \in Conns, Handler(c) PROVE StaysInv'
  <2>1. CASE \/ \E r \in Rooms : Join(c, r) \/ Leave(c, r) \/ \E m \in Messages : Receive(c, r, m)
             \/ LeaverFlushes(c) \/ ReadDBID(c)
    BY <2>1, JoinStays, BeginStays, LeaverFlushesStays, ReadDBIDStays
  <2>2. CASE AddElements(c) \/ UpdateElements(c) \/ DeleteElements(c)
    BY <2>2, MemoryStays
  <2>3. CASE QueueAdded(c)
    BY <2>3, QueuesStay DEF QueueAdded
  <2>4. CASE QueueUpdated(c)
    BY <2>4, QueuesStay DEF QueueUpdated
  <2>5. CASE QueueDeleted(c)
    BY <2>5, QueueDeletedStays
  <2> QED
    BY <1>3, <2>1, <2>2, <2>3, <2>4, <2>5 DEF Handler
<1>4. CASE SnapshotRooms \/ StopPersistence \/ Restart
  BY <1>2, <1>4 DEF SnapshotRooms, StopPersistence, Stop, Restart
<1>5. CASE UNCHANGED vars
  <2>1. /\ UNCHANGED <<pending, batch, deletions, snapshots, rows, phase, accepted, saved, deleted>>
        /\ UNCHANGED <<live, mem, load, op>>
    BY <1>5 DEF vars, pvars, rvars
  <2> QED
    BY <2>1 DEF StaysInv, RoomStays, HandlerStays, Covered, OnShow, Gone, Going, Located, InFlight, Held,
                Loading, RowNames, Editing, MemoryFirst, Followed
<1> QED
  BY <1>1, <1>3, <1>4, <1>5, CrashStays, LoaderStays, CleanupStays, BackgroundStays DEF RoomNext

\* A process starts with nothing to lose.
LEMMA StaysStarts ==
  ASSUME RoomInit
  PROVE  StaysInv
<1>1. /\ pending = Empty /\ batch = [f \in Flushers |-> Empty] /\ deletions = {} /\ snapshots = {}
      /\ accepted = None /\ saved = None /\ phase = "running" /\ live = {} /\ load = [r \in Rooms |-> NoLoad]
      /\ op = [c \in Conns |-> NoOp]
  BY DEF RoomInit, Init
<1>2. ASSUME NEW r \in Rooms PROVE RoomStays(r)
  BY <1>1 DEF RoomStays, Held, Loading, NoLoad, Empty, None, Covered
<1>3. \A c \in Conns : HandlerStays(c)
  BY <1>1 DEF HandlerStays, Editing, NoOp
<1> QED
  BY <1>1, <1>2, <1>3 DEF StaysInv

\* The two promises of a room without canvas requests.
LEMMA StaysKept ==
  ASSUME RoomInv, StaysInv
  PROVE  EditsStayInRoom /\ SavedElementsPersist
<1>1. live \subseteq Rooms /\ \A c \in Conns : op[c].todo \in Seq(StageNames)
  BY DEF RoomInv, Typing, Handlers
<1>2. ASSUME NEW r \in live, ~Handling(r), load[r] = NoLoad, NEW u \in accepted[r], deleted[r][u.elem] = 0
      PROVE  \E x \in mem[r] : x.elem = u.elem
  <2>1. RoomStays(r)
    BY <1>1 DEF StaysInv
  <2>2. OnShow(r, u.elem)
    BY <1>1, <1>2, <2>1 DEF RoomStays, Loading, NoLoad
  <2>3. \A c \in Conns : ~Going(c, r, u.elem)
    BY <1>2 DEF Handling, Going, ToSet
  <2> QED
    BY <1>2, <2>2, <2>3 DEF OnShow, Gone, Names
<1>3. ASSUME NEW r \in Rooms, NEW u \in saved[r], deleted[r][u.elem] = 0
      PROVE  rows[r][u.elem] # NoRow
  BY <1>3 DEF StaysInv, RoomStays, Covered, Gone, RowNames
<1> QED
  BY <1>2, <1>3 DEF EditsStayInRoom, SavedElementsPersist

\* Before the first request the rooms are alone.
Alone == requests = 0 => StaysInv /\ \A w \in Workers : request[w].at = "none"

LEMMA AloneStep ==
  ASSUME PersistenceAssumption, RoomStoreAssumption, ~LateSnapshots, ~DbMayFail, MaxStops = 0,
         RoomInv, requests \in Nat, Alone, [CanvasNext]_<<vars, cvars>>
  PROVE  requests' \in Nat /\ Alone'
<1>1. CASE RoomStep
  <2>1. /\ RoomNext /\ requests' = requests
        /\ request' = request \/ request' = [w \in Workers |-> NoRequest]
    BY <1>1 DEF RoomStep
  <2> QED
    BY <2>1, RoomNextStays DEF Alone, NoRequest
<1>2. CASE Request
  <2>1. PICK w \in Workers :
          \/ \E r \in Rooms : SaveCanvasReads(w, r) \/ RestoreCanvasReads(w, r) \/ ClearCanvasMemory(w, r)
          \/ SaveCanvasWrites(w) \/ RestoreCanvasReplaces(w) \/ ClearCanvasDatabase(w)
    BY <1>2 DEF Request
  <2>2. CASE \E r \in Rooms : SaveCanvasReads(w, r) \/ RestoreCanvasReads(w, r) \/ ClearCanvasMemory(w, r)
    BY <2>2 DEF SaveCanvasReads, RestoreCanvasReads, ClearCanvasMemory, Begin, Alone
  <2>3. CASE SaveCanvasWrites(w) \/ RestoreCanvasReplaces(w) \/ ClearCanvasDatabase(w)
    <3>1. requests' = requests /\ request[w].at # "none"
      BY <2>3 DEF SaveCanvasWrites, RestoreCanvasReplaces, ClearCanvasDatabase, InRequest
    <3> QED
      BY <3>1 DEF Alone
  <2> QED
    BY <2>1, <2>2, <2>3
<1>3. CASE UNCHANGED <<vars, cvars>>
  <2>1. [RoomNext]_vars /\ UNCHANGED <<requests, request>>
    BY <1>3 DEF cvars
  <2> QED
    BY <2>1, RoomNextStays DEF Alone
<1> QED
  BY <1>1, <1>2, <1>3 DEF CanvasNext

\* Between crashes, and across them, a room shows every edit it has taken that
\* was not deleted, and the database has every element that was ever saved and
\* not deleted, whoever joins, leaves, draws or deletes, and whenever the room
\* is evicted and loaded again; nobody stops the process in an orderly way, and
\* no canvas request has come (manager.go, persistence.go).
THEOREM EditsAreKept ==
  ASSUME ~EditWhileLoading, ~LateSnapshots, ~DbMayFail, MaxStops = 0
  PROVE  RoomSpec => [](EditsStayInRoom /\ SavedElementsPersist)
<1>1. RoomInit => RoomInv /\ StaysInv
  BY RoomStarts, StaysStarts, PersistenceAssumption
<1>2. RoomInv /\ StaysInv /\ [RoomNext]_vars => RoomInv' /\ StaysInv'
  BY RoomNextKeeps, RoomNextStays, PersistenceAssumption, RoomStoreAssumption
<1>3. RoomInv /\ StaysInv => EditsStayInRoom /\ SavedElementsPersist
  BY StaysKept
<1> QED
  BY <1>1, <1>2, <1>3, PTL DEF RoomSpec

\* The same of the rooms beside which canvas requests are possible, until the
\* first of them (canvas_handlers.go).
THEOREM KeptBeforeRequests ==
  ASSUME ~EditWhileLoading, ~LateSnapshots, ~DbMayFail, MaxStops = 0
  PROVE  CanvasSpec => []KeptWithoutRequests
<1> DEFINE Inv == RoomInv /\ Requested /\ requests \in Nat /\ Alone
<1>1. CanvasInit => Inv
  <2> SUFFICES ASSUME CanvasInit PROVE Inv
    OBVIOUS
  <2>1. RoomInit /\ requests = 0 /\ request = [w \in Workers |-> NoRequest]
    BY DEF CanvasInit
  <2> QED
    BY <2>1, CanvasStarts, StaysStarts, PersistenceAssumption DEF Alone, NoRequest
<1>2. Inv /\ [CanvasNext]_<<vars, cvars>> => Inv'
  BY CanvasBackedStep, AloneStep, PersistenceAssumption, RoomStoreAssumption
<1>3. Inv => KeptWithoutRequests
  BY StaysKept DEF Alone, KeptWithoutRequests
<1> HIDE DEF Inv
<1> QED
  BY <1>1, <1>2, <1>3, PTL DEF CanvasSpec

=============================================================================
