-------------------------- MODULE PersistenceProofs --------------------------
(***************************************************************************)
(* The write-behind queue is type correct and drops no update while the    *)
(* process runs, for any number of rooms, elements, connections and edits, *)
(* and its flush loop implements the durable log.                          *)
(*                                                                         *)
(* NoUpdateDropped is not inductive: a failed save of the Stopper is only  *)
(* logged, so it has to be known that the Stopper holds nothing as long as *)
(* the process runs (StopperWaits).  Nor is OneCopy: a batch that is put   *)
(* back must be free of repetitions itself, and an edit is new because no  *)
(* update is stamped later than the clock (Once).                          *)
(*                                                                         *)
(* The loop is shown to implement the log step by step, whatever saves     *)
(* fail, commits are reported as errors and processes crash: the edits of  *)
(* a room have one order, s, in which the first n are those the database   *)
(* has; what the ticker holds and what is queued are consecutive slices of *)
(* s, up to its end, and start no later than position n + 1 (IsLog).  A    *)
(* batch that reaches the database therefore extends the durable prefix,   *)
(* even one that was in it already because its commit had been taken for a *)
(* failure.                                                                *)
(***************************************************************************)
EXTENDS Persistence, FiniteSetTheorems, WellFoundedInduction, TLAPS

\* Before Stop is called, the main goroutine has taken nothing.
StopperWaits == phase = "running" => Idle(Stopper)

QueueInv == TypeOK /\ NoUpdateDropped /\ StopperWaits

-----------------------------------------------------------------------------
(* Sequences and the sets of their elements. *)

\* The elements of a sequence of updates are updates.
LEMMA ToSetType ==
  ASSUME NEW S, NEW s \in Seq(S)
  PROVE  ToSet(s) \in SUBSET S
BY DEF ToSet

\* An empty queue holds nothing.
LEMMA ToSetEmpty == ToSet(<<>>) = {}
BY DEF ToSet

\* A queue put in front of another holds what both hold.
LEMMA ToSetConcat ==
  ASSUME NEW S, NEW s \in Seq(S), NEW t \in Seq(S)
  PROVE  ToSet(s \o t) = ToSet(s) \cup ToSet(t)
<1>1. ASSUME NEW x \in ToSet(s \o t) PROVE x \in ToSet(s) \cup ToSet(t)
  <2>1. PICK i \in 1..(Len(s) + Len(t)) : x = (s \o t)[i]
    BY <1>1 DEF ToSet
  <2>2. CASE i <= Len(s)
    BY <2>1, <2>2 DEF ToSet
  <2>3. CASE i > Len(s)
    <3>1. i - Len(s) \in 1..Len(t) /\ x = t[i - Len(s)]
      BY <2>1, <2>3
    <3> QED
      BY <3>1 DEF ToSet
  <2> QED
    BY <2>1, <2>2, <2>3
<1>2. ASSUME NEW x \in ToSet(s) PROVE x \in ToSet(s \o t)
  BY <1>2 DEF ToSet
<1>3. ASSUME NEW x \in ToSet(t) PROVE x \in ToSet(s \o t)
  <2>1. PICK j \in 1..Len(t) : x = t[j]
    BY <1>3 DEF ToSet
  <2>2. Len(s) + j \in 1..Len(s \o t) /\ (s \o t)[Len(s) + j] = x
    BY <2>1
  <2> QED
    BY <2>2 DEF ToSet
<1> QED
  BY <1>1, <1>2, <1>3

-----------------------------------------------------------------------------
(* Types of what the actions compute. *)

\* Writing a batch gives a table again.
LEMMA UpsertType ==
  ASSUME NEW t \in Table, NEW s \in Seq(Updates)
  PROVE  Upsert(t, s) \in Table
<1>1. ASSUME NEW e \in Elems, \E i \in DOMAIN s : LastWrite(s, i, e)
      PROVE  s[CHOOSE i \in DOMAIN s : LastWrite(s, i, e)].stamp \in Stamps
  <2> DEFINE k == CHOOSE i \in DOMAIN s : LastWrite(s, i, e)
  <2>1. k \in DOMAIN s
    BY <1>1
  <2> HIDE DEF k
  <2>2. s[k] \in Updates
    BY <2>1
  <2>3. s[k].stamp \in Stamps
    BY <2>2 DEF Updates
  <2> QED
    BY <2>3 DEF k
<1> QED
  BY <1>1 DEF Upsert, Table

\* So does deleting elements.
LEMMA WithoutType ==
  ASSUME NEW t \in Table, NEW es
  PROVE  Without(t, es) \in Table
BY DEF Without, Table

\* Empty queues are queues.
LEMMA EmptyType == Empty \in [Rooms -> Seq(Updates)]
BY DEF Empty

\* The locked swap moves sequences of updates, whoever swaps for which rooms.
LEMMA TakeType ==
  ASSUME TypeOK, NEW f \in Flushers, NEW R, Take(f, R)
  PROVE  /\ pending' \in [Rooms -> Seq(Updates)]
         /\ batch' \in [Flushers -> [Rooms -> Seq(Updates)]]
BY DEF Take, TypeOK

\* A batch that is given up leaves the other batches as they are.
LEMMA ReleaseType ==
  ASSUME TypeOK, NEW f \in Flushers, NEW r \in Rooms
  PROVE  [batch EXCEPT ![f][r] = <<>>] \in [Flushers -> [Rooms -> Seq(Updates)]]
BY DEF TypeOK

\* Committing a batch keeps the rows and the history well typed.
LEMMA CommitType ==
  ASSUME TypeOK, NEW f \in Flushers, NEW r \in Rooms,
         rows'  = [rows  EXCEPT ![r] = Upsert(@, batch[f][r])],
         saved' = [saved EXCEPT ![r] = @ \cup ToSet(batch[f][r])]
  PROVE  rows' \in [Rooms -> Table] /\ saved' \in [Rooms -> SUBSET Updates]
<1>1. batch[f][r] \in Seq(Updates) /\ rows[r] \in Table /\ saved[r] \in SUBSET Updates
  BY DEF TypeOK
<1>2. Upsert(rows[r], batch[f][r]) \in Table
  BY <1>1, UpsertType
<1>3. ToSet(batch[f][r]) \in SUBSET Updates
  BY <1>1, ToSetType
<1> QED
  BY <1>1, <1>2, <1>3 DEF TypeOK

\* The process starts with the right types.
LEMMA TypeInit == PersistenceAssumption /\ Init => TypeOK
<1> SUFFICES ASSUME PersistenceAssumption, Init PROVE TypeOK
  OBVIOUS
<1>1. pending \in [Rooms -> Seq(Updates)] /\ batch \in [Flushers -> [Rooms -> Seq(Updates)]]
  BY EmptyType DEF Init
<1>2. rows \in [Rooms -> Table] /\ deleted \in [Rooms -> [Elems -> 0..MaxStamp]]
  BY DEF Init, Table, NoRow, PersistenceAssumption
<1>3. accepted \in [Rooms -> SUBSET Updates] /\ saved \in [Rooms -> SUBSET Updates]
  BY DEF Init, None
<1>4. /\ clock \in 0..MaxStamp /\ stops \in 0..MaxStops
      /\ phase \in {"running", "stopping", "exited"} /\ deletions = {} /\ snapshots = {}
  BY DEF Init, PersistenceAssumption
<1> QED
  BY <1>1, <1>2, <1>3, <1>4 DEF TypeOK

\* Every step keeps the types.
LEMMA TypeStep == PersistenceAssumption /\ TypeOK /\ [Next]_pvars => TypeOK'
<1> SUFFICES ASSUME PersistenceAssumption, TypeOK, [Next]_pvars PROVE TypeOK'
  OBVIOUS
<1>1. ASSUME NEW r \in Rooms, NEW e \in Elems, ClientUpdates(r, e) PROVE TypeOK'
  <2> DEFINE us == <<[elem |-> e, stamp |-> clock + 1]>>
  <2>1. clock' \in 0..MaxStamp /\ clock + 1 \in Stamps
    BY <1>1 DEF ClientUpdates, TypeOK, Stamps, PersistenceAssumption
  <2>2. us \in Seq(Updates)
    BY <2>1 DEF Updates
  <2>3. pending' \in [Rooms -> Seq(Updates)]
    BY <2>2, <1>1 DEF ClientUpdates, QueueElementUpdates, TypeOK
  <2>4. accepted' \in [Rooms -> SUBSET Updates]
    <3>1. ToSet(us) \in SUBSET Updates
      BY <2>2, ToSetType
    <3>2. accepted' = [accepted EXCEPT ![r] = @ \cup ToSet(us)]
      BY <1>1 DEF ClientUpdates, QueueElementUpdates
    <3> HIDE DEF us
    <3> QED
      BY <3>1, <3>2 DEF TypeOK
  <2> QED
    BY <2>1, <2>3, <2>4, <1>1 DEF ClientUpdates, QueueElementUpdates, TypeOK
<1>2. ASSUME NEW r \in Rooms, NEW es \in DeleteSets, ClientDeletes(r, es) PROVE TypeOK'
  <2>1. clock' \in 0..MaxStamp /\ clock + 1 \in Stamps /\ clock + 1 \in 0..MaxStamp
    BY <1>2 DEF ClientDeletes, TypeOK, Stamps, PersistenceAssumption
  <2>2. deletions' \subseteq [room : Rooms, ids : SUBSET Elems, stamp : Stamps]
    BY <2>1, <1>2 DEF ClientDeletes, QueueElementDeletion, TypeOK, PersistenceAssumption
  <2>3. deleted' \in [Rooms -> [Elems -> 0..MaxStamp]]
    BY <2>1, <1>2 DEF ClientDeletes, QueueElementDeletion, TypeOK
  <2> QED
    BY <2>1, <2>2, <2>3, <1>2 DEF ClientDeletes, QueueElementDeletion, TypeOK
<1>3. ASSUME NEW d \in deletions, RunDeletion(d) PROVE TypeOK'
  <2>1. d.room \in Rooms
    BY DEF TypeOK
  <2>2. Without(rows[d.room], d.ids) \in Table
    BY <2>1, WithoutType DEF TypeOK
  <2>3. rows' \in [Rooms -> Table]
    BY <2>1, <2>2, <1>3 DEF RunDeletion, TypeOK
  <2> QED
    BY <2>3, <1>3 DEF RunDeletion, TypeOK
<1>4. ASSUME TickerTakes PROVE TypeOK'
  BY <1>4, TakeType DEF TickerTakes, TypeOK, Flushers
<1>5. ASSUME NEW c \in Conns, NEW r \in Rooms, FlushRoomTakes(c, r) PROVE TypeOK'
  BY <1>5, TakeType DEF FlushRoomTakes, TypeOK, Flushers
<1>6. ASSUME NEW f \in Flushers, NEW r \in Rooms, Save(f, r) PROVE TypeOK'
  <2>1. rows' \in [Rooms -> Table] /\ saved' \in [Rooms -> SUBSET Updates]
    BY <1>6, CommitType DEF Save
  <2>2. batch' \in [Flushers -> [Rooms -> Seq(Updates)]]
    BY <1>6, ReleaseType DEF Save
  <2> QED
    BY <2>1, <2>2, <1>6 DEF Save, TypeOK
<1>7. ASSUME NEW f \in Flushers, NEW r \in Rooms, SaveFails(f, r) PROVE TypeOK'
  <2>1. rows' \in [Rooms -> Table] /\ saved' \in [Rooms -> SUBSET Updates]
    BY <1>7, CommitType DEF SaveFails, TypeOK
  <2>2. batch' \in [Flushers -> [Rooms -> Seq(Updates)]]
    BY <1>7, ReleaseType DEF SaveFails
  <2>3. pending' \in [Rooms -> Seq(Updates)]
    BY <1>7 DEF SaveFails, Requeued, TypeOK
  <2> QED
    BY <2>1, <2>2, <2>3, <1>7 DEF SaveFails, TypeOK
<1>8. ASSUME Stop, UNCHANGED snapshots PROVE TypeOK'
  <2>1. /\ pending' \in [Rooms -> Seq(Updates)]
        /\ batch' \in [Flushers -> [Rooms -> Seq(Updates)]]
    BY <1>8, TakeType DEF Stop, Flushers
  <2>2. stops' \in 0..MaxStops
    BY <1>8 DEF Stop, TypeOK, PersistenceAssumption
  <2> QED
    BY <2>1, <2>2, <1>8 DEF Stop, TypeOK
<1>9. ASSUME Exit PROVE TypeOK'
  BY <1>9 DEF Exit, TypeOK
<1>10. ASSUME FreshProcess PROVE TypeOK'
  BY <1>10, EmptyType DEF FreshProcess, None, TypeOK
<1>11. CASE UNCHANGED pvars
  BY <1>11 DEF pvars, TypeOK
<1> QED
  BY <1>1, <1>2, <1>3, <1>4, <1>5, <1>6, <1>7, <1>8, <1>9, <1>10, <1>11 DEF Next, Restart, Crash

-----------------------------------------------------------------------------
(* No update is dropped. *)

\* Where the updates of room r are: saved, held by a flusher, or queued.
Located(r) == saved[r] \cup InFlight(r) \cup ToSet(pending[r])

\* The locked swap takes nothing away from a room, when the goroutine that
\* swaps has finished with its last batch.
LEMMA TakeKeeps ==
  ASSUME TypeOK, NEW f \in Flushers, NEW R, Idle(f), Take(f, R), UNCHANGED saved, NEW r \in Rooms
  PROVE  Located(r) \subseteq Located(r)'
<1>1. batch[f][r] = <<>>
  BY DEF Idle, Empty
<1>2. \A g \in Flushers \ {f} : batch'[g][r] = batch[g][r]
  BY DEF Take, TypeOK
<1>3. batch'[f][r] = IF r \in R THEN pending[r] ELSE batch[f][r]
  BY DEF Take, TypeOK
<1>4. pending'[r] = IF r \in R THEN <<>> ELSE pending[r]
  BY DEF Take
<1>5. ASSUME NEW u \in InFlight(r) PROVE u \in InFlight(r)'
  <2>1. PICK g \in Flushers : u \in ToSet(batch[g][r])
    BY <1>5 DEF InFlight
  <2>2. g # f
    BY <2>1, <1>1, ToSetEmpty
  <2> QED
    BY <2>1, <2>2, <1>2 DEF InFlight
<1>6. ASSUME NEW u \in ToSet(pending[r]) PROVE u \in ToSet(pending[r])' \cup InFlight(r)'
  BY <1>6, <1>3, <1>4 DEF InFlight
<1> QED
  BY <1>5, <1>6 DEF Located

\* Giving a batch up keeps its updates located, when they were committed or
\* put back in front of the queue.
LEMMA ReleaseKeeps ==
  ASSUME TypeOK, NEW f \in Flushers, NEW r \in Rooms, NEW q \in Rooms,
         batch' = [batch EXCEPT ![f][r] = <<>>],
         saved[q] \subseteq saved'[q], ToSet(pending[q]) \subseteq ToSet(pending'[q]),
         ToSet(batch[f][r]) \subseteq saved'[r] \cup ToSet(pending'[r])
  PROVE  Located(q) \subseteq Located(q)'
<1>1. ASSUME NEW u \in InFlight(q) PROVE u \in Located(q)'
  <2>1. PICK g \in Flushers : u \in ToSet(batch[g][q])
    BY <1>1 DEF InFlight
  <2>2. CASE g = f /\ q = r
    BY <2>1, <2>2 DEF Located
  <2>3. CASE ~(g = f /\ q = r)
    <3>1. batch'[g][q] = batch[g][q]
      BY <2>3 DEF TypeOK
    <3> QED
      BY <2>1, <3>1 DEF Located, InFlight
  <2> QED
    BY <2>2, <2>3
<1> QED
  BY <1>1 DEF Located

\* Between two running states an action may only accept updates it queues and
\* must keep the rest located.
LEMMA QueueStep == PersistenceAssumption /\ QueueInv /\ [Next]_pvars => QueueInv'
<1> SUFFICES ASSUME PersistenceAssumption, QueueInv, [Next]_pvars PROVE QueueInv'
  OBVIOUS
<1> USE DEF QueueInv
<1>t. TypeOK'
  BY TypeStep
<1>l. phase = "running" => \A r \in Rooms : accepted[r] \subseteq Located(r)
  BY DEF NoUpdateDropped, Located
<1>k. ASSUME phase' = "running" => phase = "running",
             phase' = "running" => \A r \in Rooms :
               accepted'[r] \subseteq accepted[r] \cup Located(r)' /\ Located(r) \subseteq Located(r)'
      PROVE  NoUpdateDropped'
  BY <1>k, <1>l DEF NoUpdateDropped, Located
<1>1. ASSUME NEW r \in Rooms, NEW e \in Elems, ClientUpdates(r, e) PROVE QueueInv'
  <2> DEFINE us == <<[elem |-> e, stamp |-> clock + 1]>>
  <2>1. us \in Seq(Updates) /\ pending[r] \in Seq(Updates)
    <3>1. clock + 1 \in Stamps
      BY <1>1 DEF ClientUpdates, TypeOK, Stamps, PersistenceAssumption
    <3>2. [elem |-> e, stamp |-> clock + 1] \in Updates
      BY <3>1 DEF Updates
    <3> QED
      BY <3>2 DEF TypeOK
  <2>2. /\ pending' = [pending EXCEPT ![r] = @ \o us]
        /\ accepted' = [accepted EXCEPT ![r] = @ \cup ToSet(us)]
        /\ UNCHANGED <<batch, phase, saved>>
    BY <1>1 DEF ClientUpdates, QueueElementUpdates
  <2> HIDE DEF us
  <2>3. ToSet(pending[r] \o us) = ToSet(pending[r]) \cup ToSet(us)
    BY <2>1, ToSetConcat
  <2>4. ASSUME NEW q \in Rooms
        PROVE  /\ accepted'[q] \subseteq accepted[q] \cup Located(q)'
               /\ Located(q) \subseteq Located(q)'
    <3> USE DEF Located, InFlight, TypeOK
    <3>1. InFlight(q)' = InFlight(q) /\ saved'[q] = saved[q]
      BY <2>2
    <3>2. CASE q = r
      <4>1. pending'[q] = pending[r] \o us /\ accepted'[q] = accepted[r] \cup ToSet(us)
        BY <2>2, <3>2
      <4> QED
        BY <4>1, <2>3, <3>1, <3>2
    <3>3. CASE q # r
      BY <2>2, <3>1, <3>3
    <3> QED
      BY <3>2, <3>3
  <2> QED
    BY <2>2, <2>4, <1>k, <1>t DEF StopperWaits, Idle
<1>2. ASSUME NEW r \in Rooms, NEW es \in DeleteSets, ClientDeletes(r, es) PROVE QueueInv'
  <2>1. UNCHANGED <<pending, batch, phase, accepted, saved>>
    BY <1>2 DEF ClientDeletes, QueueElementDeletion
  <2> QED
    BY <2>1, <1>t DEF NoUpdateDropped, InFlight, StopperWaits, Idle
<1>3. ASSUME NEW d \in deletions, RunDeletion(d) PROVE QueueInv'
  <2>1. UNCHANGED <<pending, batch, phase, accepted, saved>>
    BY <1>3 DEF RunDeletion
  <2> QED
    BY <2>1, <1>t DEF NoUpdateDropped, InFlight, StopperWaits, Idle
<1>4. ASSUME NEW f \in Flushers \ {Stopper}, NEW R, Idle(f), Take(f, R),
             UNCHANGED <<phase, accepted, saved>>
      PROVE  QueueInv'
  <2>1. \A q \in Rooms : Located(q) \subseteq Located(q)'
    BY <1>4, TakeKeeps
  <2>2. NoUpdateDropped'
    BY <1>4, <2>1, <1>k
  <2>3. batch'[Stopper] = batch[Stopper]
    BY <1>4 DEF Take, TypeOK, Flushers
  <2> QED
    BY <1>4, <2>2, <2>3, <1>t DEF StopperWaits, Idle
<1>5. ASSUME NEW f \in Flushers, NEW r \in Rooms, Save(f, r) PROVE QueueInv'
  <2>1. \A q \in Rooms : Located(q) \subseteq Located(q)'
    BY <1>5, ReleaseKeeps DEF Save, TypeOK
  <2>2. NoUpdateDropped'
    BY <1>5, <2>1, <1>k DEF Save
  <2>3. StopperWaits'
    BY <1>5 DEF Save, StopperWaits, Idle, Empty, TypeOK, Flushers
  <2> QED
    BY <2>2, <2>3, <1>t
<1>6. ASSUME NEW f \in Flushers, NEW r \in Rooms, SaveFails(f, r) PROVE QueueInv'
  <2>1. CASE phase = "running"
    <3>1. f # Stopper
      BY <2>1, <1>6 DEF SaveFails, StopperWaits, Idle, Empty
    <3>2. pending' = [pending EXCEPT ![r] = batch[f][r] \o @]
      BY <3>1, <1>6 DEF SaveFails, Requeued
    <3>3. ToSet(pending'[r]) = ToSet(batch[f][r]) \cup ToSet(pending[r])
      BY <3>2, ToSetConcat DEF TypeOK
    <3>4. \A q \in Rooms : saved[q] \subseteq saved'[q] /\ ToSet(pending[q]) \subseteq ToSet(pending'[q])
      BY <3>2, <3>3, <1>6 DEF SaveFails, TypeOK
    <3>5. \A q \in Rooms : Located(q) \subseteq Located(q)'
      BY <3>3, <3>4, <1>6, ReleaseKeeps DEF SaveFails
    <3>6. NoUpdateDropped'
      BY <1>6, <3>5, <1>k DEF SaveFails
    <3>7. StopperWaits'
      BY <3>1, <1>6 DEF SaveFails, StopperWaits, Idle, TypeOK, Flushers
    <3> QED
      BY <3>6, <3>7, <1>t
  <2>2. CASE phase # "running"
    BY <2>2, <1>6, <1>t DEF SaveFails, NoUpdateDropped, StopperWaits
  <2> QED
    BY <2>1, <2>2
<1>7. ASSUME Stop PROVE QueueInv'
  BY <1>7, <1>t DEF Stop, NoUpdateDropped, StopperWaits
<1>8. ASSUME Exit PROVE QueueInv'
  BY <1>8, <1>t DEF Exit, NoUpdateDropped, StopperWaits
<1>9. ASSUME FreshProcess PROVE QueueInv'
  BY <1>9, <1>t DEF FreshProcess, None, NoUpdateDropped, StopperWaits, Idle, Flushers
<1>10. CASE UNCHANGED pvars
  BY <1>10, <1>t DEF pvars, NoUpdateDropped, InFlight, StopperWaits, Idle
<1>11. ASSUME TickerTakes PROVE QueueInv'
  BY <1>11, <1>4 DEF TickerTakes, Flushers, PersistenceAssumption
<1>12. ASSUME NEW c \in Conns, NEW r \in Rooms, FlushRoomTakes(c, r) PROVE QueueInv'
  BY <1>12, <1>4 DEF FlushRoomTakes, Flushers, PersistenceAssumption
<1> QED
  BY <1>1, <1>2, <1>3, <1>5, <1>6, <1>7, <1>8, <1>9, <1>10, <1>11, <1>12
  DEF Next, Restart, Crash

\* It holds when the process starts.
LEMMA QueueInit == PersistenceAssumption /\ Init => QueueInv
BY TypeInit DEF Init, None, QueueInv, NoUpdateDropped, StopperWaits, Idle, Flushers

\* The state of the queue, of its flushers and of the tables stays well typed.
THEOREM TypeCorrect ==
  ASSUME PersistenceAssumption
  PROVE  Spec => []TypeOK
<1>1. Init => TypeOK
  BY TypeInit
<1>2. TypeOK /\ [Next]_pvars => TypeOK'
  BY TypeStep
<1> QED
  BY <1>1, <1>2, PTL DEF Spec

\* No update that QueueElementUpdates has taken is dropped before an orderly
\* shutdown begins: FlushRoom and flushAllPending put back what they could not
\* save, whichever of them run together and whatever the database answers.
THEOREM UpdatesAreKept ==
  ASSUME PersistenceAssumption
  PROVE  Spec => []NoUpdateDropped
<1>1. Init => QueueInv
  BY QueueInit
<1>2. QueueInv /\ [Next]_pvars => QueueInv'
  BY QueueStep
<1>3. QueueInv => NoUpdateDropped
  BY DEF QueueInv
<1> QED
  BY <1>1, <1>2, <1>3, PTL DEF Spec

-----------------------------------------------------------------------------
(* One copy of every update. *)

NoRepeats(s) == \A i, j \in DOMAIN s : s[i] = s[j] => i = j

\* OneCopy for room r, with what makes it inductive.
Once(r) ==
  /\ NoRepeats(pending[r])
  /\ \A u \in ToSet(pending[r]) : u.stamp <= clock
  /\ \A f \in Flushers :
       /\ NoRepeats(batch[f][r])
       /\ \A u \in ToSet(batch[f][r]) : u.stamp <= clock
       /\ ToSet(batch[f][r]) \cap ToSet(pending[r]) = {}
       /\ \A g \in Flushers : f # g => ToSet(batch[f][r]) \cap ToSet(batch[g][r]) = {}

CopyInv == TypeOK /\ \A r \in Rooms : Once(r)

\* An empty queue repeats nothing.
LEMMA NoRepeatsEmpty == NoRepeats(<<>>)
BY DEF NoRepeats

\* Disjoint queues may be joined.
LEMMA NoRepeatsConcat ==
  ASSUME NEW s \in Seq(Updates), NEW t \in Seq(Updates),
         NoRepeats(s), NoRepeats(t), ToSet(s) \cap ToSet(t) = {}
  PROVE  NoRepeats(s \o t)
<1>1. \A i \in DOMAIN (s \o t) :
        \/ i \in DOMAIN s /\ (s \o t)[i] = s[i]
        \/ i - Len(s) \in DOMAIN t /\ (s \o t)[i] = t[i - Len(s)] /\ i \in Nat
  OBVIOUS
<1>2. \A i \in DOMAIN s, j \in DOMAIN t : s[i] # t[j]
  BY DEF ToSet
<1>3. ASSUME NEW i \in DOMAIN (s \o t), NEW j \in DOMAIN (s \o t), (s \o t)[i] = (s \o t)[j]
      PROVE  i = j
  <2>1. CASE i \in DOMAIN s /\ (s \o t)[i] = s[i] /\ j \in DOMAIN s /\ (s \o t)[j] = s[j]
    BY <1>3, <2>1 DEF NoRepeats
  <2>2. CASE /\ i - Len(s) \in DOMAIN t /\ (s \o t)[i] = t[i - Len(s)] /\ i \in Nat
             /\ j - Len(s) \in DOMAIN t /\ (s \o t)[j] = t[j - Len(s)] /\ j \in Nat
    <3>1. i - Len(s) = j - Len(s)
      BY <1>3, <2>2 DEF NoRepeats
    <3>2. Len(s) \in Nat
      OBVIOUS
    <3> QED
      BY <2>2, <3>1, <3>2
  <2> QED
    BY <1>1, <1>2, <1>3, <2>1, <2>2
<1> QED
  BY <1>3 DEF NoRepeats

\* The locked swap hands the whole queue of a room over.
LEMMA TakeOnce ==
  ASSUME TypeOK, NEW f \in Flushers, NEW R, Take(f, R), NEW r \in Rooms, Once(r), clock' = clock
  PROVE  Once(r)'
<1>1. \A g \in Flushers \ {f} : batch'[g][r] = batch[g][r]
  BY DEF Take, TypeOK
<1>2. CASE r \notin R
  <2>1. batch'[f][r] = batch[f][r] /\ pending'[r] = pending[r]
    BY <1>2 DEF Take, TypeOK
  <2> QED
    BY <1>1, <2>1 DEF Once
<1>3. CASE r \in R
  <2>1. batch'[f][r] = pending[r] /\ pending'[r] = <<>>
    BY <1>3 DEF Take, TypeOK
  <2> QED
    BY <1>1, <2>1, NoRepeatsEmpty, ToSetEmpty DEF Once
<1> QED
  BY <1>2, <1>3

\* A batch is given up, or put back in front of the queue.
LEMMA ReleaseOnce ==
  ASSUME TypeOK, NEW f \in Flushers, NEW r \in Rooms, NEW q \in Rooms, Once(q), clock' = clock,
         batch' = [batch EXCEPT ![f][r] = <<>>],
         pending' = pending \/ pending' = [pending EXCEPT ![r] = batch[f][r] \o @]
  PROVE  Once(q)'
<1>1. \A g \in Flushers : batch'[g][q] = IF g = f /\ q = r THEN <<>> ELSE batch[g][q]
  BY DEF TypeOK
<1>2. CASE pending'[q] = pending[q]
  BY <1>1, <1>2, NoRepeatsEmpty, ToSetEmpty DEF Once
<1>3. CASE q = r /\ pending'[q] = batch[f][q] \o pending[q]
  <2>1. batch[f][q] \in Seq(Updates) /\ pending[q] \in Seq(Updates)
    BY DEF TypeOK
  <2>2. NoRepeats(pending'[q])
    BY <1>3, <2>1, NoRepeatsConcat DEF Once
  <2>3. ToSet(pending'[q]) = ToSet(batch[f][q]) \cup ToSet(pending[q])
    BY <1>3, <2>1, ToSetConcat
  <2>4. batch'[f][q] = <<>> /\ \A g \in Flushers : g # f => batch'[g][q] = batch[g][q]
    BY <1>1, <1>3
  <2>5. ToSet(batch'[f][q]) = {} /\ NoRepeats(batch'[f][q])
    BY <2>4, NoRepeatsEmpty, ToSetEmpty
  <2>6. \A g \in Flushers : g # f =>
          /\ ToSet(batch[g][q]) \cap (ToSet(batch[f][q]) \cup ToSet(pending[q])) = {}
          /\ \A u \in ToSet(batch[g][q]) : u.stamp <= clock'
    BY DEF Once
  <2>7. \A u \in ToSet(pending'[q]) : u.stamp <= clock'
    BY <2>3 DEF Once
  <2> QED
    BY <2>2, <2>3, <2>4, <2>5, <2>6, <2>7 DEF Once
<1> QED
  BY <1>2, <1>3 DEF TypeOK

\* Every step keeps the invariant of single copies.
LEMMA CopyStep == PersistenceAssumption /\ CopyInv /\ [Next]_pvars => CopyInv'
<1> SUFFICES ASSUME PersistenceAssumption, CopyInv, [Next]_pvars PROVE CopyInv'
  OBVIOUS
<1> USE DEF CopyInv
<1>t. TypeOK'
  BY TypeStep
<1>k. ASSUME UNCHANGED <<pending, batch>>, clock' \in Nat, clock <= clock' PROVE CopyInv'
  <2> SUFFICES ASSUME NEW r \in Rooms PROVE Once(r)'
    BY <1>t
  <2>1. /\ \A u \in ToSet(pending[r]) : u.stamp \in Nat
        /\ \A f \in Flushers : \A u \in ToSet(batch[f][r]) : u.stamp \in Nat
        /\ clock \in Nat
    <3>1. \A u \in Updates : u.stamp \in Nat
      BY DEF Updates, Stamps
    <3>2. ToSet(pending[r]) \in SUBSET Updates /\ \A f \in Flushers : ToSet(batch[f][r]) \in SUBSET Updates
      BY ToSetType DEF TypeOK
    <3>3. clock \in Nat
      BY DEF TypeOK, PersistenceAssumption
    <3> QED
      BY <3>1, <3>2, <3>3
  <2> QED
    BY <1>k, <2>1 DEF Once
<1>1. ASSUME NEW r \in Rooms, NEW e \in Elems, ClientUpdates(r, e) PROVE CopyInv'
  <2> DEFINE us == <<[elem |-> e, stamp |-> clock + 1]>>
  <2>1. /\ pending' = [pending EXCEPT ![r] = @ \o us] /\ UNCHANGED batch
        /\ clock' = clock + 1 /\ clock \in Nat
        /\ us \in Seq(Updates) /\ pending[r] \in Seq(Updates)
        /\ \A u \in ToSet(us) : u.stamp = clock + 1
    <3>1. clock \in Nat /\ clock + 1 \in Stamps
      BY <1>1 DEF ClientUpdates, TypeOK, Stamps, PersistenceAssumption
    <3>2. us \in Seq(Updates)
      BY <3>1 DEF Updates
    <3>3. \A u \in ToSet(us) : u.stamp = clock + 1
      BY DEF ToSet
    <3> QED
      BY <1>1, <3>1, <3>2, <3>3 DEF ClientUpdates, QueueElementUpdates, TypeOK
  <2>2. NoRepeats(us)
    BY DEF NoRepeats
  <2> HIDE DEF us
  <2>3. \A q \in Rooms : /\ \A u \in ToSet(pending[q]) : u.stamp \in Nat
                         /\ \A f \in Flushers : \A u \in ToSet(batch[f][q]) : u.stamp \in Nat
    <3>1. \A u \in Updates : u.stamp \in Nat
      BY DEF Updates, Stamps
    <3> QED
      BY <3>1, ToSetType DEF TypeOK
  <2>4. \A q \in Rooms : /\ \A u \in ToSet(pending[q]) : u.stamp <= clock'
                         /\ \A f \in Flushers : \A u \in ToSet(batch[f][q]) : u.stamp <= clock'
    BY <2>1, <2>3 DEF Once
  <2>5. ASSUME NEW q \in Rooms PROVE Once(q)'
    <3>1. CASE q # r
      <4>1. pending'[q] = pending[q] /\ \A f \in Flushers : batch'[f][q] = batch[f][q]
        BY <2>1, <3>1 DEF TypeOK
      <4> QED
        BY <2>4, <4>1 DEF Once
    <3>2. CASE q = r
      <4>1. pending'[q] = pending[q] \o us /\ \A f \in Flushers : batch'[f][q] = batch[f][q]
        BY <2>1, <3>2 DEF TypeOK
      <4>2. ToSet(us) \cap ToSet(pending[q]) = {} /\ \A f \in Flushers : ToSet(us) \cap ToSet(batch[f][q]) = {}
        BY <2>1, <2>3 DEF Once
      <4>3. NoRepeats(pending'[q])
        BY <2>1, <2>2, <3>2, <4>1, <4>2, NoRepeatsConcat DEF Once
      <4>4. ToSet(pending'[q]) = ToSet(pending[q]) \cup ToSet(us)
        <5>1. pending[q] \in Seq(Updates) /\ us \in Seq(Updates)
          BY <2>1, <3>2
        <5> QED
          BY <4>1, <5>1, ToSetConcat
      <4>5. \A u \in ToSet(pending'[q]) : u.stamp <= clock'
        BY <2>1, <2>4, <4>4
      <4> QED
        BY <2>4, <4>1, <4>2, <4>3, <4>4, <4>5 DEF Once
    <3> QED
      BY <3>1, <3>2
  <2> QED
    BY <2>5, <1>t
<1>2. ASSUME NEW r \in Rooms, NEW es \in DeleteSets, ClientDeletes(r, es) PROVE CopyInv'
  <2>1. UNCHANGED <<pending, batch>> /\ clock \in Nat /\ clock' = clock + 1
    BY <1>2 DEF ClientDeletes, QueueElementDeletion, TypeOK, PersistenceAssumption
  <2> QED
    BY <2>1, <1>k
<1>3. ASSUME UNCHANGED <<pending, batch, clock>> PROVE CopyInv'
  BY <1>3, <1>t DEF Once
<1>4. ASSUME NEW f \in Flushers, NEW R, Take(f, R), clock' = clock PROVE CopyInv'
  BY <1>4, <1>t, TakeOnce
<1>5. ASSUME NEW f \in Flushers, NEW r \in Rooms, Save(f, r) \/ SaveFails(f, r) PROVE CopyInv'
  <2>1. /\ clock' = clock /\ batch' = [batch EXCEPT ![f][r] = <<>>]
        /\ pending' = pending \/ pending' = [pending EXCEPT ![r] = batch[f][r] \o @]
    BY <1>5 DEF Save, SaveFails, Requeued
  <2> QED
    BY <2>1, <1>t, ReleaseOnce
<1>6. ASSUME FreshProcess PROVE CopyInv'
  <2> SUFFICES ASSUME NEW r \in Rooms PROVE Once(r)'
    BY <1>t
  <2>1. pending'[r] = <<>> /\ \A f \in Flushers : batch'[f][r] = <<>>
    BY <1>6 DEF FreshProcess, Empty
  <2> QED
    BY <2>1, NoRepeatsEmpty, ToSetEmpty DEF Once
<1>7. ASSUME NEW d \in deletions, RunDeletion(d) PROVE CopyInv'
  BY <1>7, <1>3 DEF RunDeletion
<1>8. ASSUME Exit \/ UNCHANGED pvars PROVE CopyInv'
  BY <1>8, <1>3 DEF Exit, pvars
<1>9. ASSUME TickerTakes PROVE CopyInv'
  BY <1>9, <1>4 DEF TickerTakes, Flushers
<1>10. ASSUME NEW c \in Conns, NEW r \in Rooms, FlushRoomTakes(c, r) PROVE CopyInv'
  BY <1>10, <1>4 DEF FlushRoomTakes, Flushers
<1>11. ASSUME Stop PROVE CopyInv'
  BY <1>11, <1>4 DEF Stop, Flushers
<1> QED
  BY <1>1, <1>2, <1>5, <1>6, <1>7, <1>8, <1>9, <1>10, <1>11 DEF Next, Restart, Crash

\* It holds when the process starts.
LEMMA CopyInit == PersistenceAssumption /\ Init => CopyInv
<1> SUFFICES ASSUME PersistenceAssumption, Init PROVE CopyInv
  OBVIOUS
<1>1. \A r \in Rooms : pending[r] = <<>> /\ \A f \in Flushers : batch[f][r] = <<>>
  BY DEF Init, Empty
<1> QED
  BY <1>1, TypeInit, NoRepeatsEmpty, ToSetEmpty DEF CopyInv, Once

\* No update is in two places or queued twice, so that no two goroutines write
\* it at the same time, whoever flushes, fails and puts back.
THEOREM OneCopyHolds ==
  ASSUME PersistenceAssumption
  PROVE  Spec => []OneCopy
<1>1. Init => CopyInv
  BY CopyInit
<1>2. CopyInv /\ [Next]_pvars => CopyInv'
  BY CopyStep
<1>3. CopyInv => OneCopy
  BY DEF CopyInv, Once, NoRepeats, OneCopy
<1> QED
  BY <1>1, <1>2, <1>3, PTL DEF Spec

-----------------------------------------------------------------------------
(* The loop and the log it implements. *)

\* The flush loop is the only one who empties the queue: no client leaves a
\* room, deletes elements or stops the server.
LoopOnly == Conns = {} /\ DeleteSets = {} /\ MaxStops = 0

Increasing(s) == \A i, j \in 1..Len(s) : i < j => s[i].stamp < s[j].stamp

\* The first n edits of s.
Prefix(s, n) == {s[i] : i \in 1..n}

\* Queue q is what s has after its first a edits, or the beginning of that.
Slice(q, s, a) ==
  /\ a + Len(q) <= Len(s)
  /\ \A i \in 1..Len(q) : q[i] = s[a + i]

\* Edit k is the latest of the first n of s to write element e, 0 if none does.
IsLatest(s, n, e, k) ==
  /\ k \in 0..n
  /\ k # 0 => s[k].elem = e
  /\ \A j \in (k + 1)..n : s[j].elem # e

\* Table t shows the state after the first n edits of s.
Shows(t, s, n) ==
  \A e \in Elems : \E k \in 0..n :
    IsLatest(s, n, e, k) /\ t[e] = IF k = 0 THEN NoRow ELSE s[k].stamp

\* s is the log of a room, n the length of its durable prefix: known are the
\* edits the process has taken or the database has, kept those the database has
\* and t its table; held is what the ticker holds and queued what is queued,
\* which are what follows the first a edits; c is the clock.
IsLog(known, kept, held, queued, t, c, s, n, a) ==
  /\ Increasing(s) /\ \A i \in 1..Len(s) : s[i].stamp <= c
  /\ n <= Len(s) /\ a <= n
  /\ known = Prefix(s, Len(s))
  /\ kept = Prefix(s, n)
  /\ Slice(held, s, a)
  /\ Slice(queued, s, a + Len(held))
  /\ a + Len(held) + Len(queued) = Len(s)
  /\ held # <<>> => n <= a + Len(held)
  /\ Shows(t, s, n)

RoomLog(r, s, n, a) ==
  IsLog(Known(r), saved[r], batch[Ticker][r], pending[r], rows[r], clock, s, n, a)

LoopInv ==
  /\ TypeOK
  /\ phase = "running" /\ stops = 0
  /\ deletions = {} /\ snapshots = {}
  /\ batch[Stopper] = Empty
  /\ \A r \in Rooms : \E s \in Seq(Updates) : \E n, a \in Nat : RoomLog(r, s, n, a)

-----------------------------------------------------------------------------
(* Increasing sequences and the order by stamps. *)

\* A sequence of updates has updates at its positions.
LEMMA EditAt ==
  ASSUME NEW s \in Seq(Updates), NEW i \in 1..Len(s)
  PROVE  s[i] \in Updates /\ s[i].stamp \in Nat
<1>1. s[i] \in Updates
  OBVIOUS
<1> QED
  BY <1>1 DEF Updates, Stamps

\* In an increasing sequence, stamps are ordered as positions are.
LEMMA StampOrder ==
  ASSUME NEW s \in Seq(Updates), Increasing(s), NEW i \in 1..Len(s), NEW j \in 1..Len(s)
  PROVE  s[i].stamp <= s[j].stamp <=> i <= j
<1>1. s[i].stamp \in Nat /\ s[j].stamp \in Nat
  BY EditAt
<1>2. CASE i < j
  BY <1>1, <1>2 DEF Increasing
<1>3. CASE j < i
  BY <1>1, <1>3 DEF Increasing
<1>4. CASE i = j
  BY <1>1, <1>4
<1> QED
  BY <1>2, <1>3, <1>4

\* An increasing sequence repeats nothing.
LEMMA OnePlace ==
  ASSUME NEW s \in Seq(Updates), Increasing(s),
         NEW i \in 1..Len(s), NEW j \in 1..Len(s), s[i] = s[j]
  PROVE  i = j
<1>1. i <= j /\ j <= i
  BY StampOrder, EditAt
<1> QED
  BY <1>1

\* So its first n edits are n.
LEMMA PrefixSize ==
  ASSUME NEW s \in Seq(Updates), Increasing(s), NEW n \in 0..Len(s)
  PROVE  Cardinality(Prefix(s, n)) = n
<1> DEFINE f == [i \in 1..n |-> s[i]]
<1>1. f \in [1..n -> Prefix(s, n)]
  BY DEF Prefix
<1>2. \A i, j \in 1..n : f[i] = f[j] => i = j
  BY OnePlace
<1>3. \A u \in Prefix(s, n) : \E i \in 1..n : f[i] = u
  BY DEF Prefix
<1>4. f \in Bijection(1..n, Prefix(s, n))
  BY <1>1, <1>2, <1>3 DEF Bijection, Injection, Surjection, IsInjective
<1>5. ExistsBijection(1..n, Prefix(s, n))
  BY <1>4 DEF ExistsBijection
<1>6. n \in Nat
  OBVIOUS
<1> QED
  BY <1>5, <1>6, FS_CountingElements

\* The edits of an increasing sequence, put in order, are that sequence.
LEMMA OrderIsUnique ==
  ASSUME NEW s \in Seq(Updates), Increasing(s)
  PROVE  ByStamp(Prefix(s, Len(s))) = s
<1> DEFINE S == Prefix(s, Len(s))
           Upto(u) == {v \in S : v.stamp <= u.stamp}
<1>1. Cardinality(S) = Len(s)
  BY PrefixSize
<1>2. ASSUME NEW i \in 1..Len(s)
      PROVE  s[i] \in S /\ Cardinality(Upto(s[i])) = i
  <2>1. Upto(s[i]) = Prefix(s, i)
    BY StampOrder DEF Prefix
  <2> QED
    BY <2>1, PrefixSize DEF Prefix
<1>3. \A u \in S : \E i \in 1..Len(s) : u = s[i]
  BY DEF Prefix
<1>4. ASSUME NEW k \in 1..Len(s)
      PROVE  (CHOOSE u \in S : Cardinality(Upto(u)) = k) = s[k]
  <2> HIDE DEF S, Upto
  <2>1. \A u \in S : Cardinality(Upto(u)) = k => u = s[k]
    BY <1>2, <1>3
  <2> QED
    BY <1>2, <2>1
<1>5. ByStamp(S) = [k \in 1..Len(s) |-> CHOOSE u \in S : Cardinality(Upto(u)) = k]
  BY <1>1 DEF ByStamp
<1> HIDE DEF S, Upto
<1>6. ByStamp(S) = [k \in 1..Len(s) |-> s[k]]
  BY <1>4, <1>5
<1> QED
  BY <1>6 DEF S

\* The latest edit of an element is one edit.
LEMMA LatestIsUnique ==
  ASSUME NEW s, NEW n \in Nat, NEW e, NEW j, NEW k, IsLatest(s, n, e, j), IsLatest(s, n, e, k)
  PROVE  j = k
BY DEF IsLatest

\* There is one table that shows the state after n edits.
LEMMA ShownOnce ==
  ASSUME NEW t \in Table, NEW w \in Table, NEW s \in Seq(Updates), NEW n \in 0..Len(s),
         Shows(t, s, n), Shows(w, s, n)
  PROVE  t = w
<1>1. ASSUME NEW e \in Elems PROVE t[e] = w[e]
  <2>1. PICK k \in 0..n : IsLatest(s, n, e, k) /\ t[e] = IF k = 0 THEN NoRow ELSE s[k].stamp
    BY DEF Shows
  <2>2. PICK j \in 0..n : IsLatest(s, n, e, j) /\ w[e] = IF j = 0 THEN NoRow ELSE s[j].stamp
    BY DEF Shows
  <2>3. j = k
    BY <2>1, <2>2, LatestIsUnique
  <2> QED
    BY <2>1, <2>2, <2>3
<1> QED
  BY <1>1 DEF Table

\* A table that shows the state after n edits is the log's state.
LEMMA ShownState ==
  ASSUME NEW t \in Table, NEW s \in Seq(Updates), NEW n \in 0..Len(s), Shows(t, s, n)
  PROVE  t = Log!StateAfter(s, n)
<1>1. ASSUME NEW e \in Elems
      PROVE  t[e] = LET k == Log!LatestEdit(s, n, e) IN IF k = 0 THEN NoRow ELSE s[k].stamp
  <2>1. PICK k \in 0..n : IsLatest(s, n, e, k) /\ t[e] = IF k = 0 THEN NoRow ELSE s[k].stamp
    BY DEF Shows
  <2>2. Log!LatestEdit(s, n, e) = CHOOSE j \in 0..n : IsLatest(s, n, e, j)
    BY DEF Log!LatestEdit, IsLatest
  <2>3. (CHOOSE j \in 0..n : IsLatest(s, n, e, j)) = k
    BY <2>1, LatestIsUnique
  <2> QED
    BY <2>1, <2>2, <2>3
<1> QED
  BY <1>1 DEF Log!StateAfter, Table

-----------------------------------------------------------------------------
(* Slices, prefixes and tables. *)

\* A slice stays one when the log grows.
LEMMA SliceStays ==
  ASSUME NEW s \in Seq(Updates), NEW u \in Updates, NEW q \in Seq(Updates), NEW a \in Nat,
         Slice(q, s, a)
  PROVE  Slice(q, Append(s, u), a)
BY DEF Slice

\* The slice at the end of the log grows with it.
LEMMA SliceGrows ==
  ASSUME NEW s \in Seq(Updates), NEW u \in Updates, NEW q \in Seq(Updates), NEW a \in Nat,
         Slice(q, s, a), a + Len(q) = Len(s)
  PROVE  Slice(q \o <<u>>, Append(s, u), a)
<1>1. Len(q \o <<u>>) = Len(q) + 1 /\ Len(Append(s, u)) = Len(s) + 1
  OBVIOUS
<1>2. ASSUME NEW i \in 1..Len(q) PROVE (q \o <<u>>)[i] = Append(s, u)[a + i]
  BY <1>2 DEF Slice
<1>3. (q \o <<u>>)[Len(q) + 1] = u /\ Append(s, u)[a + (Len(q) + 1)] = u
  OBVIOUS
<1> QED
  BY <1>1, <1>2, <1>3 DEF Slice

\* Two slices that follow each other are one.
LEMMA SlicesJoin ==
  ASSUME NEW s \in Seq(Updates), NEW b \in Seq(Updates), NEW q \in Seq(Updates), NEW a \in Nat,
         Slice(b, s, a), Slice(q, s, a + Len(b))
  PROVE  Slice(b \o q, s, a) /\ Len(b \o q) = Len(b) + Len(q)
<1>1. Len(b \o q) = Len(b) + Len(q)
  OBVIOUS
<1>2. ASSUME NEW i \in 1..Len(b) PROVE (b \o q)[i] = s[a + i]
  BY <1>2 DEF Slice
<1>3. ASSUME NEW i \in (Len(b) + 1)..(Len(b) + Len(q)) PROVE (b \o q)[i] = s[a + i]
  <2>1. (b \o q)[i] = q[i - Len(b)] /\ i - Len(b) \in 1..Len(q)
    BY <1>3
  <2>2. q[i - Len(b)] = s[a + Len(b) + (i - Len(b))]
    BY <2>1 DEF Slice
  <2> QED
    BY <2>1, <2>2
<1> QED
  BY <1>1, <1>2, <1>3 DEF Slice

\* An edit that is added comes after all prefixes but the longest.
LEMMA PrefixOfAppend ==
  ASSUME NEW s \in Seq(Updates), NEW u \in Updates
  PROVE  /\ \A n \in 0..Len(s) : Prefix(Append(s, u), n) = Prefix(s, n)
         /\ Prefix(Append(s, u), Len(s) + 1) = Prefix(s, Len(s)) \cup {u}
<1>1. /\ \A i \in 1..Len(s) : Append(s, u)[i] = s[i]
      /\ Append(s, u)[Len(s) + 1] = u
  OBVIOUS
<1> QED
  BY <1>1 DEF Prefix

\* A slice that begins within a prefix, and does not end before it, extends it.
LEMMA PrefixAndSlice ==
  ASSUME NEW s \in Seq(Updates), NEW b \in Seq(Updates), NEW n \in 0..Len(s), NEW a \in 0..n,
         Slice(b, s, a), n <= a + Len(b)
  PROVE  Prefix(s, n) \cup ToSet(b) = Prefix(s, a + Len(b))
<1>1. ASSUME NEW u \in ToSet(b) PROVE u \in Prefix(s, a + Len(b))
  <2>1. PICK i \in 1..Len(b) : u = b[i]
    BY <1>1 DEF ToSet
  <2>2. u = s[a + i] /\ a + i \in 1..(a + Len(b))
    BY <2>1 DEF Slice
  <2> QED
    BY <2>2 DEF Prefix
<1>2. ASSUME NEW i \in 1..(a + Len(b)), i > n PROVE s[i] \in ToSet(b)
  <2>1. i - a \in 1..Len(b)
    BY <1>2
  <2>2. b[i - a] = s[a + (i - a)]
    BY <2>1 DEF Slice
  <2> QED
    BY <2>1, <2>2 DEF ToSet
<1>3. Prefix(s, n) \subseteq Prefix(s, a + Len(b))
  BY DEF Prefix
<1>4. Prefix(s, a + Len(b)) \subseteq Prefix(s, n) \cup ToSet(b)
  BY <1>2 DEF Prefix
<1> QED
  BY <1>1, <1>3, <1>4

\* A table goes on showing a prefix while the log grows.
LEMMA ShowsAppend ==
  ASSUME NEW s \in Seq(Updates), NEW u \in Updates, NEW n \in 0..Len(s), NEW t, Shows(t, s, n)
  PROVE  Shows(t, Append(s, u), n)
<1>1. \A i \in 1..n : Append(s, u)[i] = s[i]
  OBVIOUS
<1> QED
  BY <1>1 DEF Shows, IsLatest

\* So it does when the log loses what follows the prefix.
LEMMA ShowsTail ==
  ASSUME NEW s \in Seq(Updates), NEW n \in 0..Len(s), NEW t, Shows(t, s, n)
  PROVE  Shows(t, SubSeq(s, 1, n), n)
<1>1. \A i \in 1..n : SubSeq(s, 1, n)[i] = s[i]
  OBVIOUS
<1> QED
  BY <1>1 DEF Shows, IsLatest

\* If a batch writes an element at all, it does so a last time.
LEMMA LastWriteExists ==
  ASSUME NEW b \in Seq(Updates), NEW e, NEW i \in 1..Len(b), b[i].elem = e
  PROVE  \E k \in 1..Len(b) : LastWrite(b, k, e)
<1> DEFINE T == {m \in Nat : m < Len(b) /\ b[Len(b) - m].elem = e}
<1>1. T \subseteq Nat /\ T # {}
  <2>1. Len(b) - i \in Nat /\ Len(b) - i < Len(b) /\ Len(b) - (Len(b) - i) = i
    OBVIOUS
  <2>2. Len(b) - i \in T
    BY <2>1
  <2> QED
    BY <2>2
<1> DEFINE R == {ss \in Nat \X Nat : ss[1] < ss[2]}
<1>w. IsWellFoundedOn(R, Nat)
  BY NatLessThanWellFounded DEF OpToRel
<1>2. PICK m \in T : \A y \in T : ~ (<<y, m>> \in R)
  <2> HIDE DEF T, R
  <2> QED
    BY <1>1, <1>w, WFMin
<1>3. \A y \in T : ~ (y < m)
  BY <1>2
<1>4. Len(b) - m \in 1..Len(b) /\ b[Len(b) - m].elem = e
  OBVIOUS
<1>5. ASSUME NEW j \in 1..Len(b), b[j].elem = e PROVE j <= Len(b) - m
  <2>1. Len(b) - j \in Nat /\ Len(b) - j < Len(b) /\ Len(b) - (Len(b) - j) = j
    OBVIOUS
  <2>2. Len(b) - j \in T
    BY <2>1, <1>5
  <2>3. ~ (Len(b) - j < m)
    BY <2>2, <1>3
  <2> QED
    BY <2>3
<1>6. DOMAIN b = 1..Len(b)
  OBVIOUS
<1>7. LastWrite(b, Len(b) - m, e)
  BY <1>4, <1>5, <1>6 DEF LastWrite
<1> QED
  BY <1>4, <1>7

\* Writing a slice to a table that shows a prefix reaching into it, the table
\* shows the prefix that ends with the slice.
LEMMA UpsertShows ==
  ASSUME NEW s \in Seq(Updates), NEW b \in Seq(Updates), NEW n \in 0..Len(s), NEW a \in 0..n,
         Slice(b, s, a), n <= a + Len(b), NEW t, Shows(t, s, n)
  PROVE  Shows(Upsert(t, b), s, a + Len(b))
<1> DEFINE m == a + Len(b)
<1>1. m \in Nat /\ m <= Len(s)
  BY DEF Slice
<1> SUFFICES ASSUME NEW e \in Elems
             PROVE  \E k \in 0..m : IsLatest(s, m, e, k)
                      /\ Upsert(t, b)[e] = IF k = 0 THEN NoRow ELSE s[k].stamp
  BY DEF Shows
<1>2. CASE \E i \in DOMAIN b : LastWrite(b, i, e)
  <2> DEFINE i == CHOOSE j \in DOMAIN b : LastWrite(b, j, e)
  <2>1. i \in 1..Len(b) /\ LastWrite(b, i, e) /\ Upsert(t, b)[e] = b[i].stamp
    BY <1>2 DEF Upsert
  <2> HIDE DEF i
  <2>2. b[i] = s[a + i] /\ a + i \in 0..m /\ a + i # 0
    BY <2>1 DEF Slice
  <2>3. ASSUME NEW j \in (a + i + 1)..m PROVE s[j].elem # e
    <3>1. j - a \in 1..Len(b) /\ j - a > i
      BY <2>1
    <3>2. b[j - a] = s[a + (j - a)]
      BY <3>1 DEF Slice
    <3> QED
      BY <2>1, <3>1, <3>2 DEF LastWrite
  <2>4. IsLatest(s, m, e, a + i)
    BY <2>1, <2>2, <2>3 DEF IsLatest, LastWrite
  <2> QED
    BY <2>1, <2>2, <2>4
<1>3. CASE ~ \E i \in DOMAIN b : LastWrite(b, i, e)
  <2>1. Upsert(t, b)[e] = t[e]
    BY <1>3 DEF Upsert
  <2>2. \A i \in 1..Len(b) : b[i].elem # e
    BY <1>3, LastWriteExists
  <2>3. PICK k \in 0..n : IsLatest(s, n, e, k) /\ t[e] = IF k = 0 THEN NoRow ELSE s[k].stamp
    BY DEF Shows
  <2>4. ASSUME NEW j \in (k + 1)..m PROVE s[j].elem # e
    <3>1. CASE j <= n
      BY <2>3, <3>1 DEF IsLatest
    <3>2. CASE j > n
      <4>1. j - a \in 1..Len(b)
        BY <3>2
      <4>2. b[j - a] = s[a + (j - a)]
        BY <4>1 DEF Slice
      <4> QED
        BY <2>2, <4>1, <4>2
    <3> QED
      BY <3>1, <3>2
  <2>5. k \in 0..m /\ IsLatest(s, m, e, k)
    BY <2>3, <2>4 DEF IsLatest
  <2> QED
    BY <2>1, <2>3, <2>5
<1> QED
  BY <1>2, <1>3

-----------------------------------------------------------------------------
(* The log of a room, before and after a step. *)

\* An edit that is queued is appended to the log.
LEMMA LogGrows ==
  ASSUME NEW known, NEW kept, NEW held \in Seq(Updates), NEW queued \in Seq(Updates),
         NEW t, NEW c \in Nat, NEW s \in Seq(Updates), NEW n \in Nat, NEW a \in Nat,
         IsLog(known, kept, held, queued, t, c, s, n, a),
         NEW u \in Updates, u.stamp = c + 1
  PROVE  IsLog(known \cup {u}, kept, held, queued \o <<u>>, t, c + 1, Append(s, u), n, a)
<1> DEFINE l == Append(s, u)
<1>1. /\ l \in Seq(Updates) /\ Len(l) = Len(s) + 1 /\ Len(s) \in Nat
      /\ \A i \in 1..Len(s) : l[i] = s[i]
      /\ l[Len(s) + 1] = u
  OBVIOUS
<1>2. Len(queued) \in Nat /\ Len(held) \in Nat
  OBVIOUS
<1>3. \A i \in 1..Len(s) : l[i].stamp \in Nat /\ l[i].stamp <= c
  BY <1>1, EditAt DEF IsLog
<1>4. l[Len(s) + 1].stamp = c + 1
  BY <1>1
<1>5. \A i, j \in 1..Len(s) : i < j => l[i].stamp < l[j].stamp
  BY <1>1 DEF IsLog, Increasing
<1>6. known \cup {u} = Prefix(l, Len(l)) /\ kept = Prefix(l, n)
  <2>1. n \in 0..Len(s) /\ known = Prefix(s, Len(s)) /\ kept = Prefix(s, n)
    BY <1>1 DEF IsLog
  <2>2. /\ \A k \in 0..Len(s) : Prefix(l, k) = Prefix(s, k)
        /\ Prefix(l, Len(s) + 1) = Prefix(s, Len(s)) \cup {u}
    BY PrefixOfAppend
  <2> QED
    BY <1>1, <2>1, <2>2
<1>7. Slice(held, l, a)
  BY SliceStays DEF IsLog
<1>8. Slice(queued \o <<u>>, l, a + Len(held))
  BY <1>2, SliceGrows DEF IsLog
<1>9. Shows(t, l, n)
  BY ShowsAppend DEF IsLog
<1> HIDE DEF l
<1>10. ASSUME NEW i \in 1..Len(l), NEW j \in 1..Len(l), i < j PROVE l[i].stamp < l[j].stamp
  <2>1. CASE j = Len(s) + 1
    <3>1. i \in 1..Len(s)
      BY <1>1, <1>10, <2>1
    <3>2. l[i].stamp \in Nat /\ l[i].stamp <= c
      BY <1>3, <3>1
    <3> QED
      BY <1>4, <2>1, <3>2
  <2>2. CASE j # Len(s) + 1
    <3>1. i \in 1..Len(s) /\ j \in 1..Len(s)
      BY <1>1, <1>10, <2>2
    <3> QED
      BY <1>5, <1>10, <3>1
  <2> QED
    BY <2>1, <2>2
<1>11. \A i \in 1..Len(l) : l[i].stamp <= c + 1
  BY <1>1, <1>3, <1>4
<1> DEFINE q == queued \o <<u>>
<1>12. Len(q) = Len(queued) + 1 /\ Slice(q, l, a + Len(held))
  BY <1>8
<1> HIDE DEF q
<1>13. /\ n <= Len(l) /\ a <= n
       /\ a + Len(held) + Len(q) = Len(l)
       /\ held # <<>> => n <= a + Len(held)
  <2>1. n <= Len(s) /\ a <= n /\ a + Len(held) + Len(queued) = Len(s)
    BY DEF IsLog
  <2>2. Len(l) = Len(s) + 1 /\ Len(s) \in Nat /\ Len(q) = Len(queued) + 1
    BY <1>1, <1>12
  <2>3. n <= Len(l)
    BY <2>1, <2>2
  <2>4. a + Len(held) + (Len(queued) + 1) = Len(s) + 1
    BY <2>1
  <2>5. a + Len(held) + Len(q) = Len(l)
    BY <2>2, <2>4, Zenon
  <2>6. held # <<>> => n <= a + Len(held)
    BY DEF IsLog
  <2> QED
    BY <2>1, <2>3, <2>5, <2>6
<1>14. IsLog(known \cup {u}, kept, held, q, t, c + 1, l, n, a)
  BY <1>6, <1>7, <1>9, <1>10, <1>11, <1>12, <1>13 DEF IsLog, Increasing
<1> QED
  BY <1>14 DEF l, q

\* What is queued may move to the ticker, once it has finished its last batch.
LEMMA LogTaken ==
  ASSUME NEW known, NEW kept, NEW queued \in Seq(Updates),
         NEW t, NEW c \in Nat, NEW s \in Seq(Updates), NEW n \in Nat, NEW a \in Nat,
         IsLog(known, kept, <<>>, queued, t, c, s, n, a)
  PROVE  IsLog(known, kept, queued, <<>>, t, c, s, n, a)
<1>1. Len(queued) \in Nat /\ Len(<<>>) = 0 /\ Len(s) \in Nat
  OBVIOUS
<1>2. Slice(queued, s, a) /\ a + Len(queued) = Len(s)
  BY <1>1 DEF IsLog
<1>3. Slice(<<>>, s, a + Len(queued))
  BY <1>1, <1>2 DEF Slice
<1> QED
  BY <1>1, <1>2, <1>3 DEF IsLog

\* A batch whose save failed is put back where it was.
LEMMA LogRequeued ==
  ASSUME NEW known, NEW kept, NEW held \in Seq(Updates), NEW queued \in Seq(Updates),
         NEW t, NEW c \in Nat, NEW s \in Seq(Updates), NEW n \in Nat, NEW a \in Nat,
         IsLog(known, kept, held, queued, t, c, s, n, a)
  PROVE  IsLog(known, kept, <<>>, held \o queued, t, c, s, n, a)
<1>1. Len(queued) \in Nat /\ Len(held) \in Nat /\ Len(<<>>) = 0 /\ Len(s) \in Nat
  OBVIOUS
<1>2. Slice(held, s, a) /\ Slice(queued, s, a + Len(held))
  BY DEF IsLog
<1>3. Slice(held \o queued, s, a) /\ Len(held \o queued) = Len(held) + Len(queued)
  BY <1>2, SlicesJoin
<1> DEFINE q == held \o queued
<1> HIDE DEF q
<1>4. Slice(<<>>, s, a) /\ Slice(q, s, a + Len(<<>>)) /\ a + Len(<<>>) + Len(q) = Len(s)
  <2>1. a <= Len(s) /\ a + (Len(held) + Len(queued)) = Len(s)
    BY <1>1 DEF IsLog
  <2>2. Len(q) = Len(held) + Len(queued) /\ Slice(q, s, a)
    BY <1>3 DEF q
  <2>3. Slice(<<>>, s, a)
    BY <1>1, <2>1 DEF Slice
  <2> QED
    BY <1>1, <2>1, <2>2, <2>3
<1>5. IsLog(known, kept, <<>>, q, t, c, s, n, a)
  BY <1>4 DEF IsLog
<1> QED
  BY <1>5 DEF q

\* A batch that is committed makes the durable prefix end with it.
LEMMA LogSaved ==
  ASSUME NEW known, NEW kept, NEW held \in Seq(Updates), NEW queued \in Seq(Updates),
         NEW t, NEW c \in Nat, NEW s \in Seq(Updates), NEW n \in Nat, NEW a \in Nat,
         IsLog(known, kept, held, queued, t, c, s, n, a), held # <<>>
  PROVE  /\ n <= a + Len(held)
         /\ known = Prefix(s, Len(s)) /\ known = known \cup ToSet(held)
         /\ IsLog(known, kept \cup ToSet(held), held, queued, Upsert(t, held), c, s, a + Len(held), a)
         /\ IsLog(known, kept \cup ToSet(held), <<>>, queued, Upsert(t, held), c, s, a + Len(held),
                  a + Len(held))
<1> DEFINE m == a + Len(held)
<1>1. Len(queued) \in Nat /\ Len(held) \in Nat /\ Len(<<>>) = 0 /\ Len(s) \in Nat
  OBVIOUS
<1>2. /\ Slice(held, s, a) /\ Slice(queued, s, m) /\ m + Len(queued) = Len(s)
      /\ n <= m /\ m <= Len(s) /\ m \in Nat /\ n \in 0..Len(s) /\ a \in 0..n
  BY <1>1 DEF IsLog
<1>3. kept \cup ToSet(held) = Prefix(s, m)
  BY <1>2, PrefixAndSlice DEF IsLog
<1>4. known = Prefix(s, Len(s)) /\ Prefix(s, m) \subseteq Prefix(s, Len(s))
  BY <1>1, <1>2 DEF IsLog, Prefix
<1>5. Shows(Upsert(t, held), s, m)
  <2>1. Shows(t, s, n)
    BY DEF IsLog
  <2> QED
    BY <1>2, <2>1, UpsertShows
<1>6. Slice(<<>>, s, m) /\ m + Len(<<>>) = m
  BY <1>1, <1>2 DEF Slice
<1>7. a <= m
  BY <1>1
<1> DEFINE k == kept \cup ToSet(held)
           w == Upsert(t, held)
<1> HIDE DEF k, w
<1>8. IsLog(known, k, held, queued, w, c, s, m, a)
  BY <1>2, <1>3, <1>4, <1>5, <1>7 DEF IsLog, k, w
<1> HIDE DEF m
<1>9. IsLog(known, k, <<>>, queued, w, c, s, m, m)
  BY <1>1, <1>2, <1>3, <1>4, <1>5, <1>6 DEF IsLog, k, w
<1> QED
  BY <1>2, <1>3, <1>4, <1>8, <1>9 DEF k, w, m

\* A crash leaves the durable prefix.
LEMMA LogLosesTail ==
  ASSUME NEW known, NEW kept, NEW held \in Seq(Updates), NEW queued \in Seq(Updates),
         NEW t, NEW c \in Nat, NEW s \in Seq(Updates), NEW n \in Nat, NEW a \in Nat,
         IsLog(known, kept, held, queued, t, c, s, n, a)
  PROVE  IsLog(kept, kept, <<>>, <<>>, t, c, SubSeq(s, 1, n), n, n)
<1> DEFINE l == SubSeq(s, 1, n)
<1>1. Len(s) \in Nat /\ Len(<<>>) = 0 /\ n <= Len(s) /\ n \in 0..Len(s)
  BY DEF IsLog
<1>2. /\ l \in Seq(Updates) /\ Len(l) = n
      /\ \A i \in 1..n : l[i] = s[i]
  BY <1>1
<1>3. Shows(t, l, n)
  BY <1>1, ShowsTail DEF IsLog
<1> HIDE DEF l
<1>4. Increasing(l) /\ \A i \in 1..Len(l) : l[i].stamp <= c
  <2>1. /\ \A i, j \in 1..Len(s) : i < j => s[i].stamp < s[j].stamp
        /\ \A i \in 1..Len(s) : s[i].stamp <= c
    BY DEF IsLog, Increasing
  <2>2. \A i \in 1..Len(l) : i \in 1..Len(s) /\ l[i] = s[i]
    BY <1>1, <1>2
  <2>3. ASSUME NEW i \in 1..Len(l), NEW j \in 1..Len(l), i < j PROVE l[i].stamp < l[j].stamp
    BY <2>1, <2>2, <2>3
  <2>4. ASSUME NEW i \in 1..Len(l) PROVE l[i].stamp <= c
    BY <2>1, <2>2
  <2> QED
    BY <2>3, <2>4 DEF Increasing
<1>5. kept = Prefix(l, n)
  BY <1>2 DEF IsLog, Prefix
<1>6. Slice(<<>>, l, n)
  BY <1>1, <1>2 DEF Slice
<1>7. IsLog(kept, kept, <<>>, <<>>, t, c, l, n, n)
  BY <1>1, <1>2, <1>3, <1>4, <1>5, <1>6 DEF IsLog
<1> QED
  BY <1>7 DEF l

\* The log of the invariant is the one the refinement shows.
LEMMA LogShown ==
  ASSUME NEW known, NEW kept, NEW held \in Seq(Updates), NEW queued \in Seq(Updates),
         NEW t \in Table, NEW c \in Nat, NEW s \in Seq(Updates), NEW n \in Nat, NEW a \in Nat,
         IsLog(known, kept, held, queued, t, c, s, n, a)
  PROVE  /\ ByStamp(known) = s
         /\ Cardinality(kept) = n
         /\ t = Log!StateAfter(s, n)
<1>1. /\ Increasing(s) /\ n \in 0..Len(s) /\ Shows(t, s, n)
      /\ known = Prefix(s, Len(s)) /\ kept = Prefix(s, n)
  BY DEF IsLog
<1> QED
  BY <1>1, OrderIsUnique, PrefixSize, ShownState

-----------------------------------------------------------------------------
(* What a step of the queue does to the log of a room. *)

\* Nothing.
Same(r) ==
  \E s \in Seq(Updates) : \E n, a, b \in Nat : RoomLog(r, s, n, a) /\ RoomLog(r, s, n, b)'

\* An edit is appended.
Grows(r, u) ==
  \E s \in Seq(Updates) : \E n, a \in Nat :
    RoomLog(r, s, n, a) /\ RoomLog(r, Append(s, u), n, a)'

\* Its durable prefix grows, unless it is written a second time.
Persists(r) ==
  \E s \in Seq(Updates) : \E n, m, a, b \in Nat :
    n <= m /\ RoomLog(r, s, n, a) /\ RoomLog(r, s, m, b)'

\* It is cut down to its durable prefix.
LosesTail(r) ==
  \E s \in Seq(Updates) : \E n, a \in Nat :
    RoomLog(r, s, n, a) /\ RoomLog(r, SubSeq(s, 1, n), n, n)'

LogStep ==
  \/ \A r \in Rooms : Same(r)
  \/ \E r \in Rooms, u \in Updates : Grows(r, u) /\ \A q \in Rooms \ {r} : Same(q)
  \/ \E r \in Rooms : Persists(r) /\ \A q \in Rooms \ {r} : Same(q)
  \/ \A r \in Rooms : LosesTail(r)

\* What the flush loop leaves alone.
Calm ==
  /\ phase = "running" /\ stops = 0
  /\ deletions = {} /\ snapshots = {}
  /\ batch[Stopper] = Empty

\* What is in the hands of the ticker and in the queue is well typed.
LEMMA LoopTypes ==
  ASSUME TypeOK, NEW r \in Rooms
  PROVE  /\ batch[Ticker][r] \in Seq(Updates) /\ pending[r] \in Seq(Updates)
         /\ rows[r] \in Table /\ clock \in Nat
BY DEF TypeOK, Flushers

\* A room whose state a step leaves alone keeps its log.
LEMMA Untouched ==
  ASSUME LoopInv, NEW r \in Rooms, clock' = clock \/ clock' = clock + 1,
         batch'[Ticker][r] = batch[Ticker][r], pending'[r] = pending[r],
         rows'[r] = rows[r], accepted'[r] = accepted[r], saved'[r] = saved[r]
  PROVE  Same(r)
<1>1. PICK s \in Seq(Updates) : \E n, a \in Nat : RoomLog(r, s, n, a)
  BY DEF LoopInv
<1>2. PICK n \in Nat, a \in Nat : RoomLog(r, s, n, a)
  BY <1>1
<1>3. \A i \in 1..Len(s) : s[i].stamp <= clock'
  <2>1. clock \in Nat /\ \A i \in 1..Len(s) : s[i].stamp \in Nat
    BY EditAt, LoopTypes DEF LoopInv
  <2>2. \A i \in 1..Len(s) : s[i].stamp <= clock
    BY <1>2 DEF RoomLog, IsLog
  <2> QED
    BY <2>1, <2>2
<1>4. Known(r)' = Known(r)
  BY DEF Known
<1>5. RoomLog(r, s, n, a)'
  BY <1>2, <1>3, <1>4 DEF RoomLog, IsLog
<1> QED
  BY <1>2, <1>5 DEF Same

\* An edit a client sends.
LEMMA UpdateLogs ==
  ASSUME PersistenceAssumption, LoopInv, NEW r \in Rooms, NEW e \in Elems, ClientUpdates(r, e)
  PROVE  LogStep
<1>1. PICK u \in Updates : u = [elem |-> e, stamp |-> clock + 1]
  <2>1. [elem |-> e, stamp |-> clock + 1] \in Updates
    BY DEF ClientUpdates, LoopInv, TypeOK, Updates, Stamps, PersistenceAssumption
  <2> QED
    BY <2>1
<1>2. /\ pending' = [pending EXCEPT ![r] = @ \o <<u>>]
      /\ accepted' = [accepted EXCEPT ![r] = @ \cup ToSet(<<u>>)]
      /\ clock' = clock + 1 /\ UNCHANGED <<batch, rows, saved>>
  BY <1>1 DEF ClientUpdates, QueueElementUpdates
<1>3. ToSet(<<u>>) = {u}
  BY DEF ToSet
<1>4. /\ pending'[r] = pending[r] \o <<u>> /\ accepted'[r] = accepted[r] \cup {u}
      /\ \A q \in Rooms \ {r} : pending'[q] = pending[q] /\ accepted'[q] = accepted[q]
  BY <1>2, <1>3 DEF LoopInv, TypeOK
<1>5. \A q \in Rooms \ {r} : Same(q)
  BY <1>2, <1>4, Untouched
<1>6. PICK s \in Seq(Updates) : \E n, a \in Nat : RoomLog(r, s, n, a)
  BY DEF LoopInv
<1>7. PICK n \in Nat, a \in Nat : RoomLog(r, s, n, a)
  BY <1>6
<1>8. IsLog(Known(r) \cup {u}, saved[r], batch[Ticker][r], pending[r] \o <<u>>, rows[r], clock + 1,
            Append(s, u), n, a)
  <2>1. u.stamp = clock + 1
    BY <1>1
  <2> QED
    BY <1>7, <2>1, LoopTypes, LogGrows DEF RoomLog, LoopInv
<1>9. Known(r)' = Known(r) \cup {u}
  BY <1>2, <1>4 DEF Known
<1>10. RoomLog(r, Append(s, u), n, a)'
  BY <1>2, <1>4, <1>8, <1>9 DEF RoomLog, Known
<1> QED
  BY <1>5, <1>7, <1>10 DEF LogStep, Grows

\* A tick.
LEMMA TakeLogs ==
  ASSUME LoopInv, TickerTakes
  PROVE  LogStep
<1> SUFFICES ASSUME NEW r \in Rooms PROVE Same(r)
  BY DEF LogStep
<1>1. /\ batch[Ticker][r] = <<>> /\ batch'[Ticker][r] = pending[r] /\ pending'[r] = <<>>
      /\ UNCHANGED <<clock, rows, accepted, saved>>
  BY DEF TickerTakes, Idle, Empty, Take, LoopInv, TypeOK, Flushers
<1>2. PICK s \in Seq(Updates) : \E n, a \in Nat : RoomLog(r, s, n, a)
  BY DEF LoopInv
<1>3. PICK n \in Nat, a \in Nat : RoomLog(r, s, n, a)
  BY <1>2
<1>4. IsLog(Known(r), saved[r], pending[r], <<>>, rows[r], clock, s, n, a)
  BY <1>1, <1>3, LoopTypes, LogTaken DEF RoomLog, LoopInv
<1>5. RoomLog(r, s, n, a)'
  BY <1>1, <1>4 DEF RoomLog, Known
<1> QED
  BY <1>3, <1>5 DEF Same

\* A commit the ticker learns of, or takes for a failure and repeats.
LEMMA CommitLogs ==
  ASSUME LoopInv, NEW r \in Rooms, batch[Ticker][r] # <<>>,
         rows'  = [rows  EXCEPT ![r] = Upsert(@, batch[Ticker][r])],
         saved' = [saved EXCEPT ![r] = @ \cup ToSet(batch[Ticker][r])],
         batch' = [batch EXCEPT ![Ticker][r] = <<>>],
         UNCHANGED <<clock, accepted>>,
         \/ UNCHANGED pending
         \/ pending' = [pending EXCEPT ![r] = batch[Ticker][r] \o @]
  PROVE  LogStep
<1> DEFINE b == batch[Ticker][r]
<1>1. /\ rows'[r] = Upsert(rows[r], b) /\ saved'[r] = saved[r] \cup ToSet(b)
      /\ batch'[Ticker][r] = <<>>
      /\ pending'[r] = pending[r] \/ pending'[r] = b \o pending[r]
  BY DEF LoopInv, TypeOK, Flushers
<1>2. \A q \in Rooms \ {r} :
        /\ rows'[q] = rows[q] /\ saved'[q] = saved[q]
        /\ batch'[Ticker][q] = batch[Ticker][q] /\ pending'[q] = pending[q]
  BY DEF LoopInv, TypeOK, Flushers
<1>3. \A q \in Rooms \ {r} : Same(q)
  BY <1>2, Untouched
<1>4. PICK s \in Seq(Updates) : \E n, a \in Nat : RoomLog(r, s, n, a)
  BY DEF LoopInv
<1>5. PICK n \in Nat, a \in Nat : RoomLog(r, s, n, a)
  BY <1>4
<1>6. /\ b \in Seq(Updates) /\ pending[r] \in Seq(Updates) /\ clock \in Nat /\ b # <<>>
      /\ Len(b) \in Nat
  BY LoopTypes DEF LoopInv
<1>m. PICK m \in Nat : m = a + Len(b)
  BY <1>6
<1>7. /\ n <= m
      /\ Known(r) = Known(r) \cup ToSet(b)
      /\ IsLog(Known(r), saved[r] \cup ToSet(b), b, pending[r], Upsert(rows[r], b), clock, s, m, a)
      /\ IsLog(Known(r), saved[r] \cup ToSet(b), <<>>, pending[r], Upsert(rows[r], b), clock, s, m, m)
  BY <1>5, <1>6, <1>m, LogSaved DEF RoomLog
<1>8. Known(r)' = Known(r)
  BY <1>1, <1>7 DEF Known
<1>9. CASE pending'[r] = pending[r]
  <2>1. RoomLog(r, s, m, m)'
    BY <1>1, <1>7, <1>8, <1>9 DEF RoomLog, Known
  <2> QED
    BY <1>3, <1>5, <1>6, <1>7, <2>1 DEF LogStep, Persists
<1>10. CASE pending'[r] = b \o pending[r]
  <2>1. IsLog(Known(r), saved[r] \cup ToSet(b), <<>>, b \o pending[r], Upsert(rows[r], b), clock, s, m, a)
    BY <1>6, <1>7, LogRequeued
  <2>2. RoomLog(r, s, m, a)'
    BY <1>1, <1>8, <1>10, <2>1 DEF RoomLog, Known
  <2> QED
    BY <1>3, <1>5, <1>6, <1>7, <2>2 DEF LogStep, Persists
<1> QED
  BY <1>1, <1>9, <1>10

\* A save that fails.
LEMMA RequeueLogs ==
  ASSUME LoopInv, NEW r \in Rooms,
         batch' = [batch EXCEPT ![Ticker][r] = <<>>],
         pending' = [pending EXCEPT ![r] = batch[Ticker][r] \o @],
         UNCHANGED <<clock, rows, accepted, saved>>
  PROVE  LogStep
<1> DEFINE b == batch[Ticker][r]
<1>1. batch'[Ticker][r] = <<>> /\ pending'[r] = b \o pending[r]
  BY DEF LoopInv, TypeOK, Flushers
<1>2. \A q \in Rooms \ {r} : batch'[Ticker][q] = batch[Ticker][q] /\ pending'[q] = pending[q]
  BY DEF LoopInv, TypeOK, Flushers
<1>3. \A q \in Rooms \ {r} : Same(q)
  BY <1>2, Untouched
<1>4. PICK s \in Seq(Updates) : \E n, a \in Nat : RoomLog(r, s, n, a)
  BY DEF LoopInv
<1>5. PICK n \in Nat, a \in Nat : RoomLog(r, s, n, a)
  BY <1>4
<1>6. IsLog(Known(r), saved[r], <<>>, b \o pending[r], rows[r], clock, s, n, a)
  BY <1>5, LoopTypes, LogRequeued DEF RoomLog, LoopInv
<1>7. RoomLog(r, s, n, a)'
  BY <1>1, <1>6 DEF RoomLog, Known
<1> QED
  BY <1>3, <1>5, <1>7 DEF LogStep, Same

\* A crash.
LEMMA CrashLogs ==
  ASSUME LoopInv, FreshProcess
  PROVE  LogStep
<1> SUFFICES ASSUME NEW r \in Rooms PROVE LosesTail(r)
  BY DEF LogStep
<1>1. /\ batch'[Ticker][r] = <<>> /\ pending'[r] = <<>> /\ accepted'[r] = {}
      /\ UNCHANGED <<clock, rows, saved>>
  BY DEF FreshProcess, Empty, None, Flushers
<1>2. PICK s \in Seq(Updates) : \E n, a \in Nat : RoomLog(r, s, n, a)
  BY DEF LoopInv
<1>3. PICK n \in Nat, a \in Nat : RoomLog(r, s, n, a)
  BY <1>2
<1>4. IsLog(saved[r], saved[r], <<>>, <<>>, rows[r], clock, SubSeq(s, 1, n), n, n)
  BY <1>3, LoopTypes, LogLosesTail DEF RoomLog, LoopInv
<1>5. Known(r)' = saved[r]
  BY <1>1 DEF Known
<1>6. RoomLog(r, SubSeq(s, 1, n), n, n)'
  BY <1>1, <1>4, <1>5 DEF RoomLog
<1> QED
  BY <1>3, <1>6 DEF LosesTail

\* Every step of the queue does one of these things to the logs, and never
\* starts anything but the flush loop.
LEMMA StepLogs ==
  ASSUME PersistenceAssumption, LoopOnly, LoopInv, [Next]_pvars
  PROVE  TypeOK' /\ Calm' /\ LogStep
<1>1. TypeOK'
  BY TypeStep DEF LoopInv
<1>2. CASE UNCHANGED pvars
  <2>1. \A r \in Rooms : Same(r)
    BY <1>2, Untouched DEF pvars
  <2> QED
    BY <1>1, <1>2, <2>1 DEF pvars, LogStep, Calm, LoopInv
<1>3. ASSUME NEW r \in Rooms, NEW e \in Elems, ClientUpdates(r, e) PROVE Calm' /\ LogStep
  <2>1. Calm'
    BY <1>3 DEF ClientUpdates, QueueElementUpdates, Calm, LoopInv
  <2> QED
    BY <1>3, <2>1, UpdateLogs
<1>4. ASSUME TickerTakes PROVE Calm' /\ LogStep
  <2>1. Calm'
    BY <1>4 DEF TickerTakes, Take, Calm, LoopInv, TypeOK, Flushers, PersistenceAssumption
  <2> QED
    BY <1>4, <2>1, TakeLogs
<1>5. ASSUME NEW f \in Flushers, NEW r \in Rooms, Save(f, r) \/ SaveFails(f, r)
      PROVE  Calm' /\ LogStep
  <2>1. f = Ticker
    BY <1>5 DEF Save, SaveFails, LoopInv, Empty, Flushers, LoopOnly
  <2>2. batch[Ticker][r] # <<>> /\ batch' = [batch EXCEPT ![Ticker][r] = <<>>]
    BY <1>5, <2>1 DEF Save, SaveFails
  <2>3. Calm'
    BY <1>5, <2>2 DEF Save, SaveFails, Calm, LoopInv, TypeOK, Flushers, PersistenceAssumption
  <2>4. CASE Save(f, r)
    BY <2>3, <2>1, <2>2, <2>4, CommitLogs DEF Save
  <2>5. CASE SaveFails(f, r)
    <3>1. pending' = [pending EXCEPT ![r] = batch[Ticker][r] \o @]
      BY <2>1, <2>5 DEF SaveFails, Requeued, PersistenceAssumption
    <3>2. UNCHANGED <<clock, accepted>>
      BY <2>5 DEF SaveFails
    <3>3. CASE UNCHANGED <<rows, saved>>
      BY <2>3, <2>2, <3>1, <3>2, <3>3, RequeueLogs
    <3>4. CASE /\ rows'  = [rows  EXCEPT ![r] = Upsert(@, batch[Ticker][r])]
               /\ saved' = [saved EXCEPT ![r] = @ \cup ToSet(batch[Ticker][r])]
      BY <2>3, <2>2, <3>1, <3>2, <3>4, CommitLogs
    <3> QED
      BY <2>1, <2>5, <3>3, <3>4 DEF SaveFails
  <2> QED
    BY <1>5, <2>3, <2>4, <2>5
<1>6. ASSUME Crash PROVE Calm' /\ LogStep
  <2>1. Calm'
    BY <1>6 DEF Crash, FreshProcess, Calm, LoopInv, Flushers
  <2> QED
    BY <1>6, <2>1, CrashLogs DEF Crash
<1>7. ~ (\E r \in Rooms, es \in DeleteSets : ClientDeletes(r, es))
  BY DEF LoopOnly
<1>8. ~ (\E d \in deletions : RunDeletion(d)) /\ ~ Stop /\ ~ Exit /\ ~ Restart
  BY DEF LoopOnly, LoopInv, Stop, Exit, Restart
<1>9. ~ (\E c \in Conns, r \in Rooms : FlushRoomTakes(c, r))
  BY DEF LoopOnly
<1> QED
  BY <1>1, <1>2, <1>3, <1>4, <1>5, <1>6, <1>7, <1>8, <1>9 DEF Next

\* The invariant is kept: every room has a log after the step.
LEMMA LoopStep ==
  ASSUME PersistenceAssumption, LoopOnly, LoopInv, [Next]_pvars
  PROVE  LoopInv'
<1>1. TypeOK' /\ Calm' /\ LogStep
  BY StepLogs
<1>2. \A r \in Rooms : \E s \in Seq(Updates) : \E n, a \in Nat : RoomLog(r, s, n, a)'
  <2>1. \A r \in Rooms : Same(r) => \E s \in Seq(Updates) : \E n, a \in Nat : RoomLog(r, s, n, a)'
    BY DEF Same
  <2>2. \A r \in Rooms : Persists(r) => \E s \in Seq(Updates) : \E n, a \in Nat : RoomLog(r, s, n, a)'
    BY DEF Persists
  <2>3. \A r \in Rooms, u \in Updates :
          Grows(r, u) => \E s \in Seq(Updates) : \E n, a \in Nat : RoomLog(r, s, n, a)'
    <3>1. \A s \in Seq(Updates), u \in Updates : Append(s, u) \in Seq(Updates)
      OBVIOUS
    <3> QED
      BY <3>1 DEF Grows
  <2>4. \A r \in Rooms : LosesTail(r) => \E s \in Seq(Updates) : \E n, a \in Nat : RoomLog(r, s, n, a)'
    <3>1. ASSUME NEW r \in Rooms, LosesTail(r)
          PROVE  \E s \in Seq(Updates) : \E n, a \in Nat : RoomLog(r, s, n, a)'
      <4>1. PICK s \in Seq(Updates), n \in Nat :
              /\ \E a \in Nat : RoomLog(r, s, n, a)
              /\ RoomLog(r, SubSeq(s, 1, n), n, n)'
        BY <3>1 DEF LosesTail
      <4>2. n <= Len(s)
        BY <4>1 DEF RoomLog, IsLog
      <4>3. SubSeq(s, 1, n) \in Seq(Updates)
        BY <4>2
      <4> QED
        BY <4>1, <4>3
    <3> QED
      BY <3>1
  <2> QED
    BY <1>1, <2>1, <2>2, <2>3, <2>4 DEF LogStep
<1> QED
  BY <1>1, <1>2 DEF LoopInv, Calm

\* The process starts with empty logs.
LEMMA LoopInit ==
  ASSUME PersistenceAssumption, Init
  PROVE  LoopInv
<1>1. TypeOK
  BY TypeInit
<1>2. ASSUME NEW r \in Rooms PROVE RoomLog(r, <<>>, 0, 0)
  <2>1. Known(r) = {} /\ saved[r] = {} /\ batch[Ticker][r] = <<>> /\ pending[r] = <<>>
    BY DEF Init, Known, None, Empty, Flushers
  <2>2. Len(<<>>) = 0 /\ Prefix(<<>>, 0) = {}
    BY DEF Prefix
  <2>3. Shows(rows[r], <<>>, 0)
    BY DEF Init, Shows, IsLatest, NoRow
  <2>4. Increasing(<<>>) /\ Slice(<<>>, <<>>, 0)
    BY <2>2 DEF Increasing, Slice
  <2> QED
    BY <2>1, <2>2, <2>3, <2>4 DEF RoomLog, IsLog
<1>3. phase = "running" /\ stops = 0 /\ deletions = {} /\ snapshots = {} /\ batch[Stopper] = Empty
  BY DEF Init, Flushers
<1>4. <<>> \in Seq(Updates) /\ 0 \in Nat
  OBVIOUS
<1> QED
  BY <1>1, <1>2, <1>3, <1>4 DEF LoopInv

-----------------------------------------------------------------------------
(* The refinement. *)

\* The log, the length of its durable prefix and the table, as functions.
LogOf     == [r \in Rooms |-> ByStamp(Known(r))]
DurableOf == [r \in Rooms |-> Cardinality(saved[r])]

\* What the refinement shows of a room, before and after a step.
LEMMA Shown ==
  ASSUME TypeOK, NEW r \in Rooms, NEW s \in Seq(Updates), NEW n \in Nat, NEW a \in Nat,
         RoomLog(r, s, n, a)
  PROVE  LogOf[r] = s /\ DurableOf[r] = n /\ rows[r] = Log!StateAfter(s, n)
<1>1. /\ batch[Ticker][r] \in Seq(Updates) /\ pending[r] \in Seq(Updates)
      /\ rows[r] \in Table /\ clock \in Nat
  BY LoopTypes
<1>2. IsLog(Known(r), saved[r], batch[Ticker][r], pending[r], rows[r], clock, s, n, a)
  BY DEF RoomLog
<1>3. ByStamp(Known(r)) = s /\ Cardinality(saved[r]) = n
  BY <1>1, <1>2, LogShown
<1>4. rows[r] = Log!StateAfter(s, n)
  BY <1>1, <1>2, LogShown
<1> QED
  BY <1>3, <1>4 DEF LogOf, DurableOf

\* The same of the state after it.
LEMMA ShownNext ==
  ASSUME TypeOK', NEW r \in Rooms, NEW s \in Seq(Updates), NEW n \in Nat, NEW a \in Nat,
         RoomLog(r, s, n, a)'
  PROVE  LogOf'[r] = s /\ DurableOf'[r] = n /\ rows'[r] = Log!StateAfter(s, n)
<1>1. /\ batch'[Ticker][r] \in Seq(Updates) /\ pending'[r] \in Seq(Updates)
      /\ rows'[r] \in Table /\ clock' \in Nat
  BY DEF TypeOK, Flushers
<1>2. IsLog(Known(r)', saved'[r], batch'[Ticker][r], pending'[r], rows'[r], clock', s, n, a)
  BY DEF RoomLog, Known
<1>3. ByStamp(Known(r)') = s /\ Cardinality(saved'[r]) = n
  BY <1>1, <1>2, LogShown
<1>4. rows'[r] = Log!StateAfter(s, n)
  BY <1>1, <1>2, LogShown
<1> QED
  BY <1>3, <1>4 DEF LogOf, DurableOf, Known

\* A room whose log stays shows no change.
LEMMA SameShown ==
  ASSUME TypeOK, TypeOK', NEW r \in Rooms, Same(r)
  PROVE  LogOf'[r] = LogOf[r] /\ DurableOf'[r] = DurableOf[r] /\ rows'[r] = rows[r]
BY Shown, ShownNext DEF Same

\* The initial state is one of the log.
LEMMA RefinesInit ==
  ASSUME PersistenceAssumption, Init
  PROVE  Log!LogInit
<1>1. TypeOK
  BY TypeInit
<1>2. LoopInv
  BY LoopInit
<1>3. \A r \in Rooms : Known(r) = {} /\ saved[r] = {}
  BY DEF Init, Known, None
<1>4. ByStamp({}) = <<>> /\ Cardinality({}) = 0
  BY FS_EmptySet DEF ByStamp
<1> QED
  BY <1>3, <1>4 DEF Log!LogInit, Init

\* Every step is one of the log, or leaves it alone.
LEMMA RefinesStep ==
  ASSUME PersistenceAssumption, LoopOnly, LoopInv, [Next]_pvars
  PROVE  [Log!LogNext]_(Log!lvars)
<1>1. TypeOK /\ TypeOK' /\ LogStep
  BY StepLogs DEF LoopInv
<1>2. /\ LogOf = [r \in Rooms |-> LogOf[r]] /\ LogOf' = [r \in Rooms |-> LogOf'[r]]
      /\ DurableOf = [r \in Rooms |-> DurableOf[r]] /\ DurableOf' = [r \in Rooms |-> DurableOf'[r]]
      /\ rows = [r \in Rooms |-> rows[r]] /\ rows' = [r \in Rooms |-> rows'[r]]
  BY <1>1 DEF LogOf, DurableOf, TypeOK
<1>3. CASE \A r \in Rooms : Same(r)
  <2>1. LogOf' = LogOf /\ DurableOf' = DurableOf /\ rows' = rows
    BY <1>1, <1>2, <1>3, SameShown
  <2> QED
    BY <2>1 DEF Log!lvars, LogOf, DurableOf
<1>4. ASSUME NEW r \in Rooms, NEW u \in Updates, Grows(r, u), \A q \in Rooms \ {r} : Same(q)
      PROVE  Log!LogNext
  <2>1. /\ LogOf'[r] = Append(LogOf[r], u) /\ DurableOf'[r] = DurableOf[r] /\ rows'[r] = rows[r]
    <3>1. PICK s \in Seq(Updates) : \E n, a \in Nat :
            RoomLog(r, s, n, a) /\ RoomLog(r, Append(s, u), n, a)'
      BY <1>4 DEF Grows
    <3>2. PICK n \in Nat, a \in Nat : RoomLog(r, s, n, a) /\ RoomLog(r, Append(s, u), n, a)'
      BY <3>1
    <3>3. Append(s, u) \in Seq(Updates)
      OBVIOUS
    <3>4. LogOf[r] = s /\ DurableOf[r] = n
      BY <1>1, <3>2, Shown
    <3>5. LogOf'[r] = Append(s, u) /\ DurableOf'[r] = n
      BY <1>1, <3>2, <3>3, ShownNext
    <3>6. rows'[r] = rows[r]
      <4>1. Shows(rows[r], s, n) /\ Shows(rows'[r], Append(s, u), n) /\ n \in 0..Len(s)
        BY <3>2 DEF RoomLog, IsLog
      <4>2. Shows(rows[r], Append(s, u), n) /\ n \in 0..Len(Append(s, u))
        BY <4>1, ShowsAppend
      <4> QED
        BY <1>1, <3>3, <4>1, <4>2, ShownOnce DEF TypeOK
    <3> QED
      BY <3>4, <3>5, <3>6
  <2>2. \A q \in Rooms \ {r} : LogOf'[q] = LogOf[q] /\ DurableOf'[q] = DurableOf[q] /\ rows'[q] = rows[q]
    BY <1>1, <1>4, SameShown
  <2>3. /\ LogOf' = [LogOf EXCEPT ![r] = Append(@, u)]
        /\ DurableOf' = DurableOf /\ rows' = rows
    BY <1>2, <2>1, <2>2
  <2>4. Log!Append1(r, u)
    BY <2>3 DEF Log!Append1, LogOf, DurableOf
  <2> QED
    BY <2>4 DEF Log!LogNext
<1>5. ASSUME NEW r \in Rooms, Persists(r), \A q \in Rooms \ {r} : Same(q)
      PROVE  [Log!LogNext]_(Log!lvars)
  <2>1. PICK s \in Seq(Updates), n \in Nat, m \in Nat :
          /\ n <= m
          /\ \E a \in Nat : RoomLog(r, s, n, a)
          /\ \E b \in Nat : RoomLog(r, s, m, b)'
    BY <1>5 DEF Persists
  <2>2. /\ LogOf[r] = s /\ DurableOf[r] = n /\ rows[r] = Log!StateAfter(s, n)
        /\ LogOf'[r] = s /\ DurableOf'[r] = m /\ rows'[r] = Log!StateAfter(s, m)
    BY <1>1, <2>1, Shown, ShownNext
  <2>3. m <= Len(s)
    BY <2>1 DEF RoomLog, IsLog
  <2>4. \A q \in Rooms \ {r} : LogOf'[q] = LogOf[q] /\ DurableOf'[q] = DurableOf[q] /\ rows'[q] = rows[q]
    BY <1>1, <1>5, SameShown
  <2>5. CASE n = m
    <3>1. LogOf' = LogOf /\ DurableOf' = DurableOf /\ rows' = rows
      BY <1>2, <2>2, <2>4, <2>5
    <3> QED
      BY <3>1 DEF Log!lvars, LogOf, DurableOf
  <2>6. CASE n # m
    <3>1. /\ DurableOf' = [DurableOf EXCEPT ![r] = m]
          /\ rows' = [rows EXCEPT ![r] = Log!StateAfter(LogOf[r], m)]
          /\ LogOf' = LogOf
      BY <1>2, <2>2, <2>4
    <3>2. m \in (DurableOf[r] + 1)..Len(LogOf[r])
      BY <2>1, <2>2, <2>3, <2>6
    <3>3. Log!Persist(r, m)
      BY <3>1 DEF Log!Persist, LogOf, DurableOf
    <3> QED
      BY <3>2, <3>3 DEF Log!LogNext, LogOf, DurableOf
  <2> QED
    BY <2>5, <2>6
<1>6. ASSUME \A r \in Rooms : LosesTail(r)
      PROVE  Log!LogNext
  <2>1. ASSUME NEW r \in Rooms
        PROVE  LogOf'[r] = SubSeq(LogOf[r], 1, DurableOf[r]) /\ DurableOf'[r] = DurableOf[r] /\ rows'[r] = rows[r]
    <3>1. PICK s \in Seq(Updates), n \in Nat :
            /\ \E a \in Nat : RoomLog(r, s, n, a)
            /\ RoomLog(r, SubSeq(s, 1, n), n, n)'
      BY <1>6 DEF LosesTail
    <3>2. LogOf[r] = s /\ DurableOf[r] = n
      BY <1>1, <3>1, Shown
    <3>3. n \in 0..Len(s) /\ Shows(rows[r], s, n) /\ Shows(rows'[r], SubSeq(s, 1, n), n)
      BY <3>1 DEF RoomLog, IsLog
    <3>4. SubSeq(s, 1, n) \in Seq(Updates) /\ n \in 0..Len(SubSeq(s, 1, n))
      BY <3>3
    <3>5. LogOf'[r] = SubSeq(s, 1, n) /\ DurableOf'[r] = n
      BY <1>1, <3>1, <3>4, ShownNext
    <3>6. rows'[r] = rows[r]
      <4>1. Shows(rows[r], SubSeq(s, 1, n), n)
        BY <3>3, ShowsTail
      <4> QED
        BY <1>1, <3>3, <3>4, <4>1, ShownOnce DEF TypeOK
    <3> QED
      BY <3>2, <3>5, <3>6
  <2>2. /\ LogOf' = [r \in Rooms |-> SubSeq(LogOf[r], 1, DurableOf[r])]
        /\ DurableOf' = DurableOf /\ rows' = rows
    BY <1>2, <2>1
  <2>3. Log!LoseTail
    BY <2>2 DEF Log!LoseTail, LogOf, DurableOf
  <2> QED
    BY <2>3 DEF Log!LogNext
<1> QED
  BY <1>1, <1>3, <1>4, <1>5, <1>6 DEF LogStep

\* The flush loop implements the durable log: whatever saves fail or are taken
\* to have failed, and however often the process crashes, the database of a room
\* shows the state after a prefix of its edits, in the order in which the server
\* took them, and this prefix only grows.
THEOREM LoopImplementsDurableLog ==
  ASSUME PersistenceAssumption, LoopOnly
  PROVE  Spec => ImplementsDurableLog
<1>1. Init => LoopInv /\ Log!LogInit
  BY LoopInit, RefinesInit
<1>2. LoopInv /\ [Next]_pvars => LoopInv' /\ [Log!LogNext]_(Log!lvars)
  BY LoopStep, RefinesStep
<1> QED
  BY <1>1, <1>2, PTL DEF Spec, ImplementsDurableLog, Log!LogSpec

=============================================================================
