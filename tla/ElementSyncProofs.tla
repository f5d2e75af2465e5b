------------------------- MODULE ElementSyncProofs -------------------------
(***************************************************************************)
(* Users draw at the same time, and when nothing is on its way any more    *)
(* they all see the drawing the server has; nobody's own work changes but  *)
(* by their own hand.  For any number of clients, elements and edits, when *)
(* each element has one editor, deletions are not taken back, hands are    *)
(* off the editors while somebody joins, no old copies come to an empty    *)
(* room and channels are drained in time.  Without any one of these, TLC   *)
(* has a counterexample to one of the two.                                 *)
(*                                                                         *)
(* No connection, handler or client has the whole drawing at once, so that *)
(* the invariant follows an element e through all of them:                 *)
(*   Seen            what is anywhere of e was drawn;                      *)
(*   OthersRemove    who does not work on e sends nothing of it but        *)
(*                   deletions, and shows what they were told;             *)
(*   Upstream        what the author sends of e is in order;               *)
(*   Ends, Gone      a deletion that somebody else may have heard of is    *)
(*                   final: nothing of the author's that is still to come  *)
(*                   draws e again, so that it may be repeated by anybody; *)
(*   Joins           while somebody joins, all have what the server has;   *)
(*   Progress        how much of the author's message the room has;        *)
(*   ServerFollows   what the author sees is what the room will have;      *)
(*   OthersFollow    what the room has is what the others will see.        *)
(* ServerFollows and OthersFollow are about the last message on a line     *)
(* that says something of e (Settles), whatever came before it.            *)
(***************************************************************************)
EXTENDS ElementSync, TLAPS

\* The users of run SyncOneEditor.
Careful ==
  /\ ~Undo /\ ~JoinWhileEditing /\ ~OldCopies /\ PumpKeepsUp
  /\ \A e \in Elems : \A c, d \in Editors[e] : c = d

\* Drawings, the changes to them, and the messages that carry changes.
Tables == [Elems -> Versions]
Changes == [added : Tables, updated : Tables, deleted : SUBSET Elems]
Messages == [kind : {"join", "leave", "update", "room_state"}, changes : Changes]

\* What is drawn of a version.
Shown(v) == IF v.deleted THEN Absent ELSE v
Dead(v) == v # Absent /\ v.deleted

\* What changes ch say about element e.
Mentions(ch, e) == ch.added[e] # Absent \/ ch.updated[e] # Absent \/ e \in ch.deleted
\* What they make of it, once all three lists are applied.
Outcome(ch, e) == IF e \in ch.deleted THEN Absent
                  ELSE IF ch.updated[e] # Absent THEN ch.updated[e] ELSE ch.added[e]
\* They delete e, by id or by its isDeleted flag; they do not draw it; they do
\* nothing but, perhaps, delete it by its id.
Fatal(ch, e) == e \in ch.deleted \/ Dead(ch.added[e]) \/ Dead(ch.updated[e])
NoLive(ch, e) == ch.added[e].deleted /\ ch.updated[e].deleted
Removes(ch, e) == ch.added[e] = Absent /\ ch.updated[e] = Absent
\* An element that was deleted before it was sent for the first time is not drawn again.
Sane(ch, e) == Dead(ch.added[e]) => ch.updated[e].deleted

-----------------------------------------------------------------------------
(* Tables and changes, element by element. *)

\* A deleted version is not shown, another is shown as it is.
LEMMA VersionFacts ==
  /\ Absent \in Versions /\ Absent.deleted = TRUE /\ Shown(Absent) = Absent
  /\ \A v \in Versions : v.deleted \in BOOLEAN
  /\ \A v \in Versions : v.deleted => Shown(v) = Absent
  /\ \A v \in Versions : ~v.deleted => Shown(v) = v /\ v # Absent
  /\ \A v \in Versions : Shown(v) = Absent => v.deleted
  /\ \A v \in Versions : Shown(v) \in Versions /\ Shown(Shown(v)) = Shown(v)
  /\ \A v \in Versions : Shown(v).deleted = v.deleted
<1>1. Absent \in Versions /\ Absent.deleted = TRUE
  BY SyncAssumption DEF Absent, Versions
<1>2. \A v \in Versions : v.deleted \in BOOLEAN
  BY DEF Versions
<1> QED
  BY <1>1, <1>2 DEF Shown

\* The operations on tables, element by element.
LEMMA OverlayAt ==
  ASSUME NEW t \in Tables, NEW u \in Tables
  PROVE  /\ Overlay(t, u) \in Tables
         /\ \A e \in Elems : Overlay(t, u)[e] = IF u[e] # Absent THEN u[e] ELSE t[e]
BY DEF Overlay, Tables

\* Of a table without some elements.
LEMMA EraseAt ==
  ASSUME NEW t \in Tables, NEW S
  PROVE  /\ Erase(t, S) \in Tables
         /\ \A e \in Elems : Erase(t, S)[e] = IF e \in S THEN Absent ELSE t[e]
BY VersionFacts DEF Erase, Tables

\* Of a table of some elements.
LEMMA KeepAt ==
  ASSUME NEW t \in Tables, NEW S
  PROVE  /\ Keep(t, S) \in Tables
         /\ \A e \in Elems : Keep(t, S)[e] = IF e \in S THEN t[e] ELSE Absent
BY VersionFacts DEF Keep, Tables

\* Of what is drawn.
LEMMA DrawnAt ==
  ASSUME NEW t \in Tables
  PROVE  /\ Drawn(t) \in Tables
         /\ \A e \in Elems : Drawn(t)[e] = Shown(t[e])
BY VersionFacts DEF Drawn, Tables, Shown

\* Nothing is in the blank table.
LEMMA BlankAt == Blank \in Tables /\ \A e \in Elems : Blank[e] = Absent
BY VersionFacts DEF Blank, Tables

\* Of the three lists the deletions count first, then the updates.
LEMMA AppliedAt ==
  ASSUME NEW t \in Tables, NEW ch \in Changes
  PROVE  /\ Applied(t, ch) \in Tables
         /\ \A e \in Elems : Applied(t, ch)[e] = IF Mentions(ch, e) THEN Outcome(ch, e) ELSE t[e]
<1>1. ch.added \in Tables /\ ch.updated \in Tables
  BY DEF Changes
<1> DEFINE u == Overlay(t, ch.added)
           w == Overlay(u, ch.updated)
<1>2. u \in Tables /\ \A e \in Elems : u[e] = IF ch.added[e] # Absent THEN ch.added[e] ELSE t[e]
  BY <1>1, OverlayAt
<1>3. w \in Tables /\ \A e \in Elems : w[e] = IF ch.updated[e] # Absent THEN ch.updated[e] ELSE u[e]
  BY <1>1, <1>2, OverlayAt
<1>4. Applied(t, ch) = Erase(w, ch.deleted)
  BY DEF Applied
<1> HIDE DEF u, w
<1>5. /\ Applied(t, ch) \in Tables
      /\ \A e \in Elems : Applied(t, ch)[e] = IF e \in ch.deleted THEN Absent ELSE w[e]
  BY <1>3, <1>4, EraseAt
<1> QED
  BY <1>2, <1>3, <1>5 DEF Mentions, Outcome

\* No changes say nothing of any element.
LEMMA NoChangesFacts ==
  /\ NoChanges \in Changes
  /\ \A e \in Elems : /\ ~Mentions(NoChanges, e) /\ ~Fatal(NoChanges, e) /\ NoLive(NoChanges, e)
                      /\ Removes(NoChanges, e) /\ Sane(NoChanges, e)
<1>1. NoChanges.added = Blank /\ NoChanges.updated = Blank /\ NoChanges.deleted = {}
  BY DEF NoChanges
<1>2. NoChanges \in Changes
  BY BlankAt DEF NoChanges, Changes
<1> QED
  BY <1>1, <1>2, BlankAt, VersionFacts DEF Mentions, Fatal, NoLive, Removes, Sane, Dead

\* How the predicates on changes go together.
LEMMA ChangeFacts ==
  ASSUME NEW ch \in Changes, NEW e \in Elems
  PROVE  /\ ch.added[e] \in Versions /\ ch.updated[e] \in Versions /\ Outcome(ch, e) \in Versions
         /\ Sane(ch, e) /\ Fatal(ch, e) => Outcome(ch, e).deleted
         /\ NoLive(ch, e) => Outcome(ch, e).deleted
         /\ Mentions(ch, e) /\ Outcome(ch, e).deleted => Fatal(ch, e)
         /\ ~Mentions(ch, e) => NoLive(ch, e) /\ ~Fatal(ch, e) /\ Removes(ch, e)
         /\ NoLive(ch, e) /\ Mentions(ch, e) => Fatal(ch, e)
         /\ Removes(ch, e) => NoLive(ch, e) /\ Sane(ch, e) /\ Outcome(ch, e) = Absent
         /\ Removes(ch, e) /\ Mentions(ch, e) => e \in ch.deleted
         /\ e \in ch.deleted => Outcome(ch, e) = Absent /\ Fatal(ch, e) /\ Mentions(ch, e)
         /\ Fatal(ch, e) => Mentions(ch, e)
         /\ NoLive(ch, e) => Sane(ch, e)
<1>1. ch.added[e] \in Versions /\ ch.updated[e] \in Versions
  BY DEF Changes, Tables
<1> QED
  BY <1>1, VersionFacts DEF Mentions, Outcome, Fatal, NoLive, Removes, Sane, Dead

\* calculateDelta, element by element.
LEMMA DeltaAt ==
  ASSUME NEW c \in Clients, scene[c] \in Tables, cache[c] \in Tables
  PROVE  /\ Delta(c) \in Changes
         /\ \A e \in Elems :
              /\ Delta(c).added[e] = IF cache[c][e] = Absent THEN scene[c][e] ELSE Absent
              /\ Delta(c).updated[e] = IF cache[c][e] # Absent /\ scene[c][e] # cache[c][e]
                                         THEN scene[c][e] ELSE Absent
              /\ e \in Delta(c).deleted <=> cache[c][e] # Absent /\ scene[c][e] = Absent
<1> DEFINE A == {e \in Elems : cache[c][e] = Absent}
           U == {e \in Elems : cache[c][e] # Absent /\ scene[c][e] # cache[c][e]}
           D == {e \in Elems : cache[c][e] # Absent /\ scene[c][e] = Absent}
<1>1. Delta(c) = [added |-> Keep(scene[c], A), updated |-> Keep(scene[c], U), deleted |-> D]
  BY DEF Delta
<1>2. \A e \in Elems : /\ e \in A <=> cache[c][e] = Absent
                       /\ e \in U <=> cache[c][e] # Absent /\ scene[c][e] # cache[c][e]
                       /\ e \in D <=> cache[c][e] # Absent /\ scene[c][e] = Absent
  OBVIOUS
<1>3. D \in SUBSET Elems
  OBVIOUS
<1> HIDE DEF A, U, D
<1>4. /\ Keep(scene[c], A) \in Tables
      /\ \A e \in Elems : Keep(scene[c], A)[e] = IF e \in A THEN scene[c][e] ELSE Absent
  BY KeepAt
<1>5. /\ Keep(scene[c], U) \in Tables
      /\ \A e \in Elems : Keep(scene[c], U)[e] = IF e \in U THEN scene[c][e] ELSE Absent
  BY KeepAt
<1>6. Delta(c) \in Changes
  BY <1>1, <1>3, <1>4, <1>5 DEF Changes
<1>7. /\ Delta(c).added = Keep(scene[c], A) /\ Delta(c).updated = Keep(scene[c], U)
      /\ Delta(c).deleted = D
  BY <1>1
<1> QED
  BY <1>2, <1>4, <1>5, <1>6, <1>7

\* accumulateChanges, element by element.
LEMMA AccumulatedAt ==
  ASSUME NEW p \in Changes, NEW ch \in Changes
  PROVE  /\ Accumulated(p, ch) \in Changes
         /\ \A e \in Elems :
              /\ Accumulated(p, ch).added[e] = IF p.added[e] # Absent THEN p.added[e] ELSE ch.added[e]
              /\ Accumulated(p, ch).updated[e] = IF ch.updated[e] # Absent THEN ch.updated[e] ELSE p.updated[e]
              /\ e \in Accumulated(p, ch).deleted <=> e \in p.deleted \/ e \in ch.deleted
<1>1. /\ p.added \in Tables /\ p.updated \in Tables /\ p.deleted \in SUBSET Elems
      /\ ch.added \in Tables /\ ch.updated \in Tables /\ ch.deleted \in SUBSET Elems
  BY DEF Changes
<1>2. /\ Accumulated(p, ch) = [added |-> Overlay(ch.added, p.added), updated |-> Overlay(p.updated, ch.updated),
                               deleted |-> p.deleted \cup ch.deleted]
  BY DEF Accumulated
<1>3. /\ Overlay(ch.added, p.added) \in Tables
      /\ \A e \in Elems : Overlay(ch.added, p.added)[e] = IF p.added[e] # Absent THEN p.added[e] ELSE ch.added[e]
  BY <1>1, OverlayAt
<1>4. /\ Overlay(p.updated, ch.updated) \in Tables
      /\ \A e \in Elems : Overlay(p.updated, ch.updated)[e] = IF ch.updated[e] # Absent THEN ch.updated[e] ELSE p.updated[e]
  BY <1>1, OverlayAt
<1>5. Accumulated(p, ch) \in Changes
  BY <1>1, <1>2, <1>3, <1>4 DEF Changes
<1>6. /\ Accumulated(p, ch).added = Overlay(ch.added, p.added)
      /\ Accumulated(p, ch).updated = Overlay(p.updated, ch.updated)
      /\ Accumulated(p, ch).deleted = p.deleted \cup ch.deleted
  BY <1>2
<1> QED
  BY <1>3, <1>4, <1>5, <1>6

-----------------------------------------------------------------------------
(* Sequences of messages. *)

\* The messages that are in a sequence.
Rng(s) == {s[i] : i \in 1 .. Len(s)}

\* A message joins the end, or leaves the front.
LEMMA SeqFacts ==
  ASSUME NEW S, NEW s \in Seq(S), NEW m \in S
  PROVE  /\ Append(s, m) \in Seq(S) /\ Len(Append(s, m)) = Len(s) + 1 /\ Len(s) \in Nat
         /\ \A i \in 1 .. Len(s) : i \in 1 .. Len(s) + 1 /\ Append(s, m)[i] = s[i]
         /\ Append(s, m)[Len(s) + 1] = m
         /\ \A i \in 1 .. Len(s) + 1 : i \in 1 .. Len(s) \/ i = Len(s) + 1
OBVIOUS

\* The rest of a sequence has what followed its head.
LEMMA TailFacts ==
  ASSUME NEW S, NEW s \in Seq(S), s # <<>>
  PROVE  /\ Len(s) \in Nat /\ Len(s) # 0 /\ Head(s) = s[1] /\ 1 \in 1 .. Len(s) /\ Head(s) \in S
         /\ Tail(s) \in Seq(S) /\ Len(Tail(s)) = Len(s) - 1
         /\ \A i \in 1 .. Len(Tail(s)) : Tail(s)[i] = s[i + 1] /\ i + 1 \in 1 .. Len(s)
         /\ \A i \in 1 .. Len(s) : i = 1 \/ (i - 1 \in 1 .. Len(Tail(s)) /\ Tail(s)[i - 1] = s[i])
OBVIOUS

\* What a sequence has in it when one joins or leaves.
LEMMA RngFacts ==
  ASSUME NEW S, NEW s \in Seq(S)
  PROVE  /\ Rng(s) \subseteq S
         /\ \A m \in S : Rng(Append(s, m)) = Rng(s) \cup {m}
         /\ s # <<>> => Rng(Tail(s)) \subseteq Rng(s) /\ Head(s) \in Rng(s)
<1>1. Rng(s) \subseteq S
  BY DEF Rng
<1>2. ASSUME NEW m \in S
      PROVE  Rng(Append(s, m)) = Rng(s) \cup {m}
  <2>1. /\ Len(Append(s, m)) = Len(s) + 1 /\ Len(s) \in Nat
        /\ \A i \in 1 .. Len(s) : i \in 1 .. Len(s) + 1 /\ Append(s, m)[i] = s[i]
        /\ Append(s, m)[Len(s) + 1] = m
        /\ \A i \in 1 .. Len(s) + 1 : i \in 1 .. Len(s) \/ i = Len(s) + 1
    BY SeqFacts
  <2>2. Len(s) + 1 \in 1 .. Len(s) + 1
    BY <2>1
  <2> QED
    BY <2>1, <2>2 DEF Rng
<1>3. ASSUME s # <<>>
      PROVE  Rng(Tail(s)) \subseteq Rng(s) /\ Head(s) \in Rng(s)
  BY <1>3, TailFacts DEF Rng
<1> QED
  BY <1>1, <1>2, <1>3

\* Nothing is in the empty sequence.
LEMMA EmptyRng == Rng(<<>>) = {} /\ \A S : <<>> \in Seq(S)
BY DEF Rng

\* Of one message there is nothing else.
LEMMA SingleRng == \A m : Rng(<<m>>) = {m}
BY DEF Rng

\* After the messages of s have been applied to x, element e looks as v.
Settles(s, e, x, v) ==
  /\ (\A i \in 1 .. Len(s) : ~Mentions(s[i].changes, e)) => Shown(x) = v
  /\ \A i \in 1 .. Len(s) :
       /\ Mentions(s[i].changes, e)
       /\ \A j \in i + 1 .. Len(s) : ~Mentions(s[j].changes, e)
       => Shown(Outcome(s[i].changes, e)) = v

\* Without messages e stays as it is.
LEMMA SettlesEmpty ==
  ASSUME NEW e, NEW x, NEW v
  PROVE  Settles(<<>>, e, x, v) <=> Shown(x) = v
BY DEF Settles

\* The last message that says something of e decides.
LEMMA SettlesAppend ==
  ASSUME NEW s \in Seq(Messages), NEW m \in Messages, NEW e, NEW x, NEW v
  PROVE  /\ Mentions(m.changes, e) /\ Shown(Outcome(m.changes, e)) = v => Settles(Append(s, m), e, x, v)
         /\ ~Mentions(m.changes, e) /\ Settles(s, e, x, v) => Settles(Append(s, m), e, x, v)
<1> DEFINE t == Append(s, m)
           n == Len(s)
<1>1. /\ t \in Seq(Messages) /\ Len(t) = n + 1 /\ n \in Nat
      /\ \A i \in 1 .. n : i \in 1 .. n + 1 /\ t[i] = s[i]
      /\ t[n + 1] = m
      /\ \A i \in 1 .. n + 1 : i \in 1 .. n \/ i = n + 1
  BY SeqFacts
<1> HIDE DEF t, n
<1>2. n + 1 \in 1 .. n + 1 /\ \A i \in 1 .. n : n + 1 \in i + 1 .. n + 1
  BY <1>1
<1>3. ASSUME Mentions(m.changes, e), Shown(Outcome(m.changes, e)) = v
      PROVE  Settles(t, e, x, v)
  BY <1>1, <1>2, <1>3 DEF Settles
<1>4. ASSUME ~Mentions(m.changes, e), Settles(s, e, x, v)
      PROVE  Settles(t, e, x, v)
  <2>1. (\A i \in 1 .. n + 1 : ~Mentions(t[i].changes, e)) => \A i \in 1 .. n : ~Mentions(s[i].changes, e)
    BY <1>1
  <2>2. ASSUME NEW i \in 1 .. n + 1, Mentions(t[i].changes, e),
               \A j \in i + 1 .. n + 1 : ~Mentions(t[j].changes, e)
        PROVE  Shown(Outcome(t[i].changes, e)) = v
    <3>1. i \in 1 .. n
      BY <1>1, <1>4, <2>2
    <3>2. \A j \in i + 1 .. n : j \in i + 1 .. n + 1 /\ j \in 1 .. n
      BY <1>1, <3>1
    <3> QED
      BY <1>1, <1>4, <2>2, <3>1, <3>2 DEF Settles, n
  <2> QED
    BY <1>1, <1>4, <2>1, <2>2 DEF Settles, n
<1> QED
  BY <1>3, <1>4 DEF t

\* A message that is applied has the effect it was to have.
LEMMA SettlesTail ==
  ASSUME NEW s \in Seq(Messages), s # <<>>, NEW e, NEW x, NEW v, Settles(s, e, x, v)
  PROVE  /\ Mentions(Head(s).changes, e) => Settles(Tail(s), e, Outcome(Head(s).changes, e), v)
         /\ ~Mentions(Head(s).changes, e) => Settles(Tail(s), e, x, v)
<1> DEFINE t == Tail(s)
           n == Len(s)
<1>1. /\ n \in Nat /\ n # 0 /\ Head(s) = s[1] /\ 1 \in 1 .. n /\ Len(t) = n - 1
      /\ \A i \in 1 .. n - 1 : t[i] = s[i + 1] /\ i + 1 \in 1 .. n
      /\ \A i \in 1 .. n : i = 1 \/ (i - 1 \in 1 .. n - 1 /\ t[i - 1] = s[i])
  BY TailFacts
<1> HIDE DEF t, n
<1>2. \A i \in 1 .. n - 1 : Mentions(t[i].changes, e) /\ (\A j \in i + 1 .. n - 1 : ~Mentions(t[j].changes, e))
        => Shown(Outcome(t[i].changes, e)) = v
  <2> SUFFICES ASSUME NEW i \in 1 .. n - 1, Mentions(t[i].changes, e),
                      \A j \in i + 1 .. n - 1 : ~Mentions(t[j].changes, e)
               PROVE  Shown(Outcome(t[i].changes, e)) = v
    OBVIOUS
  <2>1. t[i] = s[i + 1] /\ i + 1 \in 1 .. n
    BY <1>1
  <2>2. \A j \in i + 1 + 1 .. n : j \in 1 .. n /\ j - 1 \in i + 1 .. n - 1 /\ t[j - 1] = s[j]
    BY <1>1
  <2>3. \A j \in i + 1 + 1 .. n : ~Mentions(s[j].changes, e)
    BY <2>2
  <2> QED
    BY <2>1, <2>3 DEF Settles, n
<1>3. ASSUME \A i \in 1 .. n - 1 : ~Mentions(t[i].changes, e)
      PROVE  \A j \in 1 + 1 .. n : ~Mentions(s[j].changes, e)
  <2>1. \A j \in 1 + 1 .. n : j \in 1 .. n /\ j # 1
    BY <1>1
  <2>2. \A j \in 1 + 1 .. n : j - 1 \in 1 .. n - 1 /\ t[j - 1] = s[j]
    BY <1>1, <2>1
  <2> QED
    BY <1>3, <2>2
<1>4. ASSUME Mentions(Head(s).changes, e)
      PROVE  Settles(t, e, Outcome(Head(s).changes, e), v)
  BY <1>1, <1>2, <1>3, <1>4 DEF Settles, n
<1>5. ASSUME ~Mentions(Head(s).changes, e)
      PROVE  Settles(t, e, x, v)
  <2>1. (\A i \in 1 .. n - 1 : ~Mentions(t[i].changes, e)) => \A j \in 1 .. n : ~Mentions(s[j].changes, e)
    BY <1>1, <1>5
  <2> QED
    BY <1>1, <1>2, <2>1 DEF Settles, n
<1> QED
  BY <1>4, <1>5 DEF t

\* What is deleted stays so when nothing draws it.
LEMMA SettlesDead ==
  ASSUME NEW s \in Seq(Messages), NEW e \in Elems, NEW x \in Versions, x.deleted,
         \A m \in Rng(s) : NoLive(m.changes, e)
  PROVE  Settles(s, e, x, Absent)
<1>1. Shown(x) = Absent
  BY VersionFacts
<1>2. \A i \in 1 .. Len(s) : s[i] \in Rng(s) /\ s[i].changes \in Changes
  <2>1. \A i \in 1 .. Len(s) : s[i] \in Rng(s) /\ s[i] \in Messages
    BY DEF Rng
  <2> QED
    BY <2>1 DEF Messages
<1>3. \A i \in 1 .. Len(s) : Shown(Outcome(s[i].changes, e)) = Absent
  BY <1>2, ChangeFacts, VersionFacts
<1> QED
  BY <1>1, <1>3 DEF Settles

\* It does not matter which deleted version it was.
LEMMA SettlesAs ==
  ASSUME NEW s, NEW e, NEW x, NEW y, NEW v, Shown(x) = Shown(y), Settles(s, e, x, v)
  PROVE  Settles(s, e, y, v)
BY DEF Settles

\* Frames of one message.
Singles == {<<m>> : m \in Messages}
\* The messages on a wire whose frames have one each.
Frames(w) == [i \in 1 .. Len(w) |-> w[i][1]]

\* A function on an initial segment is a sequence.
LEMMA IsSeq == ASSUME NEW S, NEW n \in Nat, NEW f \in [1 .. n -> S] PROVE f \in Seq(S) /\ Len(f) = n
OBVIOUS

\* The messages of frames, one for each, in their order.
LEMMA FramesFacts ==
  ASSUME NEW w \in Seq(Singles)
  PROVE  /\ Frames(w) \in Seq(Messages) /\ Len(Frames(w)) = Len(w) /\ Len(w) \in Nat
         /\ \A i \in 1 .. Len(w) : Frames(w)[i] = w[i][1] /\ w[i] = <<Frames(w)[i]>> /\ Frames(w)[i] \in Messages
<1>1. \A i \in 1 .. Len(w) : w[i] \in Singles
  OBVIOUS
<1>2. \A f \in Singles : f[1] \in Messages /\ f = <<f[1]>> /\ Len(f) = 1
  BY DEF Singles
<1>3. Frames(w) \in [1 .. Len(w) -> Messages] /\ Len(w) \in Nat
  BY <1>1, <1>2 DEF Frames
<1>4. Frames(w) \in Seq(Messages) /\ Len(Frames(w)) = Len(w)
  BY <1>3, IsSeq
<1> QED
  BY <1>1, <1>2, <1>3, <1>4 DEF Frames

\* A frame is written.
LEMMA FramesAppend ==
  ASSUME NEW w \in Seq(Singles), NEW m \in Messages
  PROVE  Append(w, <<m>>) \in Seq(Singles) /\ Frames(Append(w, <<m>>)) = Append(Frames(w), m)
<1> DEFINE u == Append(w, <<m>>)
<1>1. <<m>> \in Singles /\ <<m>>[1] = m
  BY DEF Singles
<1>2. /\ u \in Seq(Singles) /\ Len(u) = Len(w) + 1 /\ Len(w) \in Nat
      /\ \A i \in 1 .. Len(w) : i \in 1 .. Len(w) + 1 /\ u[i] = w[i]
      /\ u[Len(w) + 1] = <<m>>
      /\ \A i \in 1 .. Len(w) + 1 : i \in 1 .. Len(w) \/ i = Len(w) + 1
  BY <1>1, SeqFacts
<1> HIDE DEF u
<1>3. /\ Frames(w) \in Seq(Messages) /\ Len(Frames(w)) = Len(w)
      /\ \A i \in 1 .. Len(w) : Frames(w)[i] = w[i][1]
  BY FramesFacts
<1>4. /\ Frames(u) \in Seq(Messages) /\ Len(Frames(u)) = Len(u)
      /\ \A i \in 1 .. Len(u) : Frames(u)[i] = u[i][1]
  BY <1>2, FramesFacts
<1>5. /\ Append(Frames(w), m) \in Seq(Messages) /\ Len(Append(Frames(w), m)) = Len(w) + 1
      /\ \A i \in 1 .. Len(w) : Append(Frames(w), m)[i] = Frames(w)[i]
      /\ Append(Frames(w), m)[Len(w) + 1] = m
  BY <1>3, SeqFacts
<1>6. \A i \in 1 .. Len(w) + 1 : Frames(u)[i] = Append(Frames(w), m)[i]
  BY <1>1, <1>2, <1>3, <1>4, <1>5
<1> QED
  BY <1>2, <1>4, <1>5, <1>6 DEF u

\* The first frame is read.
LEMMA FramesTail ==
  ASSUME NEW w \in Seq(Singles), w # <<>>
  PROVE  /\ Tail(w) \in Seq(Singles) /\ Frames(Tail(w)) = Tail(Frames(w))
         /\ Frames(w) # <<>> /\ Head(Frames(w)) \in Messages /\ Head(w) = <<Head(Frames(w))>>
<1>1. /\ Len(w) \in Nat /\ Len(w) # 0 /\ Head(w) = w[1] /\ 1 \in 1 .. Len(w)
      /\ Tail(w) \in Seq(Singles) /\ Len(Tail(w)) = Len(w) - 1
      /\ \A i \in 1 .. Len(Tail(w)) : Tail(w)[i] = w[i + 1] /\ i + 1 \in 1 .. Len(w)
  BY TailFacts
<1>2. /\ Frames(w) \in Seq(Messages) /\ Len(Frames(w)) = Len(w)
      /\ \A i \in 1 .. Len(w) : Frames(w)[i] = w[i][1] /\ w[i] = <<Frames(w)[i]>> /\ Frames(w)[i] \in Messages
  BY FramesFacts
<1>3. Frames(w) # <<>>
  BY <1>1, <1>2
<1>4. /\ Head(Frames(w)) = Frames(w)[1] /\ Tail(Frames(w)) \in Seq(Messages) /\ Len(Tail(Frames(w))) = Len(w) - 1
      /\ \A i \in 1 .. Len(w) - 1 : Tail(Frames(w))[i] = Frames(w)[i + 1]
  BY <1>2, <1>3, TailFacts
<1>5. /\ Frames(Tail(w)) \in Seq(Messages) /\ Len(Frames(Tail(w))) = Len(w) - 1
      /\ \A i \in 1 .. Len(w) - 1 : Frames(Tail(w))[i] = Tail(w)[i][1]
  BY <1>1, FramesFacts
<1>6. \A i \in 1 .. Len(w) - 1 : Frames(Tail(w))[i] = Tail(Frames(w))[i]
  BY <1>1, <1>2, <1>4, <1>5
<1> QED
  BY <1>1, <1>2, <1>3, <1>4, <1>5, <1>6
-----------------------------------------------------------------------------
(* Types. *)

\* Where a handler has changes it applies, and changes it passes on.
Applying == {"add", "update", "delete"}
Updating == {"add", "update", "delete", "broadcast"}

\* Types.  Frames and channels have one message, since channels are drained in time.
Typing ==
  /\ scene \in [Clients -> Tables] /\ cache \in [Clients -> Tables]
  /\ pending \in [Clients -> Changes]
  /\ session \in [Clients -> {"out", "joining", "in"}]
  /\ up \in [Clients -> Seq(Messages)]
  /\ channel \in [Clients -> {<<>>} \cup Singles]
  /\ wire \in [Clients -> Seq(Singles)]
  /\ elements \in Tables /\ members \subseteq Clients
  /\ stage \in [Clients -> {"idle", "snapshot", "reply", "add", "update", "delete", "broadcast"}]
  /\ work \in [Clients -> Messages] /\ todo \in [Clients -> SUBSET Clients]
  /\ latest \in Tables /\ clock \in 0 .. MaxEdits

\* Messages have their parts, and a frame of one has it as its head.
LEMMA MessageFacts ==
  /\ \A k \in {"join", "leave", "update", "room_state"}, ch \in Changes :
       Message(k, ch) \in Messages /\ Message(k, ch).kind = k /\ Message(k, ch).changes = ch
  /\ \A t \in Tables : /\ [NoChanges EXCEPT !.added = t] \in Changes
                       /\ [NoChanges EXCEPT !.added = t].added = t
                       /\ [NoChanges EXCEPT !.added = t].updated = Blank
                       /\ [NoChanges EXCEPT !.added = t].deleted = {}
  /\ \A m \in Messages : m.changes \in Changes /\ <<m>> \in Singles
  /\ \A m \in Messages : Append(<<>>, m) = <<m>> /\ <<m>> # <<>> /\ <<m>>[1] = m /\ Len(<<m>>) = 1
  /\ \A f \in Singles : f[1] \in Messages /\ f = <<f[1]>> /\ Head(f) = f[1] /\ Len(f) = 1 /\ f # <<>>
<1>1. \A k \in {"join", "leave", "update", "room_state"}, ch \in Changes :
       Message(k, ch) \in Messages /\ Message(k, ch).kind = k /\ Message(k, ch).changes = ch
  BY DEF Message, Messages
<1>2. ASSUME NEW t \in Tables
      PROVE  /\ [NoChanges EXCEPT !.added = t] \in Changes
             /\ [NoChanges EXCEPT !.added = t].added = t
             /\ [NoChanges EXCEPT !.added = t].updated = Blank
             /\ [NoChanges EXCEPT !.added = t].deleted = {}
  BY NoChangesFacts, BlankAt DEF NoChanges, Changes
<1>3. \A m \in Messages : m.changes \in Changes /\ <<m>> \in Singles
  BY DEF Messages, Singles
<1>4. \A m \in Messages : Append(<<>>, m) = <<m>> /\ <<m>> # <<>> /\ <<m>>[1] = m /\ Len(<<m>>) = 1
  OBVIOUS
<1>5. \A f \in Singles : f[1] \in Messages /\ f = <<f[1]>> /\ Head(f) = f[1] /\ Len(f) = 1 /\ f # <<>>
  BY DEF Singles
<1> QED
  BY <1>1, <1>2, <1>3, <1>4, <1>5

\* What Edit does.
LEMMA EditFacts ==
  ASSUME Careful, Typing, NEW c \in Clients, NEW e \in Elems, Edit(c, e)
  PROVE  /\ c \in Editors[e] /\ clock' \in 0 .. MaxEdits
         /\ \A d \in Clients : session[d] # "joining"
         /\ \E v \in Versions :
              /\ v # Absent
              /\ scene' = [scene EXCEPT ![c] = [scene[c] EXCEPT ![e] = v]]
              /\ latest' = [latest EXCEPT ![e] = v]
              /\ \/ scene[c][e] = Absent /\ latest[e] = Absent /\ ~v.deleted
                 \/ ~scene[c][e].deleted
         /\ UNCHANGED <<cache, pending, session, up, channel, wire, elements, members, handler>>
<1>1. PICK gone \in BOOLEAN :
        /\ \/ scene[c][e] = Absent /\ latest[e] = Absent /\ ~gone
           \/ ~scene[c][e].deleted
        /\ scene'  = [scene  EXCEPT ![c][e] = [stamp |-> clock + 1, deleted |-> gone]]
        /\ latest' = [latest EXCEPT ![e] = [stamp |-> clock + 1, deleted |-> gone]]
  BY DEF Edit, Careful
<1>2. clock + 1 \in 0 .. MaxEdits /\ clock' = clock + 1 /\ clock + 1 # 0
  BY SyncAssumption DEF Edit, Typing
<1> DEFINE v == [stamp |-> clock + 1, deleted |-> gone]
<1>3. v \in Versions /\ v # Absent /\ v.deleted = gone
  BY <1>2 DEF Versions, Absent
<1>4. scene' = [scene EXCEPT ![c] = [scene[c] EXCEPT ![e] = v]]
  BY <1>1
<1>5. latest' = [latest EXCEPT ![e] = v]
  BY <1>1
<1>6. \/ scene[c][e] = Absent /\ latest[e] = Absent /\ ~v.deleted
      \/ ~scene[c][e].deleted
  BY <1>1, <1>3
<1> HIDE DEF v
<1>7. \A d \in Clients : session[d] # "joining"
  BY DEF Edit, Careful
<1> QED
  BY <1>2, <1>3, <1>4, <1>5, <1>6, <1>7 DEF Edit

\* What HandleChange does.
LEMMA ChangeSteps ==
  ASSUME Careful, Typing, NEW c \in Clients, HandleChange(c)
  PROVE  /\ session[c] # "joining"
         /\ cache' = [cache EXCEPT ![c] = Overlay(cache[c], scene[c])]
         /\ \/ session[c] = "out" /\ pending' = pending
            \/ /\ session[c] = "in" /\ Delta(c) \in Changes
               /\ pending' = [pending EXCEPT ![c] = Accumulated(pending[c], Delta(c))]
         /\ UNCHANGED <<scene, session, up, channel, wire, elements, members, handler, history>>
<1>1. scene[c] \in Tables /\ cache[c] \in Tables /\ session[c] \in {"out", "joining", "in"}
  BY DEF Typing
<1> QED
  BY <1>1, DeltaAt DEF HandleChange, Careful

\* A frame that is read: a message, which is applied.
LEMMA ReceiveFacts ==
  ASSUME Typing, NEW c \in Clients, Receive(c)
  PROVE  \E m \in Messages :
           /\ wire[c] # <<>> /\ m = Head(Frames(wire[c])) /\ m \in Rng(Frames(wire[c]))
           /\ wire' = [wire EXCEPT ![c] = Tail(wire[c])]
           /\ Frames(Tail(wire[c])) = Tail(Frames(wire[c]))
           /\ \/ m.kind = "room_state" /\ LoadRoomState(c, m.changes.added)
              \/ m.kind = "update" /\ ApplyRemote(c, m.changes)
           /\ UNCHANGED <<pending, up, channel, elements, members, handler, history>>
<1>1. wire[c] \in Seq(Singles) /\ wire[c] # <<>>
  BY DEF Typing, Receive
<1> DEFINE m == Head(Frames(wire[c]))
<1>2. m \in Messages /\ Head(wire[c]) = <<m>> /\ Frames(Tail(wire[c])) = Tail(Frames(wire[c]))
      /\ Frames(wire[c]) # <<>>
  BY <1>1, FramesTail
<1>3. Frames(wire[c]) \in Seq(Messages)
  BY <1>1, FramesFacts
<1>4. m \in Rng(Frames(wire[c]))
  BY <1>2, <1>3, RngFacts
<1> HIDE DEF m
<1>5. ~(Len(<<m>>) > 1) /\ Head(<<m>>) = m
  OBVIOUS
<1>6. \/ m.kind = "room_state" /\ LoadRoomState(c, m.changes.added)
      \/ m.kind = "update" /\ ApplyRemote(c, m.changes)
  BY <1>2, <1>5 DEF Receive
<1>7. /\ wire' = [wire EXCEPT ![c] = Tail(wire[c])]
      /\ UNCHANGED <<pending, up, channel, elements, members, handler, history>>
  BY DEF Receive
<1>8. m = Head(Frames(wire[c]))
  BY DEF m
<1> QED
  BY <1>1, <1>2, <1>4, <1>6, <1>7, <1>8

\* A frame is written with the only message that is queued.
LEMMA WritePumpFacts ==
  ASSUME Typing, NEW c \in Clients, WritePump(c)
  PROVE  \E m \in Messages :
           /\ channel[c] = <<m>>
           /\ channel' = [channel EXCEPT ![c] = <<>>]
           /\ wire' = [wire EXCEPT ![c] = IF session[c] = "out" THEN wire[c] ELSE Append(wire[c], <<m>>)]
           /\ Append(wire[c], <<m>>) \in Seq(Singles)
           /\ Frames(Append(wire[c], <<m>>)) = Append(Frames(wire[c]), m)
           /\ UNCHANGED <<client, up, elements, members, handler, history>>
<1>1. channel[c] \in {<<>>} \cup Singles /\ channel[c] # <<>> /\ wire[c] \in Seq(Singles)
  BY DEF Typing, WritePump
<1>2. PICK m \in Messages : channel[c] = <<m>>
  BY <1>1 DEF Singles
<1>3. Append(wire[c], <<m>>) \in Seq(Singles) /\ Frames(Append(wire[c], <<m>>)) = Append(Frames(wire[c]), m)
  BY <1>1, FramesAppend
<1> QED
  BY <1>2, <1>3 DEF WritePump

\* A message that is sent to a channel, which is empty then.
LEMMA SendFacts ==
  ASSUME Careful, Typing, NEW d \in Clients, NEW m \in Messages, SendTo(d, m), channel[d] = <<>>
  PROVE  channel' = IF session[d] # "out" THEN [channel EXCEPT ![d] = <<m>>] ELSE channel
<1>1. Len(channel[d]) < BufferSize
  <2>1. Len(<<>>) = 0
    OBVIOUS
  <2> QED
    BY <2>1, SyncAssumption
<1>2. Append(channel[d], m) = <<m>>
  BY MessageFacts
<1> QED
  BY <1>1, <1>2 DEF SendTo

\* What the client of a remote message holds afterwards.
LEMMA RemoteAt ==
  ASSUME Typing, NEW c \in Clients, NEW ch \in Changes, ApplyRemote(c, ch)
  PROVE  /\ scene' = [scene EXCEPT ![c] = Applied(Drawn(scene[c]), ch)]
         /\ cache' = [cache EXCEPT ![c] = Applied(cache[c], ch)]
         /\ Applied(Drawn(scene[c]), ch) \in Tables /\ Applied(cache[c], ch) \in Tables
         /\ \A e \in Elems :
              /\ scene'[c][e] = IF Mentions(ch, e) THEN Outcome(ch, e) ELSE Shown(scene[c][e])
              /\ cache'[c][e] = IF Mentions(ch, e) THEN Outcome(ch, e) ELSE cache[c][e]
         /\ session' = session
<1>1. scene[c] \in Tables /\ cache[c] \in Tables
  BY DEF Typing
<1>2. Drawn(scene[c]) \in Tables /\ \A e \in Elems : Drawn(scene[c])[e] = Shown(scene[c][e])
  BY <1>1, DrawnAt
<1>3. /\ scene' = [scene EXCEPT ![c] = Applied(Drawn(scene[c]), ch)]
      /\ cache' = [cache EXCEPT ![c] = Applied(cache[c], ch)]
      /\ session' = session
  BY DEF ApplyRemote
<1>4. scene'[c] = Applied(Drawn(scene[c]), ch) /\ cache'[c] = Applied(cache[c], ch)
  BY <1>3 DEF Typing
<1> QED
  BY <1>1, <1>2, <1>3, <1>4, AppliedAt

\* The message that a server's goroutine takes from the connection.
LEMMA ReadFacts ==
  ASSUME Typing, NEW c \in Clients, ReadMessage(c)
  PROVE  \E m \in Messages :
           /\ stage[c] = "idle" /\ up[c] # <<>> /\ m = Head(up[c]) /\ m \in Rng(up[c])
           /\ up' = [up EXCEPT ![c] = Tail(up[c])] /\ Tail(up[c]) \in Seq(Messages)
           /\ \/ /\ m.kind = "join" /\ members' = members \cup {c}
                 /\ stage' = [stage EXCEPT ![c] = "snapshot"] /\ work' = work
              \/ /\ m.kind = "leave" /\ members' = members \ {c} /\ stage' = stage /\ work' = work
              \/ /\ m.kind = "update" /\ members' = members /\ c \in members
                 /\ stage' = [stage EXCEPT ![c] = "add"] /\ work' = [work EXCEPT ![c] = m]
              \/ /\ m.kind = "update" /\ members' = members /\ c \notin members
                 /\ stage' = stage /\ work' = work
           /\ UNCHANGED <<client, channel, wire, elements, todo, history>>
<1>1. up[c] \in Seq(Messages) /\ up[c] # <<>>
  BY DEF Typing, ReadMessage
<1>2. Head(up[c]) \in Messages /\ Head(up[c]) \in Rng(up[c]) /\ Tail(up[c]) \in Seq(Messages)
  BY <1>1, TailFacts, RngFacts
<1> QED
  BY <1>1, <1>2 DEF ReadMessage

\* Types are kept by the steps of clients.
LEMMA TypingClient ==
  ASSUME Careful, Typing, NEW c \in Clients,
         \/ \E e \in Elems : Edit(c, e)
         \/ JoinRoom(c) \/ LeaveRoom(c) \/ HandleChange(c) \/ FlushChanges(c) \/ Receive(c)
  PROVE  Typing'
<1> USE DEF handler, history, client
<1>1. ASSUME NEW e \in Elems, Edit(c, e)
      PROVE  Typing'
  <2>1. PICK v \in Versions :
              /\ scene' = [scene EXCEPT ![c] = [scene[c] EXCEPT ![e] = v]]
              /\ latest' = [latest EXCEPT ![e] = v]
    BY <1>1, EditFacts
  <2>2. clock' \in 0 .. MaxEdits
        /\ UNCHANGED <<cache, pending, session, up, channel, wire, elements, members, handler>>
    BY <1>1, EditFacts
  <2>3. [scene[c] EXCEPT ![e] = v] \in Tables /\ latest' \in Tables
    BY <2>1 DEF Typing, Tables
  <2> QED
    BY <2>1, <2>2, <2>3 DEF Typing
<1>2. CASE JoinRoom(c)
  <2>1. <<Message("join", NoChanges)>> \in Seq(Messages) /\ <<>> \in Seq(Singles)
    BY MessageFacts, NoChangesFacts
  <2> QED
    BY <1>2, <2>1 DEF JoinRoom, Typing
<1>3. CASE LeaveRoom(c)
  <2>1. Append(up[c], Message("leave", NoChanges)) \in Seq(Messages) /\ <<>> \in Seq(Singles)
    BY MessageFacts, NoChangesFacts DEF Typing
  <2> QED
    BY <1>3, <2>1 DEF LeaveRoom, Typing
<1>4. CASE HandleChange(c)
  <2>1. scene[c] \in Tables /\ cache[c] \in Tables /\ pending[c] \in Changes
    BY DEF Typing
  <2>2. Overlay(cache[c], scene[c]) \in Tables
    BY <2>1, OverlayAt
  <2>3. Delta(c) \in Changes => Accumulated(pending[c], Delta(c)) \in Changes
    BY <2>1, AccumulatedAt
  <2>4. cache' \in [Clients -> Tables] /\ pending' \in [Clients -> Changes]
    <3>1. /\ cache' = [cache EXCEPT ![c] = Overlay(cache[c], scene[c])]
          /\ \/ pending' = pending
             \/ /\ Delta(c) \in Changes
                /\ pending' = [pending EXCEPT ![c] = Accumulated(pending[c], Delta(c))]
      BY <1>4, ChangeSteps
    <3> QED
      BY <2>2, <2>3, <3>1 DEF Typing
  <2>5. UNCHANGED <<scene, session, up, channel, wire, elements, members, handler, history>>
    BY <1>4, ChangeSteps
  <2> QED
    BY <2>4, <2>5 DEF Typing
<1>5. CASE FlushChanges(c)
  <2>1. /\ Message("update", pending[c]) \in Messages
        /\ Append(up[c], Message("update", pending[c])) \in Seq(Messages)
    <3>1. pending[c] \in Changes /\ up[c] \in Seq(Messages)
      BY DEF Typing
    <3>2. Message("update", pending[c]) \in Messages
      BY <3>1, MessageFacts
    <3> QED
      BY <3>1, <3>2
  <2> QED
    BY <1>5, <2>1, NoChangesFacts DEF FlushChanges, Typing
<1>6. CASE Receive(c)
  <2>1. PICK m \in Messages :
           /\ wire[c] # <<>>
           /\ wire' = [wire EXCEPT ![c] = Tail(wire[c])]
           /\ \/ m.kind = "room_state" /\ LoadRoomState(c, m.changes.added)
              \/ m.kind = "update" /\ ApplyRemote(c, m.changes)
           /\ UNCHANGED <<pending, up, channel, elements, members, handler, history>>
    BY <1>6, ReceiveFacts
  <2>2. wire' \in [Clients -> Seq(Singles)]
    BY <2>1, TailFacts DEF Typing
  <2>3. m.changes \in Changes /\ m.changes.added \in Tables
    BY DEF Messages, Changes
  <2>4. /\ scene' \in [Clients -> Tables] /\ cache' \in [Clients -> Tables]
        /\ session' \in [Clients -> {"out", "joining", "in"}]
    <3>1. CASE LoadRoomState(c, m.changes.added)
      BY <2>3, <3>1 DEF LoadRoomState, Typing
    <3>2. CASE ApplyRemote(c, m.changes)
      <4>1. /\ scene' = [scene EXCEPT ![c] = Applied(Drawn(scene[c]), m.changes)]
            /\ cache' = [cache EXCEPT ![c] = Applied(cache[c], m.changes)]
            /\ Applied(Drawn(scene[c]), m.changes) \in Tables /\ Applied(cache[c], m.changes) \in Tables
            /\ session' = session
        BY <2>3, <3>2, RemoteAt
      <4> QED
        BY <4>1 DEF Typing
    <3> QED
      BY <2>1, <3>1, <3>2
  <2> QED
    BY <2>1, <2>2, <2>4 DEF Typing
<1> QED
  BY <1>1, <1>2, <1>3, <1>4, <1>5, <1>6

\* And by those of the goroutines.
LEMMA TypingServer ==
  ASSUME Careful, Typing, NEW c \in Clients, ReadPump(c) \/ WritePump(c)
  PROVE  Typing'
<1> USE DEF handler, history, client
<1>0. /\ work[c] \in Messages /\ work[c].changes \in Changes
      /\ work[c].changes.added \in Tables /\ work[c].changes.updated \in Tables
      /\ Message("update", NoChanges) \in Messages
  <2>1. work[c] \in Messages
    BY DEF Typing
  <2>2. work[c].changes \in Changes /\ Message("update", NoChanges) \in Messages
    BY <2>1, MessageFacts, NoChangesFacts
  <2> QED
    BY <2>1, <2>2 DEF Changes
<1>1. CASE ReadMessage(c)
  <2>1. PICK m \in Messages :
           /\ up' = [up EXCEPT ![c] = Tail(up[c])] /\ Tail(up[c]) \in Seq(Messages)
           /\ \/ /\ m.kind = "join" /\ members' = members \cup {c}
                 /\ stage' = [stage EXCEPT ![c] = "snapshot"] /\ work' = work
              \/ /\ m.kind = "leave" /\ members' = members \ {c} /\ stage' = stage /\ work' = work
              \/ /\ m.kind = "update" /\ members' = members /\ c \in members
                 /\ stage' = [stage EXCEPT ![c] = "add"] /\ work' = [work EXCEPT ![c] = m]
              \/ /\ m.kind = "update" /\ members' = members /\ c \notin members
                 /\ stage' = stage /\ work' = work
           /\ UNCHANGED <<client, channel, wire, elements, todo, history>>
    BY <1>1, ReadFacts
  <2> QED
    BY <2>1 DEF Typing
<1>2. CASE ReadElements(c)
  <2>1. Message("room_state", [NoChanges EXCEPT !.added = elements]) \in Messages
    BY MessageFacts DEF Typing
  <2> QED
    BY <1>2, <2>1 DEF ReadElements, Typing
<1>3. CASE SendRoomState(c)
  <2>1. channel[c] = <<>> /\ SendTo(c, work[c])
    BY <1>3 DEF SendRoomState, Careful
  <2>2. channel' \in [Clients -> {<<>>} \cup Singles]
    BY <1>0, <2>1, SendFacts, MessageFacts DEF Typing
  <2> QED
    BY <1>0, <1>3, <2>2 DEF SendRoomState, Typing
<1>4. CASE AddElements(c)
  <2>1. Overlay(elements, work[c].changes.added) \in Tables
    BY <1>0, OverlayAt DEF Typing
  <2> QED
    BY <1>4, <2>1 DEF AddElements, Typing
<1>5. CASE UpdateElements(c)
  <2>1. Overlay(elements, work[c].changes.updated) \in Tables
    BY <1>0, OverlayAt DEF Typing
  <2> QED
    BY <1>5, <2>1 DEF UpdateElements, Typing
<1>6. CASE DeleteElements(c)
  <2>1. Erase(elements, work[c].changes.deleted) \in Tables
    BY <1>0, EraseAt DEF Typing
  <2>2. Recipients(c) \subseteq Clients
    BY DEF Recipients
  <2> QED
    BY <1>6, <2>1, <2>2 DEF DeleteElements, Typing
<1>7. ASSUME NEW d \in Clients, BroadcastVisits(c, d)
      PROVE  Typing'
  <2>1. channel[d] = <<>> /\ (SendTo(d, work[c]) \/ channel' = channel)
    BY <1>7 DEF BroadcastVisits, Careful
  <2>2. channel' \in [Clients -> {<<>>} \cup Singles]
    <3>1. channel' = channel \/ channel' = [channel EXCEPT ![d] = <<work[c]>>]
      BY <1>0, <2>1, SendFacts
    <3>2. <<work[c]>> \in Singles
      BY <1>0, MessageFacts
    <3> QED
      BY <3>1, <3>2 DEF Typing
  <2> QED
    BY <1>7, <2>2 DEF BroadcastVisits, Typing
<1>8. CASE BroadcastEnds(c)
  BY <1>0, <1>8 DEF BroadcastEnds, Typing
<1>9. CASE WritePump(c)
  <2>1. PICK m \in Messages :
           /\ channel' = [channel EXCEPT ![c] = <<>>]
           /\ wire' = [wire EXCEPT ![c] = IF session[c] = "out" THEN wire[c] ELSE Append(wire[c], <<m>>)]
           /\ Append(wire[c], <<m>>) \in Seq(Singles)
           /\ UNCHANGED <<client, up, elements, members, handler, history>>
    BY <1>9, WritePumpFacts
  <2> QED
    BY <2>1 DEF Typing
<1> QED
  BY <1>1, <1>2, <1>3, <1>4, <1>5, <1>6, <1>7, <1>8, <1>9 DEF ReadPump

\* Every step keeps types.
LEMMA TypingStep ==
  ASSUME Careful, Typing, [Next]_svars
  PROVE  Typing'
<1>1. CASE Next
  BY <1>1, TypingClient, TypingServer DEF Next
<1>2. CASE UNCHANGED svars
  BY <1>2 DEF svars, client, handler, history, Typing
<1> QED
  BY <1>1, <1>2

-----------------------------------------------------------------------------
(* Connections: what is on them, and where a join is. *)

\* The drawing that is sent to one who joins; what is on its way to c; one such message.
IsState(m) == m.kind = "room_state"
Down(c) == Rng(channel[c]) \cup Rng(Frames(wire[c]))
OneState(s) == \A i, j \in 1 .. Len(s) : IsState(s[i]) /\ IsState(s[j]) => i = j

\* A client that is in the room is one of its members and has not left; one that is
\* joining is waiting for one drawing, behind which everything else comes.
Pipe(c) ==
  /\ \A m \in Down(c) : m.kind \in {"update", "room_state"}
  /\ \A m \in Rng(up[c]) : m.kind \in {"join", "leave", "update"} /\ (m.kind # "update" => m.changes = NoChanges)
  /\ c \notin todo[c]
  /\ stage[c] \in {"idle", "snapshot"} => work[c] = Message("update", NoChanges)
  /\ stage[c] \in Updating => work[c].kind = "update"
  /\ stage[c] = "reply" => work[c].kind = "room_state"
  /\ session[c] = "in" => c \in members /\ \A m \in Rng(up[c]) : m.kind = "update"
  /\ session[c] # "joining" =>
       /\ stage[c] \notin {"snapshot", "reply"}
       /\ \A m \in Down(c) : ~IsState(m)
       /\ \A m \in Rng(up[c]) : m.kind # "join"
  /\ session[c] = "joining" =>
       /\ pending[c] = NoChanges
       /\ stage[c] \notin Updating
       /\ \/ /\ up[c] = <<Message("join", NoChanges)>> /\ stage[c] = "idle"
             /\ \A m \in Down(c) : ~IsState(m)
          \/ up[c] = <<>> /\ c \in members
       /\ stage[c] # "idle" => \A m \in Down(c) : ~IsState(m)
       /\ (\E m \in Rng(channel[c]) : IsState(m)) => \A m \in Rng(Frames(wire[c])) : ~IsState(m)
       /\ OneState(Frames(wire[c]))

Pipes == \A c \in Clients : Pipe(c)

\* Nothing comes down a connection that is new.
LEMMA EmptyDown ==
  /\ Rng(<<>>) = {} /\ Frames(<<>>) = <<>> /\ Rng(Frames(<<>>)) = {} /\ OneState(<<>>)
<1>1. <<>> \in Seq(Singles) /\ Len(<<>>) = 0
  OBVIOUS
<1>2. Frames(<<>>) \in Seq(Messages) /\ Len(Frames(<<>>)) = 0
  BY <1>1, FramesFacts
<1>3. Frames(<<>>) = <<>>
  BY <1>2
<1>4. OneState(<<>>)
  BY <1>1 DEF OneState
<1> QED
  BY <1>3, <1>4, EmptyRng

-----------------------------------------------------------------------------
(* What each action does, connection by connection. *)

\* What belongs to a client and the goroutine that reads its messages.
Still(x) ==
  /\ scene'[x] = scene[x] /\ cache'[x] = cache[x] /\ pending'[x] = pending[x]
  /\ session'[x] = session[x] /\ up'[x] = up[x] /\ wire'[x] = wire[x]
  /\ stage'[x] = stage[x] /\ work'[x] = work[x] /\ todo'[x] = todo[x]
  /\ (x \in members' <=> x \in members)

\* A step of client c, or of its goroutines.
Act(c) ==
  \/ \E e \in Elems : Edit(c, e)
  \/ JoinRoom(c) \/ LeaveRoom(c) \/ HandleChange(c) \/ FlushChanges(c) \/ Receive(c)
  \/ ReadPump(c) \/ WritePump(c)

\* A step of c leaves the others alone, except that broadcasts fill channels.
LEMMA Alone ==
  ASSUME Careful, Typing, NEW c \in Clients, Act(c)
  PROVE  \A x \in Clients : x # c => Still(x) /\ (channel'[x] = channel[x] \/ BroadcastVisits(c, x))
<1> USE DEF handler, history, client
<1> SUFFICES ASSUME NEW x \in Clients, x # c
             PROVE  Still(x) /\ (channel'[x] = channel[x] \/ BroadcastVisits(c, x))
  OBVIOUS
<1>a. ASSUME NEW e \in Elems, Edit(c, e)
      PROVE  Still(x) /\ channel'[x] = channel[x]
  BY <1>a, EditFacts DEF Still, Typing
<1>1. CASE JoinRoom(c)
  BY <1>1 DEF JoinRoom, Still, Typing
<1>2. CASE LeaveRoom(c)
  BY <1>2 DEF LeaveRoom, Still, Typing
<1>3. CASE HandleChange(c)
  <2>1. /\ cache' = [cache EXCEPT ![c] = Overlay(cache[c], scene[c])]
        /\ pending' = pending \/ pending' = [pending EXCEPT ![c] = Accumulated(pending[c], Delta(c))]
        /\ UNCHANGED <<scene, session, up, channel, wire, elements, members, handler, history>>
    BY <1>3, ChangeSteps
  <2> QED
    BY <2>1 DEF Still, Typing
<1>4. CASE FlushChanges(c)
  BY <1>4 DEF FlushChanges, Still, Typing
<1>5. CASE Receive(c)
  <2>1. /\ wire' = [wire EXCEPT ![c] = Tail(wire[c])]
        /\ UNCHANGED <<pending, up, channel, elements, members, handler, history>>
    BY <1>5 DEF Receive
  <2>2. PICK m \in Messages :
           \/ m.kind = "room_state" /\ LoadRoomState(c, m.changes.added)
           \/ m.kind = "update" /\ ApplyRemote(c, m.changes)
    BY <1>5, ReceiveFacts
  <2>3. scene'[x] = scene[x] /\ cache'[x] = cache[x] /\ session'[x] = session[x]
    BY <2>2 DEF LoadRoomState, ApplyRemote, Typing
  <2> QED
    BY <2>1, <2>3 DEF Still, Typing
<1>6. CASE ReadMessage(c)
  <2>1. PICK m \in Messages :
           /\ up' = [up EXCEPT ![c] = Tail(up[c])]
           /\ \/ /\ m.kind = "join" /\ members' = members \cup {c}
                 /\ stage' = [stage EXCEPT ![c] = "snapshot"] /\ work' = work
              \/ /\ m.kind = "leave" /\ members' = members \ {c} /\ stage' = stage /\ work' = work
              \/ /\ m.kind = "update" /\ members' = members /\ c \in members
                 /\ stage' = [stage EXCEPT ![c] = "add"] /\ work' = [work EXCEPT ![c] = m]
              \/ /\ m.kind = "update" /\ members' = members /\ c \notin members
                 /\ stage' = stage /\ work' = work
           /\ UNCHANGED <<client, channel, wire, elements, todo, history>>
    BY <1>6, ReadFacts
  <2> QED
    BY <2>1 DEF Still, Typing
<1>7. CASE ReadElements(c)
  BY <1>7 DEF ReadElements, Still, Typing
<1>8. CASE SendRoomState(c)
  <2>1. channel'[x] = channel[x]
    BY <1>8 DEF SendRoomState, SendTo, Typing
  <2> QED
    BY <1>8, <2>1 DEF SendRoomState, Still, Typing
<1>9. CASE AddElements(c)
  BY <1>9 DEF AddElements, Still, Typing
<1>10. CASE UpdateElements(c)
  BY <1>10 DEF UpdateElements, Still, Typing
<1>11. CASE DeleteElements(c)
  BY <1>11 DEF DeleteElements, Still, Typing
<1>12. ASSUME NEW d \in Clients, BroadcastVisits(c, d)
       PROVE  Still(x) /\ (channel'[x] = channel[x] \/ BroadcastVisits(c, x))
  <2>1. x # d => channel'[x] = channel[x]
    BY <1>12 DEF BroadcastVisits, SendTo, Typing
  <2> QED
    BY <1>12, <2>1 DEF BroadcastVisits, Still, Typing
<1>13. CASE BroadcastEnds(c)
  BY <1>13 DEF BroadcastEnds, Still, Typing
<1>14. CASE WritePump(c)
  BY <1>14 DEF WritePump, Still, Typing
<1> QED
  BY <1>a, <1>1, <1>2, <1>3, <1>4, <1>5, <1>6, <1>7, <1>8, <1>9, <1>10, <1>11, <1>12, <1>13, <1>14
     DEF Act, ReadPump

\* What becomes of c itself.
LEMMA JoinEffect ==
  ASSUME Careful, Typing, NEW c \in Clients, JoinRoom(c)
  PROVE  /\ session[c] = "out" /\ session'[c] = "joining"
         /\ pending[c] = NoChanges /\ stage[c] = "idle"
         /\ up'[c] = <<Message("join", NoChanges)>> /\ channel'[c] = <<>> /\ wire'[c] = <<>>
         /\ UNCHANGED <<scene, cache, pending, elements, members, handler, history>>
         /\ Quiet
         /\ \/ Drawn(elements) # Blank
            \/ \A e \in Elems : scene[c][e] = Absent \/ c \in Editors[e]
<1>1. Quiet
  BY DEF JoinRoom, Careful
<1>2. pending[c] = NoChanges /\ stage[c] = "idle"
  BY <1>1 DEF Quiet, NoTraffic
<1> QED
  BY <1>1, <1>2 DEF JoinRoom, Careful, Typing

\* leaveRoom closes the socket after leave_room is sent.
LEMMA LeaveEffect ==
  ASSUME Careful, Typing, NEW c \in Clients, LeaveRoom(c)
  PROVE  /\ session[c] = "in" /\ session'[c] = "out" /\ wire'[c] = <<>>
         /\ up'[c] = Append(up[c], Message("leave", NoChanges))
         /\ Message("leave", NoChanges) \in Messages
         /\ UNCHANGED <<scene, cache, pending, channel, elements, members, handler, history>>
<1>1. Message("leave", NoChanges) \in Messages
  BY MessageFacts, NoChangesFacts
<1> QED
  BY <1>1 DEF LeaveRoom, Typing

\* An onChange: the cache takes over the scene, and the difference is noted.
LEMMA ChangeEffect ==
  ASSUME Careful, Typing, NEW c \in Clients, HandleChange(c)
  PROVE  /\ session[c] \in {"out", "in"}
         /\ \A e \in Elems : cache'[c][e] = IF scene[c][e] # Absent THEN scene[c][e] ELSE cache[c][e]
         /\ \/ session[c] = "out" /\ pending' = pending
            \/ /\ session[c] = "in" /\ Delta(c) \in Changes
               /\ Accumulated(pending[c], Delta(c)) \in Changes
               /\ pending'[c] = Accumulated(pending[c], Delta(c))
         /\ UNCHANGED <<scene, session, up, channel, wire, elements, members, handler, history>>
<1>1. scene[c] \in Tables /\ cache[c] \in Tables /\ pending[c] \in Changes
  BY DEF Typing
<1>2. \A e \in Elems : Overlay(cache[c], scene[c])[e] = IF scene[c][e] # Absent THEN scene[c][e] ELSE cache[c][e]
  BY <1>1, OverlayAt
<1>3. /\ session[c] # "joining"
      /\ cache' = [cache EXCEPT ![c] = Overlay(cache[c], scene[c])]
      /\ \/ session[c] = "out" /\ pending' = pending
         \/ /\ session[c] = "in" /\ Delta(c) \in Changes
            /\ pending' = [pending EXCEPT ![c] = Accumulated(pending[c], Delta(c))]
      /\ UNCHANGED <<scene, session, up, channel, wire, elements, members, handler, history>>
  BY ChangeSteps
<1>4. cache'[c] = Overlay(cache[c], scene[c])
  BY <1>3 DEF Typing
<1>5. \/ session[c] = "out" /\ pending' = pending
      \/ /\ session[c] = "in" /\ Delta(c) \in Changes
         /\ pending'[c] = Accumulated(pending[c], Delta(c))
  BY <1>3 DEF Typing
<1>6. Delta(c) \in Changes => Accumulated(pending[c], Delta(c)) \in Changes
  BY <1>1, AccumulatedAt
<1> QED
  BY <1>2, <1>3, <1>4, <1>5, <1>6

\* What was noted is sent, or forgotten by one who is out.
LEMMA FlushEffect ==
  ASSUME Careful, Typing, NEW c \in Clients, FlushChanges(c)
  PROVE  /\ pending[c] # NoChanges /\ pending'[c] = NoChanges
         /\ Message("update", pending[c]) \in Messages
         /\ Message("update", pending[c]).kind = "update" /\ Message("update", pending[c]).changes = pending[c]
         /\ \/ session[c] = "out" /\ up'[c] = up[c]
            \/ session[c] # "out" /\ up'[c] = Append(up[c], Message("update", pending[c]))
         /\ UNCHANGED <<scene, cache, session, channel, wire, elements, members, handler, history>>
<1>1. pending[c] \in Changes
  BY DEF Typing
<1>2. /\ Message("update", pending[c]) \in Messages
      /\ Message("update", pending[c]).kind = "update" /\ Message("update", pending[c]).changes = pending[c]
  BY <1>1, MessageFacts
<1> QED
  BY <1>2 DEF FlushChanges, Typing

\* A drawing is opened, or changes are applied to what is drawn.
LEMMA ReceiveEffect ==
  ASSUME Careful, Typing, NEW c \in Clients, Receive(c)
  PROVE  \E m \in Messages :
           /\ Frames(wire[c]) \in Seq(Messages) /\ Frames(wire[c]) # <<>>
           /\ m = Head(Frames(wire[c])) /\ m \in Down(c)
           /\ Frames(wire'[c]) = Tail(Frames(wire[c]))
           /\ \/ /\ IsState(m) /\ session'[c] = "in" /\ m.changes.added \in Tables
                 /\ cache'[c] = m.changes.added
                 /\ scene'[c] = IF m.changes.added = Blank THEN scene[c] ELSE m.changes.added
              \/ /\ ~IsState(m) /\ session' = session
                 /\ \A e \in Elems :
                      /\ scene'[c][e] = IF Mentions(m.changes, e) THEN Outcome(m.changes, e) ELSE Shown(scene[c][e])
                      /\ cache'[c][e] = IF Mentions(m.changes, e) THEN Outcome(m.changes, e) ELSE cache[c][e]
           /\ UNCHANGED <<pending, up, channel, elements, members, handler, history>>
<1>1. PICK m \in Messages :
           /\ wire[c] # <<>> /\ m = Head(Frames(wire[c])) /\ m \in Rng(Frames(wire[c]))
           /\ wire' = [wire EXCEPT ![c] = Tail(wire[c])]
           /\ Frames(Tail(wire[c])) = Tail(Frames(wire[c]))
           /\ \/ m.kind = "room_state" /\ LoadRoomState(c, m.changes.added)
              \/ m.kind = "update" /\ ApplyRemote(c, m.changes)
           /\ UNCHANGED <<pending, up, channel, elements, members, handler, history>>
  BY ReceiveFacts
<1>2. wire[c] \in Seq(Singles)
  BY DEF Typing
<1>3. Frames(wire[c]) \in Seq(Messages) /\ Frames(wire[c]) # <<>>
  BY <1>1, <1>2, FramesFacts, FramesTail
<1>4. Frames(wire'[c]) = Tail(Frames(wire[c])) /\ m \in Down(c)
  BY <1>1 DEF Typing, Down
<1>5. m.changes \in Changes /\ m.changes.added \in Tables
  BY DEF Messages, Changes
<1>6. CASE m.kind = "room_state" /\ LoadRoomState(c, m.changes.added)
  <2>1. /\ IsState(m) /\ session'[c] = "in" /\ cache'[c] = m.changes.added
        /\ scene'[c] = IF m.changes.added = Blank THEN scene[c] ELSE m.changes.added
    BY <1>6 DEF LoadRoomState, IsState, Typing
  <2> QED
    BY <1>1, <1>3, <1>4, <1>5, <2>1
<1>7. CASE m.kind = "update" /\ ApplyRemote(c, m.changes)
  <2>1. /\ \A e \in Elems :
              /\ scene'[c][e] = IF Mentions(m.changes, e) THEN Outcome(m.changes, e) ELSE Shown(scene[c][e])
              /\ cache'[c][e] = IF Mentions(m.changes, e) THEN Outcome(m.changes, e) ELSE cache[c][e]
        /\ session' = session
    BY <1>5, <1>7, RemoteAt
  <2>2. ~IsState(m)
    BY <1>7 DEF IsState
  <2> QED
    BY <1>1, <1>3, <1>4, <1>5, <2>1, <2>2
<1> QED
  BY <1>1, <1>6, <1>7

\* The handler takes the first message.
LEMMA ReadEffect ==
  ASSUME Careful, Typing, NEW c \in Clients, ReadMessage(c)
  PROVE  \E m \in Messages :
           /\ stage[c] = "idle" /\ up[c] \in Seq(Messages) /\ up[c] # <<>>
           /\ m = Head(up[c]) /\ m \in Rng(up[c])
           /\ up'[c] = Tail(up[c]) /\ Rng(up'[c]) \subseteq Rng(up[c])
           /\ \/ /\ m.kind = "join" /\ c \in members'
                 /\ stage'[c] = "snapshot" /\ work'[c] = work[c]
              \/ /\ m.kind = "leave" /\ stage'[c] = stage[c] /\ work'[c] = work[c]
              \/ /\ m.kind = "update" /\ members' = members /\ c \in members
                 /\ stage'[c] = "add" /\ work'[c] = m
              \/ /\ m.kind = "update" /\ members' = members /\ c \notin members
                 /\ stage'[c] = stage[c] /\ work'[c] = work[c]
           /\ UNCHANGED <<client, channel, wire, elements, todo, history>>
<1>1. PICK m \in Messages :
           /\ stage[c] = "idle" /\ up[c] # <<>> /\ m = Head(up[c]) /\ m \in Rng(up[c])
           /\ up' = [up EXCEPT ![c] = Tail(up[c])] /\ Tail(up[c]) \in Seq(Messages)
           /\ \/ /\ m.kind = "join" /\ members' = members \cup {c}
                 /\ stage' = [stage EXCEPT ![c] = "snapshot"] /\ work' = work
              \/ /\ m.kind = "leave" /\ members' = members \ {c} /\ stage' = stage /\ work' = work
              \/ /\ m.kind = "update" /\ members' = members /\ c \in members
                 /\ stage' = [stage EXCEPT ![c] = "add"] /\ work' = [work EXCEPT ![c] = m]
              \/ /\ m.kind = "update" /\ members' = members /\ c \notin members
                 /\ stage' = stage /\ work' = work
           /\ UNCHANGED <<client, channel, wire, elements, todo, history>>
  BY ReadFacts
<1>2. up[c] \in Seq(Messages) /\ up'[c] = Tail(up[c])
  BY <1>1 DEF Typing
<1>3. Rng(up'[c]) \subseteq Rng(up[c])
  BY <1>1, <1>2, RngFacts
<1>4. \/ /\ m.kind = "join" /\ c \in members'
         /\ stage'[c] = "snapshot" /\ work'[c] = work[c]
      \/ /\ m.kind = "leave" /\ stage'[c] = stage[c] /\ work'[c] = work[c]
      \/ /\ m.kind = "update" /\ members' = members /\ c \in members
         /\ stage'[c] = "add" /\ work'[c] = m
      \/ /\ m.kind = "update" /\ members' = members /\ c \notin members
         /\ stage'[c] = stage[c] /\ work'[c] = work[c]
  BY <1>1 DEF Typing
<1> QED
  BY <1>1, <1>2, <1>3, <1>4

\* It copies the drawing for one who joins.
LEMMA ReadElementsEffect ==
  ASSUME Careful, Typing, NEW c \in Clients, ReadElements(c)
  PROVE  /\ stage[c] = "snapshot" /\ stage'[c] = "reply"
         /\ work'[c] \in Messages /\ work'[c].kind = "room_state"
         /\ work'[c].changes.added = elements
         /\ work'[c].changes.updated = Blank /\ work'[c].changes.deleted = {}
         /\ UNCHANGED <<client, up, channel, wire, elements, members, todo, history>>
<1> DEFINE ch == [NoChanges EXCEPT !.added = elements]
<1>1. elements \in Tables
  BY DEF Typing
<1>2. ch \in Changes /\ ch.added = elements /\ ch.updated = Blank /\ ch.deleted = {}
  BY <1>1, MessageFacts
<1>3. /\ stage[c] = "snapshot" /\ stage'[c] = "reply" /\ work'[c] = Message("room_state", ch)
      /\ UNCHANGED <<client, up, channel, wire, elements, members, todo, history>>
  BY DEF ReadElements, Typing
<1> HIDE DEF ch
<1> QED
  BY <1>2, <1>3, MessageFacts

\* And sends the copy, if the client is still there.
LEMMA SendRoomStateEffect ==
  ASSUME Careful, Typing, NEW c \in Clients, SendRoomState(c)
  PROVE  /\ stage[c] = "reply" /\ stage'[c] = "idle" /\ channel[c] = <<>> /\ work[c] \in Messages
         /\ channel'[c] = IF session[c] # "out" THEN <<work[c]>> ELSE <<>>
         /\ work'[c] = Message("update", NoChanges)
         /\ UNCHANGED <<client, up, wire, elements, members, todo, history>>
<1>1. channel[c] = <<>> /\ SendTo(c, work[c]) /\ work[c] \in Messages
  BY DEF SendRoomState, Careful, Typing
<1>2. channel' = IF session[c] # "out" THEN [channel EXCEPT ![c] = <<work[c]>>] ELSE channel
  BY <1>1, SendFacts
<1>3. channel'[c] = IF session[c] # "out" THEN <<work[c]>> ELSE <<>>
  BY <1>1, <1>2 DEF Typing
<1> QED
  BY <1>1, <1>3 DEF SendRoomState, Typing

\* It applies one of the three lists.
LEMMA StoreEffect ==
  ASSUME Careful, Typing, NEW c \in Clients, AddElements(c) \/ UpdateElements(c) \/ DeleteElements(c)
  PROVE  /\ work[c] \in Messages /\ work'[c] = work[c]
         /\ \/ /\ AddElements(c) /\ stage[c] = "add" /\ stage'[c] = "update"
               /\ \A e \in Elems : elements'[e] = IF work[c].changes.added[e] # Absent
                                                   THEN work[c].changes.added[e] ELSE elements[e]
               /\ todo' = todo
            \/ /\ UpdateElements(c) /\ stage[c] = "update" /\ stage'[c] = "delete"
               /\ \A e \in Elems : elements'[e] = IF work[c].changes.updated[e] # Absent
                                                   THEN work[c].changes.updated[e] ELSE elements[e]
               /\ todo' = todo
            \/ /\ DeleteElements(c) /\ stage[c] = "delete" /\ stage'[c] = "broadcast"
               /\ \A e \in Elems : elements'[e] = IF e \in work[c].changes.deleted THEN Absent ELSE elements[e]
               /\ todo'[c] = Clients \ {c}
         /\ UNCHANGED <<client, up, channel, wire, members, work, history>>
<1>1. /\ work[c] \in Messages /\ elements \in Tables
      /\ work[c].changes.added \in Tables /\ work[c].changes.updated \in Tables
  BY DEF Typing, Messages, Changes
<1>2. CASE AddElements(c)
  <2>1. \A e \in Elems : elements'[e] = IF work[c].changes.added[e] # Absent
                                           THEN work[c].changes.added[e] ELSE elements[e]
    BY <1>1, <1>2, OverlayAt DEF AddElements
  <2> QED
    BY <1>1, <1>2, <2>1 DEF AddElements, Typing
<1>3. CASE UpdateElements(c)
  <2>1. \A e \in Elems : elements'[e] = IF work[c].changes.updated[e] # Absent
                                           THEN work[c].changes.updated[e] ELSE elements[e]
    BY <1>1, <1>3, OverlayAt DEF UpdateElements
  <2> QED
    BY <1>1, <1>3, <2>1 DEF UpdateElements, Typing
<1>4. CASE DeleteElements(c)
  <2>1. \A e \in Elems : elements'[e] = IF e \in work[c].changes.deleted THEN Absent ELSE elements[e]
    BY <1>1, <1>4, EraseAt DEF DeleteElements
  <2> QED
    BY <1>1, <1>4, <2>1 DEF DeleteElements, Recipients, Typing
<1> QED
  BY <1>2, <1>3, <1>4

\* It sends the message to a member.
LEMMA VisitEffect ==
  ASSUME Careful, Typing, NEW c \in Clients, NEW d \in Clients, BroadcastVisits(c, d)
  PROVE  /\ stage[c] = "broadcast" /\ d \in todo[c] /\ todo'[c] = todo[c] \ {d}
         /\ work[c] \in Messages /\ channel[d] = <<>>
         /\ channel'[d] = IF d \in members /\ session[d] # "out" THEN <<work[c]>> ELSE <<>>
         /\ \A x \in Clients : x # d => channel'[x] = channel[x]
         /\ UNCHANGED <<client, up, wire, elements, members, stage, work, history>>
<1>1. channel[d] = <<>> /\ work[c] \in Messages
  BY DEF BroadcastVisits, Careful, Typing
<1>2. \/ d \in members /\ SendTo(d, work[c])
      \/ d \notin members /\ channel' = channel
  BY DEF BroadcastVisits
<1>3. channel' = IF d \in members /\ session[d] # "out" THEN [channel EXCEPT ![d] = <<work[c]>>] ELSE channel
  BY <1>1, <1>2, SendFacts
<1>4. /\ channel'[d] = IF d \in members /\ session[d] # "out" THEN <<work[c]>> ELSE <<>>
      /\ \A x \in Clients : x # d => channel'[x] = channel[x]
  BY <1>1, <1>3 DEF Typing
<1> QED
  BY <1>1, <1>4 DEF BroadcastVisits, Typing

\* It has sent it to all.
LEMMA EndEffect ==
  ASSUME Careful, Typing, NEW c \in Clients, BroadcastEnds(c)
  PROVE  /\ stage[c] = "broadcast" /\ stage'[c] = "idle" /\ todo[c] = {}
         /\ work'[c] = Message("update", NoChanges)
         /\ UNCHANGED <<client, up, channel, wire, elements, members, todo, history>>
BY DEF BroadcastEnds, Typing

\* The message moves from the channel to the wire.
LEMMA PumpEffect ==
  ASSUME Careful, Typing, NEW c \in Clients, WritePump(c)
  PROVE  \E m \in Messages :
           /\ channel[c] = <<m>> /\ channel'[c] = <<>> /\ m \in Down(c)
           /\ Frames(wire[c]) \in Seq(Messages)
           /\ IF session[c] = "out" THEN wire'[c] = wire[c]
                                    ELSE Frames(wire'[c]) = Append(Frames(wire[c]), m)
           /\ Down(c)' \subseteq Down(c)
           /\ UNCHANGED <<client, up, elements, members, handler, history>>
<1>1. PICK m \in Messages :
           /\ channel[c] = <<m>>
           /\ channel' = [channel EXCEPT ![c] = <<>>]
           /\ wire' = [wire EXCEPT ![c] = IF session[c] = "out" THEN wire[c] ELSE Append(wire[c], <<m>>)]
           /\ Append(wire[c], <<m>>) \in Seq(Singles)
           /\ Frames(Append(wire[c], <<m>>)) = Append(Frames(wire[c]), m)
           /\ UNCHANGED <<client, up, elements, members, handler, history>>
  BY WritePumpFacts
<1>2. /\ channel'[c] = <<>>
      /\ IF session[c] = "out" THEN wire'[c] = wire[c]
                               ELSE Frames(wire'[c]) = Append(Frames(wire[c]), m)
  BY <1>1 DEF Typing
<1>3. wire[c] \in Seq(Singles)
  BY DEF Typing
<1>4. Frames(wire[c]) \in Seq(Messages)
  BY <1>3, FramesFacts
<1>5. Rng(channel[c]) = {m} /\ Rng(channel'[c]) = {}
  BY <1>1, <1>2, SingleRng, EmptyRng
<1>6. Rng(Append(Frames(wire[c]), m)) = Rng(Frames(wire[c])) \cup {m}
  BY <1>4, RngFacts
<1> QED
  BY <1>1, <1>2, <1>4, <1>5, <1>6 DEF Down

-----------------------------------------------------------------------------
(* Connections are in order. *)

\* What c does leaves the connections of others in order.
LEMMA PipeOthers ==
  ASSUME Careful, Typing, Pipes, NEW c \in Clients, Act(c), NEW x \in Clients, x # c
  PROVE  Pipe(x)'
<1>1. Still(x) /\ (channel'[x] = channel[x] \/ BroadcastVisits(c, x))
  BY Alone
<1>2. Pipe(x) /\ Pipe(c)
  BY DEF Pipes
<1>3. CASE channel'[x] = channel[x]
  BY <1>1, <1>2, <1>3 DEF Pipe, Down, Still
<1>4. CASE BroadcastVisits(c, x) /\ channel'[x] # channel[x]
  <2>1. /\ stage[c] = "broadcast" /\ channel[x] = <<>>
        /\ channel'[x] = <<work[c]>>
    BY <1>4, VisitEffect
  <2>2. work[c].kind = "update" /\ ~IsState(work[c])
    BY <1>2, <2>1 DEF Pipe, Updating, IsState
  <2>3. Rng(channel'[x]) = {work[c]} /\ Rng(channel[x]) = {}
    BY <2>1, SingleRng, EmptyRng
  <2>4. Down(x)' = Down(x) \cup {work[c]} /\ wire'[x] = wire[x]
    BY <1>1, <2>3 DEF Down, Still
  <2>5. /\ \A m \in Down(x)' : m.kind \in {"update", "room_state"}
        /\ \A m \in Down(x)' : m \in Down(x) \/ ~IsState(m)
        /\ \A m \in Rng(channel'[x]) : ~IsState(m)
    BY <1>2, <2>2, <2>3, <2>4 DEF Pipe
  <2> QED
    BY <1>1, <1>2, <2>4, <2>5 DEF Pipe, Still
<1> QED
  BY <1>1, <1>3, <1>4

\* A client keeps its own connection in order.
LEMMA PipeClient ==
  ASSUME Careful, Typing, Pipes, NEW c \in Clients,
         \/ \E e \in Elems : Edit(c, e)
         \/ JoinRoom(c) \/ LeaveRoom(c) \/ HandleChange(c) \/ FlushChanges(c) \/ Receive(c)
  PROVE  Pipe(c)'
<1> USE DEF handler, history, client
<1>0. Pipe(c) /\ up[c] \in Seq(Messages) /\ pending[c] \in Changes /\ wire[c] \in Seq(Singles)
  BY DEF Pipes, Typing
<1>1. ASSUME NEW e \in Elems, Edit(c, e)
      PROVE  Pipe(c)'
  BY <1>0, <1>1, EditFacts DEF Pipe, Down
<1>2. CASE JoinRoom(c)
  <2>1. /\ session[c] = "out" /\ session'[c] = "joining"
        /\ pending[c] = NoChanges /\ stage[c] = "idle"
        /\ up'[c] = <<Message("join", NoChanges)>> /\ channel'[c] = <<>> /\ wire'[c] = <<>>
        /\ UNCHANGED <<pending, members, handler>>
    BY <1>2, JoinEffect
  <2>2. Rng(up'[c]) = {Message("join", NoChanges)}
    BY <2>1, SingleRng
  <2>3. Message("join", NoChanges).kind = "join" /\ Message("join", NoChanges).changes = NoChanges
    BY MessageFacts, NoChangesFacts
  <2>4. Down(c)' = {} /\ OneState(Frames(wire'[c])) /\ Rng(channel'[c]) = {}
    BY <2>1, EmptyDown DEF Down
  <2> QED
    BY <1>0, <2>1, <2>2, <2>3, <2>4 DEF Pipe, Updating
<1>3. CASE LeaveRoom(c)
  <2>1. /\ session[c] = "in" /\ session'[c] = "out" /\ wire'[c] = <<>>
        /\ up'[c] = Append(up[c], Message("leave", NoChanges))
        /\ Message("leave", NoChanges) \in Messages
        /\ UNCHANGED <<pending, channel, members, handler>>
    BY <1>3, LeaveEffect
  <2>2. Message("leave", NoChanges).kind = "leave" /\ Message("leave", NoChanges).changes = NoChanges
    BY MessageFacts, NoChangesFacts
  <2>4. Rng(up'[c]) = Rng(up[c]) \cup {Message("leave", NoChanges)}
    BY <1>0, <2>1, RngFacts
  <2>5. Down(c)' \subseteq Down(c)
    BY <2>1, EmptyDown DEF Down
  <2> QED
    BY <1>0, <2>1, <2>2, <2>4, <2>5 DEF Pipe, Updating
<1>4. CASE HandleChange(c)
  <2>1. /\ session[c] \in {"out", "in"}
        /\ UNCHANGED <<session, up, channel, wire, members, handler>>
    BY <1>4, ChangeEffect
  <2> QED
    BY <1>0, <2>1 DEF Pipe, Down
<1>5. CASE FlushChanges(c)
  <2>1. /\ pending[c] # NoChanges
        /\ Message("update", pending[c]) \in Messages
        /\ Message("update", pending[c]).kind = "update"
        /\ \/ session[c] = "out" /\ up'[c] = up[c]
           \/ session[c] # "out" /\ up'[c] = Append(up[c], Message("update", pending[c]))
        /\ UNCHANGED <<session, channel, wire, members, handler>>
    BY <1>5, FlushEffect
  <2>2. session[c] # "joining"
    BY <1>0, <2>1 DEF Pipe
  <2>3. Rng(Append(up[c], Message("update", pending[c]))) = Rng(up[c]) \cup {Message("update", pending[c])}
    BY <1>0, <2>1, RngFacts
  <2>4. \/ up'[c] = up[c]
        \/ Rng(up'[c]) = Rng(up[c]) \cup {Message("update", pending[c])} /\ session[c] # "out"
    BY <2>1, <2>3
  <2> QED
    BY <1>0, <2>1, <2>2, <2>4 DEF Pipe, Down
<1>6. CASE Receive(c)
  <2> DEFINE s == Frames(wire[c])
  <2>1. PICK m \in Messages :
           /\ s \in Seq(Messages) /\ s # <<>> /\ m = Head(s) /\ m \in Down(c)
           /\ Frames(wire'[c]) = Tail(s)
           /\ \/ IsState(m) /\ session'[c] = "in"
              \/ ~IsState(m) /\ session' = session
           /\ UNCHANGED <<pending, up, channel, members, handler>>
    BY <1>6, ReceiveEffect
  <2>2. Rng(Tail(s)) \subseteq Rng(s) /\ m \in Rng(s)
    BY <2>1, RngFacts
  <2>3. /\ Len(s) \in Nat /\ s[1] = m /\ 1 \in 1 .. Len(s) /\ Len(Tail(s)) = Len(s) - 1
        /\ \A i \in 1 .. Len(Tail(s)) : Tail(s)[i] = s[i + 1] /\ i + 1 \in 1 .. Len(s)
    BY <2>1, TailFacts
  <2>4. OneState(s) => OneState(Tail(s)) /\ (IsState(m) => \A n \in Rng(Tail(s)) : ~IsState(n))
    <3>1. OneState(s) => OneState(Tail(s))
      BY <2>3 DEF OneState
    <3>2. ASSUME OneState(s), IsState(m), NEW i \in 1 .. Len(Tail(s)), IsState(Tail(s)[i])
          PROVE  FALSE
      <4>1. IsState(s[i + 1]) /\ IsState(s[1]) /\ i + 1 \in 1 .. Len(s)
        BY <2>3, <3>2
      <4>2. i + 1 = 1
        BY <2>3, <3>2, <4>1 DEF OneState
      <4> QED
        BY <4>2
    <3> QED
      BY <3>1, <3>2 DEF Rng
  <2>5. Down(c)' = Rng(channel[c]) \cup Rng(Tail(s)) /\ Down(c)' \subseteq Down(c)
    BY <2>1, <2>2 DEF Down
  <2> HIDE DEF s
  <2>6. CASE IsState(m) /\ session'[c] = "in"
    <3>1. session[c] = "joining"
      BY <1>0, <2>1, <2>6 DEF Pipe, Typing
    <3>2. up[c] = <<>> /\ c \in members /\ stage[c] = "idle"
      BY <1>0, <2>1, <2>6, <3>1 DEF Pipe, Typing
    <3>3. \A n \in Rng(channel[c]) : ~IsState(n)
      BY <1>0, <2>1, <2>2, <2>6, <3>1 DEF Pipe, s
    <3>4. OneState(s)
      BY <1>0, <3>1 DEF Pipe, s
    <3>5. \A n \in Down(c)' : ~IsState(n)
      BY <2>4, <2>5, <2>6, <3>3, <3>4
    <3>6. Rng(up'[c]) = {} /\ Rng(up[c]) = {}
      BY <2>1, <3>2, EmptyRng
    <3> QED
      BY <1>0, <2>1, <2>5, <2>6, <3>1, <3>2, <3>5, <3>6 DEF Pipe, Updating
  <2>7. CASE ~IsState(m) /\ session' = session
    <3>1. session[c] = "joining" => OneState(Frames(wire'[c]))
      BY <1>0, <2>1, <2>4 DEF Pipe, s
    <3>2. Rng(Frames(wire'[c])) \subseteq Rng(Frames(wire[c]))
      BY <2>1, <2>2 DEF s
    <3> QED
      BY <1>0, <2>1, <2>5, <2>7, <3>1, <3>2 DEF Pipe
  <2> QED
    BY <2>1, <2>6, <2>7
<1> QED
  BY <1>1, <1>2, <1>3, <1>4, <1>5, <1>6

\* So do its goroutines.
LEMMA PipeServer ==
  ASSUME Careful, Typing, Pipes, NEW c \in Clients, ReadPump(c) \/ WritePump(c)
  PROVE  Pipe(c)'
<1> USE DEF handler, history, client
<1>0. Pipe(c) /\ up[c] \in Seq(Messages) /\ todo[c] \subseteq Clients
  BY DEF Pipes, Typing
<1>1. CASE ReadMessage(c)
  <2>1. PICK m \in Messages :
           /\ stage[c] = "idle" /\ up[c] # <<>> /\ m = Head(up[c]) /\ m \in Rng(up[c])
           /\ up'[c] = Tail(up[c]) /\ Rng(up'[c]) \subseteq Rng(up[c])
           /\ \/ /\ m.kind = "join" /\ c \in members'
                 /\ stage'[c] = "snapshot" /\ work'[c] = work[c]
              \/ /\ m.kind = "leave" /\ stage'[c] = stage[c] /\ work'[c] = work[c]
              \/ /\ m.kind = "update" /\ members' = members /\ c \in members
                 /\ stage'[c] = "add" /\ work'[c] = m
              \/ /\ m.kind = "update" /\ members' = members /\ c \notin members
                 /\ stage'[c] = stage[c] /\ work'[c] = work[c]
           /\ UNCHANGED <<client, channel, wire, todo>>
    BY <1>1, ReadEffect
  <2>2. Down(c)' = Down(c) /\ session'[c] = session[c] /\ pending'[c] = pending[c]
    BY <2>1 DEF Down
  <2>3. session[c] = "joining" => m.kind = "join" /\ up'[c] = <<>> /\ \A n \in Down(c) : ~IsState(n)
    <3>1. ASSUME session[c] = "joining"
          PROVE  up[c] = <<Message("join", NoChanges)>> /\ \A n \in Down(c) : ~IsState(n)
      <4>1. \/ /\ up[c] = <<Message("join", NoChanges)>>
               /\ \A n \in Down(c) : ~IsState(n)
            \/ up[c] = <<>>
        BY <1>0, <3>1 DEF Pipe
      <4> QED
        BY <2>1, <4>1
    <3>2. Message("join", NoChanges).kind = "join"
      BY MessageFacts, NoChangesFacts
    <3>3. ASSUME session[c] = "joining"
          PROVE  m = Message("join", NoChanges) /\ up'[c] = <<>>
      <4>1. \A x : Head(<<x>>) = x /\ Tail(<<x>>) = <<>>
        OBVIOUS
      <4> QED
        BY <2>1, <3>1, <3>3, <4>1
    <3> QED
      BY <3>1, <3>2, <3>3
  <2>4. session[c] = "in" => m.kind = "update"
    BY <1>0, <2>1 DEF Pipe
  <2>5. session[c] # "joining" => m.kind # "join"
    BY <1>0, <2>1 DEF Pipe
  <2>6. /\ m.kind = "update" => stage'[c] \in {"idle", "add"}
        /\ stage[c] = "idle" /\ todo'[c] = todo[c]
    BY <2>1
  <2>7. CASE session[c] = "joining"
    <3>1. /\ stage'[c] = "snapshot" /\ work'[c] = work[c] /\ c \in members' /\ Rng(up'[c]) = {}
      BY <2>1, <2>3, <2>7, EmptyRng
    <3>2. wire'[c] = wire[c] /\ channel'[c] = channel[c]
      BY <2>1
    <3> QED
      BY <1>0, <2>2, <2>3, <2>6, <2>7, <3>1, <3>2 DEF Pipe, Updating
  <2>8. CASE session[c] # "joining"
    <3>1. \/ m.kind = "leave" /\ stage'[c] = "idle" /\ work'[c] = work[c]
          \/ /\ m.kind = "update" /\ members' = members
             /\ \/ stage'[c] = "add" /\ work'[c] = m
                \/ stage'[c] = "idle" /\ work'[c] = work[c]
      BY <2>1, <2>5, <2>8
    <3> QED
      BY <1>0, <2>1, <2>2, <2>4, <2>6, <2>8, <3>1 DEF Pipe, Updating
  <2> QED
    BY <2>7, <2>8
<1>2. CASE ReadElements(c)
  <2>1. /\ stage[c] = "snapshot" /\ stage'[c] = "reply"
        /\ work'[c].kind = "room_state"
        /\ UNCHANGED <<client, up, channel, wire, members, todo>>
    BY <1>2, ReadElementsEffect
  <2>2. session[c] = "joining"
    BY <1>0, <2>1 DEF Pipe
  <2> QED
    BY <1>0, <2>1, <2>2 DEF Pipe, Down, Updating
<1>3. CASE SendRoomState(c)
  <2>1. /\ stage[c] = "reply" /\ stage'[c] = "idle" /\ channel[c] = <<>> /\ work[c] \in Messages
        /\ channel'[c] = IF session[c] # "out" THEN <<work[c]>> ELSE <<>>
        /\ work'[c] = Message("update", NoChanges)
        /\ UNCHANGED <<client, up, wire, members, todo>>
    BY <1>3, SendRoomStateEffect
  <2>2. session[c] = "joining" /\ work[c].kind = "room_state"
    BY <1>0, <2>1 DEF Pipe
  <2>3. Rng(channel'[c]) = {work[c]} /\ Rng(channel[c]) = {}
    BY <2>1, <2>2, SingleRng, EmptyRng
  <2>4. Down(c)' = {work[c]} \cup Rng(Frames(wire[c])) /\ wire'[c] = wire[c]
    BY <2>1, <2>3 DEF Down
  <2>5. \A m \in Rng(Frames(wire[c])) : ~IsState(m)
    BY <1>0, <2>1, <2>2 DEF Pipe, Down
  <2>6. \/ /\ up[c] = <<Message("join", NoChanges)>> /\ stage[c] = "idle"
        \/ up[c] = <<>> /\ c \in members
    BY <1>0, <2>2 DEF Pipe
  <2>7. \A m \in Down(c)' : m.kind \in {"update", "room_state"}
    BY <1>0, <2>2, <2>4 DEF Pipe, Down
  <2> QED
    BY <1>0, <2>1, <2>2, <2>3, <2>4, <2>5, <2>6, <2>7 DEF Pipe, Updating
<1>4. CASE AddElements(c) \/ UpdateElements(c) \/ DeleteElements(c)
  <2>1. /\ work'[c] = work[c] /\ stage[c] \in {"add", "update", "delete"}
        /\ stage'[c] \in {"update", "delete", "broadcast"}
        /\ todo'[c] = todo[c] \/ todo'[c] = Clients \ {c}
        /\ UNCHANGED <<client, up, channel, wire, members, work>>
    BY <1>4, StoreEffect
  <2> QED
    BY <1>0, <2>1 DEF Pipe, Down, Updating
<1>5. ASSUME NEW d \in Clients, BroadcastVisits(c, d)
      PROVE  Pipe(c)'
  <2>1. /\ d \in todo[c] /\ todo'[c] = todo[c] \ {d}
        /\ \A x \in Clients : x # d => channel'[x] = channel[x]
        /\ UNCHANGED <<client, up, wire, members, stage, work>>
    BY <1>5, VisitEffect
  <2>2. channel'[c] = channel[c] /\ c \notin todo'[c]
    BY <1>0, <2>1 DEF Pipe
  <2> QED
    BY <1>0, <2>1, <2>2 DEF Pipe, Down
<1>6. CASE BroadcastEnds(c)
  <2>1. /\ stage[c] = "broadcast" /\ stage'[c] = "idle"
        /\ work'[c] = Message("update", NoChanges)
        /\ UNCHANGED <<client, up, channel, wire, members, todo>>
    BY <1>6, EndEffect
  <2>2. session[c] # "joining"
    BY <1>0, <2>1 DEF Pipe, Updating
  <2> QED
    BY <1>0, <2>1, <2>2 DEF Pipe, Down, Updating
<1>7. CASE WritePump(c)
  <2>1. PICK m \in Messages :
           /\ channel[c] = <<m>> /\ channel'[c] = <<>> /\ m \in Down(c)
           /\ Frames(wire[c]) \in Seq(Messages)
           /\ IF session[c] = "out" THEN wire'[c] = wire[c]
                                    ELSE Frames(wire'[c]) = Append(Frames(wire[c]), m)
           /\ Down(c)' \subseteq Down(c)
           /\ UNCHANGED <<client, up, members, handler>>
    BY <1>7, PumpEffect
  <2>2. Rng(channel[c]) = {m} /\ Rng(channel'[c]) = {}
    BY <2>1, SingleRng, EmptyRng
  <2>3. session[c] # "joining" => Pipe(c)'
    BY <1>0, <2>1 DEF Pipe
  <2>4. ASSUME session[c] = "joining"
        PROVE  OneState(Frames(wire'[c]))
    <3> DEFINE s == Frames(wire[c])
    <3>1. /\ Frames(wire'[c]) = Append(s, m) /\ Len(Append(s, m)) = Len(s) + 1 /\ Len(s) \in Nat
          /\ \A i \in 1 .. Len(s) : i \in 1 .. Len(s) + 1 /\ Append(s, m)[i] = s[i]
          /\ Append(s, m)[Len(s) + 1] = m
          /\ \A i \in 1 .. Len(s) + 1 : i \in 1 .. Len(s) \/ i = Len(s) + 1
      BY <2>1, <2>4, SeqFacts
    <3>2. OneState(s) /\ (IsState(m) => \A n \in Rng(s) : ~IsState(n))
      BY <1>0, <2>2, <2>4 DEF Pipe
    <3> HIDE DEF s
    <3>3. \A i \in 1 .. Len(s) : s[i] \in Rng(s)
      BY DEF Rng
    <3> QED
      BY <3>1, <3>2, <3>3 DEF OneState
  <2>5. session[c] = "joining" => Pipe(c)'
    BY <1>0, <2>1, <2>2, <2>4 DEF Pipe
  <2> QED
    BY <2>3, <2>5
<1> QED
  BY <1>1, <1>2, <1>3, <1>4, <1>5, <1>6, <1>7 DEF ReadPump

\* Every step keeps connections in order.
LEMMA PipesStep ==
  ASSUME Careful, Typing, Pipes, NEW c \in Clients, Act(c)
  PROVE  Pipes'
<1>1. Pipe(c)'
  BY PipeClient, PipeServer DEF Act
<1>2. \A x \in Clients : x # c => Pipe(x)'
  BY PipeOthers
<1> QED
  BY <1>1, <1>2 DEF Pipes

-----------------------------------------------------------------------------
(* Where changes come from: those on their way from a client, to a client,  *)
(* and the drawings that are sent to one who joins.                         *)

\* Changes of client x, noted, sent or being handled.
InFrom(ch, x) ==
  \/ ch = pending[x]
  \/ \E m \in Rng(up[x]) : ch = m.changes
  \/ stage[x] \in Updating /\ ch = work[x].changes

\* Changes of others on their way to x.
InTo(ch, x) == \E m \in Down(x) : ~IsState(m) /\ ch = m.changes

\* Drawings for x.
InState(ch, x) ==
  \/ \E m \in Down(x) : IsState(m) /\ ch = m.changes
  \/ stage[x] = "reply" /\ ch = work[x].changes

\* All of these are changes.
LEMMA FlowTypes ==
  ASSUME Typing, NEW x \in Clients
  PROVE  /\ Down(x) \subseteq Messages /\ Rng(up[x]) \subseteq Messages
         /\ \A ch : InFrom(ch, x) \/ InTo(ch, x) \/ InState(ch, x) => ch \in Changes
<1>1. /\ up[x] \in Seq(Messages) /\ wire[x] \in Seq(Singles) /\ work[x] \in Messages /\ pending[x] \in Changes
      /\ channel[x] \in {<<>>} \cup Singles
  BY DEF Typing
<1>2. Rng(up[x]) \subseteq Messages
  BY <1>1, RngFacts
<1>3. Frames(wire[x]) \in Seq(Messages)
  BY <1>1, FramesFacts
<1>4. Rng(Frames(wire[x])) \subseteq Messages
  BY <1>3, RngFacts
<1>5. Rng(channel[x]) \subseteq Messages
  <2>1. CASE channel[x] = <<>>
    BY <2>1, EmptyRng
  <2>2. CASE channel[x] \in Singles
    <3>1. PICK m \in Messages : channel[x] = <<m>>
      BY <2>2 DEF Singles
    <3> QED
      BY <3>1, SingleRng
  <2> QED
    BY <1>1, <2>1, <2>2
<1>6. Down(x) \subseteq Messages
  BY <1>4, <1>5 DEF Down
<1>7. \A m \in Messages : m.changes \in Changes
  BY MessageFacts
<1> QED
  BY <1>1, <1>2, <1>6, <1>7 DEF InFrom, InTo, InState

\* A client has new changes only when it compares its scene with its cache.
LEMMA FromOwn ==
  ASSUME Careful, Typing, Pipes, NEW c \in Clients, Act(c), NEW ch, InFrom(ch, c)'
  PROVE  \/ InFrom(ch, c) \/ ch = NoChanges
         \/ HandleChange(c) /\ session[c] = "in" /\ ch = Accumulated(pending[c], Delta(c))
<1> USE DEF handler, history, client
<1>0. up[c] \in Seq(Messages) /\ Pipe(c)
  BY DEF Typing, Pipes
<1>1. \/ ch = pending'[c]
      \/ \E m \in Rng(up'[c]) : ch = m.changes
      \/ stage'[c] \in Updating /\ ch = work'[c].changes
  BY DEF InFrom
<1>a. ASSUME NEW e \in Elems, Edit(c, e)
      PROVE  InFrom(ch, c)
  BY <1>1, <1>a, EditFacts DEF InFrom
<1>3. CASE JoinRoom(c)
  <2>1. Rng(up'[c]) = {Message("join", NoChanges)}
    BY <1>3, JoinEffect, SingleRng
  <2>2. Message("join", NoChanges).changes = NoChanges
    BY MessageFacts, NoChangesFacts
  <2> QED
    BY <1>1, <1>3, <2>1, <2>2, JoinEffect DEF InFrom
<1>4. CASE LeaveRoom(c)
  <2>1. Rng(up'[c]) = Rng(up[c]) \cup {Message("leave", NoChanges)}
    <3>1. up'[c] = Append(up[c], Message("leave", NoChanges)) /\ Message("leave", NoChanges) \in Messages
      BY <1>4, LeaveEffect
    <3> QED
      BY <1>0, <3>1, RngFacts
  <2>2. Message("leave", NoChanges).changes = NoChanges
    BY MessageFacts, NoChangesFacts
  <2> QED
    BY <1>1, <1>4, <2>1, <2>2, LeaveEffect DEF InFrom
<1>5. CASE HandleChange(c)
  BY <1>1, <1>5, ChangeEffect DEF InFrom
<1>6. CASE FlushChanges(c)
  <2>1. Rng(Append(up[c], Message("update", pending[c]))) = Rng(up[c]) \cup {Message("update", pending[c])}
    BY <1>0, <1>6, FlushEffect, RngFacts
  <2> QED
    BY <1>1, <1>6, <2>1, FlushEffect DEF InFrom
<1>7. CASE Receive(c)
  BY <1>1, <1>7, ReceiveEffect DEF InFrom
<1>8. CASE ReadMessage(c)
  <2>1. PICK m \in Messages :
           /\ m \in Rng(up[c]) /\ Rng(up'[c]) \subseteq Rng(up[c])
           /\ \/ stage'[c] = "snapshot" /\ work'[c] = work[c]
              \/ stage'[c] = "add" /\ work'[c] = m
              \/ stage'[c] = stage[c] /\ work'[c] = work[c]
           /\ pending' = pending
    BY <1>8, ReadEffect
  <2> QED
    BY <1>1, <2>1 DEF InFrom, Updating
<1>9. CASE ReadElements(c)
  BY <1>1, <1>9, ReadElementsEffect DEF InFrom, Updating
<1>10. CASE SendRoomState(c)
  BY <1>1, <1>10, SendRoomStateEffect DEF InFrom, Updating
<1>11. CASE AddElements(c) \/ UpdateElements(c) \/ DeleteElements(c)
  <2>1. /\ stage[c] \in Updating
        /\ UNCHANGED <<pending, up, work>>
    BY <1>11, StoreEffect DEF Updating
  <2> QED
    BY <1>1, <2>1 DEF InFrom
<1>12. ASSUME NEW d \in Clients, BroadcastVisits(c, d)
       PROVE  InFrom(ch, c)
  BY <1>1, <1>12, VisitEffect DEF InFrom
<1>13. CASE BroadcastEnds(c)
  BY <1>1, <1>13, EndEffect DEF InFrom, Updating
<1>14. CASE WritePump(c)
  BY <1>1, <1>14, PumpEffect DEF InFrom
<1> QED
  BY <1>a, <1>3, <1>4, <1>5, <1>6, <1>7, <1>8, <1>9, <1>10, <1>11, <1>12, <1>13, <1>14
     DEF Act, ReadPump

\* And only its own.
LEMMA FromStep ==
  ASSUME Careful, Typing, Pipes, NEW c \in Clients, Act(c), NEW x \in Clients, NEW ch, InFrom(ch, x)'
  PROVE  \/ InFrom(ch, x) \/ ch = NoChanges
         \/ x = c /\ HandleChange(c) /\ session[c] = "in" /\ ch = Accumulated(pending[c], Delta(c))
<1>1. CASE x # c
  <2>1. Still(x)
    BY <1>1, Alone
  <2> QED
    BY <2>1 DEF InFrom, Still
<1>2. CASE x = c
  BY <1>2, FromOwn
<1> QED
  BY <1>1, <1>2

\* A handler sends its own client nothing but the drawing.
LEMMA DownOwn ==
  ASSUME Careful, Typing, Pipes, NEW c \in Clients, Act(c), NEW m \in Down(c)'
  PROVE  m \in Down(c) \/ (SendRoomState(c) /\ stage[c] = "reply" /\ m = work[c])
<1> USE DEF handler, history, client
<1>0. Pipe(c) /\ Down(c)' = Rng(channel'[c]) \cup Rng(Frames(wire'[c]))
  BY DEF Pipes, Down
<1>1. ASSUME channel'[c] = channel[c] \/ channel'[c] = <<>>, wire'[c] = wire[c] \/ wire'[c] = <<>>
      PROVE  m \in Down(c)
  BY <1>0, <1>1, EmptyDown DEF Down
<1>a. ASSUME NEW e \in Elems, Edit(c, e)
      PROVE  m \in Down(c)
  BY <1>1, <1>a, EditFacts
<1>3. CASE JoinRoom(c)
  BY <1>1, <1>3, JoinEffect
<1>4. CASE LeaveRoom(c)
  BY <1>1, <1>4, LeaveEffect
<1>5. CASE HandleChange(c)
  BY <1>1, <1>5, ChangeEffect
<1>6. CASE FlushChanges(c)
  BY <1>1, <1>6, FlushEffect
<1>7. CASE Receive(c)
  <2>1. /\ Frames(wire[c]) \in Seq(Messages) /\ Frames(wire[c]) # <<>>
        /\ Frames(wire'[c]) = Tail(Frames(wire[c])) /\ channel' = channel
    BY <1>7, ReceiveEffect
  <2>2. Rng(Frames(wire'[c])) \subseteq Rng(Frames(wire[c]))
    BY <2>1, RngFacts
  <2> QED
    BY <1>0, <2>1, <2>2 DEF Down
<1>8. CASE ReadMessage(c)
  BY <1>1, <1>8, ReadEffect
<1>9. CASE ReadElements(c)
  BY <1>1, <1>9, ReadElementsEffect
<1>10. CASE SendRoomState(c)
  <2>1. /\ stage[c] = "reply" /\ wire'[c] = wire[c]
        /\ channel'[c] = <<work[c]>> \/ channel'[c] = <<>>
    BY <1>10, SendRoomStateEffect
  <2>2. Rng(channel'[c]) \subseteq {work[c]}
    BY <2>1, SingleRng, EmptyRng
  <2> QED
    BY <1>0, <1>10, <2>1, <2>2 DEF Down
<1>11. CASE AddElements(c) \/ UpdateElements(c) \/ DeleteElements(c)
  BY <1>1, <1>11, StoreEffect
<1>12. ASSUME NEW d \in Clients, BroadcastVisits(c, d)
       PROVE  m \in Down(c)
  <2>1. c # d
    BY <1>0, <1>12, VisitEffect DEF Pipe
  <2> QED
    BY <1>1, <1>12, <2>1, VisitEffect
<1>13. CASE BroadcastEnds(c)
  BY <1>1, <1>13, EndEffect
<1>14. CASE WritePump(c)
  BY <1>14, PumpEffect
<1> QED
  BY <1>a, <1>3, <1>4, <1>5, <1>6, <1>7, <1>8, <1>9, <1>10, <1>11, <1>12, <1>13, <1>14
     DEF Act, ReadPump

\* Whatever is new on its way down was the handler's work.
LEMMA DownStep ==
  ASSUME Careful, Typing, Pipes, NEW c \in Clients, Act(c), NEW x \in Clients, NEW m \in Down(x)'
  PROVE  \/ m \in Down(x)
         \/ x = c /\ SendRoomState(c) /\ stage[c] = "reply" /\ m = work[c] /\ IsState(m)
         \/ x # c /\ BroadcastVisits(c, x) /\ stage[c] = "broadcast" /\ m = work[c] /\ ~IsState(m)
<1>1. CASE x = c
  <2>1. Pipe(c)
    BY DEF Pipes
  <2> QED
    BY <1>1, <2>1, DownOwn DEF Pipe, IsState
<1>2. CASE x # c
  <2>1. Still(x) /\ (channel'[x] = channel[x] \/ BroadcastVisits(c, x))
    BY <1>2, Alone
  <2>2. CASE channel'[x] = channel[x]
    BY <2>1, <2>2 DEF Down, Still
  <2>3. CASE BroadcastVisits(c, x)
    <3>1. /\ stage[c] = "broadcast"
          /\ channel'[x] = <<work[c]>> \/ channel'[x] = <<>>
      BY <2>3, VisitEffect
    <3>2. Rng(channel'[x]) \subseteq {work[c]}
      BY <3>1, SingleRng, EmptyRng
    <3>3. work[c].kind = "update"
      BY <3>1 DEF Pipes, Pipe, Updating
    <3> QED
      BY <1>2, <2>1, <2>3, <3>1, <3>2, <3>3 DEF Down, Still, IsState
  <2> QED
    BY <2>1, <2>2, <2>3
<1> QED
  BY <1>1, <1>2

\* Changes that come to x were somebody else's.
LEMMA ToStep ==
  ASSUME Careful, Typing, Pipes, NEW c \in Clients, Act(c), NEW x \in Clients, NEW ch, InTo(ch, x)'
  PROVE  InTo(ch, x) \/ (x # c /\ stage[c] = "broadcast" /\ ch = work[c].changes /\ InFrom(ch, c))
<1>1. PICK m \in Down(x)' : ~IsState(m) /\ ch = m.changes
  BY DEF InTo, IsState
<1>2. \/ m \in Down(x)
      \/ x # c /\ stage[c] = "broadcast" /\ m = work[c]
  BY <1>1, DownStep
<1> QED
  BY <1>1, <1>2 DEF InTo, InFrom, Updating

\* A drawing that comes to x is one the room had.
LEMMA StateStep ==
  ASSUME Careful, Typing, Pipes, NEW c \in Clients, Act(c), NEW x \in Clients, NEW ch, InState(ch, x)'
  PROVE  \/ InState(ch, x)
         \/ /\ x = c /\ ReadElements(c) /\ elements' = elements
            /\ ch.added = elements /\ ch.updated = Blank /\ ch.deleted = {}
<1>1. CASE \E m \in Down(x)' : IsState(m) /\ ch = m.changes
  <2>1. PICK m \in Down(x)' : IsState(m) /\ ch = m.changes
    BY <1>1
  <2>2. m \in Down(x) \/ (x = c /\ stage[c] = "reply" /\ m = work[c])
    BY <2>1, DownStep
  <2> QED
    BY <2>1, <2>2 DEF InState
<1>2. CASE stage'[x] = "reply" /\ ch = work'[x].changes
  <2>1. CASE x # c
    BY <1>2, <2>1, Alone DEF Still, InState
  <2>2. CASE x = c
    <3> USE DEF handler, history, client
    <3>a. ASSUME NEW e \in Elems, Edit(c, e)
          PROVE  stage' = stage /\ work' = work
      BY <3>a, EditFacts
    <3>b. CASE JoinRoom(c) \/ LeaveRoom(c) \/ HandleChange(c) \/ FlushChanges(c) \/ Receive(c) \/ WritePump(c)
      <4>1. stage' = stage /\ work' = work
        BY <3>b, JoinEffect, LeaveEffect, ChangeEffect, FlushEffect, ReceiveEffect, PumpEffect
      <4> QED
        BY <1>2, <2>2, <4>1 DEF InState
    <3>1. CASE ReadMessage(c)
      BY <1>2, <2>2, <3>1, ReadEffect
    <3>2. CASE ReadElements(c)
      BY <1>2, <2>2, <3>2, ReadElementsEffect
    <3>3. CASE SendRoomState(c)
      BY <1>2, <2>2, <3>3, SendRoomStateEffect
    <3>4. CASE AddElements(c) \/ UpdateElements(c) \/ DeleteElements(c)
      BY <1>2, <2>2, <3>4, StoreEffect
    <3>5. ASSUME NEW d \in Clients, BroadcastVisits(c, d)
          PROVE  InState(ch, x)
      BY <1>2, <2>2, <3>5, VisitEffect
    <3>6. CASE BroadcastEnds(c)
      BY <1>2, <2>2, <3>6, EndEffect
    <3> QED
      BY <1>2, <2>2, <3>a, <3>b, <3>1, <3>2, <3>3, <3>4, <3>5, <3>6 DEF Act, ReadPump, InState
  <2> QED
    BY <2>1, <2>2
<1> QED
  BY <1>1, <1>2 DEF InState

-----------------------------------------------------------------------------
(* What a step does to what a client sees and to the room, at element e. *)

\* Somebody has drawn e.
Known(e) == latest[e] # Absent

\* Client x shows e as before.
SeesSame(x, e) == scene'[x][e] = scene[x][e] /\ cache'[x][e] = cache[x][e] /\ session'[x] = session[x]

\* Its user has drawn, changed or deleted e, in the room or out of it.
Drew(x, e) ==
  /\ x \in Editors[e] /\ Known(e)'
  /\ \A d \in Clients : session[d] # "joining"
  /\ \/ scene[x][e] = Absent /\ ~Known(e)
     \/ ~scene[x][e].deleted
  /\ cache' = cache /\ session' = session /\ pending' = pending
  /\ up' = up /\ channel' = channel /\ wire' = wire
  /\ elements' = elements /\ stage' = stage /\ work' = work /\ todo' = todo

\* Client x has compared its scene with its cache.
Noted(x, e) ==
  /\ HandleChange(x)
  /\ scene' = scene /\ session' = session /\ session[x] \in {"in", "out"}
  /\ cache'[x][e] = IF scene[x][e] # Absent THEN scene[x][e] ELSE cache[x][e]

\* It has opened the drawing ch.
Loaded(x, e, ch) ==
  /\ InState(ch, x) /\ ch \in Changes /\ session[x] = "joining" /\ session'[x] = "in"
  /\ cache'[x][e] = ch.added[e]
  /\ scene'[x][e] = IF ch.added = Blank THEN scene[x][e] ELSE ch.added[e]
  /\ pending[x] = NoChanges /\ up[x] = <<>> /\ stage[x] = "idle"

\* It has heard of the changes ch.
Heard(x, e, ch) ==
  /\ InTo(ch, x) /\ ch \in Changes /\ session' = session
  /\ scene'[x][e] = IF Mentions(ch, e) THEN Outcome(ch, e) ELSE Shown(scene[x][e])
  /\ cache'[x][e] = IF Mentions(ch, e) THEN Outcome(ch, e) ELSE cache[x][e]

\* There are five ways in which what x sees may change.
LEMMA EyesStep ==
  ASSUME Careful, Typing, Pipes, NEW c \in Clients, Act(c), NEW x \in Clients, NEW e \in Elems
  PROVE  \/ SeesSame(x, e)
         \/ x = c /\ Edit(c, e) /\ Drew(c, e)
         \/ x = c /\ Noted(c, e)
         \/ /\ x = c /\ JoinRoom(c) /\ session[c] = "out" /\ session'[c] = "joining"
            /\ scene' = scene /\ cache' = cache
         \/ /\ x = c /\ LeaveRoom(c) /\ session[c] = "in" /\ session'[c] = "out"
            /\ scene' = scene /\ cache' = cache
         \/ /\ x = c /\ Receive(c)
            /\ UNCHANGED <<pending, up, channel, elements, members, handler, history>>
            /\ \E ch \in Changes : Loaded(c, e, ch) \/ Heard(c, e, ch)
<1> USE DEF handler, history, client
<1>1. CASE x # c
  BY <1>1, Alone DEF Still, SeesSame
<1>2. ASSUME x = c, NEW f \in Elems, Edit(c, f)
      PROVE  SeesSame(x, e) \/ (Edit(c, e) /\ Drew(c, e))
  <2>1. CASE f = e
    <3>1. Edit(c, e)
      BY <1>2, <2>1
    <3>2. /\ c \in Editors[e]
          /\ \A d \in Clients : session[d] # "joining"
          /\ \E v \in Versions :
               /\ v # Absent
               /\ scene' = [scene EXCEPT ![c] = [scene[c] EXCEPT ![e] = v]]
               /\ latest' = [latest EXCEPT ![e] = v]
               /\ \/ scene[c][e] = Absent /\ latest[e] = Absent /\ ~v.deleted
                  \/ ~scene[c][e].deleted
          /\ UNCHANGED <<cache, pending, session, up, channel, wire, elements, members, handler>>
      BY <3>1, EditFacts
    <3>3. latest'[e] # Absent
      BY <3>2 DEF Typing, Tables
    <3> QED
      BY <3>1, <3>2, <3>3 DEF Drew, Known
  <2>2. CASE f # e
    <3>1. PICK v \in Versions : scene' = [scene EXCEPT ![c] = [scene[c] EXCEPT ![f] = v]]
      BY <1>2, EditFacts
    <3>2. UNCHANGED <<cache, session>>
      BY <1>2, EditFacts
    <3>3. scene'[c][e] = scene[c][e]
      BY <2>2, <3>1 DEF Typing, Tables
    <3> QED
      BY <1>2, <3>2, <3>3 DEF SeesSame
  <2> QED
    BY <2>1, <2>2
<1>3. CASE x = c /\ JoinRoom(c)
  BY <1>3, JoinEffect
<1>4. CASE x = c /\ LeaveRoom(c)
  BY <1>4, LeaveEffect
<1>5. CASE x = c /\ HandleChange(c)
  BY <1>5, ChangeEffect DEF Noted
<1>6. CASE FlushChanges(c)
  BY <1>6, FlushEffect DEF SeesSame
<1>7. CASE x = c /\ Receive(c)
  <2>1. PICK m \in Messages :
           /\ m \in Down(c)
           /\ \/ /\ IsState(m) /\ session'[c] = "in"
                 /\ cache'[c] = m.changes.added
                 /\ scene'[c] = IF m.changes.added = Blank THEN scene[c] ELSE m.changes.added
              \/ /\ ~IsState(m) /\ session' = session
                 /\ \A f \in Elems :
                      /\ scene'[c][f] = IF Mentions(m.changes, f) THEN Outcome(m.changes, f) ELSE Shown(scene[c][f])
                      /\ cache'[c][f] = IF Mentions(m.changes, f) THEN Outcome(m.changes, f) ELSE cache[c][f]
           /\ UNCHANGED <<pending, up, channel, elements, members, handler, history>>
    BY <1>7, ReceiveEffect
  <2>2. m.changes \in Changes /\ Pipe(c) /\ session[c] \in {"out", "joining", "in"}
    BY DEF Messages, Pipes, Typing
  <2>3. CASE IsState(m) /\ session'[c] = "in"
    <3>1. session[c] = "joining" /\ InState(m.changes, c)
      BY <2>1, <2>2, <2>3 DEF Pipe, InState
    <3>2. /\ pending[c] = NoChanges
          /\ \/ up[c] = <<Message("join", NoChanges)>> /\ \A n \in Down(c) : ~IsState(n)
             \/ up[c] = <<>>
          /\ stage[c] # "idle" => \A n \in Down(c) : ~IsState(n)
      BY <2>2, <3>1 DEF Pipe
    <3>3. up[c] = <<>> /\ stage[c] = "idle"
      BY <2>1, <2>3, <3>2
    <3>4. Loaded(c, e, m.changes)
      BY <2>1, <2>2, <2>3, <3>1, <3>2, <3>3 DEF Loaded
    <3> QED
      BY <1>7, <2>1, <2>2, <3>4
  <2>4. CASE ~IsState(m) /\ session' = session
    <3>1. Heard(c, e, m.changes)
      BY <2>1, <2>2, <2>4 DEF Heard, InTo
    <3> QED
      BY <1>7, <2>1, <2>2, <3>1
  <2> QED
    BY <2>1, <2>3, <2>4
<1>8. CASE WritePump(c) \/ ReadPump(c)
  <2>1. UNCHANGED client
    BY <1>8 DEF WritePump, ReadPump, ReadMessage, ReadElements, SendRoomState, AddElements, UpdateElements,
                DeleteElements, BroadcastVisits, BroadcastEnds
  <2> QED
    BY <2>1 DEF SeesSame
<1> QED
  BY <1>1, <1>2, <1>3, <1>4, <1>5, <1>6, <1>7, <1>8 DEF Act

\* Only AddElements, UpdateElements and DeleteElements change the room, and
\* only edits change what is known.
LEMMA RoomStep ==
  ASSUME Careful, Typing, NEW c \in Clients, Act(c), NEW e \in Elems
  PROVE  /\ \/ elements' = elements
            \/ AddElements(c) \/ UpdateElements(c) \/ DeleteElements(c)
         /\ Known(e) => Known(e)'
<1> USE DEF handler, history, client
<1>1. \/ \E f \in Elems : Edit(c, f)
      \/ UNCHANGED latest
  BY DEF Act, JoinRoom, LeaveRoom, HandleChange, FlushChanges, Receive, WritePump, ReadPump, ReadMessage,
         ReadElements, SendRoomState, AddElements, UpdateElements, DeleteElements, BroadcastVisits, BroadcastEnds
<1>2. ASSUME NEW f \in Elems, Edit(c, f), Known(e)
      PROVE  Known(e)'
  <2>1. PICK v \in Versions : v # Absent /\ latest' = [latest EXCEPT ![f] = v]
    BY <1>2, EditFacts
  <2> QED
    BY <1>2, <2>1 DEF Known, Typing, Tables
<1>3. \/ elements' = elements
      \/ AddElements(c) \/ UpdateElements(c) \/ DeleteElements(c)
  BY DEF Act, Edit, JoinRoom, LeaveRoom, HandleChange, FlushChanges, Receive, WritePump, ReadPump, ReadMessage,
         ReadElements, SendRoomState, BroadcastVisits, BroadcastEnds
<1> QED
  BY <1>1, <1>2, <1>3 DEF Known

\* What a step does to the changes on their way from x.
LEMMA PendingStep ==
  ASSUME Careful, Typing, NEW c \in Clients, Act(c), NEW x \in Clients
  PROVE  \/ pending'[x] = pending[x]
         \/ x = c /\ FlushChanges(c) /\ pending'[c] = NoChanges
         \/ x = c /\ HandleChange(c) /\ session[c] = "in" /\ Delta(c) \in Changes
            /\ pending'[c] = Accumulated(pending[c], Delta(c))
<1> USE DEF handler, history, client
<1>1. CASE x # c
  BY <1>1, Alone DEF Still
<1>2. CASE HandleChange(c)
  BY <1>1, <1>2, ChangeEffect
<1>3. CASE FlushChanges(c)
  BY <1>1, <1>3, FlushEffect
<1>4. CASE ~HandleChange(c) /\ ~FlushChanges(c)
  BY <1>4 DEF Act, Edit, JoinRoom, LeaveRoom, Receive, WritePump, ReadPump, ReadMessage,
         ReadElements, SendRoomState, AddElements, UpdateElements, DeleteElements, BroadcastVisits, BroadcastEnds
<1> QED
  BY <1>1, <1>2, <1>3, <1>4

\* What is new on its way up was noted before.
LEMMA UpStep ==
  ASSUME Careful, Typing, NEW c \in Clients, Act(c), NEW x \in Clients, NEW m \in Rng(up'[x])
  PROVE  \/ m \in Rng(up[x])
         \/ m.changes = NoChanges
         \/ x = c /\ FlushChanges(c) /\ m.changes = pending[c]
<1> USE DEF handler, history, client
<1>0. up[c] \in Seq(Messages)
  BY DEF Typing
<1>1. CASE x # c
  BY <1>1, Alone DEF Still
<1>2. CASE x = c /\ JoinRoom(c)
  <2>1. Rng(up'[c]) = {Message("join", NoChanges)}
    BY <1>2, JoinEffect, SingleRng
  <2>2. Message("join", NoChanges).changes = NoChanges
    BY MessageFacts, NoChangesFacts
  <2> QED
    BY <1>2, <2>1, <2>2
<1>3. CASE x = c /\ LeaveRoom(c)
  <2>1. up'[c] = Append(up[c], Message("leave", NoChanges)) /\ Message("leave", NoChanges) \in Messages
    BY <1>3, LeaveEffect
  <2>2. Rng(up'[c]) = Rng(up[c]) \cup {Message("leave", NoChanges)}
    BY <1>0, <2>1, RngFacts
  <2>3. Message("leave", NoChanges).changes = NoChanges
    BY MessageFacts, NoChangesFacts
  <2> QED
    BY <1>3, <2>2, <2>3
<1>4. CASE x = c /\ FlushChanges(c)
  <2>1. Rng(Append(up[c], Message("update", pending[c]))) = Rng(up[c]) \cup {Message("update", pending[c])}
    BY <1>0, <1>4, FlushEffect, RngFacts
  <2> QED
    BY <1>4, <2>1, FlushEffect
<1>5. CASE x = c /\ ReadMessage(c)
  BY <1>5, ReadEffect
<1>6. CASE ~JoinRoom(c) /\ ~LeaveRoom(c) /\ ~FlushChanges(c) /\ ~ReadMessage(c)
  <2>1. up' = up
    BY <1>6 DEF Act, Edit, HandleChange, Receive, WritePump, ReadPump,
         ReadElements, SendRoomState, AddElements, UpdateElements, DeleteElements, BroadcastVisits, BroadcastEnds
  <2> QED
    BY <2>1
<1> QED
  BY <1>1, <1>2, <1>3, <1>4, <1>5, <1>6

\* A handler goes from stage to stage with the same message.
LEMMA WorkStep ==
  ASSUME Careful, Typing, NEW c \in Clients, Act(c), NEW x \in Clients
  PROVE  \/ stage'[x] = stage[x] /\ work'[x] = work[x]
         \/ x = c /\ stage'[c] \in {"idle", "snapshot"}
         \/ x = c /\ ReadElements(c) /\ stage'[c] = "reply"
         \/ x = c /\ ReadMessage(c) /\ stage[c] = "idle" /\ stage'[c] = "add" /\ work'[c] \in Rng(up[c])
         \/ x = c /\ AddElements(c) /\ stage[c] = "add" /\ stage'[c] = "update" /\ work'[c] = work[c]
         \/ x = c /\ UpdateElements(c) /\ stage[c] = "update" /\ stage'[c] = "delete" /\ work'[c] = work[c]
         \/ x = c /\ DeleteElements(c) /\ stage[c] = "delete" /\ stage'[c] = "broadcast" /\ work'[c] = work[c]
<1> USE DEF handler, history, client
<1>1. CASE x # c
  BY <1>1, Alone DEF Still
<1>2. CASE x = c /\ ReadMessage(c)
  BY <1>2, ReadEffect
<1>3. CASE x = c /\ ReadElements(c)
  BY <1>3, ReadElementsEffect
<1>4. CASE x = c /\ SendRoomState(c)
  BY <1>4, SendRoomStateEffect
<1>5. CASE x = c /\ (AddElements(c) \/ UpdateElements(c) \/ DeleteElements(c))
  BY <1>5, StoreEffect
<1>6. CASE x = c /\ BroadcastEnds(c)
  BY <1>6, EndEffect
<1>7. CASE ~ReadMessage(c) /\ ~ReadElements(c) /\ ~SendRoomState(c) /\ ~AddElements(c) /\ ~UpdateElements(c)
           /\ ~DeleteElements(c) /\ ~BroadcastEnds(c)
  <2>1. stage' = stage /\ work' = work
    BY <1>7 DEF Act, Edit, JoinRoom, LeaveRoom, HandleChange, FlushChanges, Receive, WritePump, ReadPump,
                BroadcastVisits
  <2> QED
    BY <2>1
<1> QED
  BY <1>1, <1>2, <1>3, <1>4, <1>5, <1>6, <1>7

-----------------------------------------------------------------------------
(* The inductive invariant, for each element e. *)

\* What is on its way is about elements that were drawn.
Seen(e) ==
  /\ elements[e] # Absent => Known(e)
  /\ \A x \in Clients, ch \in Changes : InState(ch, x) /\ ch.added[e] # Absent => Known(e)
  /\ \A a \in Editors[e] :
       /\ scene[a][e] # Absent \/ cache[a][e] # Absent => Known(e)
       /\ \A ch \in Changes : InFrom(ch, a) /\ Mentions(ch, e) => Known(e)

\* Those who do not work on e only ever remove it, and have it as it was told.
OthersRemove(e) ==
  \A x \in Clients :
    IF x \in Editors[e]
      THEN \A ch \in Changes : InTo(ch, x) => Removes(ch, e)
      ELSE /\ \A ch \in Changes : InFrom(ch, x) => Removes(ch, e)
           /\ session[x] = "in" => scene[x][e] = cache[x][e] \/ (scene[x][e] = Absent /\ cache[x][e].deleted)

\* The deletion of e is final: nothing that its author has sent brings it back.
Gone(e) ==
  /\ Known(e) /\ elements[e].deleted
  /\ \A a \in Editors[e] :
       /\ scene[a][e].deleted
       /\ NoLive(pending[a], e)
       /\ \A m \in Rng(up[a]) : NoLive(m.changes, e)
       /\ stage[a] = "add" => NoLive(work[a].changes, e)
       /\ stage[a] = "update" => work[a].changes.updated[e].deleted

\* A deletion that somebody else may have heard of is final.
Ends(e) ==
  /\ Dead(elements[e]) => Gone(e)
  /\ \A x \in Clients, ch \in Changes :
       Fatal(ch, e) /\ (InTo(ch, x) \/ InState(ch, x) \/ (InFrom(ch, x) /\ x \notin Editors[e])) => Gone(e)
  /\ \A x \in Clients \ Editors[e] : session[x] = "in" /\ Dead(cache[x][e]) => Gone(e)
  /\ \A a \in Editors[e] : stage[a] = "broadcast" /\ Fatal(work[a].changes, e) => Gone(e)

\* The author's changes are in order: after a deletion comes nothing that draws.
Ordered(s, e) == \A i, j \in 1 .. Len(s) : i < j /\ Fatal(s[i].changes, e) => NoLive(s[j].changes, e)

Upstream(e) ==
  \A a \in Editors[e] :
    /\ \A ch \in Changes : InFrom(ch, a) => Sane(ch, e) /\ (Fatal(ch, e) => scene[a][e].deleted)
    /\ Ordered(up[a], e)
    /\ (\E m \in Rng(up[a]) : Fatal(m.changes, e)) => NoLive(pending[a], e)
    /\ stage[a] \in Updating /\ Fatal(work[a].changes, e) =>
         NoLive(pending[a], e) /\ \A m \in Rng(up[a]) : NoLive(m.changes, e)
    /\ session[a] = "in" /\ cache[a][e] = Absent => NoLive(pending[a], e)

\* While somebody joins, all have the drawing the server has.
Joins(e) ==
  /\ \A x \in Clients, ch \in Changes : InState(ch, x) =>
       ch.updated[e] = Absent /\ e \notin ch.deleted /\ Shown(ch.added[e]) = Shown(elements[e])
  /\ (\E d \in Clients : session[d] = "joining") =>
       /\ \A x \in Clients, ch \in Changes : InFrom(ch, x) \/ InTo(ch, x) =>
            Removes(ch, e) /\ (e \in ch.deleted => elements[e].deleted)
       /\ \A x \in Clients : session[x] = "in" =>
            (scene[x][e] = Absent \/ scene[x][e] = cache[x][e]) /\ Shown(scene[x][e]) = Shown(elements[e])

\* One client joins at a time; the room it finds has a drawing, or the client has
\* nothing to show but its own.
JoinsAlone ==
  \A d \in Clients : session[d] = "joining" =>
    /\ \A x \in Clients : session[x] = "joining" => x = d
    /\ \/ \E e \in Elems : ~elements[e].deleted
       \/ \A e \in Elems : scene[d][e] = Absent \/ d \in Editors[e]

\* What the author's message has done to the room.
Progress(e) ==
  \A a \in Editors[e] :
    /\ stage[a] = "update" /\ work[a].changes.added[e] # Absent => Shown(elements[e]) = Shown(work[a].changes.added[e])
    /\ stage[a] = "delete" =>
         IF work[a].changes.updated[e] # Absent
           THEN Shown(elements[e]) = Shown(work[a].changes.updated[e])
           ELSE work[a].changes.added[e] # Absent => Shown(elements[e]) = Shown(work[a].changes.added[e])
    /\ stage[a] = "broadcast" /\ Mentions(work[a].changes, e) => Shown(elements[e]) = Shown(Outcome(work[a].changes, e))

-----------------------------------------------------------------------------
(* Deletions are final. *)

\* An element has one editor.
LEMMA EditorFacts ==
  ASSUME Careful, NEW e \in Elems
  PROVE  Editors[e] \subseteq Clients /\ \A a, b \in Editors[e] : a = b
BY SyncAssumption DEF Careful

\* Types, element by element.
LEMMA ValueTypes ==
  ASSUME Typing, NEW x \in Clients, NEW e \in Elems
  PROVE  /\ scene[x][e] \in Versions /\ cache[x][e] \in Versions /\ elements[e] \in Versions /\ latest[e] \in Versions
         /\ pending[x] \in Changes /\ work[x] \in Messages /\ work[x].changes \in Changes
         /\ \A m \in Rng(up[x]) : m \in Messages /\ m.changes \in Changes
<1>1. work[x] \in Messages /\ Rng(up[x]) \subseteq Messages
  BY FlowTypes DEF Typing
<1>2. \A m \in Messages : m.changes \in Changes
  BY MessageFacts
<1> QED
  BY <1>1, <1>2 DEF Typing, Tables

\* A final deletion stays final: its author cannot draw e again, others only remove it.
LEMMA GoneStep ==
  ASSUME Careful, Typing, Pipes, NEW c \in Clients, Act(c), NEW e \in Elems,
         OthersRemove(e), Joins(e), Gone(e)
  PROVE  Gone(e)'
<1> USE DEF handler, history, client
<1>0. /\ Editors[e] \subseteq Clients /\ \A a, b \in Editors[e] : a = b
      /\ elements[e] \in Versions
  BY EditorFacts, ValueTypes
<1>1. Known(e)'
  BY RoomStep DEF Gone
<1>2. elements'[e].deleted
  <2>1. CASE elements' = elements
    BY <2>1 DEF Gone
  <2>2. CASE AddElements(c) \/ UpdateElements(c) \/ DeleteElements(c)
    <3>1. /\ work[c].changes \in Changes
          /\ stage[c] \in Updating => InFrom(work[c].changes, c)
      BY ValueTypes DEF InFrom
    <3>2. CASE c \in Editors[e]
      BY <2>2, <3>2, StoreEffect, VersionFacts DEF Gone, NoLive
    <3>3. CASE c \notin Editors[e]
      <4>1. stage[c] \in Updating
        BY <2>2, StoreEffect DEF Updating
      <4>2. Removes(work[c].changes, e)
        BY <3>1, <3>3, <4>1 DEF OthersRemove
      <4> QED
        BY <2>2, <4>2, StoreEffect, VersionFacts DEF Gone, Removes
    <3> QED
      BY <3>2, <3>3
  <2> QED
    BY <2>1, <2>2, RoomStep
<1>3. ASSUME NEW a \in Editors[e]
      PROVE  scene'[a][e].deleted
  <2>0. a \in Clients /\ scene[a][e] \in Versions /\ scene[a][e].deleted /\ Known(e)
    BY <1>0, ValueTypes DEF Gone
  <2>1. CASE SeesSame(a, e)
    BY <2>0, <2>1 DEF SeesSame
  <2>2. CASE Drew(a, e)
    BY <2>0, <2>2 DEF Drew
  <2>3. CASE scene' = scene
    BY <2>0, <2>3
  <2>4. ASSUME NEW ch \in Changes, Loaded(a, e, ch)
        PROVE  scene'[a][e].deleted
    <3>1. Shown(ch.added[e]) = Shown(elements[e]) /\ ch.added[e] \in Versions
      BY <2>0, <2>4, ChangeFacts DEF Joins, Loaded
    <3>2. ch.added[e].deleted
      BY <1>0, <3>1, VersionFacts DEF Gone
    <3> QED
      BY <2>0, <2>4, <3>2 DEF Loaded
  <2>5. ASSUME NEW ch \in Changes, Heard(a, e, ch)
        PROVE  scene'[a][e].deleted
    <3>1. Removes(ch, e)
      BY <2>0, <2>5 DEF OthersRemove, Heard
    <3>2. Outcome(ch, e) = Absent
      BY <3>1, ChangeFacts
    <3> QED
      BY <2>0, <2>5, <3>2, VersionFacts DEF Heard
  <2> QED
    BY <2>0, <2>1, <2>2, <2>3, <2>4, <2>5, EyesStep DEF Noted
<1>4. ASSUME NEW a \in Editors[e]
      PROVE  NoLive(pending'[a], e)
  <2>0. a \in Clients /\ scene[a][e].deleted /\ NoLive(pending[a], e) /\ pending[a] \in Changes
        /\ scene[a] \in Tables /\ cache[a] \in Tables
    BY <1>0, ValueTypes DEF Gone, Typing
  <2>1. CASE pending'[a] = Accumulated(pending[a], Delta(a)) /\ Delta(a) \in Changes
    <3>1. /\ Delta(a).added[e] = Absent \/ Delta(a).added[e] = scene[a][e]
          /\ Delta(a).updated[e] = Absent \/ Delta(a).updated[e] = scene[a][e]
      BY <2>0, DeltaAt
    <3>2. NoLive(Delta(a), e)
      BY <2>0, <3>1, VersionFacts DEF NoLive
    <3>3. /\ pending'[a].added[e] = IF pending[a].added[e] # Absent THEN pending[a].added[e] ELSE Delta(a).added[e]
          /\ pending'[a].updated[e] = IF Delta(a).updated[e] # Absent THEN Delta(a).updated[e] ELSE pending[a].updated[e]
      BY <2>0, <2>1, AccumulatedAt
    <3> QED
      BY <2>0, <3>2, <3>3 DEF NoLive
  <2> QED
    BY <2>0, <2>1, PendingStep, NoChangesFacts
<1>5. ASSUME NEW a \in Editors[e], NEW m \in Rng(up'[a])
      PROVE  NoLive(m.changes, e)
  <2>0. a \in Clients
    BY <1>0
  <2> QED
    BY <2>0, UpStep, NoChangesFacts DEF Gone
<1>6. ASSUME NEW a \in Editors[e]
      PROVE  /\ stage'[a] = "add" => NoLive(work'[a].changes, e)
             /\ stage'[a] = "update" => work'[a].changes.updated[e].deleted
  <2>0. a \in Clients
    BY <1>0
  <2> QED
    BY <2>0, WorkStep DEF Gone, NoLive
<1> QED
  BY <1>1, <1>2, <1>3, <1>4, <1>5, <1>6 DEF Gone

\* The changes that c computes, at element e.
LEMMA NotedAt ==
  ASSUME Typing, NEW c \in Clients, NEW e \in Elems, NEW ch, ch = Accumulated(pending[c], Delta(c))
  PROVE  /\ ch \in Changes
         /\ ch.added[e] = IF pending[c].added[e] # Absent THEN pending[c].added[e]
                          ELSE IF cache[c][e] = Absent THEN scene[c][e] ELSE Absent
         /\ ch.updated[e] = IF cache[c][e] # Absent /\ scene[c][e] # cache[c][e] /\ scene[c][e] # Absent
                              THEN scene[c][e] ELSE pending[c].updated[e]
         /\ e \in ch.deleted <=> e \in pending[c].deleted \/ (cache[c][e] # Absent /\ scene[c][e] = Absent)
<1>1. scene[c] \in Tables /\ cache[c] \in Tables /\ pending[c] \in Changes
  BY DEF Typing
<1>2. /\ Delta(c) \in Changes
      /\ Delta(c).added[e] = IF cache[c][e] = Absent THEN scene[c][e] ELSE Absent
      /\ Delta(c).updated[e] = IF cache[c][e] # Absent /\ scene[c][e] # cache[c][e] THEN scene[c][e] ELSE Absent
      /\ e \in Delta(c).deleted <=> cache[c][e] # Absent /\ scene[c][e] = Absent
  BY <1>1, DeltaAt
<1>3. /\ ch \in Changes
      /\ ch.added[e] = IF pending[c].added[e] # Absent THEN pending[c].added[e] ELSE Delta(c).added[e]
      /\ ch.updated[e] = IF Delta(c).updated[e] # Absent THEN Delta(c).updated[e] ELSE pending[c].updated[e]
      /\ e \in ch.deleted <=> e \in pending[c].deleted \/ e \in Delta(c).deleted
  BY <1>1, <1>2, AccumulatedAt
<1> QED
  BY <1>2, <1>3

\* What is anywhere of e was drawn.
LEMMA SeenStep ==
  ASSUME Careful, Typing, Pipes, NEW c \in Clients, Act(c), NEW e \in Elems,
         Seen(e), OthersRemove(e)
  PROVE  Seen(e)'
<1> USE DEF handler, history, client
<1>0. /\ Editors[e] \subseteq Clients /\ \A a, b \in Editors[e] : a = b
      /\ elements[e] \in Versions
      /\ Known(e) => Known(e)'
  BY EditorFacts, ValueTypes, RoomStep
<1>1. elements'[e] # Absent => Known(e)'
  <2>1. CASE elements' = elements
    BY <1>0, <2>1 DEF Seen
  <2>2. CASE AddElements(c) \/ UpdateElements(c) \/ DeleteElements(c)
    <3>1. /\ work[c].changes \in Changes
          /\ InFrom(work[c].changes, c)
      BY <2>2, ValueTypes, StoreEffect DEF InFrom, Updating
    <3>2. elements'[e] # Absent => elements[e] # Absent \/ ~Removes(work[c].changes, e)
      BY <2>2, StoreEffect DEF Removes
    <3>3. CASE c \in Editors[e]
      BY <1>0, <3>1, <3>2, <3>3 DEF Seen, Removes, Mentions
    <3>4. CASE c \notin Editors[e]
      BY <1>0, <3>1, <3>2, <3>4 DEF Seen, OthersRemove
    <3> QED
      BY <3>3, <3>4
  <2> QED
    BY <2>1, <2>2, RoomStep
<1>2. ASSUME NEW x \in Clients, NEW ch \in Changes, InState(ch, x)', ch.added[e] # Absent
      PROVE  Known(e)'
  BY <1>0, <1>2, StateStep DEF Seen
<1>3. ASSUME NEW a \in Editors[e], scene'[a][e] # Absent \/ cache'[a][e] # Absent
      PROVE  Known(e)'
  <2>0. a \in Clients /\ scene[a][e] \in Versions /\ cache[a][e] \in Versions
    BY <1>0, ValueTypes
  <2>1. CASE SeesSame(a, e)
    BY <1>0, <1>3, <2>1 DEF SeesSame, Seen
  <2>2. CASE Drew(a, e)
    BY <2>2 DEF Drew
  <2>3. CASE scene' = scene /\ cache' = cache
    BY <1>0, <1>3, <2>3 DEF Seen
  <2>4. CASE Noted(a, e)
    BY <1>0, <1>3, <2>4 DEF Noted, Seen
  <2>5. ASSUME NEW ch \in Changes, Loaded(a, e, ch)
        PROVE  Known(e)'
    BY <1>0, <1>3, <2>0, <2>5 DEF Loaded, Seen
  <2>6. ASSUME NEW ch \in Changes, Heard(a, e, ch)
        PROVE  Known(e)'
    <3>1. Removes(ch, e)
      BY <2>0, <2>6 DEF OthersRemove, Heard
    <3>2. Outcome(ch, e) = Absent
      BY <3>1, ChangeFacts
    <3>3. scene'[a][e] # Absent => scene[a][e] # Absent
      BY <2>0, <2>6, <3>2, VersionFacts DEF Heard
    <3>4. cache'[a][e] # Absent => cache[a][e] # Absent
      BY <2>0, <2>6, <3>2, VersionFacts DEF Heard
    <3> QED
      BY <1>0, <1>3, <3>3, <3>4 DEF Seen
  <2> QED
    BY <2>0, <2>1, <2>2, <2>3, <2>4, <2>5, <2>6, EyesStep
<1>4. ASSUME NEW a \in Editors[e], NEW ch \in Changes, InFrom(ch, a)', Mentions(ch, e)
      PROVE  Known(e)'
  <2>0. a \in Clients /\ InFrom(pending[a], a) /\ pending[a] \in Changes
    BY <1>0, ValueTypes DEF InFrom
  <2>1. CASE InFrom(ch, a) \/ ch = NoChanges
    BY <1>0, <1>4, <2>1, NoChangesFacts DEF Seen
  <2>2. CASE ch = Accumulated(pending[a], Delta(a))
    <3>1. Mentions(pending[a], e) \/ scene[a][e] # Absent \/ cache[a][e] # Absent
      BY <1>4, <2>0, <2>2, NotedAt DEF Mentions
    <3> QED
      BY <1>0, <2>0, <3>1 DEF Seen
  <2> QED
    BY <1>4, <2>0, <2>1, <2>2, FromStep
<1> QED
  BY <1>1, <1>2, <1>3, <1>4 DEF Seen

\* Who is told that the room is empty holds nothing of others' elements.
LEMMA LoadedBlank ==
  ASSUME Typing, \A f \in Elems : Joins(f), JoinsAlone, NEW x \in Clients, session[x] = "joining",
         NEW ch \in Changes, InState(ch, x), ch.added = Blank, NEW e \in Elems
  PROVE  (scene[x][e] = Absent \/ x \in Editors[e]) /\ elements[e].deleted
<1>1. ASSUME NEW f \in Elems
      PROVE  elements[f].deleted
  <2>1. Shown(ch.added[f]) = Shown(elements[f]) /\ ch.added[f] = Absent /\ elements[f] \in Versions
    BY BlankAt, ValueTypes DEF Joins
  <2> QED
    BY <2>1, VersionFacts
<1> QED
  BY <1>1 DEF JoinsAlone

\* Others have e from what they were told, hence compare it with the same, and
\* send deletions at most.
LEMMA OthersRemoveStep ==
  ASSUME Careful, Typing, Pipes, NEW c \in Clients, Act(c), NEW e \in Elems,
         OthersRemove(e), \A f \in Elems : Joins(f), JoinsAlone
  PROVE  OthersRemove(e)'
<1> USE DEF handler, history, client
<1>0. /\ Editors[e] \subseteq Clients /\ \A a, b \in Editors[e] : a = b
  BY EditorFacts
<1>1. ASSUME NEW x \in Clients, x \in Editors[e], NEW ch \in Changes, InTo(ch, x)'
      PROVE  Removes(ch, e)
  <2>1. InTo(ch, x) \/ (x # c /\ InFrom(ch, c))
    BY <1>1, ToStep
  <2> QED
    BY <1>0, <1>1, <2>1 DEF OthersRemove
<1>2. ASSUME NEW x \in Clients, x \notin Editors[e], NEW ch \in Changes, InFrom(ch, x)'
      PROVE  Removes(ch, e)
  <2>0. InFrom(pending[x], x) /\ pending[x] \in Changes
    BY ValueTypes DEF InFrom
  <2>1. CASE InFrom(ch, x) \/ ch = NoChanges
    BY <1>2, <2>1, NoChangesFacts DEF OthersRemove
  <2>2. CASE ch = Accumulated(pending[x], Delta(x)) /\ session[x] = "in"
    <3>1. /\ Removes(pending[x], e)
          /\ scene[x][e] = cache[x][e] \/ scene[x][e] = Absent
      BY <1>2, <2>0, <2>2 DEF OthersRemove
    <3> QED
      BY <2>2, <3>1, NotedAt DEF Removes
  <2> QED
    BY <1>2, <2>1, <2>2, FromStep
<1>3. ASSUME NEW x \in Clients, x \notin Editors[e], session'[x] = "in"
      PROVE  scene'[x][e] = cache'[x][e] \/ (scene'[x][e] = Absent /\ cache'[x][e].deleted)
  <2>0. scene[x][e] \in Versions /\ cache[x][e] \in Versions
    BY ValueTypes
  <2>1. CASE SeesSame(x, e)
    BY <1>3, <2>1 DEF SeesSame, OthersRemove
  <2>2. CASE Noted(x, e)
    BY <1>3, <2>2 DEF Noted, OthersRemove
  <2>3. ASSUME NEW ch \in Changes, Loaded(x, e, ch)
        PROVE  scene'[x][e] = cache'[x][e]
    <3>1. CASE ch.added # Blank
      BY <2>3, <3>1 DEF Loaded
    <3>2. CASE ch.added = Blank
      <4>1. \A f \in Elems : ch.added[f] = Absent
        BY <3>2, BlankAt
      <4>2. scene[x][e] = Absent
        BY <1>3, <2>3, <3>2, LoadedBlank DEF Loaded
      <4> QED
        BY <2>3, <3>2, <4>1, <4>2 DEF Loaded
    <3> QED
      BY <3>1, <3>2
  <2>4. ASSUME NEW ch \in Changes, Heard(x, e, ch)
        PROVE  scene'[x][e] = cache'[x][e] \/ (scene'[x][e] = Absent /\ cache'[x][e].deleted)
    <3>1. session[x] = "in"
      BY <1>3, <2>4 DEF Heard
    <3>2. scene[x][e] = cache[x][e] \/ (scene[x][e] = Absent /\ cache[x][e].deleted)
      BY <1>3, <3>1 DEF OthersRemove
    <3> QED
      BY <2>0, <2>4, <3>2, VersionFacts DEF Heard
  <2>5. CASE Drew(x, e)
    BY <1>3, <2>5 DEF Drew
  <2> QED
    BY <1>3, <2>1, <2>2, <2>3, <2>4, <2>5, EyesStep
<1> QED
  BY <1>1, <1>2, <1>3 DEF OthersRemove

\* Once the author has deleted e, what is still to be sent stays without it.
LEMMA NoLiveKept ==
  ASSUME Careful, Typing, NEW c \in Clients, Act(c), NEW a \in Clients, NEW e \in Elems,
         NoLive(pending[a], e), scene[a][e].deleted
  PROVE  NoLive(pending'[a], e)
<1>1. CASE pending'[a] = Accumulated(pending[a], Delta(a))
  BY <1>1, NotedAt, VersionFacts DEF NoLive
<1> QED
  BY <1>1, PendingStep, NoChangesFacts

\* A deletion that the server has taken from its author.
LEMMA AuthorGone ==
  ASSUME Careful, Typing, NEW e \in Elems, Seen(e), Upstream(e), NEW a \in Editors[e],
         stage[a] \in Updating, Fatal(work[a].changes, e)
  PROVE  /\ Known(e) /\ scene[a][e].deleted /\ NoLive(pending[a], e) /\ Sane(work[a].changes, e)
         /\ \A m \in Rng(up[a]) : NoLive(m.changes, e)
         /\ Outcome(work[a].changes, e).deleted /\ Mentions(work[a].changes, e)
<1>1. a \in Clients
  BY EditorFacts
<1>2. work[a].changes \in Changes /\ InFrom(work[a].changes, a)
  BY <1>1, ValueTypes DEF InFrom
<1>3. Mentions(work[a].changes, e)
  BY <1>2, ChangeFacts
<1>4. Sane(work[a].changes, e) /\ scene[a][e].deleted
  BY <1>2 DEF Upstream
<1>5. Outcome(work[a].changes, e).deleted
  BY <1>2, <1>4, ChangeFacts
<1> QED
  BY <1>2, <1>3, <1>4, <1>5 DEF Seen, Upstream

\* A deletion becomes known when the handler of its author applies it, and then it
\* is the last that the author has to say.
LEMMA EndsStep ==
  ASSUME Careful, Typing, Pipes, NEW c \in Clients, Act(c), NEW e \in Elems,
         Seen(e), OthersRemove(e), Upstream(e), Ends(e), Joins(e), Progress(e)
  PROVE  Ends(e)'
<1> USE DEF handler, history, client
<1>0. /\ Editors[e] \subseteq Clients /\ \A a, b \in Editors[e] : a = b
      /\ elements[e] \in Versions
  BY EditorFacts, ValueTypes
<1>g. Gone(e) => Gone(e)'
  BY GoneStep
<1>w. work[c].changes \in Changes /\ (stage[c] \in Updating => InFrom(work[c].changes, c))
  BY ValueTypes DEF InFrom
<1>a. ASSUME c \in Editors[e], AddElements(c) \/ UpdateElements(c) \/ DeleteElements(c),
             Fatal(work[c].changes, e), elements'[e].deleted,
             stage'[c] = "update" => work[c].changes.updated[e].deleted
      PROVE  Gone(e)'
  <2>1. stage[c] \in Updating /\ stage'[c] \in {"update", "delete", "broadcast"}
        /\ UNCHANGED <<client, up, channel, wire, members, work, history>>
    BY <1>a, StoreEffect DEF Updating
  <2>2. /\ Known(e) /\ scene[c][e].deleted /\ NoLive(pending[c], e)
        /\ \A m \in Rng(up[c]) : NoLive(m.changes, e)
    BY <1>a, <2>1, AuthorGone
  <2> QED
    BY <1>0, <1>a, <2>1, <2>2 DEF Gone, Known
<1>1. ASSUME Dead(elements'[e])
      PROVE  Gone(e)'
  <2>1. CASE elements' = elements
    BY <1>1, <1>g, <2>1 DEF Ends
  <2>2. CASE AddElements(c) \/ UpdateElements(c) \/ DeleteElements(c)
    <3>1. CASE c \notin Editors[e]
      <4>1. Removes(work[c].changes, e)
        BY <1>w, <2>2, <3>1, StoreEffect DEF OthersRemove, Updating
      <4>2. elements'[e] = elements[e]
        BY <1>1, <2>2, <4>1, StoreEffect DEF Removes, Dead
      <4> QED
        BY <1>1, <1>g, <4>2 DEF Ends
    <3>2. CASE c \in Editors[e]
      <4>1. CASE elements'[e] = elements[e]
        BY <1>1, <1>g, <4>1 DEF Ends
      <4>2. CASE elements'[e] # elements[e]
        <5>0. \/ stage'[c] = "update" /\ elements'[e] = work[c].changes.added[e]
              \/ stage'[c] # "update" /\ elements'[e] = work[c].changes.updated[e]
              \/ elements'[e] = Absent
          BY <2>2, <4>2, StoreEffect
        <5>1. /\ Fatal(work[c].changes, e)
              /\ stage'[c] = "update" => Dead(work[c].changes.added[e])
          BY <1>1, <5>0 DEF Fatal, Dead
        <5>2. Sane(work[c].changes, e)
          BY <1>w, <2>2, <3>2, StoreEffect DEF Upstream, Updating
        <5>3. stage'[c] = "update" => work[c].changes.updated[e].deleted
          BY <5>1, <5>2 DEF Sane
        <5> QED
          BY <1>1, <1>a, <2>2, <3>2, <5>1, <5>3 DEF Dead
      <4> QED
        BY <4>1, <4>2
    <3> QED
      BY <3>1, <3>2
  <2> QED
    BY <2>1, <2>2, RoomStep
<1>2. ASSUME NEW x \in Clients, NEW ch \in Changes, Fatal(ch, e), InTo(ch, x)'
      PROVE  Gone(e)'
  <2>1. InTo(ch, x) \/ (stage[c] = "broadcast" /\ ch = work[c].changes /\ InFrom(ch, c))
    BY <1>2, ToStep
  <2> QED
    BY <1>2, <1>g, <2>1 DEF Ends
<1>3. ASSUME NEW x \in Clients, NEW ch \in Changes, Fatal(ch, e), InState(ch, x)'
      PROVE  Gone(e)'
  <2>1. InState(ch, x) \/ (ch.added = elements /\ ch.updated = Blank /\ ch.deleted = {})
    BY <1>3, StateStep
  <2>2. CASE ch.added = elements /\ ch.updated = Blank /\ ch.deleted = {}
    BY <1>3, <1>g, <2>2, BlankAt DEF Fatal, Dead, Ends
  <2> QED
    BY <1>3, <1>g, <2>1, <2>2 DEF Ends
<1>4. ASSUME NEW x \in Clients, NEW ch \in Changes, Fatal(ch, e), InFrom(ch, x)', x \notin Editors[e]
      PROVE  Gone(e)'
  <2>1. CASE InFrom(ch, x) \/ ch = NoChanges
    BY <1>4, <1>g, <2>1, NoChangesFacts DEF Ends
  <2>2. CASE ch = Accumulated(pending[x], Delta(x)) /\ session[x] = "in"
    <3>1. InFrom(pending[x], x) /\ pending[x] \in Changes
      BY ValueTypes DEF InFrom
    <3>2. /\ Removes(pending[x], e)
          /\ scene[x][e] = cache[x][e] \/ (scene[x][e] = Absent /\ cache[x][e].deleted)
      BY <1>4, <2>2, <3>1 DEF OthersRemove
    <3>3. /\ ch.added[e] = Absent /\ ch.updated[e] = Absent
          /\ e \in ch.deleted => e \in pending[x].deleted \/ (cache[x][e] # Absent /\ scene[x][e] = Absent)
      BY <2>2, <3>2, NotedAt DEF Removes
    <3>4. Fatal(pending[x], e) \/ Dead(cache[x][e])
      BY <1>4, <3>2, <3>3 DEF Fatal, Dead
    <3> QED
      BY <1>4, <1>g, <2>2, <3>1, <3>4 DEF Ends
  <2> QED
    BY <1>4, <2>1, <2>2, FromStep
<1>5. ASSUME NEW x \in Clients \ Editors[e], session'[x] = "in", Dead(cache'[x][e])
      PROVE  Gone(e)'
  <2>1. CASE SeesSame(x, e) \/ Drew(x, e)
    BY <1>5, <1>g, <2>1 DEF SeesSame, Drew, Ends
  <2>2. CASE Noted(x, e)
    BY <1>5, <1>g, <2>2 DEF Noted, OthersRemove, Ends
  <2>3. ASSUME NEW ch \in Changes, Loaded(x, e, ch)
        PROVE  Gone(e)'
    BY <1>5, <1>g, <2>3 DEF Loaded, Ends, Fatal
  <2>4. ASSUME NEW ch \in Changes, Heard(x, e, ch)
        PROVE  Gone(e)'
    <3>1. CASE Mentions(ch, e)
      <4>1. Fatal(ch, e)
        BY <1>5, <2>4, <3>1, ChangeFacts DEF Heard, Dead
      <4> QED
        BY <1>g, <2>4, <4>1 DEF Heard, Ends
    <3>2. CASE ~Mentions(ch, e)
      BY <1>5, <1>g, <2>4, <3>2 DEF Heard, Ends
    <3> QED
      BY <3>1, <3>2
  <2> QED
    BY <1>5, <2>1, <2>2, <2>3, <2>4, EyesStep
<1>6. ASSUME NEW a \in Editors[e], stage'[a] = "broadcast", Fatal(work'[a].changes, e)
      PROVE  Gone(e)'
  <2>0. a \in Clients
    BY <1>0
  <2>1. CASE stage'[a] = stage[a] /\ work'[a] = work[a]
    BY <1>6, <1>g, <2>1 DEF Ends
  <2>2. CASE a = c /\ DeleteElements(c) /\ stage[c] = "delete" /\ work'[c] = work[c]
    <3>1. Outcome(work[c].changes, e).deleted
      BY <1>6, <2>2, AuthorGone DEF Updating
    <3>2. elements'[e] = IF e \in work[c].changes.deleted THEN Absent ELSE elements[e]
      BY <2>2, StoreEffect
    <3>3. CASE e \in work[c].changes.deleted
      BY <1>6, <1>a, <2>2, <3>2, <3>3, VersionFacts
    <3>4. CASE e \notin work[c].changes.deleted
      <4>1. Outcome(work[c].changes, e) # Absent /\ Outcome(work[c].changes, e) \in Versions
            /\ Shown(elements[e]) = Shown(Outcome(work[c].changes, e))
        <5>1. work[c].changes.added[e] # Absent \/ work[c].changes.updated[e] # Absent
          BY <1>6, <2>2, <3>4 DEF Fatal, Dead
        <5> QED
          BY <1>6, <1>w, <2>2, <3>4, <5>1, ChangeFacts DEF Progress, Outcome
      <4>2. elements[e].deleted
        BY <1>0, <3>1, <4>1, VersionFacts
      <4> QED
        BY <1>6, <1>a, <2>2, <3>2, <3>4, <4>2
    <3> QED
      BY <3>3, <3>4
  <2> QED
    BY <1>6, <2>0, <2>1, <2>2, WorkStep
<1> QED
  BY <1>1, <1>2, <1>3, <1>4, <1>5, <1>6 DEF Ends

\* Order is kept when a message is taken.
LEMMA OrderedFacts ==
  ASSUME NEW e \in Elems, NEW s \in Seq(Messages), Ordered(s, e)
  PROVE  /\ s # <<>> => Ordered(Tail(s), e)
         /\ s # <<>> /\ Fatal(Head(s).changes, e) => \A m \in Rng(Tail(s)) : NoLive(m.changes, e)
<1> SUFFICES ASSUME s # <<>>
             PROVE  /\ Ordered(Tail(s), e)
                    /\ Fatal(Head(s).changes, e) => \A m \in Rng(Tail(s)) : NoLive(m.changes, e)
  OBVIOUS
<1>1. /\ Len(s) \in Nat /\ Head(s) = s[1] /\ 1 \in 1 .. Len(s) /\ Len(Tail(s)) = Len(s) - 1
      /\ \A i \in 1 .. Len(Tail(s)) : Tail(s)[i] = s[i + 1] /\ i + 1 \in 1 .. Len(s)
  BY TailFacts
<1>2. Ordered(Tail(s), e)
  BY <1>1 DEF Ordered
<1>3. ASSUME Fatal(Head(s).changes, e), NEW i \in 1 .. Len(Tail(s))
      PROVE  NoLive(Tail(s)[i].changes, e)
  BY <1>1, <1>3 DEF Ordered
<1> QED
  BY <1>2, <1>3 DEF Rng

\* And when one is sent that draws nothing, if something was deleted before it.
LEMMA OrderedAppend ==
  ASSUME NEW e \in Elems, NEW s \in Seq(Messages), Ordered(s, e), NEW m \in Messages,
         (\E n \in Rng(s) : Fatal(n.changes, e)) => NoLive(m.changes, e)
  PROVE  Ordered(Append(s, m), e)
<1> DEFINE t == Append(s, m)
           n == Len(s)
<1>1. /\ Len(t) = n + 1 /\ n \in Nat
      /\ \A i \in 1 .. n : i \in 1 .. n + 1 /\ t[i] = s[i] /\ s[i] \in Rng(s)
      /\ t[n + 1] = m
      /\ \A i \in 1 .. n + 1 : i \in 1 .. n \/ i = n + 1
  BY SeqFacts DEF Rng
<1> HIDE DEF t
<1> SUFFICES ASSUME NEW i \in 1 .. n + 1, NEW j \in 1 .. n + 1, i < j, Fatal(t[i].changes, e)
             PROVE  NoLive(t[j].changes, e)
  BY <1>1 DEF Ordered, t
<1>2. i \in 1 .. n
  BY <1>1
<1>3. CASE j \in 1 .. n
  BY <1>1, <1>2, <1>3 DEF Ordered
<1>4. CASE j = n + 1
  BY <1>1, <1>2, <1>4
<1> QED
  BY <1>1, <1>3, <1>4

\* What a step does to the messages of a client, in their order.
LEMMA UpShape ==
  ASSUME Careful, Typing, NEW c \in Clients, Act(c), NEW x \in Clients
  PROVE  \/ up'[x] = up[x]
         \/ \E m \in Messages : up'[x] = <<m>>
         \/ \E m \in Messages : /\ up'[x] = Append(up[x], m)
                                /\ m.changes = NoChanges \/ m.changes = pending[x]
         \/ up[x] # <<>> /\ up'[x] = Tail(up[x])
<1> USE DEF handler, history, client
<1>0. Message("join", NoChanges) \in Messages /\ Message("leave", NoChanges).changes = NoChanges
  BY MessageFacts, NoChangesFacts
<1>1. CASE x # c
  BY <1>1, Alone DEF Still
<1>2. CASE x = c /\ JoinRoom(c)
  BY <1>0, <1>2, JoinEffect
<1>3. CASE x = c /\ LeaveRoom(c)
  BY <1>0, <1>3, LeaveEffect
<1>4. CASE x = c /\ FlushChanges(c)
  BY <1>4, FlushEffect
<1>5. CASE x = c /\ ReadMessage(c)
  BY <1>5, ReadEffect
<1>6. CASE ~JoinRoom(c) /\ ~LeaveRoom(c) /\ ~FlushChanges(c) /\ ~ReadMessage(c)
  <2>1. up' = up
    BY <1>6 DEF Act, Edit, HandleChange, Receive, WritePump, ReadPump,
         ReadElements, SendRoomState, AddElements, UpdateElements, DeleteElements, BroadcastVisits, BroadcastEnds
  <2> QED
    BY <2>1
<1> QED
  BY <1>1, <1>2, <1>3, <1>4, <1>5, <1>6

\* What its author has deleted is not drawn again.
LEMMA DeletedStays ==
  ASSUME Careful, Typing, Pipes, NEW c \in Clients, Act(c), NEW e \in Elems,
         Seen(e), OthersRemove(e), NEW a \in Editors[e],
         NEW ch \in Changes, InFrom(ch, a), Fatal(ch, e), scene[a][e].deleted
  PROVE  scene'[a][e].deleted
<1> USE DEF handler, history, client
<1>0. a \in Clients /\ Mentions(ch, e) /\ scene[a][e] \in Versions
  BY EditorFacts, ChangeFacts, ValueTypes
<1>1. CASE SeesSame(a, e) \/ scene' = scene
  BY <1>1 DEF SeesSame
<1>2. CASE Drew(a, e)
  BY <1>0, <1>2 DEF Drew, Seen
<1>3. CASE Noted(a, e)
  BY <1>3 DEF Noted
<1>4. ASSUME NEW s \in Changes, Loaded(a, e, s)
      PROVE  FALSE
  <2>1. ch = NoChanges
    BY <1>4, EmptyRng DEF Loaded, InFrom, Updating
  <2> QED
    BY <2>1, NoChangesFacts
<1>5. ASSUME NEW s \in Changes, Heard(a, e, s)
      PROVE  scene'[a][e].deleted
  <2>1. Removes(s, e)
    BY <1>0, <1>5 DEF Heard, OthersRemove
  <2> QED
    BY <1>0, <1>5, <2>1, ChangeFacts, VersionFacts DEF Heard
<1> QED
  BY <1>0, <1>1, <1>2, <1>3, <1>4, <1>5, EyesStep

\* The author sends in order.
LEMMA UpstreamStep ==
  ASSUME Careful, Typing, Pipes, NEW c \in Clients, Act(c), NEW e \in Elems,
         Seen(e), OthersRemove(e), Upstream(e), Ends(e)
  PROVE  Upstream(e)'
<1> USE DEF handler, history, client
<1> SUFFICES ASSUME NEW a \in Editors[e]
             PROVE
    /\ \A ch \in Changes : InFrom(ch, a)' => Sane(ch, e) /\ (Fatal(ch, e) => scene'[a][e].deleted)
    /\ Ordered(up'[a], e)
    /\ (\E m \in Rng(up'[a]) : Fatal(m.changes, e)) => NoLive(pending'[a], e)
    /\ stage'[a] \in Updating /\ Fatal(work'[a].changes, e) =>
         NoLive(pending'[a], e) /\ \A m \in Rng(up'[a]) : NoLive(m.changes, e)
    /\ session'[a] = "in" /\ cache'[a][e] = Absent => NoLive(pending'[a], e)
  BY DEF Upstream
<1>0. /\ a \in Clients /\ up[a] \in Seq(Messages) /\ pending[a] \in Changes /\ InFrom(pending[a], a)
      /\ scene[a][e] \in Versions /\ cache[a][e] \in Versions
      /\ \A m \in Rng(up[a]) : m.changes \in Changes /\ InFrom(m.changes, a)
      /\ work[a].changes \in Changes /\ (stage[a] \in Updating => InFrom(work[a].changes, a))
  BY EditorFacts, ValueTypes DEF InFrom, Typing
<1>1. ASSUME NEW ch \in Changes, InFrom(ch, a)'
      PROVE  Sane(ch, e) /\ (Fatal(ch, e) => scene'[a][e].deleted)
  <2>1. CASE InFrom(ch, a) \/ ch = NoChanges
    BY <2>1, DeletedStays, NoChangesFacts DEF Upstream
  <2>2. CASE a = c /\ HandleChange(c) /\ session[c] = "in" /\ ch = Accumulated(pending[c], Delta(c))
    <3>1. scene' = scene
      BY <2>2, ChangeEffect
    <3>2. /\ Sane(pending[a], e) /\ (Fatal(pending[a], e) => scene[a][e].deleted)
          /\ cache[a][e] = Absent => NoLive(pending[a], e)
      BY <1>0, <2>2 DEF Upstream
    <3>3. /\ ch.added[e] = IF pending[a].added[e] # Absent THEN pending[a].added[e]
                           ELSE IF cache[a][e] = Absent THEN scene[a][e] ELSE Absent
          /\ ch.updated[e] = IF cache[a][e] # Absent /\ scene[a][e] # cache[a][e] /\ scene[a][e] # Absent
                               THEN scene[a][e] ELSE pending[a].updated[e]
          /\ e \in ch.deleted <=> e \in pending[a].deleted \/ (cache[a][e] # Absent /\ scene[a][e] = Absent)
      BY <1>0, <2>2, NotedAt
    <3>4. Fatal(ch, e) => scene[a][e].deleted
      BY <3>2, <3>3, VersionFacts DEF Fatal, Dead
    <3>5. Sane(ch, e)
      BY <3>2, <3>3, VersionFacts DEF Sane, Fatal, Dead, NoLive
    <3> QED
      BY <3>1, <3>4, <3>5
  <2> QED
    BY <1>0, <1>1, <2>1, <2>2, FromStep
<1>2. Ordered(up'[a], e)
  <2>1. Ordered(up[a], e)
    BY DEF Upstream
  <2>2. ASSUME NEW m \in Messages, up'[a] = <<m>>
        PROVE  Ordered(up'[a], e)
    BY <2>2 DEF Ordered
  <2>3. ASSUME NEW m \in Messages, up'[a] = Append(up[a], m),
               m.changes = NoChanges \/ m.changes = pending[a]
        PROVE  Ordered(up'[a], e)
    <3>1. (\E n \in Rng(up[a]) : Fatal(n.changes, e)) => NoLive(m.changes, e)
      BY <2>3, NoChangesFacts DEF Upstream
    <3> QED
      BY <1>0, <2>1, <2>3, <3>1, OrderedAppend
  <2> QED
    BY <1>0, <2>1, <2>2, <2>3, OrderedFacts, UpShape
<1>3. ASSUME NEW m \in Rng(up'[a]), Fatal(m.changes, e)
      PROVE  NoLive(pending'[a], e)
  <2>1. CASE m \in Rng(up[a])
    <3>1. scene[a][e].deleted /\ NoLive(pending[a], e)
      BY <1>0, <1>3, <2>1 DEF Upstream
    <3> QED
      BY <1>0, <3>1, NoLiveKept
  <2>2. CASE m.changes = NoChanges
    BY <1>3, <2>2, NoChangesFacts
  <2>3. CASE a = c /\ FlushChanges(c)
    BY <2>3, FlushEffect, NoChangesFacts
  <2> QED
    BY <1>0, <2>1, <2>2, <2>3, UpStep
<1>4. ASSUME stage'[a] \in Updating, Fatal(work'[a].changes, e)
      PROVE  NoLive(pending'[a], e) /\ \A m \in Rng(up'[a]) : NoLive(m.changes, e)
  <2>1. CASE stage[a] \in Updating /\ work'[a] = work[a]
    <3>1. /\ scene[a][e].deleted /\ NoLive(pending[a], e)
          /\ \A m \in Rng(up[a]) : NoLive(m.changes, e)
      BY <1>0, <1>4, <2>1 DEF Upstream
    <3>2. NoLive(pending'[a], e)
      BY <1>0, <3>1, NoLiveKept
    <3>3. \A m \in Rng(up'[a]) : NoLive(m.changes, e)
      BY <1>0, <3>1, UpStep, NoChangesFacts
    <3> QED
      BY <3>2, <3>3
  <2>2. CASE a = c /\ ReadMessage(c) /\ stage'[c] = "add"
    <3>1. /\ work'[c] = Head(up[c]) /\ up[c] # <<>> /\ up'[c] = Tail(up[c]) /\ Head(up[c]) \in Rng(up[c])
          /\ pending' = pending
      BY <2>2, ReadEffect
    <3>2. NoLive(pending[a], e)
      BY <1>4, <2>2, <3>1 DEF Upstream
    <3>3. \A m \in Rng(up'[a]) : NoLive(m.changes, e)
      BY <1>0, <1>4, <2>2, <3>1, OrderedFacts DEF Upstream
    <3> QED
      BY <3>1, <3>2, <3>3
  <2> QED
    BY <1>0, <1>4, <2>1, <2>2, WorkStep DEF Updating
<1>5. ASSUME session'[a] = "in", cache'[a][e] = Absent
      PROVE  NoLive(pending'[a], e)
  <2>1. CASE a = c /\ HandleChange(c)
    <3>1. /\ cache'[c][e] = IF scene[c][e] # Absent THEN scene[c][e] ELSE cache[c][e]
          /\ session' = session
      BY <2>1, ChangeEffect
    <3>2. scene[a][e].deleted /\ cache[a][e] = Absent /\ session[a] = "in"
      BY <1>5, <2>1, <3>1, VersionFacts
    <3>3. NoLive(pending[a], e)
      BY <3>2 DEF Upstream
    <3> QED
      BY <1>0, <3>2, <3>3, NoLiveKept
  <2>2. CASE ~(a = c /\ HandleChange(c))
    <3> SUFFICES NoLive(pending[a], e)
      BY <1>0, <2>2, PendingStep, NoChangesFacts
    <3>1. CASE SeesSame(a, e) \/ Drew(a, e)
      BY <1>5, <3>1 DEF SeesSame, Drew, Upstream
    <3>2. ASSUME NEW ch \in Changes, Loaded(a, e, ch)
          PROVE  NoLive(pending[a], e)
      BY <3>2, NoChangesFacts DEF Loaded
    <3>3. ASSUME NEW ch \in Changes, Heard(a, e, ch)
          PROVE  NoLive(pending[a], e)
      <4>1. CASE ~Mentions(ch, e)
        BY <1>5, <3>3, <4>1 DEF Heard, Upstream
      <4>2. CASE Mentions(ch, e)
        <5>1. Fatal(ch, e)
          BY <1>0, <3>3, <4>2, ChangeFacts DEF Heard, OthersRemove
        <5>2. Gone(e)
          BY <1>0, <3>3, <5>1 DEF Heard, Ends
        <5> QED
          BY <5>2 DEF Gone
      <4> QED
        BY <4>1, <4>2
    <3> QED
      BY <1>0, <1>5, <2>2, <3>1, <3>2, <3>3, EyesStep DEF Noted
  <2> QED
    BY <2>1, <2>2
<1> QED
  BY <1>1, <1>2, <1>3, <1>4, <1>5

\* The room looks the same after a step of those who do not work on e.
LEMMA RoomKept ==
  ASSUME Careful, Typing, Pipes, NEW c \in Clients, Act(c), NEW e \in Elems,
         OthersRemove(e), Ends(e), c \notin Editors[e]
  PROVE  Shown(elements'[e]) = Shown(elements[e])
<1>1. CASE elements' = elements
  BY <1>1
<1>2. CASE AddElements(c) \/ UpdateElements(c) \/ DeleteElements(c)
  <2>1. work[c].changes \in Changes /\ InFrom(work[c].changes, c) /\ elements[e] \in Versions
    BY <1>2, StoreEffect, ValueTypes DEF InFrom, Updating
  <2>2. Removes(work[c].changes, e)
    BY <2>1 DEF OthersRemove
  <2>3. elements'[e] = elements[e] \/ (e \in work[c].changes.deleted /\ elements'[e] = Absent)
    BY <1>2, <2>2, StoreEffect DEF Removes
  <2>4. e \in work[c].changes.deleted => elements[e].deleted
    <3>1. e \in work[c].changes.deleted => Gone(e)
      BY <2>1 DEF Ends, Fatal
    <3> QED
      BY <3>1 DEF Gone
  <2> QED
    BY <2>1, <2>3, <2>4, VersionFacts
<1> QED
  BY <1>1, <1>2, RoomStep

\* Nor does it change while e's author is where it was.
LEMMA RoomSame ==
  ASSUME Careful, Typing, Pipes, NEW c \in Clients, Act(c), NEW e \in Elems,
         OthersRemove(e), Ends(e), NEW a \in Editors[e], stage'[a] = stage[a]
  PROVE  Shown(elements'[e]) = Shown(elements[e])
<1>1. CASE c = a
  <2>1. ~AddElements(c) /\ ~UpdateElements(c) /\ ~DeleteElements(c)
    BY <1>1, StoreEffect
  <2> QED
    BY <2>1, RoomStep
<1>2. CASE c # a
  <2>1. c \notin Editors[e]
    BY <1>2, EditorFacts
  <2> QED
    BY <2>1, RoomKept
<1> QED
  BY <1>1, <1>2

\* Each list the handler applies is seen in the room until it has ended.
LEMMA ProgressStep ==
  ASSUME Careful, Typing, Pipes, NEW c \in Clients, Act(c), NEW e \in Elems,
         OthersRemove(e), Ends(e), Progress(e)
  PROVE  Progress(e)'
<1> USE DEF handler, history, client
<1> SUFFICES ASSUME NEW a \in Editors[e]
             PROVE
    /\ stage'[a] = "update" /\ work'[a].changes.added[e] # Absent =>
         Shown(elements'[e]) = Shown(work'[a].changes.added[e])
    /\ stage'[a] = "delete" =>
         IF work'[a].changes.updated[e] # Absent
           THEN Shown(elements'[e]) = Shown(work'[a].changes.updated[e])
           ELSE work'[a].changes.added[e] # Absent => Shown(elements'[e]) = Shown(work'[a].changes.added[e])
    /\ stage'[a] = "broadcast" /\ Mentions(work'[a].changes, e) =>
         Shown(elements'[e]) = Shown(Outcome(work'[a].changes, e))
  BY DEF Progress
<1>0. a \in Clients /\ work[a].changes \in Changes
  BY EditorFacts, ValueTypes
<1>1. CASE stage'[a] = stage[a] /\ work'[a] = work[a]
  BY <1>1, RoomSame DEF Progress
<1>2. CASE a = c /\ AddElements(c) /\ stage'[c] = "update" /\ work'[c] = work[c]
  <2>1. work[c].changes.added[e] # Absent => elements'[e] = work[c].changes.added[e]
    BY <1>2, StoreEffect
  <2> QED
    BY <1>2, <2>1
<1>3. CASE a = c /\ UpdateElements(c) /\ stage[c] = "update" /\ stage'[c] = "delete" /\ work'[c] = work[c]
  <2>1. elements'[e] = IF work[c].changes.updated[e] # Absent THEN work[c].changes.updated[e] ELSE elements[e]
    BY <1>3, StoreEffect
  <2> QED
    BY <1>3, <2>1 DEF Progress
<1>4. CASE a = c /\ DeleteElements(c) /\ stage[c] = "delete" /\ stage'[c] = "broadcast" /\ work'[c] = work[c]
  <2>1. elements'[e] = IF e \in work[c].changes.deleted THEN Absent ELSE elements[e]
    BY <1>4, StoreEffect
  <2> QED
    BY <1>4, <2>1 DEF Progress, Outcome, Mentions
<1> QED
  BY <1>0, <1>1, <1>2, <1>3, <1>4, WorkStep

-----------------------------------------------------------------------------
(* Where the last version of e is. *)

\* What the server holds of a's element once it has handled a's message.
Held(a, e) == IF stage[a] \in Applying /\ Mentions(work[a].changes, e)
                THEN Outcome(work[a].changes, e) ELSE elements[e]

\* When all that a has noted has come to the server, e looks there as v.
Sent(a, e, v) == IF Mentions(pending[a], e) THEN Shown(Outcome(pending[a], e)) = v
                                            ELSE Settles(up[a], e, Held(a, e), v)

ServerFollows(e) ==
  \A a \in Editors[e] : session[a] = "in" =>
    \/ Sent(a, e, Shown(cache[a][e]))
    \/ Sent(a, e, Absent) /\ scene[a][e] = Absent

\* The author's message is not yet on its way to d.
Busy(d, e) == \E a \in Editors[e] :
  /\ Mentions(work[a].changes, e)
  /\ stage[a] \in Applying \/ (stage[a] = "broadcast" /\ d \in todo[a])

\* When all that is on its way to d has come, e looks there as v.
Comes(d, e, v) == IF channel[d] # <<>> /\ Mentions(channel[d][1].changes, e)
                    THEN Shown(Outcome(channel[d][1].changes, e)) = v
                    ELSE Settles(Frames(wire[d]), e, scene[d][e], v)

OthersFollow(e) ==
  \A d \in Clients \ Editors[e] : session[d] = "in" => Busy(d, e) \/ Comes(d, e, Shown(elements[e]))

\* A message whose outcome the server is working on.
LEMMA HeldStep ==
  ASSUME Careful, Typing, Pipes, NEW c \in Clients, Act(c), NEW e \in Elems,
         OthersRemove(e), Ends(e), Progress(e), NEW a \in Editors[e], ~(c = a /\ ReadMessage(c))
  PROVE  Shown(Held(a, e)') = Shown(Held(a, e))
<1> USE DEF handler, history, client
<1>0. /\ a \in Clients /\ work[a].changes \in Changes
      /\ Held(a, e)' = IF stage'[a] \in Applying /\ Mentions(work'[a].changes, e)
                         THEN Outcome(work'[a].changes, e) ELSE elements'[e]
  BY EditorFacts, ValueTypes DEF Held, Outcome, Mentions
<1>1. CASE stage'[a] = stage[a] /\ work'[a] = work[a]
  BY <1>0, <1>1, RoomSame DEF Held
<1>2. CASE a = c /\ stage[c] \notin Applying /\ stage'[c] \notin Applying /\ elements' = elements
  BY <1>0, <1>2 DEF Held
<1>3. CASE a = c /\ (AddElements(c) \/ UpdateElements(c)) /\ stage[c] \in Applying /\ stage'[c] \in Applying
           /\ work'[c] = work[c]
  <2>1. ~Mentions(work[c].changes, e) => elements'[e] = elements[e]
    BY <1>3, StoreEffect DEF Mentions
  <2> QED
    BY <1>0, <1>3, <2>1 DEF Held
<1>4. CASE a = c /\ DeleteElements(c) /\ stage[c] = "delete" /\ stage'[c] = "broadcast" /\ work'[c] = work[c]
  <2>1. elements'[e] = IF e \in work[c].changes.deleted THEN Absent ELSE elements[e]
    BY <1>4, StoreEffect
  <2>2. ~Mentions(work[c].changes, e) => elements'[e] = elements[e]
    BY <2>1 DEF Mentions
  <2>3. Mentions(work[c].changes, e) => Shown(elements'[e]) = Shown(Outcome(work[c].changes, e))
    BY <1>4, <2>1 DEF Progress, Outcome, Mentions
  <2> QED
    BY <1>0, <1>4, <2>2, <2>3 DEF Held, Applying
<1>5. CASE a = c /\ (ReadElements(c) \/ SendRoomState(c) \/ BroadcastEnds(c))
  <2>1. stage[c] \notin Applying /\ stage'[c] \notin Applying /\ elements' = elements
    BY <1>5, ReadElementsEffect, SendRoomStateEffect, EndEffect DEF Applying
  <2> QED
    BY <1>2, <1>5, <2>1
<1>6. CASE a = c /\ (AddElements(c) \/ UpdateElements(c) \/ DeleteElements(c))
  <2>1. /\ work'[c] = work[c]
        /\ \/ AddElements(c) /\ stage[c] \in Applying /\ stage'[c] \in Applying
           \/ UpdateElements(c) /\ stage[c] \in Applying /\ stage'[c] \in Applying
           \/ DeleteElements(c) /\ stage[c] = "delete" /\ stage'[c] = "broadcast"
    BY <1>6, StoreEffect DEF Applying
  <2> QED
    BY <1>3, <1>4, <1>6, <2>1
<1>7. CASE a # c
  BY <1>0, <1>1, <1>7, Alone DEF Still
<1>8. CASE ~ReadMessage(c) /\ ~ReadElements(c) /\ ~SendRoomState(c) /\ ~AddElements(c) /\ ~UpdateElements(c)
           /\ ~DeleteElements(c) /\ ~BroadcastEnds(c)
  <2>1. stage' = stage /\ work' = work
    BY <1>8 DEF Act, Edit, JoinRoom, LeaveRoom, HandleChange, FlushChanges, Receive, WritePump, ReadPump,
                BroadcastVisits
  <2> QED
    BY <1>1, <2>1
<1> QED
  BY <1>5, <1>6, <1>7, <1>8

\* What the author has sent will come to the same, until more is noted.
LEMMA SentStep ==
  ASSUME Careful, Typing, Pipes, NEW c \in Clients, Act(c), NEW e \in Elems,
         OthersRemove(e), Ends(e), Progress(e), NEW a \in Editors[e], session[a] = "in", session'[a] = "in",
         ~(c = a /\ HandleChange(c)), NEW v, Sent(a, e, v)
  PROVE  Sent(a, e, v)'
<1> USE DEF handler, history, client
<1> DEFINE h == Held(a, e)
           k == Held(a, e)'
<1>0. /\ a \in Clients /\ up[a] \in Seq(Messages) /\ pending[a] \in Changes
      /\ Sent(a, e, v)' <=> IF Mentions(pending'[a], e) THEN Shown(Outcome(pending'[a], e)) = v
                                                         ELSE Settles(up'[a], e, k, v)
  BY EditorFacts, ValueTypes DEF Sent, Typing, Outcome, Mentions
<1>1. ~(c = a /\ ReadMessage(c)) => Shown(k) = Shown(h)
  BY HeldStep
<1>2. CASE pending'[a] = pending[a] /\ up'[a] = up[a] /\ ~(c = a /\ ReadMessage(c))
  <2> HIDE DEF h, k
  <2>1. Settles(up[a], e, h, v) => Settles(up[a], e, k, v)
    BY <1>1, <1>2, SettlesAs
  <2> QED
    BY <1>0, <1>2, <2>1 DEF Sent, h
<1>3. CASE a = c /\ FlushChanges(c)
  <2> DEFINE m == Message("update", pending[c])
  <2>1. /\ pending'[c] = NoChanges /\ m \in Messages /\ m.changes = pending[c]
        /\ up'[c] = Append(up[c], m) /\ ~ReadMessage(c)
    <3>1. up' # up
      <4>1. up'[c] = Append(up[c], m) /\ m \in Messages
        BY <1>3, FlushEffect
      <4>2. Len(up'[c]) = Len(up[c]) + 1 /\ Len(up[c]) \in Nat
        BY <1>0, <1>3, <4>1, SeqFacts
      <4> QED
        BY <4>2
    <3>2. UNCHANGED pending \/ ~ReadMessage(c)
      BY DEF ReadMessage
    <3> QED
      BY <1>3, <3>2, FlushEffect
  <2>2. ~Mentions(pending'[a], e)
    BY <1>3, <2>1, NoChangesFacts
  <2> HIDE DEF m, h, k
  <2>3. Settles(up'[a], e, h, v)
    <3>1. CASE Mentions(pending[a], e)
      BY <1>0, <1>3, <2>1, <3>1, SettlesAppend DEF Sent
    <3>2. CASE ~Mentions(pending[a], e)
      BY <1>0, <1>3, <2>1, <3>2, SettlesAppend DEF Sent, h
    <3> QED
      BY <3>1, <3>2
  <2>4. Settles(up'[a], e, k, v)
    BY <1>1, <2>1, <2>3, SettlesAs
  <2> QED
    BY <1>0, <2>2, <2>4
<1>4. CASE a = c /\ ReadMessage(c)
  <2>1. PICK m \in Messages :
           /\ stage[c] = "idle" /\ up[c] # <<>> /\ m = Head(up[c]) /\ m \in Rng(up[c])
           /\ up'[c] = Tail(up[c])
           /\ \/ m.kind = "join"
              \/ m.kind = "leave"
              \/ m.kind = "update" /\ stage'[c] = "add" /\ work'[c] = m
              \/ c \notin members
           /\ UNCHANGED <<client, elements>>
    BY <1>4, ReadEffect
  <2>2. m.kind = "update" /\ c \in members
    BY <1>4, <2>1 DEF Pipes, Pipe
  <2>3. stage'[c] = "add" /\ work'[c] = m
    BY <2>1, <2>2
  <2>4. h = elements[e]
    BY <1>4, <2>1 DEF Held, Applying
  <2>5. k = IF Mentions(m.changes, e) THEN Outcome(m.changes, e) ELSE elements[e]
    BY <1>4, <2>1, <2>3 DEF Held, Applying, Mentions, Outcome
  <2> HIDE DEF h, k
  <2>6. Settles(up[a], e, h, v) => Settles(up'[a], e, k, v)
    BY <1>0, <1>4, <2>1, <2>4, <2>5, SettlesTail
  <2> QED
    BY <1>0, <1>4, <2>1, <2>6 DEF Sent, h
<1>5. CASE a = c /\ ~FlushChanges(c) /\ ~ReadMessage(c)
  <2>1. ~JoinRoom(c) /\ ~LeaveRoom(c)
    BY <1>5, JoinEffect, LeaveEffect
  <2>2. pending' = pending /\ up' = up
    BY <1>5, <2>1 DEF Act, Edit, Receive, WritePump, ReadPump,
         ReadElements, SendRoomState, AddElements, UpdateElements, DeleteElements, BroadcastVisits, BroadcastEnds
  <2> QED
    BY <1>2, <1>5, <2>2
<1>6. CASE a # c
  BY <1>0, <1>2, <1>6, Alone DEF Still
<1> QED
  BY <1>3, <1>4, <1>5, <1>6

\* A step that takes a frame from the wire is nothing else.
LEMMA ReceiveOnly ==
  ASSUME Careful, Typing, NEW c \in Clients, Receive(c)
  PROVE  ~HandleChange(c)
<1>1. Frames(wire[c]) \in Seq(Messages) /\ Frames(wire[c]) # <<>> /\ Frames(wire'[c]) = Tail(Frames(wire[c]))
  BY ReceiveEffect
<1>2. Len(Tail(Frames(wire[c]))) = Len(Frames(wire[c])) - 1 /\ Len(Frames(wire[c])) \in Nat
  BY <1>1, TailFacts
<1>3. wire' # wire
  BY <1>1, <1>2
<1> QED
  BY <1>3 DEF HandleChange

\* Of an element that is gone nothing is left with its author.
LEMMA GoneSent ==
  ASSUME Careful, Typing, NEW e \in Elems, Gone(e), Progress(e), NEW a \in Editors[e]
  PROVE  Sent(a, e, Absent)
<1>0. /\ a \in Clients /\ up[a] \in Seq(Messages) /\ pending[a] \in Changes
      /\ work[a].changes \in Changes /\ elements[e] \in Versions
  BY EditorFacts, ValueTypes DEF Typing
<1>1. Mentions(pending[a], e) => Shown(Outcome(pending[a], e)) = Absent
  BY <1>0, ChangeFacts, VersionFacts DEF Gone
<1>2. Held(a, e) \in Versions /\ Held(a, e).deleted
  <2> DEFINE ch == work[a].changes
  <2>1. ch.added[e] \in Versions /\ ch.updated[e] \in Versions /\ Outcome(ch, e) \in Versions
    BY <1>0, ChangeFacts
  <2>2. elements[e].deleted /\ Shown(elements[e]) = Absent
    BY <1>0, VersionFacts DEF Gone
  <2>3. CASE stage[a] = "add"
    <3>1. NoLive(ch, e)
      BY <2>3 DEF Gone
    <3>2. Outcome(ch, e).deleted
      BY <1>0, <3>1, ChangeFacts
    <3> QED
      BY <1>0, <2>1, <2>2, <3>2 DEF Held
  <2>4. CASE stage[a] = "update"
    <3>1. /\ ch.updated[e].deleted
          /\ ch.added[e] # Absent => Shown(ch.added[e]) = Absent
      BY <2>2, <2>4 DEF Gone, Progress
    <3>2. Outcome(ch, e).deleted
      BY <2>1, <3>1, VersionFacts DEF Outcome
    <3> QED
      BY <1>0, <2>1, <2>2, <3>2 DEF Held
  <2>5. CASE stage[a] = "delete"
    <3>1. IF ch.updated[e] # Absent THEN Shown(ch.updated[e]) = Absent
                                    ELSE ch.added[e] # Absent => Shown(ch.added[e]) = Absent
      BY <2>2, <2>5 DEF Progress
    <3>2. Outcome(ch, e).deleted
      BY <2>1, <3>1, VersionFacts DEF Outcome
    <3> QED
      BY <1>0, <2>1, <2>2, <3>2 DEF Held
  <2>6. CASE stage[a] \notin Applying
    BY <1>0, <2>2, <2>6 DEF Held
  <2> QED
    BY <2>3, <2>4, <2>5, <2>6 DEF Applying
<1>3. \A m \in Rng(up[a]) : NoLive(m.changes, e)
  BY DEF Gone
<1>4. Settles(up[a], e, Held(a, e), Absent)
  BY <1>0, <1>2, <1>3, SettlesDead
<1> QED
  BY <1>1, <1>4 DEF Sent

\* The author notes what is seen, unless it is a deletion that was told already.
LEMMA ServerFollowsStep ==
  ASSUME Careful, Typing, Pipes, NEW c \in Clients, Act(c), NEW e \in Elems,
         Seen(e), OthersRemove(e), Upstream(e), Ends(e), Joins(e), Progress(e), Progress(e)', ServerFollows(e)
  PROVE  ServerFollows(e)'
<1> USE DEF handler, history, client
<1> SUFFICES ASSUME NEW a \in Editors[e], session'[a] = "in"
             PROVE  \/ Sent(a, e, Shown(cache[a][e]))'
                    \/ Sent(a, e, Absent)' /\ scene'[a][e] = Absent
  BY DEF ServerFollows, Absent
<1>0. /\ a \in Clients /\ up[a] \in Seq(Messages) /\ pending[a] \in Changes /\ InFrom(pending[a], a)
      /\ scene[a][e] \in Versions /\ cache[a][e] \in Versions /\ elements[e] \in Versions
  BY EditorFacts, ValueTypes DEF InFrom, Typing
<1>1. ASSUME NEW v, Sent(a, e, v)', v = Shown(cache'[a][e])
      PROVE  Sent(a, e, Shown(cache[a][e]))'
  <2>1. IF Mentions(pending'[a], e) THEN Shown(Outcome(pending'[a], e)) = v
                                    ELSE Settles(up'[a], e, Held(a, e)', v)
    BY <1>1 DEF Sent, Mentions, Outcome
  <2>2. IF Mentions(pending'[a], e) THEN Shown(Outcome(pending'[a], e)) = Shown(cache'[a][e])
                                    ELSE Settles(up'[a], e, Held(a, e)', Shown(cache'[a][e]))
    BY <1>1, <2>1
  <2> QED
    BY <2>2 DEF Sent, Mentions, Outcome, Shown
<1>2. ASSUME session[a] = "in", ~(c = a /\ HandleChange(c)),
             scene'[a][e] = scene[a][e] \/ scene'[a][e] = Shown(scene[a][e])
                \/ (scene[a][e] = Absent => cache[a][e] = Absent),
             cache'[a][e] = cache[a][e]
      PROVE  \/ Sent(a, e, Shown(cache[a][e]))'
             \/ Sent(a, e, Absent)' /\ scene'[a][e] = Absent
  <2>1. CASE Sent(a, e, Shown(cache[a][e]))
    <3>0. PICK v : v = Shown(cache[a][e])
      OBVIOUS
    <3>1. Sent(a, e, v) /\ v = Shown(cache'[a][e])
      BY <1>2, <2>1, <3>0
    <3>2. Sent(a, e, v)'
      BY <1>2, <3>1, SentStep
    <3> QED
      BY <1>1, <3>1, <3>2
  <2>2. CASE Sent(a, e, Absent) /\ scene[a][e] = Absent
    <3>v. PICK v : v = Absent
      OBVIOUS
    <3>0. Sent(a, e, v) /\ v = Absent
      BY <2>2, <3>v
    <3>1. Sent(a, e, v)'
      BY <1>2, <3>0, SentStep
    <3>2. scene'[a][e] = Absent \/ v = Shown(cache'[a][e])
      BY <1>2, <2>2, <3>0, VersionFacts
    <3>3. Sent(a, e, Absent)'
      BY <3>0, <3>1 DEF Sent, Absent, Mentions, Outcome
    <3> QED
      BY <1>1, <3>1, <3>2, <3>3
  <2> QED
    BY <1>2, <2>1, <2>2 DEF ServerFollows
<1>3. CASE SeesSame(a, e) /\ ~(c = a /\ HandleChange(c))
  BY <1>2, <1>3 DEF SeesSame
<1>4. CASE Drew(a, e) /\ ~(c = a /\ HandleChange(c))
  <2>1. scene[a][e] = Absent => cache[a][e] = Absent
    BY <1>4, VersionFacts DEF Drew, Seen
  <2> QED
    BY <1>2, <1>4, <2>1 DEF Drew
<1>5. CASE c = a /\ HandleChange(c)
  <2> DEFINE ch == Accumulated(pending[a], Delta(a))
             h == Held(a, e)
             k == Held(a, e)'
  <2>1. /\ session[a] = "in" /\ pending'[a] = ch /\ scene' = scene /\ up' = up /\ elements' = elements
        /\ stage' = stage /\ work' = work
        /\ cache'[a][e] = IF scene[a][e] # Absent THEN scene[a][e] ELSE cache[a][e]
    BY <1>5, ChangeEffect
  <2>2. /\ ch \in Changes
        /\ ch.added[e] = IF pending[a].added[e] # Absent THEN pending[a].added[e]
                         ELSE IF cache[a][e] = Absent THEN scene[a][e] ELSE Absent
        /\ ch.updated[e] = IF cache[a][e] # Absent /\ scene[a][e] # cache[a][e] /\ scene[a][e] # Absent
                             THEN scene[a][e] ELSE pending[a].updated[e]
        /\ e \in ch.deleted <=> e \in pending[a].deleted \/ (cache[a][e] # Absent /\ scene[a][e] = Absent)
    BY <1>0, NotedAt
  <2>3. k = h
    BY <2>1 DEF Held, Mentions, Outcome
  <2> HIDE DEF ch, h, k
  <2>4. \A v : Sent(a, e, v)' <=> IF Mentions(ch, e) THEN Shown(Outcome(ch, e)) = v
                                                     ELSE Settles(up[a], e, h, v)
    BY <2>1, <2>3 DEF Sent, Mentions, Outcome, k
  <2>5. \A v : Sent(a, e, v) <=> IF Mentions(pending[a], e) THEN Shown(Outcome(pending[a], e)) = v
                                                            ELSE Settles(up[a], e, h, v)
    BY DEF Sent, h
  <2>6. ASSUME NEW v, Mentions(ch, e), Shown(Outcome(ch, e)) = v
        PROVE  Sent(a, e, v)'
    BY <2>4, <2>6
  <2>7. ASSUME NEW v, Mentions(ch, e) <=> Mentions(pending[a], e), Outcome(ch, e) = Outcome(pending[a], e),
               Sent(a, e, v)
        PROVE  Sent(a, e, v)'
    BY <2>4, <2>5, <2>7
  <2>8. CASE scene[a][e] = Absent
    <3>1. cache'[a][e] = cache[a][e] /\ scene'[a][e] = Absent
      BY <2>1, <2>8
    <3>2. CASE cache[a][e] # Absent
      <4>1. Mentions(ch, e) /\ Outcome(ch, e) = Absent
        BY <2>2, <2>8, <3>2 DEF Mentions, Outcome
      <4>v. PICK v : v = Absent
        OBVIOUS
      <4>2. Sent(a, e, v)'
        BY <2>6, <4>1, <4>v, VersionFacts
      <4> QED
        BY <3>1, <4>2, <4>v DEF Sent, Mentions, Outcome, Absent
    <3>3. CASE cache[a][e] = Absent
      <4>1. (Mentions(ch, e) <=> Mentions(pending[a], e)) /\ Outcome(ch, e) = Outcome(pending[a], e)
        BY <2>2, <2>8, <3>3 DEF Mentions, Outcome
      <4>v. PICK v : v = Absent
        OBVIOUS
      <4>2. Sent(a, e, v)
        BY <2>1, <3>3, <4>v, VersionFacts DEF ServerFollows
      <4>3. Sent(a, e, v)'
        BY <2>7, <4>1, <4>2
      <4> QED
        BY <3>1, <3>3, <4>3, <4>v, <1>1, VersionFacts
    <3> QED
      BY <3>2, <3>3
  <2>9. CASE scene[a][e] # Absent
    <3>1. cache'[a][e] = scene[a][e] /\ Sent(a, e, Shown(cache[a][e]))
      BY <2>1, <2>9 DEF ServerFollows
    <3>v. PICK v : v = Shown(scene[a][e])
      OBVIOUS
    <3>2. CASE ch.added[e] = pending[a].added[e] /\ ch.updated[e] = pending[a].updated[e]
               /\ (e \in ch.deleted <=> e \in pending[a].deleted) /\ scene[a][e] = cache[a][e]
      <4>1. (Mentions(ch, e) <=> Mentions(pending[a], e)) /\ Outcome(ch, e) = Outcome(pending[a], e)
        BY <3>2 DEF Mentions, Outcome
      <4> QED
        BY <2>7, <3>1, <3>2, <3>v, <4>1, <1>1
    <3>3. CASE scene[a][e] # cache[a][e]
      <4>1. Mentions(ch, e)
        BY <2>2, <2>9, <3>3 DEF Mentions
      <4>2. Shown(Outcome(ch, e)) = v
        <5>1. /\ Sane(pending[a], e) /\ (Fatal(pending[a], e) => scene[a][e].deleted)
              /\ cache[a][e] = Absent => NoLive(pending[a], e)
          BY <1>0, <2>1 DEF Upstream
        <5>2. CASE scene[a][e].deleted
          <6>1. Outcome(ch, e).deleted
            BY <2>2, <2>9, <3>3, <5>1, <5>2, VersionFacts DEF Outcome, NoLive
          <6> QED
            BY <1>0, <2>2, <3>v, <5>2, <6>1, ChangeFacts, VersionFacts
        <5>3. CASE ~scene[a][e].deleted
          <6>1. ~Fatal(pending[a], e)
            BY <5>1, <5>3
          <6>2. cache[a][e] = Absent => pending[a].added[e] = Absent /\ pending[a].updated[e] = Absent
            BY <5>1, <6>1 DEF Fatal, NoLive, Dead
          <6>3. Outcome(ch, e) = scene[a][e]
            BY <2>2, <2>9, <3>3, <6>1, <6>2 DEF Outcome, Fatal
          <6> QED
            BY <3>v, <6>3
        <5> QED
          BY <5>2, <5>3
      <4> QED
        BY <2>6, <3>1, <3>v, <4>1, <4>2, <1>1
    <3> QED
      BY <2>2, <2>9, <3>2, <3>3
  <2> QED
    BY <2>8, <2>9
<1>6. ASSUME NEW ch \in Changes, c = a, Receive(c), Loaded(a, e, ch),
             UNCHANGED <<pending, up, channel, elements, members, handler, history>>
      PROVE  Sent(a, e, Shown(cache[a][e]))'
  <2>1. /\ pending'[a] = NoChanges /\ up'[a] = <<>> /\ stage'[a] = "idle" /\ elements' = elements
        /\ cache'[a][e] = ch.added[e] /\ Shown(ch.added[e]) = Shown(elements[e])
    BY <1>0, <1>6 DEF Loaded, Joins
  <2>2. Held(a, e)' = elements[e]
    BY <2>1 DEF Held, Applying
  <2>3. ~Mentions(pending'[a], e)
    BY <2>1, NoChangesFacts
  <2>4. PICK v : v = Shown(cache'[a][e])
    OBVIOUS
  <2>5. Settles(up'[a], e, Held(a, e)', v)
    <3>1. Settles(<<>>, e, elements[e], v)
      BY <2>1, <2>4, SettlesEmpty
    <3> QED
      BY <2>1, <2>2, <3>1
  <2>6. Sent(a, e, v)'
    BY <2>3, <2>5 DEF Sent, Mentions, Outcome
  <2> QED
    BY <1>1, <2>4, <2>6
<1>7. ASSUME NEW ch \in Changes, c = a, Receive(c), Heard(a, e, ch),
             UNCHANGED <<pending, up, channel, elements, members, handler, history>>
      PROVE  \/ Sent(a, e, Shown(cache[a][e]))'
             \/ Sent(a, e, Absent)' /\ scene'[a][e] = Absent
  <2>1. ~HandleChange(c) /\ session[a] = "in" /\ session'[a] = "in"
    <3>1. ~HandleChange(c)
      BY <1>7, ReceiveOnly
    <3> QED
      BY <1>7, <3>1 DEF Heard
  <2>2. CASE ~Mentions(ch, e)
    BY <1>2, <1>7, <2>1, <2>2 DEF Heard
  <2>3. CASE Mentions(ch, e)
    <3>1. Removes(ch, e) /\ Fatal(ch, e) /\ Outcome(ch, e) = Absent
      BY <1>0, <1>7, <2>3, ChangeFacts DEF Heard, OthersRemove
    <3>2. Gone(e) /\ cache'[a][e] = Absent
      BY <1>0, <1>7, <2>3, <3>1 DEF Heard, Ends
    <3>v. PICK v : v = Absent
      OBVIOUS
    <3>3. Sent(a, e, v) /\ v = Shown(cache'[a][e])
      BY <3>2, <3>v, GoneSent, VersionFacts
    <3>4. Sent(a, e, v)'
      BY <2>1, <3>3, SentStep
    <3> QED
      BY <1>1, <3>3, <3>4
  <2> QED
    BY <2>2, <2>3
<1> QED
  BY <1>0, <1>3, <1>4, <1>5, <1>6, <1>7, EyesStep DEF Noted

\* Deletions of what is not shown change nothing.
LEMMA SettlesQuiet ==
  ASSUME NEW s \in Seq(Messages), NEW e \in Elems, NEW x, NEW v, Shown(x) = v,
         \A m \in Rng(s) : Removes(m.changes, e) /\ (e \in m.changes.deleted => v = Absent)
  PROVE  Settles(s, e, x, v)
<1>1. \A i \in 1 .. Len(s) : s[i] \in Rng(s) /\ s[i].changes \in Changes
  <2>1. \A i \in 1 .. Len(s) : s[i] \in Rng(s) /\ s[i] \in Messages
    BY DEF Rng
  <2> QED
    BY <2>1 DEF Messages
<1>2. \A i \in 1 .. Len(s) : Mentions(s[i].changes, e) => Shown(Outcome(s[i].changes, e)) = v
  BY <1>1, ChangeFacts, VersionFacts
<1> QED
  BY <1>2 DEF Settles

\* What e looks like in the room, unless its author's message is being handled.
LEMMA RoomUnlessBusy ==
  ASSUME Careful, Typing, Pipes, NEW c \in Clients, Act(c), NEW e \in Elems,
         OthersRemove(e), Ends(e), NEW d \in Clients, ~Busy(d, e)
  PROVE  Shown(elements'[e]) = Shown(elements[e])
<1>1. CASE c \notin Editors[e]
  BY <1>1, RoomKept
<1>2. CASE c \in Editors[e] /\ (AddElements(c) \/ UpdateElements(c) \/ DeleteElements(c))
  <2>1. stage[c] \in Applying
    BY <1>2, StoreEffect DEF Applying
  <2>2. ~Mentions(work[c].changes, e)
    BY <1>2, <2>1 DEF Busy
  <2> QED
    BY <1>2, <2>2, StoreEffect DEF Mentions
<1> QED
  BY <1>1, <1>2, RoomStep

\* The author's message reaches everybody in the room, after it reached the room.
LEMMA BusyStep ==
  ASSUME Careful, Typing, Pipes, NEW c \in Clients, Act(c), NEW e \in Elems,
         Progress(e), NEW d \in Clients \ Editors[e], session[d] = "in", Busy(d, e)
  PROVE  Busy(d, e)' \/ Comes(d, e, Shown(elements[e]))'
<1> USE DEF handler, history, client
<1>1. PICK a \in Editors[e] :
        /\ Mentions(work[a].changes, e)
        /\ stage[a] \in Applying \/ (stage[a] = "broadcast" /\ d \in todo[a])
  BY DEF Busy
<1>0. a \in Clients /\ a # d /\ work[a].changes \in Changes /\ d \in members
  BY EditorFacts, ValueTypes DEF Pipes, Pipe
<1>2. ASSUME work'[a] = work[a],
             stage'[a] \in Applying \/ (stage'[a] = "broadcast" /\ d \in todo'[a])
      PROVE  Busy(d, e)'
  <2>1. Mentions(work'[a].changes, e)
    BY <1>1, <1>2
  <2> QED
    BY <1>2, <2>1 DEF Busy, Mentions
<1>3. CASE a # c
  BY <1>0, <1>1, <1>2, <1>3, Alone DEF Still
<1>4. CASE a = c /\ (AddElements(c) \/ UpdateElements(c))
  <2>1. work'[c] = work[c] /\ stage'[c] \in {"update", "delete", "broadcast"}
        /\ (stage'[c] = "broadcast" => todo'[c] = Clients \ {c})
    BY <1>4, StoreEffect
  <2> QED
    BY <1>0, <1>2, <1>4, <2>1 DEF Applying
<1>5. CASE a = c /\ DeleteElements(c)
  <2>1. work'[c] = work[c] /\ stage'[c] \in {"update", "delete", "broadcast"}
        /\ (stage'[c] = "broadcast" => todo'[c] = Clients \ {c})
    BY <1>5, StoreEffect
  <2> QED
    BY <1>0, <1>2, <1>5, <2>1 DEF Applying
<1>6. ASSUME a = c, NEW x \in Clients, BroadcastVisits(c, x)
      PROVE  Busy(d, e)' \/ Comes(d, e, Shown(elements[e]))'
  <2>1. /\ stage[c] = "broadcast" /\ todo'[c] = todo[c] \ {x}
        /\ work[c] \in Messages /\ channel'[x] = IF x \in members /\ session[x] # "out" THEN <<work[c]>> ELSE <<>>
        /\ UNCHANGED <<elements, stage, work>>
    BY <1>6, VisitEffect
  <2>2. CASE x # d
    <3>1. stage'[a] = "broadcast" /\ d \in todo'[a]
      BY <1>1, <1>6, <2>1, <2>2 DEF Applying
    <3> QED
      BY <1>2, <2>1, <3>1
  <2>3. CASE x = d
    <3>1. channel'[d] = <<work[c]>>
      BY <1>0, <2>1, <2>3
    <3>2. channel'[d] # <<>> /\ channel'[d][1] = work[c]
      BY <3>1
    <3>3. Shown(elements'[e]) = Shown(Outcome(work[c].changes, e)) /\ Mentions(work[c].changes, e)
      BY <1>1, <1>6, <2>1 DEF Progress
    <3>4. /\ Mentions(channel'[d][1].changes, e)
          /\ Shown(Outcome(channel'[d][1].changes, e)) = Shown(elements'[e])
      BY <3>2, <3>3
    <3> QED
      BY <3>2, <3>4 DEF Comes, Mentions, Outcome, Shown, Absent
  <2> QED
    BY <2>2, <2>3
<1>7. CASE a = c /\ (ReadMessage(c) \/ ReadElements(c) \/ SendRoomState(c) \/ BroadcastEnds(c))
  <2>1. stage[c] \notin Applying /\ (stage[c] = "broadcast" => todo[c] = {})
    BY <1>7, ReadEffect, ReadElementsEffect, SendRoomStateEffect, EndEffect DEF Applying
  <2> QED
    BY <1>1, <1>7, <2>1
<1>8. CASE a = c /\ ~ReadPump(c)
  <2>1. stage' = stage /\ work' = work /\ todo' = todo
    BY <1>8 DEF Act, Edit, JoinRoom, LeaveRoom, HandleChange, FlushChanges, Receive, WritePump
  <2> QED
    BY <1>1, <1>2, <2>1
<1> QED
  BY <1>3, <1>4, <1>5, <1>6, <1>7, <1>8 DEF ReadPump

\* What is on its way to d comes to the same, until the next broadcast.
LEMMA ComesStep ==
  ASSUME Careful, Typing, Pipes, NEW c \in Clients, Act(c), NEW e \in Elems,
         OthersRemove(e), Ends(e), NEW d \in Clients \ Editors[e], session[d] = "in", session'[d] = "in",
         ~Busy(d, e), Comes(d, e, Shown(elements[e]))
  PROVE  Comes(d, e, Shown(elements[e]))'
<1> USE DEF handler, history, client
<1>v. PICK v : v = Shown(elements[e])
  OBVIOUS
<1>0. /\ v = Shown(elements'[e]) /\ Pipe(d) /\ Pipe(c)
      /\ scene[d][e] \in Versions /\ elements[e] \in Versions /\ wire[d] \in Seq(Singles)
      /\ Frames(wire[d]) \in Seq(Messages)
  <2>1. v = Shown(elements'[e])
    BY <1>v, RoomUnlessBusy
  <2>2. wire[d] \in Seq(Singles)
    BY DEF Typing
  <2> QED
    BY <2>1, <2>2, FramesFacts, ValueTypes DEF Pipes
<1>1. IF channel[d] # <<>> /\ Mentions(channel[d][1].changes, e)
        THEN Shown(Outcome(channel[d][1].changes, e)) = v
        ELSE Settles(Frames(wire[d]), e, scene[d][e], v)
  BY <1>v DEF Comes
<1>2. ASSUME IF channel'[d] # <<>> /\ Mentions(channel'[d][1].changes, e)
               THEN Shown(Outcome(channel'[d][1].changes, e)) = v
               ELSE Settles(Frames(wire'[d]), e, scene'[d][e], v)
      PROVE  Comes(d, e, Shown(elements[e]))'
  <2>1. IF channel'[d] # <<>> /\ Mentions(channel'[d][1].changes, e)
          THEN Shown(Outcome(channel'[d][1].changes, e)) = Shown(elements'[e])
          ELSE Settles(Frames(wire'[d]), e, scene'[d][e], Shown(elements'[e]))
    BY <1>0, <1>2
  <2> QED
    BY <2>1 DEF Comes, Mentions, Outcome, Shown, Absent
<1>3. ASSUME channel'[d] = channel[d], wire'[d] = wire[d], scene'[d][e] = scene[d][e]
      PROVE  Comes(d, e, Shown(elements[e]))'
  BY <1>1, <1>2, <1>3
<1>4. CASE BroadcastVisits(c, d)
  <2>1. /\ stage[c] = "broadcast" /\ d \in todo[c] /\ channel[d] = <<>>
        /\ channel'[d] = <<work[c]>> \/ channel'[d] = <<>>
        /\ wire' = wire /\ scene' = scene
    BY <1>4, VisitEffect
  <2>2. InFrom(work[c].changes, c) /\ work[c].changes \in Changes
    BY <2>1, ValueTypes DEF InFrom, Updating
  <2>3. Mentions(work[c].changes, e) => Shown(Outcome(work[c].changes, e)) = v
    <3>1. ASSUME Mentions(work[c].changes, e)
          PROVE  c \notin Editors[e]
      BY <2>1, <3>1 DEF Busy
    <3>2. ASSUME Mentions(work[c].changes, e)
          PROVE  Removes(work[c].changes, e) /\ Fatal(work[c].changes, e) /\ Outcome(work[c].changes, e) = Absent
      BY <2>2, <3>1, <3>2, ChangeFacts DEF OthersRemove
    <3>3. ASSUME Mentions(work[c].changes, e)
          PROVE  elements[e].deleted
      BY <2>2, <3>1, <3>2, <3>3 DEF Ends, Gone
    <3> QED
      BY <1>0, <1>v, <3>2, <3>3, VersionFacts
  <2>4. channel'[d] # <<>> => channel'[d][1] = work[c]
    BY <2>1
  <2> QED
    BY <1>1, <1>2, <2>1, <2>3, <2>4
<1>5. CASE d # c
  BY <1>3, <1>4, <1>5, Alone DEF Still
<1>6. CASE d = c /\ WritePump(c)
  <2>1. PICK m \in Messages :
           /\ channel[c] = <<m>> /\ channel'[c] = <<>>
           /\ Frames(wire'[c]) = Append(Frames(wire[c]), m)
           /\ scene' = scene
    BY <1>6, PumpEffect
  <2>2. channel[c] # <<>> /\ channel[c][1] = m
    BY <2>1
  <2>3. Settles(Append(Frames(wire[c]), m), e, scene[c][e], v)
    <3>1. CASE Mentions(m.changes, e)
      <4>1. Shown(Outcome(m.changes, e)) = v
        BY <1>1, <1>6, <2>2, <3>1
      <4> QED
        BY <1>0, <1>6, <3>1, <4>1, SettlesAppend
    <3>2. CASE ~Mentions(m.changes, e)
      <4>1. Settles(Frames(wire[c]), e, scene[c][e], v)
        BY <1>1, <1>6, <2>2, <3>2
      <4> QED
        BY <1>0, <1>6, <3>2, <4>1, SettlesAppend
    <3> QED
      BY <3>1, <3>2
  <2> QED
    BY <1>2, <1>6, <2>1, <2>3
<1>7. CASE d = c /\ Receive(c)
  <2>1. PICK m \in Messages :
           /\ Frames(wire[c]) # <<>>
           /\ m = Head(Frames(wire[c])) /\ m \in Down(c)
           /\ Frames(wire'[c]) = Tail(Frames(wire[c]))
           /\ \/ IsState(m)
              \/ scene'[c][e] = IF Mentions(m.changes, e) THEN Outcome(m.changes, e) ELSE Shown(scene[c][e])
           /\ channel' = channel
    BY <1>7, ReceiveEffect
  <2>2. ~IsState(m)
    BY <1>0, <1>7, <2>1 DEF Pipe
  <2>3. Settles(Frames(wire[c]), e, scene[c][e], v) => Settles(Frames(wire'[c]), e, scene'[c][e], v)
    <3>1. ASSUME Settles(Frames(wire[c]), e, scene[c][e], v)
          PROVE  /\ Mentions(m.changes, e) => Settles(Frames(wire'[c]), e, Outcome(m.changes, e), v)
                 /\ ~Mentions(m.changes, e) => Settles(Frames(wire'[c]), e, scene[c][e], v)
      BY <1>0, <1>7, <2>1, <3>1, SettlesTail
    <3>2. Shown(Shown(scene[c][e])) = Shown(scene[c][e])
      BY <1>0, <1>7, VersionFacts
    <3>3. Settles(Frames(wire'[c]), e, scene[c][e], v) => Settles(Frames(wire'[c]), e, Shown(scene[c][e]), v)
      BY <3>2, SettlesAs
    <3> QED
      BY <2>1, <2>2, <3>1, <3>3
  <2> QED
    BY <1>1, <1>2, <1>7, <2>1, <2>3
<1>8. CASE d = c /\ ReadPump(c)
  <2>1. ~SendRoomState(c)
    BY <1>0, <1>8, SendRoomStateEffect DEF Pipe
  <2>2. ASSUME NEW x \in Clients, BroadcastVisits(c, x)
        PROVE  channel'[c] = channel[c] /\ wire' = wire /\ scene' = scene
    <3>0. /\ x \in todo[c]
          /\ \A y \in Clients : y # x => channel'[y] = channel[y]
      BY <2>2 DEF BroadcastVisits, SendTo, Typing
    <3>2. wire' = wire /\ scene' = scene
      BY <2>2 DEF BroadcastVisits
    <3>1. x # c
      BY <1>0, <3>0 DEF Pipe
    <3> QED
      BY <3>0, <3>1, <3>2
  <2>3. channel'[c] = channel[c] /\ wire' = wire /\ scene' = scene
    BY <1>8, <2>1, <2>2 DEF ReadPump, ReadMessage, ReadElements, AddElements, UpdateElements, DeleteElements,
                            BroadcastEnds
  <2> QED
    BY <1>3, <1>8, <2>3
<1>9. CASE d = c /\ (HandleChange(c) \/ FlushChanges(c))
  BY <1>3, <1>9, ChangeEffect, FlushEffect
<1>10. ASSUME d = c, NEW f \in Elems, Edit(c, f)
       PROVE  Comes(d, e, Shown(elements[e]))'
  <2>1. f # e
    BY <1>10, EditFacts
  <2>2. PICK u \in Versions : scene' = [scene EXCEPT ![c] = [scene[c] EXCEPT ![f] = u]]
    BY <1>10, EditFacts
  <2>3. scene'[c][e] = scene[c][e]
    BY <2>1, <2>2 DEF Typing, Tables
  <2>4. channel' = channel /\ wire' = wire
    BY <1>10, EditFacts
  <2> QED
    BY <1>3, <1>10, <2>3, <2>4
<1>11. CASE d = c /\ (JoinRoom(c) \/ LeaveRoom(c))
  BY <1>11, JoinEffect, LeaveEffect
<1> QED
  BY <1>5, <1>6, <1>7, <1>8, <1>9, <1>10, <1>11 DEF Act

\* Who has just joined has the drawing, and nothing that comes changes it.
LEMMA LoadedFollows ==
  ASSUME Careful, Typing, Pipes, Pipes', NEW c \in Clients, Act(c), NEW e \in Elems,
         \A f \in Elems : Joins(f), JoinsAlone, c \notin Editors[e], Receive(c),
         NEW ch \in Changes, Loaded(c, e, ch), elements' = elements, channel' = channel
  PROVE  Comes(c, e, Shown(elements[e]))'
<1> USE DEF handler, history, client
<1>v. PICK v : v = Shown(elements[e])
  OBVIOUS
<1>0. /\ Frames(wire[c]) \in Seq(Messages) /\ Frames(wire[c]) # <<>>
      /\ Frames(wire'[c]) = Tail(Frames(wire[c])) /\ elements[e] \in Versions
      /\ channel[c] \in {<<>>} \cup Singles
  BY ReceiveEffect, ValueTypes DEF Typing
<1>1. Rng(Frames(wire'[c])) \subseteq Rng(Frames(wire[c])) /\ Frames(wire'[c]) \in Seq(Messages)
  BY <1>0, RngFacts, TailFacts
<1>2. \A m \in Rng(channel[c]) \cup Rng(Frames(wire'[c])) : ~IsState(m) /\ m \in Down(c) /\ m.changes \in Changes
  <2>1. session'[c] # "joining"
    BY DEF Loaded
  <2>2. \A m \in Down(c)' : ~IsState(m)
    BY <2>1 DEF Pipes, Pipe, IsState
  <2>3. Down(c)' = Rng(channel[c]) \cup Rng(Frames(wire'[c]))
    BY DEF Down
  <2>4. \A m \in Down(c) : m.changes \in Changes
    BY FlowTypes, MessageFacts
  <2> QED
    BY <1>1, <2>2, <2>3, <2>4 DEF Down
<1>3. \A m \in Rng(channel[c]) \cup Rng(Frames(wire'[c])) :
        Removes(m.changes, e) /\ (e \in m.changes.deleted => v = Absent)
  <2>1. \A m \in Rng(channel[c]) \cup Rng(Frames(wire'[c])) : InTo(m.changes, c)
    BY <1>2 DEF InTo
  <2>2. session[c] = "joining"
    BY DEF Loaded
  <2>3. elements[e].deleted => v = Absent
    BY <1>0, <1>v, VersionFacts
  <2> QED
    BY <1>2, <2>1, <2>2, <2>3 DEF Joins
<1>4. Shown(scene'[c][e]) = v
  <2>1. Shown(ch.added[e]) = Shown(elements[e])
    BY DEF Loaded, Joins
  <2>2. CASE ch.added # Blank
    BY <1>v, <2>1, <2>2 DEF Loaded
  <2>3. CASE ch.added = Blank
    <3>1. scene[c][e] = Absent /\ elements[e].deleted
      BY <2>3, LoadedBlank DEF Loaded
    <3> QED
      BY <1>0, <1>v, <2>3, <3>1, VersionFacts DEF Loaded
  <2> QED
    BY <2>2, <2>3
<1>5. Settles(Frames(wire'[c]), e, scene'[c][e], v)
  BY <1>1, <1>3, <1>4, SettlesQuiet
<1>6. channel[c] # <<>> /\ Mentions(channel[c][1].changes, e) => Shown(Outcome(channel[c][1].changes, e)) = v
  <2> SUFFICES ASSUME channel[c] # <<>>, Mentions(channel[c][1].changes, e)
               PROVE  Shown(Outcome(channel[c][1].changes, e)) = v
    OBVIOUS
  <2>1. PICK m \in Messages : channel[c] = <<m>>
    BY <1>0 DEF Singles
  <2>2. Rng(channel[c]) = {m} /\ channel[c][1] = m
    BY <2>1, SingleRng
  <2>3. Removes(m.changes, e) /\ (e \in m.changes.deleted => v = Absent) /\ m.changes \in Changes
    BY <1>2, <1>3, <2>2
  <2> QED
    BY <2>2, <2>3, ChangeFacts, VersionFacts
<1>7. IF channel'[c] # <<>> /\ Mentions(channel'[c][1].changes, e)
        THEN Shown(Outcome(channel'[c][1].changes, e)) = Shown(elements'[e])
        ELSE Settles(Frames(wire'[c]), e, scene'[c][e], Shown(elements'[e]))
  BY <1>v, <1>5, <1>6
<1> QED
  BY <1>7 DEF Comes, Mentions, Outcome, Shown, Absent

\* A broadcast brings what the room has.
LEMMA OthersFollowStep ==
  ASSUME Careful, Typing, Pipes, Pipes', NEW c \in Clients, Act(c), NEW e \in Elems,
         OthersRemove(e), Ends(e), \A f \in Elems : Joins(f), JoinsAlone, Progress(e), OthersFollow(e)
  PROVE  OthersFollow(e)'
<1> USE DEF handler, history, client
<1> SUFFICES ASSUME NEW d \in Clients \ Editors[e], session'[d] = "in"
             PROVE  Busy(d, e)' \/ Comes(d, e, Shown(elements[e]))'
  BY DEF OthersFollow
<1>1. CASE session[d] = "in"
  BY <1>1, BusyStep, ComesStep DEF OthersFollow
<1>2. CASE session[d] # "in"
  <2>1. PICK ch \in Changes : Loaded(c, e, ch) \/ Heard(c, e, ch)
    BY <1>2, EyesStep DEF SeesSame, Drew, Noted
  <2>2. d = c /\ Receive(c) /\ elements' = elements /\ channel' = channel
    BY <1>2, EyesStep DEF SeesSame, Drew, Noted
  <2>3. Loaded(c, e, ch)
    BY <1>2, <2>1, <2>2 DEF Heard
  <2> QED
    BY <2>2, <2>3, LoadedFollows
<1> QED
  BY <1>1, <1>2

-----------------------------------------------------------------------------
(* Joining. *)

\* Only joinRoom begins a join, and only the drawing ends it.
LEMMA JoinStarts ==
  ASSUME Careful, Typing, NEW c \in Clients, Act(c), NEW d \in Clients, session'[d] = "joining"
  PROVE  \/ session[d] = "joining" /\ ~(d = c /\ Receive(c) /\ session'[c] = "in")
         \/ d = c /\ JoinRoom(c)
<1> USE DEF handler, history, client
<1>1. CASE d # c
  BY <1>1, Alone DEF Still
<1>2. CASE d = c /\ LeaveRoom(c)
  BY <1>2, LeaveEffect
<1>3. CASE d = c /\ Receive(c)
  BY <1>3, ReceiveEffect
<1>4. CASE d = c /\ ~JoinRoom(c) /\ ~LeaveRoom(c) /\ ~Receive(c)
  <2>1. session' = session
    BY <1>4 DEF Act, Edit, HandleChange, FlushChanges, WritePump, ReadPump, ReadMessage, ReadElements,
         SendRoomState, AddElements, UpdateElements, DeleteElements, BroadcastVisits, BroadcastEnds
  <2> QED
    BY <1>4, <2>1
<1> QED
  BY <1>1, <1>2, <1>3, <1>4

\* When nothing is on its way, there are no changes anywhere.
LEMMA NothingFlows ==
  ASSUME Quiet, NEW x \in Clients
  PROVE  /\ \A ch : InFrom(ch, x) => ch = NoChanges
         /\ \A ch : ~InTo(ch, x) /\ ~InState(ch, x)
         /\ pending[x] = NoChanges /\ up[x] = <<>> /\ channel[x] = <<>> /\ wire[x] = <<>> /\ stage[x] = "idle"
         /\ session[x] = "out" \/ (session[x] = "in" /\ Noticed(x))
<1>1. pending[x] = NoChanges /\ up[x] = <<>> /\ channel[x] = <<>> /\ wire[x] = <<>> /\ stage[x] = "idle"
  BY DEF Quiet, NoTraffic
<1>2. Down(x) = {} /\ Rng(up[x]) = {}
  BY <1>1, EmptyDown DEF Down
<1> QED
  BY <1>1, <1>2 DEF InFrom, InTo, InState, Updating, Quiet

\* When nothing is on its way, everybody in the room sees e as the server has it.
LEMMA QuietConverges ==
  ASSUME Careful, Typing, Quiet, NEW e \in Elems, ServerFollows(e), OthersFollow(e),
         NEW x \in Clients, session[x] = "in"
  PROVE  Shown(scene[x][e]) = Shown(elements[e])
<1>0. /\ pending[x] = NoChanges /\ up[x] = <<>> /\ channel[x] = <<>> /\ wire[x] = <<>> /\ stage[x] = "idle"
      /\ Noticed(x) /\ scene[x][e] \in Versions /\ cache[x][e] \in Versions /\ elements[e] \in Versions
  BY NothingFlows, ValueTypes
<1>1. IF scene[x][e] = Absent THEN cache[x][e].deleted \/ elements[e].deleted ELSE scene[x][e] = cache[x][e]
  BY <1>0 DEF Noticed
<1>2. CASE x \in Editors[e]
  <2>1. \A v : Sent(x, e, v) <=> Shown(elements[e]) = v
    <3>1. Held(x, e) = elements[e] /\ ~Mentions(pending[x], e)
      BY <1>0, NoChangesFacts DEF Held, Applying
    <3> QED
      BY <1>0, <3>1, SettlesEmpty DEF Sent
  <2>2. \/ Shown(elements[e]) = Shown(cache[x][e])
        \/ Shown(elements[e]) = Absent /\ scene[x][e] = Absent
    BY <1>2, <2>1 DEF ServerFollows
  <2> QED
    BY <1>0, <1>1, <2>2, VersionFacts
<1>3. CASE x \notin Editors[e]
  <2>1. ~Busy(x, e)
    <3>1. \A a \in Editors[e] : stage[a] = "idle"
      BY EditorFacts, NothingFlows
    <3> QED
      BY <3>1 DEF Busy, Applying
  <2>2. Comes(x, e, Shown(elements[e]))
    BY <1>3, <2>1 DEF OthersFollow
  <2>3. Settles(<<>>, e, scene[x][e], Shown(elements[e]))
    BY <1>0, <2>2, EmptyDown DEF Comes
  <2> QED
    BY <2>3, SettlesEmpty
<1> QED
  BY <1>2, <1>3

\* While somebody joins the room stays as it is.
LEMMA JoinsKeepRoom ==
  ASSUME Careful, Typing, Pipes, NEW c \in Clients, Act(c), NEW e \in Elems, Joins(e),
         NEW d \in Clients, session[d] = "joining"
  PROVE  Shown(elements'[e]) = Shown(elements[e])
<1>1. CASE AddElements(c) \/ UpdateElements(c) \/ DeleteElements(c)
  <2>1. InFrom(work[c].changes, c) /\ work[c].changes \in Changes /\ elements[e] \in Versions
    BY <1>1, StoreEffect, ValueTypes DEF InFrom, Updating
  <2>2. Removes(work[c].changes, e) /\ (e \in work[c].changes.deleted => elements[e].deleted)
    BY <2>1 DEF Joins
  <2>3. elements'[e] = elements[e] \/ (e \in work[c].changes.deleted /\ elements'[e] = Absent)
    BY <1>1, <2>2, StoreEffect DEF Removes
  <2> QED
    BY <2>1, <2>2, <2>3, VersionFacts
<1> QED
  BY <1>1, RoomStep

\* Since nobody edits, all keep what they have while somebody joins.
LEMMA JoinsStep ==
  ASSUME Careful, Typing, Typing', Pipes, NEW c \in Clients, Act(c), NEW e \in Elems,
         \A f \in Elems : Joins(f), JoinsAlone, ServerFollows(e), OthersFollow(e)
  PROVE  Joins(e)'
<1> USE DEF handler, history, client
<1>0. elements[e] \in Versions /\ elements'[e] \in Versions
  BY DEF Typing, Tables
<1>1. ASSUME NEW x \in Clients, NEW ch \in Changes, InState(ch, x)'
      PROVE  ch.updated[e] = Absent /\ e \notin ch.deleted /\ Shown(ch.added[e]) = Shown(elements'[e])
  <2>1. CASE InState(ch, x)
    <3>1. session[x] = "joining"
      BY <2>1 DEF InState, Pipes, Pipe
    <3> QED
      BY <2>1, <3>1, JoinsKeepRoom DEF Joins
  <2>2. CASE elements' = elements /\ ch.added = elements /\ ch.updated = Blank /\ ch.deleted = {}
    BY <2>2, BlankAt
  <2> QED
    BY <1>1, <2>1, <2>2, StateStep
<1>2. ASSUME NEW d \in Clients, session'[d] = "joining"
      PROVE  /\ \A x \in Clients, ch \in Changes : InFrom(ch, x)' \/ InTo(ch, x)' =>
                  Removes(ch, e) /\ (e \in ch.deleted => elements'[e].deleted)
             /\ \A x \in Clients : session'[x] = "in" =>
                  /\ scene'[x][e] = Absent \/ scene'[x][e] = cache'[x][e]
                  /\ Shown(scene'[x][e]) = Shown(elements'[e])
  <2>1. CASE JoinRoom(c)
    <3>1. /\ Quiet /\ session[c] = "out" /\ session'[c] = "joining"
          /\ UNCHANGED <<scene, cache, pending, elements>>
      BY <2>1, JoinEffect
    <3>2. ASSUME NEW x \in Clients, NEW ch \in Changes, InFrom(ch, x)' \/ InTo(ch, x)'
          PROVE  ch = NoChanges
      <4>1. InFrom(ch, x)' => ch = NoChanges
        BY <3>1, FromStep, NothingFlows
      <4>2. ~InTo(ch, x)'
        BY <3>1, ToStep, NothingFlows
      <4> QED
        BY <3>2, <4>1, <4>2
    <3>3. ASSUME NEW x \in Clients, session'[x] = "in"
          PROVE  /\ scene'[x][e] = Absent \/ scene'[x][e] = cache'[x][e]
                 /\ Shown(scene'[x][e]) = Shown(elements'[e])
      <4>1. x # c
        BY <3>1, <3>3
      <4>2. session[x] = "in"
        BY <3>3, <4>1, Alone DEF Still
      <4>3. Noticed(x)
        BY <3>1, <4>2, NothingFlows
      <4> QED
        BY <3>1, <4>2, <4>3, QuietConverges DEF Noticed
    <3>4. Removes(NoChanges, e) /\ e \notin NoChanges.deleted
      BY NoChangesFacts, ChangeFacts DEF Mentions
    <3> QED
      BY <3>2, <3>3, <3>4
  <2>2. CASE ~JoinRoom(c)
    <3>0. session[d] = "joining" /\ ~(d = c /\ Receive(c) /\ session'[c] = "in")
      BY <1>2, <2>2, JoinStarts
    <3>1. Shown(elements'[e]) = Shown(elements[e]) /\ (elements[e].deleted => elements'[e].deleted)
      BY <1>0, <3>0, JoinsKeepRoom, VersionFacts
    <3>2. ASSUME NEW x \in Clients, NEW ch \in Changes, InFrom(ch, x) \/ InTo(ch, x)
          PROVE  Removes(ch, e) /\ (e \in ch.deleted => elements[e].deleted)
      BY <3>0, <3>2 DEF Joins
    <3>3. ASSUME NEW x \in Clients, session[x] = "in"
          PROVE  /\ scene[x][e] = Absent \/ scene[x][e] = cache[x][e]
                 /\ Shown(scene[x][e]) = Shown(elements[e])
      BY <3>0, <3>3 DEF Joins
    <3>4. ASSUME NEW x \in Clients, NEW ch \in Changes, InFrom(ch, x)'
          PROVE  Removes(ch, e) /\ (e \in ch.deleted => elements[e].deleted)
      <4>0. InFrom(pending[x], x) /\ pending[x] \in Changes
        BY ValueTypes DEF InFrom
      <4>1. CASE InFrom(ch, x)
        BY <3>2, <4>1
      <4>2. CASE ch = NoChanges
        BY <4>2, NoChangesFacts, ChangeFacts DEF Mentions
      <4>3. CASE ch = Accumulated(pending[x], Delta(x)) /\ session[x] = "in"
        <5>1. /\ Removes(pending[x], e) /\ (e \in pending[x].deleted => elements[e].deleted)
              /\ scene[x][e] = Absent \/ scene[x][e] = cache[x][e]
              /\ Shown(scene[x][e]) = Shown(elements[e])
          BY <3>2, <3>3, <4>0, <4>3
        <5>2. Removes(ch, e)
          BY <4>3, <5>1, NotedAt DEF Removes
        <5>3. e \in ch.deleted => e \in pending[x].deleted \/ scene[x][e] = Absent
          BY <4>3, NotedAt
        <5>4. scene[x][e] = Absent => elements[e].deleted
          BY <1>0, <5>1, VersionFacts
        <5> QED
          BY <5>1, <5>2, <5>3, <5>4
      <4> QED
        BY <3>4, <4>1, <4>2, <4>3, FromStep
    <3>5. ASSUME NEW x \in Clients, NEW ch \in Changes, InTo(ch, x)'
          PROVE  Removes(ch, e) /\ (e \in ch.deleted => elements[e].deleted)
      BY <3>2, <3>5, ToStep
    <3>6. ASSUME NEW x \in Clients, session'[x] = "in"
          PROVE  /\ scene'[x][e] = Absent \/ scene'[x][e] = cache'[x][e]
                 /\ Shown(scene'[x][e]) = Shown(elements[e])
      <4>0. scene[x][e] \in Versions /\ cache[x][e] \in Versions
        BY ValueTypes
      <4>1. CASE SeesSame(x, e)
        BY <3>3, <3>6, <4>1 DEF SeesSame
      <4>2. CASE Noted(x, e)
        BY <3>3, <3>6, <4>2 DEF Noted
      <4>3. ~Drew(c, e)
        BY <3>0 DEF Drew
      <4>4. ASSUME NEW ch \in Changes, Loaded(c, e, ch), x = c, Receive(c)
            PROVE  FALSE
        <5>1. d = c
          BY <3>0, <4>4 DEF Loaded, JoinsAlone
        <5> QED
          BY <3>0, <3>6, <4>4, <5>1
      <4>5. ASSUME NEW ch \in Changes, Heard(x, e, ch)
            PROVE  /\ scene'[x][e] = Absent \/ scene'[x][e] = cache'[x][e]
                   /\ Shown(scene'[x][e]) = Shown(elements[e])
        <5>1. session[x] = "in" /\ InTo(ch, x)
          BY <3>6, <4>5 DEF Heard
        <5>2. /\ scene[x][e] = Absent \/ scene[x][e] = cache[x][e]
              /\ Shown(scene[x][e]) = Shown(elements[e])
              /\ Removes(ch, e) /\ (e \in ch.deleted => elements[e].deleted)
          BY <3>2, <3>3, <5>1
        <5>3. CASE Mentions(ch, e)
          <6>1. e \in ch.deleted /\ Outcome(ch, e) = Absent
            BY <5>2, <5>3, ChangeFacts
          <6> QED
            BY <1>0, <4>5, <5>2, <5>3, <6>1, VersionFacts DEF Heard
        <5>4. CASE ~Mentions(ch, e)
          BY <4>0, <4>5, <5>2, <5>4, VersionFacts DEF Heard
        <5> QED
          BY <5>3, <5>4
      <4> QED
        BY <2>2, <3>6, <4>1, <4>2, <4>3, <4>4, <4>5, EyesStep
    <3> QED
      BY <3>1, <3>4, <3>5, <3>6
  <2> QED
    BY <2>1, <2>2
<1> QED
  BY <1>1, <1>2 DEF Joins

\* Nobody joins beside another, and what the joiner shows stays.
LEMMA JoinsAloneStep ==
  ASSUME Careful, Typing, Typing', Pipes, NEW c \in Clients, Act(c),
         \A f \in Elems : Joins(f) /\ OthersRemove(f), JoinsAlone
  PROVE  JoinsAlone'
<1> USE DEF handler, history, client
<1> SUFFICES ASSUME NEW d \in Clients, session'[d] = "joining"
             PROVE  /\ \A x \in Clients : session'[x] = "joining" => x = d
                    /\ \/ \E e \in Elems : ~elements'[e].deleted
                       \/ \A e \in Elems : scene'[d][e] = Absent \/ d \in Editors[e]
  BY DEF JoinsAlone, Absent
<1>1. CASE d = c /\ JoinRoom(c)
  <2>1. /\ Quiet /\ UNCHANGED <<scene, elements>>
        /\ \/ Drawn(elements) # Blank
           \/ \A e \in Elems : scene[c][e] = Absent \/ c \in Editors[e]
    BY <1>1, JoinEffect
  <2>2. ASSUME NEW x \in Clients, session'[x] = "joining"
        PROVE  x = d
    <3>1. session[x] # "joining"
      BY <2>1, NothingFlows
    <3> QED
      BY <1>1, <2>2, <3>1, JoinStarts
  <2>3. Drawn(elements) # Blank => \E e \in Elems : ~elements[e].deleted
    <3>1. ASSUME \A e \in Elems : elements[e].deleted
          PROVE  Drawn(elements) = Blank
      <4>1. \A e \in Elems : (IF elements[e].deleted THEN Absent ELSE elements[e]) = Absent
        BY <3>1
      <4> QED
        BY <4>1 DEF Drawn, Blank
    <3> QED
      BY <3>1
  <2> QED
    BY <1>1, <2>1, <2>2, <2>3
<1>2. CASE session[d] = "joining" /\ ~(d = c /\ JoinRoom(c))
  <2>1. ~JoinRoom(c)
    <3>1. ~Quiet
      BY <1>2, NothingFlows
    <3> QED
      BY <3>1, JoinEffect
  <2>2. ASSUME NEW x \in Clients, session'[x] = "joining"
        PROVE  x = d
    BY <1>2, <2>1, <2>2, JoinStarts DEF JoinsAlone
  <2>3. ASSUME NEW e \in Elems, ~elements[e].deleted
        PROVE  ~elements'[e].deleted
    <3>1. Shown(elements'[e]) = Shown(elements[e])
      BY <1>2, JoinsKeepRoom
    <3>2. elements[e] \in Versions /\ elements'[e] \in Versions
      BY DEF Typing, Tables
    <3> QED
      BY <2>3, <3>1, <3>2, VersionFacts
  <2>4. ASSUME NEW e \in Elems, scene[d][e] = Absent, d \notin Editors[e]
        PROVE  scene'[d][e] = Absent
    <3>1. CASE SeesSame(d, e) \/ scene' = scene
      BY <2>4, <3>1 DEF SeesSame
    <3>2. ASSUME NEW ch \in Changes, Heard(d, e, ch)
          PROVE  scene'[d][e] = Absent
      <4>1. InTo(ch, d)
        BY <3>2 DEF Heard
      <4>2. Removes(ch, e)
        BY <1>2, <4>1 DEF Joins
      <4> QED
        BY <2>4, <3>2, <4>2, ChangeFacts, VersionFacts DEF Heard
    <3> QED
      BY <1>2, <2>4, <3>1, <3>2, EyesStep DEF Noted, Drew, Loaded
  <2> QED
    BY <1>2, <2>2, <2>3, <2>4 DEF JoinsAlone
<1> QED
  BY <1>1, <1>2, JoinStarts

-----------------------------------------------------------------------------
(* The theorems. *)

\* The inductive invariant.
About(e) ==
  /\ Seen(e) /\ OthersRemove(e) /\ Upstream(e) /\ Ends(e) /\ Joins(e) /\ Progress(e)
  /\ ServerFollows(e) /\ OthersFollow(e)

IInv == Typing /\ Pipes /\ JoinsAlone /\ \A e \in Elems : About(e)

\* It holds at first.
LEMMA InitHolds ==
  ASSUME Careful, Init
  PROVE  IInv
<1> USE DEF Init
<1>1. Typing
  <2>1. Message("update", NoChanges) \in Messages
    BY MessageFacts, NoChangesFacts
  <2>2. 0 \in 0 .. MaxEdits
    BY SyncAssumption
  <2> QED
    BY <2>1, <2>2, BlankAt, NoChangesFacts, EmptyRng DEF Typing
<1>2. ASSUME NEW x \in Clients
      PROVE  /\ Down(x) = {} /\ Rng(up[x]) = {} /\ session[x] = "out" /\ stage[x] = "idle"
             /\ work[x] = Message("update", NoChanges) /\ pending[x] = NoChanges /\ todo[x] = {}
             /\ up[x] = <<>> /\ channel[x] = <<>> /\ wire[x] = <<>>
  BY <1>2, EmptyDown DEF Down
<1>3. Pipes
  BY <1>2 DEF Pipes, Pipe, Updating
<1>4. ASSUME NEW x \in Clients
      PROVE  /\ \A ch : InFrom(ch, x) => ch = NoChanges
             /\ \A ch : ~InTo(ch, x) /\ ~InState(ch, x)
  BY <1>2 DEF InFrom, InTo, InState, Updating
<1>5. JoinsAlone
  BY <1>2 DEF JoinsAlone
<1>6. ASSUME NEW e \in Elems
      PROVE  About(e)
  <2>1. /\ Editors[e] \subseteq Clients
        /\ elements[e] = Absent /\ Absent.deleted /\ ~Dead(Absent)
        /\ \A x \in Clients : scene[x][e] = Absent /\ cache[x][e] = Absent
        /\ ~Mentions(NoChanges, e) /\ ~Fatal(NoChanges, e) /\ NoLive(NoChanges, e)
        /\ Removes(NoChanges, e) /\ Sane(NoChanges, e)
    BY EditorFacts, BlankAt, VersionFacts, NoChangesFacts DEF Dead
  <2>2. Seen(e)
    BY <1>4, <2>1 DEF Seen
  <2>3. OthersRemove(e)
    BY <1>2, <1>4, <2>1 DEF OthersRemove
  <2>4. Upstream(e)
    <3>1. Ordered(<<>>, e)
      BY DEF Ordered
    <3> QED
      BY <1>2, <1>4, <2>1, <3>1 DEF Upstream, Updating
  <2>5. Ends(e)
    BY <1>2, <1>4, <2>1 DEF Ends
  <2>6. Joins(e)
    BY <1>2, <1>4, <2>1 DEF Joins
  <2>7. Progress(e)
    BY <1>2, <2>1 DEF Progress
  <2>8. ServerFollows(e) /\ OthersFollow(e)
    BY <1>2, <2>1 DEF ServerFollows, OthersFollow
  <2> QED
    BY <2>2, <2>3, <2>4, <2>5, <2>6, <2>7, <2>8 DEF About
<1> QED
  BY <1>1, <1>3, <1>5, <1>6 DEF IInv

\* Every action keeps it.
LEMMA NextHolds ==
  ASSUME Careful, IInv, NEW c \in Clients, Act(c)
  PROVE  IInv'
<1>1. Typing /\ Pipes /\ JoinsAlone /\ \A e \in Elems : About(e)
  BY DEF IInv
<1>2. [Next]_svars
  BY DEF Act, Next
<1>3. Typing' /\ Pipes'
  BY <1>1, <1>2, TypingStep, PipesStep
<1>4. \A e \in Elems : Joins(e) /\ OthersRemove(e)
  BY <1>1 DEF About
<1>5. JoinsAlone'
  BY <1>1, <1>3, <1>4, JoinsAloneStep
<1>6. ASSUME NEW e \in Elems
      PROVE  About(e)'
  <2>1. /\ Seen(e) /\ OthersRemove(e) /\ Upstream(e) /\ Ends(e) /\ Joins(e) /\ Progress(e)
        /\ ServerFollows(e) /\ OthersFollow(e)
    BY <1>1 DEF About
  <2>2. Seen(e)'
    BY <1>1, <2>1, SeenStep
  <2>3. OthersRemove(e)'
    BY <1>1, <1>4, <2>1, OthersRemoveStep
  <2>4. Upstream(e)'
    BY <1>1, <2>1, UpstreamStep
  <2>5. Ends(e)'
    BY <1>1, <2>1, EndsStep
  <2>6. Joins(e)'
    BY <1>1, <1>3, <1>4, <2>1, JoinsStep
  <2>7. Progress(e)'
    BY <1>1, <2>1, ProgressStep
  <2>8. ServerFollows(e)'
    BY <1>1, <2>1, <2>7, ServerFollowsStep
  <2>9. OthersFollow(e)'
    BY <1>1, <1>3, <1>4, <2>1, OthersFollowStep
  <2> QED
    BY <2>2, <2>3, <2>4, <2>5, <2>6, <2>7, <2>8, <2>9 DEF About
<1> QED
  BY <1>3, <1>5, <1>6 DEF IInv

\* It does not change when nothing does.
LEMMA StillHolds ==
  ASSUME IInv, UNCHANGED svars
  PROVE  IInv'
<1> USE DEF svars, client, handler, history
<1>1. Typing' /\ Pipes' /\ JoinsAlone'
  <2>1. Typing'
    BY DEF IInv, Typing
  <2>2. Pipes'
    BY DEF IInv, Pipes, Pipe, Down
  <2>3. JoinsAlone'
    BY DEF IInv, JoinsAlone, Absent
  <2> QED
    BY <2>1, <2>2, <2>3
<1>2. ASSUME NEW e \in Elems
      PROVE  About(e)'
  <2> USE DEF InFrom, InTo, InState, Down, Known
  <2>1. /\ Seen(e) /\ OthersRemove(e) /\ Upstream(e) /\ Ends(e) /\ Joins(e) /\ Progress(e)
        /\ ServerFollows(e) /\ OthersFollow(e)
    BY DEF IInv, About
  <2>2. Seen(e)'
    BY <2>1 DEF Seen
  <2>3. OthersRemove(e)'
    BY <2>1 DEF OthersRemove
  <2>4. Upstream(e)'
    BY <2>1 DEF Upstream
  <2>5. Ends(e)'
    BY <2>1 DEF Ends, Gone
  <2>6. Joins(e)'
    BY <2>1 DEF Joins
  <2>7. Progress(e)'
    BY <2>1 DEF Progress
  <2>8. ServerFollows(e)'
    BY <2>1 DEF ServerFollows, Sent, Held
  <2>9. OthersFollow(e)'
    BY <2>1 DEF OthersFollow, Busy, Comes
  <2> QED
    BY <2>2, <2>3, <2>4, <2>5, <2>6, <2>7, <2>8, <2>9 DEF About
<1> QED
  BY <1>1, <1>2 DEF IInv

\* It holds at any time.
LEMMA IInvHolds == ASSUME Careful PROVE Spec => []IInv
<1>1. Init => IInv
  BY InitHolds
<1>2. IInv /\ [Next]_svars => IInv'
  BY NextHolds, StillHolds DEF Next, Act
<1> QED
  BY <1>1, <1>2, PTL DEF Spec

\* "ensure all clients eventually reach consistent state"
\* (docs/be/BACKEND_REQUIREMENTS.md:45): with one editor for each element, once
\* nothing is on its way everybody in the room sees what the server has.
THEOREM ConvergesHolds == ASSUME Careful PROVE Spec => []Converges
<1>1. IInv => Converges
  <2> SUFFICES ASSUME IInv, Quiet, NEW c \in Clients, session[c] = "in"
               PROVE  Drawn(scene[c]) = Drawn(elements)
    BY DEF Converges
  <2>1. \A e \in Elems : Shown(scene[c][e]) = Shown(elements[e])
    BY QuietConverges DEF IInv, About
  <2>2. scene[c] \in Tables /\ elements \in Tables
    BY DEF IInv, Typing
  <2>3. /\ Drawn(scene[c]) \in Tables /\ \A e \in Elems : Drawn(scene[c])[e] = Shown(scene[c][e])
        /\ Drawn(elements) \in Tables /\ \A e \in Elems : Drawn(elements)[e] = Shown(elements[e])
    BY <2>2, DrawnAt
  <2> QED
    BY <2>1, <2>3 DEF Tables
<1> QED
  BY <1>1, IInvHolds, PTL

\* updateScene after elements_updated: what the others send never changes what a
\* user alone works on.
THEOREM OwnEditsHold == ASSUME Careful PROVE Spec => OwnEditsStay
<1> DEFINE Stay == \A c \in Clients, e \in Elems :
        Editors[e] = {c} /\ session[c] = "in" /\ Drawn(scene'[c])[e] # Drawn(scene[c])[e]
          => Edit(c, e)
<1>1. IInv /\ IInv' /\ [Next]_svars => [Stay]_svars
  <2> SUFFICES ASSUME IInv, IInv', Next, NEW c \in Clients, NEW e \in Elems,
                      Editors[e] = {c}, session[c] = "in", Drawn(scene'[c])[e] # Drawn(scene[c])[e]
               PROVE  Edit(c, e)
    BY DEF Stay
  <2>1. PICK b \in Clients : Act(b)
    BY DEF Next, Act
  <2>2. Typing /\ Typing' /\ Pipes /\ OthersRemove(e) /\ Ends(e)
    BY DEF IInv, About
  <2>3. /\ Drawn(scene[c])[e] = Shown(scene[c][e]) /\ Drawn(scene'[c])[e] = Shown(scene'[c][e])
        /\ scene[c][e] \in Versions
    <3>1. scene[c] \in Tables /\ scene'[c] \in Tables
      BY <2>2 DEF Typing
    <3> QED
      BY <2>2, <3>1, DrawnAt, ValueTypes
  <2>4. ~SeesSame(c, e) /\ scene'[c] # scene[c]
    BY DEF SeesSame, Drawn
  <2>5. ASSUME NEW ch \in Changes, Heard(c, e, ch)
        PROVE  FALSE
    <3>1. Mentions(ch, e)
      BY <2>3, <2>5, VersionFacts DEF Heard
    <3>2. Removes(ch, e)
      BY <2>2, <2>5 DEF Heard, OthersRemove
    <3>3. Fatal(ch, e) /\ Outcome(ch, e) = Absent
      BY <3>1, <3>2, ChangeFacts
    <3>4. scene[c][e].deleted
      BY <2>2, <2>5, <3>3 DEF Heard, Ends, Gone
    <3> QED
      BY <2>3, <2>5, <3>1, <3>3, <3>4, VersionFacts DEF Heard
  <2> QED
    BY <2>1, <2>2, <2>4, <2>5, EyesStep DEF Noted, Loaded
<1> QED
  BY <1>1, IInvHolds, PTL DEF Spec, OwnEditsStay

=============================================================================
