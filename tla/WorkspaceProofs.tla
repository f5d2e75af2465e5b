--------------------------- MODULE WorkspaceProofs ---------------------------
(***************************************************************************)
(* The files and sheets of the browser, for any number of files, sheets,   *)
(* strokes and clicks.  For a user who waits for answers: a guest's store  *)
(* has no file of an account; and, if no two files get one name, files and *)
(* sheets can be told apart, the canvas and the pending save are those of  *)
(* the open sheet, and what was stored stays until the user gives it up or *)
(* the session takes it.  A session may end at any moment; what no longer  *)
(* holds once it has ended under a call is stated with cut.                *)
(*                                                                         *)
(* None of this is inductive: a call that is under way brings files or     *)
(* sheets from the store it was made in.  The invariant says what may be   *)
(* under way with what (WaitInv), whose the files of calls are (GuestInv), *)
(* that the files shown, those put aside, those of the account and those   *)
(* of calls can be told apart wherever they are yet to meet (ApartInv),    *)
(* when the canvas may be behind the store (SceneInv), and that deletions  *)
(* under way take only what was given up (KeptInv).                        *)
(***************************************************************************)
EXTENDS Workspace, TLAPS, FiniteSetTheorems

\* How many members of I are not above i.
Rank(I, i) == Cardinality({j \in I : j <= i})

LEMMA RanksGrow ==
  ASSUME NEW I \in SUBSET Nat, IsFiniteSet(I), NEW i \in I, NEW j \in I, i < j
  PROVE  Rank(I, i) < Rank(I, j)
<1> DEFINE A == {l \in I : l <= i}
           B == {l \in I : l <= j}
<1>1. A \in SUBSET B /\ A # B /\ B \in SUBSET I
  <2>1. j \in B /\ j \notin A
    OBVIOUS
  <2>2. \A l \in I : l <= i => l <= j
    BY I \subseteq Nat
  <2>3. A \subseteq B /\ B \subseteq I
    BY <2>2, Zenon
  <2> QED
    BY <2>1, <2>3, Zenon
<1>2. IsFiniteSet(B)
  BY <1>1, FS_Subset
<1>3. Cardinality(A) <= Cardinality(B) /\ Cardinality(A) # Cardinality(B)
  BY <1>1, <1>2, FS_Subset, Zenon
<1>4. Cardinality(A) \in Nat /\ Cardinality(B) \in Nat
  BY <1>1, <1>2, FS_Subset, FS_CardinalityType, Zenon
<1> QED
  BY <1>3, <1>4 DEF Rank

LEMMA RanksCount ==
  ASSUME NEW I \in SUBSET Nat, IsFiniteSet(I)
  PROVE  [i \in I |-> Rank(I, i)] \in Bijection(I, 1..Cardinality(I))
<1> DEFINE n == Cardinality(I)
           f == [i \in I |-> Rank(I, i)]
<1>0. n \in Nat
  BY FS_CardinalityType
<1>1. ASSUME NEW i \in I PROVE Rank(I, i) \in 1..n
  <2> DEFINE A == {l \in I : l <= i}
  <2>1. A \in SUBSET I /\ i \in A
    OBVIOUS
  <2>2. IsFiniteSet(A) /\ Cardinality(A) <= n
    BY <2>1, FS_Subset, Zenon
  <2>3. Cardinality(A) \in Nat /\ Cardinality(A) # 0
    BY <2>1, <2>2, FS_CardinalityType, FS_EmptySet, Zenon
  <2> QED
    BY <1>0, <2>2, <2>3 DEF Rank
<1>2. f \in [I -> 1..n]
  BY <1>1
<1>3. \A i, j \in I : f[i] = f[j] => i = j
  <2> SUFFICES ASSUME NEW i \in I, NEW j \in I, i # j PROVE Rank(I, i) # Rank(I, j)
    BY <1>2
  <2>0. Rank(I, i) \in 1..n /\ Rank(I, j) \in 1..n
    BY <1>1
  <2>1. CASE i < j
    BY <2>0, <2>1, RanksGrow
  <2>2. CASE j < i
    BY <2>0, <2>2, RanksGrow
  <2> QED
    BY <2>1, <2>2
<1>4. f \in Injection(I, 1..n)
  BY <1>2, <1>3, Zenon DEF Injection, IsInjective
<1>5. IsFiniteSet(1..n) /\ Cardinality(1..n) = n
  BY <1>0, FS_Interval
<1>6. f \in Surjection(I, 1..n)
  BY <1>4, <1>5, FS_Injection, Zenon
<1> QED
  BY <1>4, <1>6, Zenon DEF Bijection

\* Nth numbers the members of a finite set of positions.
LEMMA NthMember ==
  ASSUME NEW I \in SUBSET Nat, IsFiniteSet(I)
  PROVE  /\ Cardinality(I) \in Nat
         /\ Cardinality(I) = 0 <=> I = {}
         /\ \A k \in 1..Cardinality(I) : Nth(I, k) \in I /\ Rank(I, Nth(I, k)) = k
         /\ \A i \in I : Rank(I, i) \in 1..Cardinality(I) /\ Nth(I, Rank(I, i)) = i
<1> DEFINE f == [i \in I |-> Rank(I, i)]
<1>1. f \in Bijection(I, 1..Cardinality(I))
  BY RanksCount
<1>2. Cardinality(I) \in Nat /\ (Cardinality(I) = 0 <=> I = {})
  BY FS_CardinalityType, FS_EmptySet, Zenon
<1>3. /\ f \in [I -> 1..Cardinality(I)]
      /\ \A i, j \in I : f[i] = f[j] => i = j
      /\ \A k \in 1..Cardinality(I) : \E i \in I : f[i] = k
  BY <1>1, Zenon DEF Bijection, Injection, Surjection, IsInjective
<1>4. ASSUME NEW k \in 1..Cardinality(I) PROVE Nth(I, k) \in I /\ Rank(I, Nth(I, k)) = k
  <2>1. \E i \in I : Rank(I, i) = k
    BY <1>3
  <2> QED
    BY <2>1, Zenon DEF Nth, Rank
<1>5. ASSUME NEW i \in I PROVE Rank(I, i) \in 1..Cardinality(I) /\ Nth(I, Rank(I, i)) = i
  <2>1. Rank(I, i) \in 1..Cardinality(I)
    BY <1>3
  <2>2. Nth(I, Rank(I, i)) \in I /\ Rank(I, Nth(I, Rank(I, i))) = Rank(I, i)
    BY <1>4, <2>1, Zenon
  <2> QED
    BY <1>3, <2>1, <2>2
<1> QED
  BY <1>2, <1>4, <1>5

\* What a filtered array consists of.
LEMMA PickFacts ==
  ASSUME NEW S, NEW s \in Seq(S), NEW I \in SUBSET DOMAIN s
  PROVE  /\ Pick(s, I) \in Seq(S)
         /\ Len(Pick(s, I)) = Cardinality(I)
         /\ Cardinality(I) <= Len(s)
         /\ Pick(s, I) = <<>> <=> I = {}
         /\ \A k \in DOMAIN Pick(s, I) : Nth(I, k) \in I /\ Pick(s, I)[k] = s[Nth(I, k)]
         /\ \A k, l \in DOMAIN Pick(s, I) : Nth(I, k) = Nth(I, l) => k = l
         /\ \A i \in I : \E k \in DOMAIN Pick(s, I) : Nth(I, k) = i
<1> DEFINE n == Cardinality(I)
           p == Pick(s, I)
<1>1. IsFiniteSet(DOMAIN s) /\ Cardinality(DOMAIN s) = Len(s)
  <2>1. DOMAIN s = 1..Len(s) /\ Len(s) \in Nat
    OBVIOUS
  <2>2. ASSUME NEW m \in Nat PROVE IsFiniteSet(1..m) /\ Cardinality(1..m) = m
    BY FS_Interval
  <2> QED
    BY <2>1, <2>2, Zenon
<1>2. IsFiniteSet(I) /\ n <= Len(s) /\ I \in SUBSET Nat
  BY <1>1, FS_Subset
<1>3. /\ n \in Nat
      /\ n = 0 <=> I = {}
      /\ \A k \in 1..n : Nth(I, k) \in I /\ Rank(I, Nth(I, k)) = k
      /\ \A i \in I : Rank(I, i) \in 1..n /\ Nth(I, Rank(I, i)) = i
  BY <1>2, NthMember, Zenon
<1>4. p = [k \in 1..n |-> s[Nth(I, k)]]
  BY DEF Pick
<1>5. p \in Seq(S) /\ DOMAIN p = 1..n /\ Len(p) = n
  BY <1>3, <1>4
<1>6. p = <<>> <=> I = {}
  BY <1>3, <1>5
<1> QED
  BY <1>2, <1>3, <1>4, <1>5, <1>6, Zenon

\* The entries of an array of records that have some id, and the others.
LEMMA WithFacts ==
  ASSUME NEW S, NEW s \in Seq(S), NEW id
  PROVE  /\ With(s, id) \in Seq(S)
         /\ \A k \in DOMAIN With(s, id) : \E i \in DOMAIN s : s[i].id = id /\ With(s, id)[k] = s[i]
         /\ \A i \in DOMAIN s : s[i].id = id => \E k \in DOMAIN With(s, id) : With(s, id)[k] = s[i]
         /\ With(s, id) = <<>> <=> \A i \in DOMAIN s : s[i].id # id
<1> DEFINE I == {i \in DOMAIN s : s[i].id = id}
<1>1. I \in SUBSET DOMAIN s /\ With(s, id) = Pick(s, I)
  BY DEF With
<1> HIDE DEF I
<1>2. /\ Pick(s, I) \in Seq(S)
      /\ Pick(s, I) = <<>> <=> I = {}
      /\ \A k \in DOMAIN Pick(s, I) : Nth(I, k) \in I /\ Pick(s, I)[k] = s[Nth(I, k)]
      /\ \A i \in I : \E k \in DOMAIN Pick(s, I) : Nth(I, k) = i
  BY <1>1, PickFacts
<1> QED
  BY <1>1, <1>2, ZenonT(60) DEF I

LEMMA WithoutFacts ==
  ASSUME NEW S, NEW s \in Seq(S), NEW id
  PROVE  /\ Without(s, id) \in Seq(S)
         /\ Len(Without(s, id)) <= Len(s)
         /\ Without(s, id) = <<>> <=> \A i \in DOMAIN s : s[i].id = id
         /\ \E f \in [DOMAIN Without(s, id) -> DOMAIN s] :
              /\ \A k \in DOMAIN Without(s, id) : Without(s, id)[k] = s[f[k]] /\ s[f[k]].id # id
              /\ \A k, l \in DOMAIN Without(s, id) : f[k] = f[l] => k = l
              /\ \A i \in DOMAIN s : s[i].id # id => \E k \in DOMAIN Without(s, id) : f[k] = i
<1> DEFINE I == {i \in DOMAIN s : s[i].id # id}
<1>1. I \in SUBSET DOMAIN s /\ Without(s, id) = Pick(s, I)
  BY DEF Without
<1> HIDE DEF I
<1>0. /\ Pick(s, I) \in Seq(S)
      /\ Len(Pick(s, I)) <= Len(s)
      /\ Pick(s, I) = <<>> <=> I = {}
      /\ \A k \in DOMAIN Pick(s, I) : Nth(I, k) \in I /\ Pick(s, I)[k] = s[Nth(I, k)]
      /\ \A k, l \in DOMAIN Pick(s, I) : Nth(I, k) = Nth(I, l) => k = l
      /\ \A i \in I : \E k \in DOMAIN Pick(s, I) : Nth(I, k) = i
  BY <1>1, PickFacts
<1>2. /\ Without(s, id) \in Seq(S)
      /\ Len(Without(s, id)) <= Len(s)
      /\ Without(s, id) = <<>> <=> I = {}
      /\ \A k \in DOMAIN Without(s, id) : Nth(I, k) \in I /\ Without(s, id)[k] = s[Nth(I, k)]
      /\ \A k, l \in DOMAIN Without(s, id) : Nth(I, k) = Nth(I, l) => k = l
      /\ \A i \in I : \E k \in DOMAIN Without(s, id) : Nth(I, k) = i
  BY <1>1, <1>0
<1> DEFINE f == [k \in DOMAIN Without(s, id) |-> Nth(I, k)]
<1>3. f \in [DOMAIN Without(s, id) -> DOMAIN s]
  BY <1>1, <1>2
<1>4. /\ \A k \in DOMAIN Without(s, id) : Without(s, id)[k] = s[f[k]] /\ s[f[k]].id # id
      /\ \A k, l \in DOMAIN Without(s, id) : f[k] = f[l] => k = l
      /\ \A i \in DOMAIN s : s[i].id # id => \E k \in DOMAIN Without(s, id) : f[k] = i
  BY <1>2, Zenon DEF I
<1>5. Without(s, id) = <<>> <=> \A i \in DOMAIN s : s[i].id = id
  BY <1>2 DEF I
<1> HIDE DEF f
<1>6. \E g \in [DOMAIN Without(s, id) -> DOMAIN s] :
         /\ \A k \in DOMAIN Without(s, id) : Without(s, id)[k] = s[g[k]] /\ s[g[k]].id # id
         /\ \A k, l \in DOMAIN Without(s, id) : g[k] = g[l] => k = l
         /\ \A i \in DOMAIN s : s[i].id # id => \E k \in DOMAIN Without(s, id) : g[k] = i
  BY <1>3, <1>4, Zenon
<1> QED
  BY <1>1, <1>2, <1>5, <1>6

LEMMA LocalFacts ==
  ASSUME NEW S, NEW s \in Seq(S)
  PROVE  /\ Local(s) \in Seq(S)
         /\ Local(s) = <<>> <=> \A i \in DOMAIN s : s[i].cloud
         /\ \E f \in [DOMAIN Local(s) -> DOMAIN s] :
              /\ \A k \in DOMAIN Local(s) : Local(s)[k] = s[f[k]] /\ ~s[f[k]].cloud
              /\ \A k, l \in DOMAIN Local(s) : f[k] = f[l] => k = l
              /\ \A i \in DOMAIN s : ~s[i].cloud => \E k \in DOMAIN Local(s) : f[k] = i
<1> DEFINE I == {i \in DOMAIN s : ~s[i].cloud}
<1>1. I \in SUBSET DOMAIN s /\ Local(s) = Pick(s, I)
  BY DEF Local
<1> HIDE DEF I
<1>0. /\ Pick(s, I) \in Seq(S)
      /\ Pick(s, I) = <<>> <=> I = {}
      /\ \A k \in DOMAIN Pick(s, I) : Nth(I, k) \in I /\ Pick(s, I)[k] = s[Nth(I, k)]
      /\ \A k, l \in DOMAIN Pick(s, I) : Nth(I, k) = Nth(I, l) => k = l
      /\ \A i \in I : \E k \in DOMAIN Pick(s, I) : Nth(I, k) = i
  BY <1>1, PickFacts
<1>2. /\ Local(s) \in Seq(S)
      /\ Local(s) = <<>> <=> I = {}
      /\ \A k \in DOMAIN Local(s) : Nth(I, k) \in I /\ Local(s)[k] = s[Nth(I, k)]
      /\ \A k, l \in DOMAIN Local(s) : Nth(I, k) = Nth(I, l) => k = l
      /\ \A i \in I : \E k \in DOMAIN Local(s) : Nth(I, k) = i
  BY <1>1, <1>0
<1> DEFINE f == [k \in DOMAIN Local(s) |-> Nth(I, k)]
<1>3. f \in [DOMAIN Local(s) -> DOMAIN s]
  BY <1>1, <1>2
<1>4. /\ \A k \in DOMAIN Local(s) : Local(s)[k] = s[f[k]] /\ ~s[f[k]].cloud
      /\ \A k, l \in DOMAIN Local(s) : f[k] = f[l] => k = l
      /\ \A i \in DOMAIN s : ~s[i].cloud => \E k \in DOMAIN Local(s) : f[k] = i
  BY <1>2, Zenon DEF I
<1>5. Local(s) = <<>> <=> \A i \in DOMAIN s : s[i].cloud
  BY <1>2, Zenon DEF I
<1> HIDE DEF f
<1>6. \E g \in [DOMAIN Local(s) -> DOMAIN s] :
         /\ \A k \in DOMAIN Local(s) : Local(s)[k] = s[g[k]] /\ ~s[g[k]].cloud
         /\ \A k, l \in DOMAIN Local(s) : g[k] = g[l] => k = l
         /\ \A i \in DOMAIN s : ~s[i].cloud => \E k \in DOMAIN Local(s) : g[k] = i
  BY <1>3, <1>4, Zenon
<1> QED
  BY <1>1, <1>2, <1>5, <1>6

\* New ids are numbers, differ from each other and from those in use, and are
\* given in the same order however many are asked for.
LEMMA FreshFacts ==
  ASSUME NEW n \in Nat, NEW used, IsFiniteSet(used)
  PROVE  /\ Fresh(n, used) \in [1..n -> Nat]
         /\ \A k \in 1..n : Fresh(n, used)[k] \notin used
         /\ \A k, l \in 1..n : Fresh(n, used)[k] = Fresh(n, used)[l] => k = l
<1> DEFINE u == Cardinality(used)
           Spare(k) == (1..(k + u)) \ used
           F(k) == Nth(Spare(k), k)
<1>1. u \in Nat
  BY FS_CardinalityType
<1>2. ASSUME NEW k \in 1..n
      PROVE  F(k) \in Spare(k) /\ Rank(Spare(k), F(k)) = k
  <2> DEFINE A == 1..(k + u)
  <2>1. IsFiniteSet(A) /\ Cardinality(A) = k + u
    BY <1>1, FS_Interval, SMTT(30)
  <2>2. /\ IsFiniteSet(A \ used)
        /\ Cardinality(A \ used) = Cardinality(A) - Cardinality(A \cap used)
    BY <2>1, FS_Difference, Zenon
  <2>3. IsFiniteSet(A \cap used) /\ Cardinality(A \cap used) <= u
    BY FS_Intersection
  <2>4. Cardinality(A \cap used) \in Nat
    BY <2>3, FS_CardinalityType, Zenon
  <2>5. k \in 1..Cardinality(A \ used)
    BY <1>1, <2>1, <2>2, <2>3, <2>4
  <2>6. (A \ used) \in SUBSET Nat
    OBVIOUS
  <2> QED
    BY <2>2, <2>5, <2>6, NthMember, Zenon
<1>3. ASSUME NEW k \in 1..n, NEW l \in 1..n, k < l, F(k) = F(l) PROVE FALSE
  <2>1. F(k) \in Spare(k) /\ Rank(Spare(k), F(k)) = k /\ F(l) \in Spare(l) /\ Rank(Spare(l), F(l)) = l
    BY <1>2
  <2> DEFINE i == F(k)
  <2>2. i \in Spare(k) /\ Rank(Spare(k), i) = k /\ Rank(Spare(l), i) = l
    BY <1>3, <2>1, Zenon
  <2> HIDE DEF i
  <2>3. {j \in Spare(k) : j <= i} = {j \in Spare(l) : j <= i}
    BY <1>1, <1>3, <2>2
  <2>4. Rank(Spare(k), i) = Rank(Spare(l), i)
    BY <2>3, Zenon DEF Rank
  <2> QED
    BY <1>3, <2>2, <2>4
<1>4. Fresh(n, used) = [k \in 1..n |-> F(k)]
  BY DEF Fresh
<1> HIDE DEF F
<1>5. ASSUME NEW k \in 1..n PROVE F(k) \in Nat /\ F(k) \notin used
  <2>1. F(k) \in 1..(k + u) /\ F(k) \notin used
    BY <1>2, Zenon
  <2> QED
    BY <1>1, <2>1
<1>6. ASSUME NEW k \in 1..n, NEW l \in 1..n, F(k) = F(l) PROVE k = l
  BY <1>3, <1>6
<1> QED
  BY <1>4, <1>5, <1>6

LEMMA FreshSame ==
  ASSUME NEW n \in Nat, NEW m \in Nat, NEW used, NEW k \in 1..n, k \in 1..m
  PROVE  Fresh(n, used)[k] = Fresh(m, used)[k]
BY DEF Fresh

\* A sheet's array is never empty, and no sheet is in it twice.
GoodTabs ==
  {t \in Seq(TabType) : Len(t) \in 1..MaxTabs /\ \A i, j \in DOMAIN t : t[i].id = t[j].id => i = j}
GoodFile == [id : Nat, name : Nat, cloud : BOOLEAN, tabs : GoodTabs, tab : Nat]
GoodStore == [files : Seq(GoodFile), active : Nat, pending : Seq(GoodFile), loading : BOOLEAN,
              sync : {"idle", "syncing", "synced", "error"}]
AccountFile == [id : Nat, name : Nat, tabs : {t \in Seq(TabType) : Len(t) <= MaxTabs}]
GoodCall == [kind : {"create", "delete", "rename", "load", "migrate", "export"}, id : Nat \cup {None},
             name : Nat, files : Seq(GoodFile), tabs : GoodTabs \cup {<<>>}, active : Nat]

\* The part of the type that set and the canvas write.
StoreTyped ==
  /\ store \in GoodStore
  /\ timer = None \/ timer \in [tab : Nat \cup {None}, content : SUBSET (1..MaxStrokes)]
  /\ scene \in SUBSET (1..MaxStrokes)
  /\ saved \in SUBSET (1..MaxStrokes)
  /\ forsaken \in SUBSET (1..MaxStrokes)

OthersTyped ==
  /\ auth \in BOOLEAN
  /\ cloud \in Seq(AccountFile)
  /\ dialog \in Nat \cup {None}
  /\ strokes \in 0..MaxStrokes
  /\ calls \in SUBSET GoodCall /\ IsFiniteSet(calls)

CallsCut == {"create", "delete", "load", "migrate", "export"}

TypeInv == StoreTyped /\ OthersTyped /\ clicks \in 0..MaxClicks /\ cut \in SUBSET CallsCut

-----------------------------------------------------------------------------
\* The ids in use are finitely many.
LEMMA IdsFinite ==
  ASSUME NEW S, NEW s \in Seq(S)
  PROVE  IsFiniteSet({s[i].id : i \in DOMAIN s})
<1> DEFINE T == {s[i].id : i \in DOMAIN s}
           g == [i \in DOMAIN s |-> s[i].id]
<1>1. g \in Surjection(DOMAIN s, T)
  BY Zenon DEF Surjection
<1>2. ASSUME NEW m \in Nat PROVE IsFiniteSet(1..m)
  BY FS_Interval
<1>3. IsFiniteSet(DOMAIN s)
  <2>1. DOMAIN s = 1..Len(s) /\ Len(s) \in Nat
    OBVIOUS
  <2> QED
    BY <1>2, <2>1, Zenon
<1> QED
  BY <1>1, <1>3, FS_Surjection, Zenon

LEMMA TabIdsFinite ==
  ASSUME NEW s \in Seq(GoodFile)
  PROVE  IsFiniteSet(TabIds(s))
<1> DEFINE Of(i) == {s[i].tabs[j].id : j \in DOMAIN s[i].tabs}
           T == {Of(i) : i \in DOMAIN s}
           g == [i \in DOMAIN s |-> Of(i)]
<1>1. \A i \in DOMAIN s : IsFiniteSet(Of(i))
  <2> TAKE i \in DOMAIN s
  <2>1. s[i] \in GoodFile
    OBVIOUS
  <2>2. s[i].tabs \in GoodTabs
    BY <2>1 DEF GoodFile
  <2>3. s[i].tabs \in Seq(TabType)
    BY <2>2 DEF GoodTabs
  <2> QED
    BY <2>3, IdsFinite, Zenon
<1>2. g \in Surjection(DOMAIN s, T)
  BY Zenon DEF Surjection
<1>3. ASSUME NEW m \in Nat PROVE IsFiniteSet(1..m)
  BY FS_Interval
<1>4. IsFiniteSet(DOMAIN s)
  <2>1. DOMAIN s = 1..Len(s) /\ Len(s) \in Nat
    OBVIOUS
  <2> QED
    BY <1>3, <2>1, Zenon
<1>5. IsFiniteSet(T)
  BY <1>2, <1>4, FS_Surjection, Zenon
<1>6. \A A \in T : IsFiniteSet(A)
  BY <1>1, Zenon
<1>7. IsFiniteSet(UNION T)
  BY <1>5, <1>6, FS_UNION, Zenon
<1> QED
  BY <1>7, Zenon DEF TabIds

LEMMA UsedFinite ==
  ASSUME TypeInv
  PROVE  IsFiniteSet(UsedIds) /\ IsFiniteSet(UsedTabs)
<1>1. /\ store.files \in Seq(GoodFile) /\ store.pending \in Seq(GoodFile)
      /\ cloud \in Seq(AccountFile) /\ IsFiniteSet(calls)
  BY DEF TypeInv, StoreTyped, OthersTyped, GoodStore
<1>2. \A c \in calls : c.files \in Seq(GoodFile) /\ c.tabs \in Seq(TabType)
  <2> TAKE c \in calls
  <2>1. c \in GoodCall
    BY DEF TypeInv, StoreTyped, OthersTyped
  <2>2. c.files \in Seq(GoodFile) /\ c.tabs \in GoodTabs \cup {<<>>}
    BY <2>1 DEF GoodCall
  <2>3. \A t \in GoodTabs : t \in Seq(TabType)
    BY DEF GoodTabs
  <2>4. <<>> \in Seq(TabType)
    OBVIOUS
  <2> QED
    BY <2>2, <2>3, <2>4, Zenon
<1>3. IsFiniteSet(UsedIds)
  <2> DEFINE Of(c) == Ids(c.files) \cup {c.id}
             T == {Of(c) : c \in calls}
             g == [c \in calls |-> Of(c)]
  <2>1. \A c \in calls : IsFiniteSet(Of(c))
    <3> TAKE c \in calls
    <3>1. IsFiniteSet(Ids(c.files))
      BY <1>2, IdsFinite, Zenon DEF Ids
    <3> QED
      BY <3>1, FS_AddElement, Zenon
  <2>2. g \in Surjection(calls, T)
    BY Zenon DEF Surjection
  <2>3. IsFiniteSet(T)
    BY <1>1, <2>2, FS_Surjection, Zenon
  <2>4. \A A \in T : IsFiniteSet(A)
    BY <2>1, Zenon
  <2>5. IsFiniteSet(UNION T)
    BY <2>3, <2>4, FS_UNION, Zenon
  <2>6. IsFiniteSet(Ids(store.files)) /\ IsFiniteSet(Ids(store.pending)) /\ IsFiniteSet(Ids(cloud))
    BY <1>1, IdsFinite, Zenon DEF Ids
  <2>7. IsFiniteSet(Ids(store.files) \cup Ids(store.pending) \cup Ids(cloud) \cup {store.active})
    BY <2>6, FS_Union, FS_AddElement, Zenon
  <2> QED
    BY <2>5, <2>7, FS_Union, Zenon DEF UsedIds
<1>4. IsFiniteSet(UsedTabs)
  <2> DEFINE Of(c) == TabIds(c.files) \cup {c.tabs[i].id : i \in DOMAIN c.tabs}
             T == {Of(c) : c \in calls}
             g == [c \in calls |-> Of(c)]
  <2>1. \A c \in calls : IsFiniteSet(Of(c))
    <3> TAKE c \in calls
    <3>1. IsFiniteSet(TabIds(c.files))
      BY <1>2, TabIdsFinite, Zenon
    <3>2. IsFiniteSet({c.tabs[i].id : i \in DOMAIN c.tabs})
      BY <1>2, IdsFinite, Zenon
    <3> QED
      BY <3>1, <3>2, FS_Union, Zenon
  <2>2. g \in Surjection(calls, T)
    BY Zenon DEF Surjection
  <2>3. IsFiniteSet(T)
    BY <1>1, <2>2, FS_Surjection, Zenon
  <2>4. \A A \in T : IsFiniteSet(A)
    BY <2>1, Zenon
  <2>5. IsFiniteSet(UNION T)
    BY <2>3, <2>4, FS_UNION, Zenon
  <2>6. IsFiniteSet(TabIds(store.files)) /\ IsFiniteSet(TabIds(store.pending))
    BY <1>1, TabIdsFinite, Zenon
  <2> QED
    BY <2>5, <2>6, FS_Union, Zenon DEF UsedTabs
<1> QED
  BY <1>3, <1>4

\* A new file's id, and a new sheet's.
LEMMA NewIds ==
  ASSUME TypeInv
  PROVE  NewId \in Nat \ UsedIds /\ NewTab \in Nat \ UsedTabs
<1>1. ASSUME NEW U, IsFiniteSet(U) PROVE Fresh(1, U)[1] \in Nat \ U
  <2>1. Fresh(1, U) \in [1..1 -> Nat] /\ \A k \in 1..1 : Fresh(1, U)[k] \notin U
    BY <1>1, FreshFacts
  <2> QED
    BY <2>1
<1> QED
  BY <1>1, UsedFinite, Zenon DEF NewId, NewTab

LEMMA GoodTabsFacts ==
  ASSUME NEW t \in GoodTabs
  PROVE  /\ t \in Seq(TabType) /\ Len(t) \in 1..MaxTabs /\ 1 \in DOMAIN t /\ t # <<>>
         /\ \A i \in DOMAIN t : t[i] \in TabType /\ t[i].id \in Nat /\ t[i].content \in SUBSET (1..MaxStrokes)
         /\ \A i, j \in DOMAIN t : t[i].id = t[j].id => i = j
<1>1. t \in Seq(TabType) /\ Len(t) \in 1..MaxTabs /\ \A i, j \in DOMAIN t : t[i].id = t[j].id => i = j
  BY DEF GoodTabs
<1>2. \A i \in DOMAIN t : t[i] \in TabType
  BY <1>1
<1>3. 1 \in DOMAIN t /\ t # <<>>
  BY <1>1
<1> QED
  BY <1>1, <1>2, <1>3 DEF TabType

LEMMA GoodFileFacts ==
  ASSUME NEW f \in GoodFile
  PROVE  /\ f.id \in Nat /\ f.name \in Nat /\ f.cloud \in BOOLEAN /\ f.tabs \in GoodTabs /\ f.tab \in Nat
         /\ f = [id |-> f.id, name |-> f.name, cloud |-> f.cloud, tabs |-> f.tabs, tab |-> f.tab]
BY DEF GoodFile

LEMMA GoodStoreFacts ==
  ASSUME NEW w \in GoodStore
  PROVE  /\ w.files \in Seq(GoodFile) /\ w.pending \in Seq(GoodFile) /\ w.active \in Nat
         /\ w.loading \in BOOLEAN /\ w.sync \in {"idle", "syncing", "synced", "error"}
         /\ \A i \in DOMAIN w.files : w.files[i] \in GoodFile
         /\ \A i \in DOMAIN w.pending : w.pending[i] \in GoodFile
<1>1. w.files \in Seq(GoodFile) /\ w.pending \in Seq(GoodFile) /\ w.active \in Nat
  BY DEF GoodStore
<1>2. w.loading \in BOOLEAN /\ w.sync \in {"idle", "syncing", "synced", "error"}
  BY DEF GoodStore
<1> QED
  BY <1>1, <1>2

\* An array of the same length.
LEMMA Mapped ==
  ASSUME NEW S, NEW s \in Seq(S), NEW T, NEW t \in [DOMAIN s -> T]
  PROVE  t \in Seq(T) /\ Len(t) = Len(s) /\ DOMAIN t = DOMAIN s
<1>1. DOMAIN s = 1..Len(s) /\ Len(s) \in Nat
  OBVIOUS
<1> QED
  BY <1>1

LEMMA TabGood ==
  ASSUME NEW id \in Nat, NEW content \in SUBSET (1..MaxStrokes)
  PROVE  Tab(id, content) \in TabType /\ Tab(id, content).id = id /\ Tab(id, content).content = content
BY DEF Tab, TabType

LEMMA OneTabGood ==
  ASSUME WorkspaceAssumption, NEW tab \in TabType
  PROVE  <<tab>> \in GoodTabs
<1>1. <<tab>> \in Seq(TabType) /\ Len(<<tab>>) = 1 /\ DOMAIN <<tab>> = 1..1
  OBVIOUS
<1>2. MaxTabs \in Nat \ {0}
  BY DEF WorkspaceAssumption
<1> QED
  BY <1>1, <1>2 DEF GoodTabs

LEMMA FileGood ==
  ASSUME NEW id \in Nat, NEW name \in Nat, NEW isCloud \in BOOLEAN, NEW tabs \in GoodTabs
  PROVE  File(id, name, isCloud, tabs) \in GoodFile
<1>1. tabs[1].id \in Nat
  BY GoodTabsFacts
<1> QED
  BY <1>1 DEF File, GoodFile

LEMMA TabsWorkType ==
  ASSUME NEW t \in Seq(TabType)
  PROVE  TabsWork(t) \in SUBSET (1..MaxStrokes)
<1>1. \A i \in DOMAIN t : t[i] \in TabType
  OBVIOUS
<1>2. \A i \in DOMAIN t : t[i].content \in SUBSET (1..MaxStrokes)
  BY <1>1 DEF TabType
<1> QED
  BY <1>2, Zenon DEF TabsWork

LEMMA WorkType ==
  ASSUME NEW fs, \A i \in DOMAIN fs : fs[i].tabs \in Seq(TabType)
  PROVE  Work(fs) \in SUBSET (1..MaxStrokes)
<1>1. \A i \in DOMAIN fs : TabsWork(fs[i].tabs) \in SUBSET (1..MaxStrokes)
  BY TabsWorkType, Zenon
<1> QED
  BY <1>1, Zenon DEF Work

LEMMA GoodWorkType ==
  ASSUME NEW fs \in Seq(GoodFile)
  PROVE  Work(fs) \in SUBSET (1..MaxStrokes)
<1>1. \A i \in DOMAIN fs : fs[i] \in GoodFile
  OBVIOUS
<1>2. \A i \in DOMAIN fs : fs[i].tabs \in Seq(TabType)
  BY <1>1, GoodFileFacts, GoodTabsFacts, Zenon
<1> QED
  BY <1>2, WorkType, Zenon

LEMMA AccountWorkType ==
  ASSUME NEW fs \in Seq(AccountFile)
  PROVE  Work(fs) \in SUBSET (1..MaxStrokes)
<1>1. \A i \in DOMAIN fs : fs[i] \in AccountFile
  OBVIOUS
<1>2. \A i \in DOMAIN fs : fs[i].tabs \in Seq(TabType)
  BY <1>1 DEF AccountFile
<1> QED
  BY <1>2, WorkType, Zenon

-----------------------------------------------------------------------------
\* What setters of the open file leave alone.
Edits(w, v) ==
  /\ v \in GoodStore
  /\ v.active = w.active /\ v.pending = w.pending /\ v.loading = w.loading /\ v.sync = w.sync
  /\ DOMAIN v.files = DOMAIN w.files
  /\ \A i \in DOMAIN w.files :
       /\ v.files[i].id = w.files[i].id
       /\ v.files[i].name = w.files[i].name
       /\ v.files[i].cloud = w.files[i].cloud
       /\ w.files[i].id # w.active => v.files[i] = w.files[i]

LEMMA ChangedFacts ==
  ASSUME NEW w \in GoodStore, NEW g \in [DOMAIN w.files -> GoodFile],
         \A i \in DOMAIN w.files : g[i].id = w.files[i].id /\ g[i].name = w.files[i].name
                                      /\ g[i].cloud = w.files[i].cloud,
         NEW v,
         v = [w EXCEPT !.files = [i \in DOMAIN @ |-> IF @[i].id = w.active THEN g[i] ELSE @[i]]]
  PROVE  /\ Edits(w, v)
         /\ \A i \in DOMAIN w.files : w.files[i].id = w.active => v.files[i] = g[i]
<1> DEFINE fs == [i \in DOMAIN w.files |-> IF w.files[i].id = w.active THEN g[i] ELSE w.files[i]]
<1>1. w.files \in Seq(GoodFile) /\ \A i \in DOMAIN w.files : w.files[i] \in GoodFile
  BY GoodStoreFacts
<1>2. fs \in [DOMAIN w.files -> GoodFile]
  BY <1>1
<1>3. fs \in Seq(GoodFile)
  BY <1>1, <1>2, Mapped, Zenon
<1>4. v = [w EXCEPT !.files = fs]
  OBVIOUS
<1> HIDE DEF fs
<1>5. /\ v \in GoodStore
      /\ v.active = w.active /\ v.pending = w.pending /\ v.loading = w.loading /\ v.sync = w.sync
      /\ v.files = fs
  BY <1>3, <1>4 DEF GoodStore
<1>6. DOMAIN v.files = DOMAIN w.files
  BY <1>2, <1>5
<1>7. \A i \in DOMAIN w.files : v.files[i] = IF w.files[i].id = w.active THEN g[i] ELSE w.files[i]
  BY <1>5 DEF fs
<1>8. \A i \in DOMAIN w.files :
       /\ v.files[i].id = w.files[i].id
       /\ v.files[i].name = w.files[i].name
       /\ v.files[i].cloud = w.files[i].cloud
       /\ w.files[i].id # w.active => v.files[i] = w.files[i]
       /\ w.files[i].id = w.active => v.files[i] = g[i]
  BY <1>7, Zenon
<1> QED
  BY <1>5, <1>6, <1>8 DEF Edits

LEMMA SaveTabStateFacts ==
  ASSUME NEW w \in GoodStore, NEW id, NEW content \in SUBSET (1..MaxStrokes),
         NEW v, v = SaveTabState(w, id, content)
  PROVE  /\ Edits(w, v)
         /\ \A i \in DOMAIN w.files :
              w.files[i].id = w.active =>
                /\ v.files[i].tab = w.files[i].tab
                /\ DOMAIN v.files[i].tabs = DOMAIN w.files[i].tabs
                /\ Len(v.files[i].tabs) = Len(w.files[i].tabs)
                /\ \A k \in DOMAIN w.files[i].tabs :
                     v.files[i].tabs[k] = IF w.files[i].tabs[k].id = id THEN Tab(id, content) ELSE w.files[i].tabs[k]
<1> DEFINE G(f) == [f EXCEPT !.tabs = [i \in DOMAIN @ |-> IF @[i].id = id THEN Tab(id, content) ELSE @[i]]]
           g == [i \in DOMAIN w.files |-> G(w.files[i])]
<1>1. ASSUME NEW f \in GoodFile
      PROVE  /\ G(f) \in GoodFile /\ G(f).id = f.id /\ G(f).name = f.name /\ G(f).cloud = f.cloud /\ G(f).tab = f.tab
             /\ DOMAIN G(f).tabs = DOMAIN f.tabs /\ Len(G(f).tabs) = Len(f.tabs)
             /\ \A k \in DOMAIN f.tabs : G(f).tabs[k] = IF f.tabs[k].id = id THEN Tab(id, content) ELSE f.tabs[k]
  <2> DEFINE t == [i \in DOMAIN f.tabs |-> IF f.tabs[i].id = id THEN Tab(id, content) ELSE f.tabs[i]]
  <2>1. f.tabs \in GoodTabs
    BY GoodFileFacts
  <2>2. /\ f.tabs \in Seq(TabType) /\ Len(f.tabs) \in 1..MaxTabs
        /\ \A i \in DOMAIN f.tabs : f.tabs[i] \in TabType /\ f.tabs[i].id \in Nat
        /\ \A i, j \in DOMAIN f.tabs : f.tabs[i].id = f.tabs[j].id => i = j
    BY <2>1, GoodTabsFacts
  <2>3. \A i \in DOMAIN f.tabs : t[i] \in TabType /\ t[i].id = f.tabs[i].id
    BY <2>2, TabGood
  <2>4. t \in [DOMAIN f.tabs -> TabType]
    BY <2>3
  <2>5. t \in Seq(TabType) /\ Len(t) = Len(f.tabs) /\ DOMAIN t = DOMAIN f.tabs
    BY <2>2, <2>4, Mapped, Zenon
  <2>6. G(f) = [f EXCEPT !.tabs = t]
    OBVIOUS
  <2>7. \A k \in DOMAIN f.tabs : t[k] = IF f.tabs[k].id = id THEN Tab(id, content) ELSE f.tabs[k]
    OBVIOUS
  <2> HIDE DEF t
  <2>8. t \in GoodTabs
    BY <2>2, <2>3, <2>5 DEF GoodTabs
  <2>9. G(f) = [id |-> f.id, name |-> f.name, cloud |-> f.cloud, tabs |-> t, tab |-> f.tab]
    BY <2>6, GoodFileFacts
  <2> HIDE DEF G
  <2> QED
    BY <2>5, <2>7, <2>8, <2>9, GoodFileFacts DEF GoodFile
<1>2. \A i \in DOMAIN w.files : w.files[i] \in GoodFile
  BY GoodStoreFacts
<1>3. v = [w EXCEPT !.files = [i \in DOMAIN @ |-> IF @[i].id = w.active THEN g[i] ELSE @[i]]]
  BY DEF SaveTabState, Changed
<1> HIDE DEF G
<1>4. g \in [DOMAIN w.files -> GoodFile] /\ \A i \in DOMAIN w.files : g[i] = G(w.files[i])
  BY <1>1, <1>2
<1> HIDE DEF g
<1>5. /\ Edits(w, v)
      /\ \A i \in DOMAIN w.files : w.files[i].id = w.active => v.files[i] = G(w.files[i])
  BY <1>1, <1>2, <1>3, <1>4, ChangedFacts
<1> QED
  BY <1>1, <1>2, <1>5

LEMMA SetActiveTabFacts ==
  ASSUME NEW w \in GoodStore, NEW id \in Nat, NEW v, v = SetActiveTab(w, id)
  PROVE  /\ Edits(w, v)
         /\ \A i \in DOMAIN w.files :
              w.files[i].id = w.active => v.files[i].tab = id /\ v.files[i].tabs = w.files[i].tabs
<1> DEFINE G(f) == [f EXCEPT !.tab = id]
           g == [i \in DOMAIN w.files |-> G(w.files[i])]
<1>1. ASSUME NEW f \in GoodFile
      PROVE  /\ G(f) \in GoodFile /\ G(f).id = f.id /\ G(f).name = f.name /\ G(f).cloud = f.cloud
             /\ G(f).tab = id /\ G(f).tabs = f.tabs
  BY DEF GoodFile
<1>2. \A i \in DOMAIN w.files : w.files[i] \in GoodFile
  BY GoodStoreFacts
<1>3. v = [w EXCEPT !.files = [i \in DOMAIN @ |-> IF @[i].id = w.active THEN g[i] ELSE @[i]]]
  BY DEF SetActiveTab, Changed
<1> HIDE DEF G
<1>4. g \in [DOMAIN w.files -> GoodFile] /\ \A i \in DOMAIN w.files : g[i] = G(w.files[i])
  BY <1>1, <1>2
<1> HIDE DEF g
<1>5. /\ Edits(w, v)
      /\ \A i \in DOMAIN w.files : w.files[i].id = w.active => v.files[i] = G(w.files[i])
  BY <1>1, <1>2, <1>3, <1>4, ChangedFacts
<1> QED
  BY <1>1, <1>2, <1>5

LEMMA AddTabFacts ==
  ASSUME NEW w \in GoodStore, NEW id \in Nat, NEW v, v = AddTab(w, id),
         \A i \in DOMAIN w.files :
           w.files[i].id = w.active =>
             /\ Len(w.files[i].tabs) < MaxTabs
             /\ \A k \in DOMAIN w.files[i].tabs : w.files[i].tabs[k].id # id,
         WorkspaceAssumption
  PROVE  /\ Edits(w, v)
         /\ \A i \in DOMAIN w.files :
              w.files[i].id = w.active =>
                v.files[i].tab = id /\ v.files[i].tabs = Append(w.files[i].tabs, Tab(id, {}))
<1> DEFINE G(f) == [f EXCEPT !.tabs = Append(@, Tab(id, {})), !.tab = id]
           g == [i \in DOMAIN w.files |-> IF w.files[i].id = w.active THEN G(w.files[i]) ELSE w.files[i]]
<1>1. ASSUME NEW f \in GoodFile, Len(f.tabs) < MaxTabs, \A k \in DOMAIN f.tabs : f.tabs[k].id # id
      PROVE  /\ G(f) \in GoodFile /\ G(f).id = f.id /\ G(f).name = f.name /\ G(f).cloud = f.cloud
             /\ G(f).tab = id /\ G(f).tabs = Append(f.tabs, Tab(id, {}))
  <2> DEFINE t == Append(f.tabs, Tab(id, {}))
  <2>1. /\ f.tabs \in Seq(TabType) /\ Len(f.tabs) \in 1..MaxTabs
        /\ \A i, j \in DOMAIN f.tabs : f.tabs[i].id = f.tabs[j].id => i = j
    BY GoodFileFacts, GoodTabsFacts
  <2>2. Tab(id, {}) \in TabType /\ Tab(id, {}).id = id
    BY TabGood
  <2>3. /\ t \in Seq(TabType) /\ Len(t) = Len(f.tabs) + 1
        /\ \A k \in DOMAIN f.tabs : t[k] = f.tabs[k]
        /\ t[Len(f.tabs) + 1] = Tab(id, {})
        /\ \A k \in DOMAIN t : k \in DOMAIN f.tabs \/ k = Len(f.tabs) + 1
    BY <2>1, <2>2
  <2>0. G(f) = [f EXCEPT !.tabs = t, !.tab = id]
    OBVIOUS
  <2>9. f = [id |-> f.id, name |-> f.name, cloud |-> f.cloud, tabs |-> f.tabs, tab |-> f.tab]
    BY GoodFileFacts
  <2> HIDE DEF t, G
  <2>4. Len(t) \in 1..MaxTabs
    BY <1>1, <2>1, <2>3 DEF WorkspaceAssumption
  <2>5. \A i, j \in DOMAIN t : t[i].id = t[j].id => i = j
    BY <1>1, <2>1, <2>2, <2>3, Zenon
  <2>6. t \in GoodTabs
    BY <2>3, <2>4, <2>5 DEF GoodTabs
  <2>7. G(f) = [id |-> f.id, name |-> f.name, cloud |-> f.cloud, tabs |-> t, tab |-> id]
    BY <2>0, <2>9
  <2> QED
    BY <2>6, <2>7, GoodFileFacts DEF GoodFile, t
<1>2. \A i \in DOMAIN w.files : w.files[i] \in GoodFile
  BY GoodStoreFacts
<1>3. v = [w EXCEPT !.files = [i \in DOMAIN @ |-> IF @[i].id = w.active THEN g[i] ELSE @[i]]]
  BY DEF AddTab, Changed
<1> HIDE DEF G
<1>4. /\ g \in [DOMAIN w.files -> GoodFile]
      /\ \A i \in DOMAIN w.files : g[i] = IF w.files[i].id = w.active THEN G(w.files[i]) ELSE w.files[i]
  BY <1>1, <1>2
<1> HIDE DEF g
<1>5. /\ Edits(w, v)
      /\ \A i \in DOMAIN w.files : w.files[i].id = w.active => v.files[i] = G(w.files[i])
  BY <1>1, <1>2, <1>3, <1>4, ChangedFacts
<1> QED
  <2> SUFFICES ASSUME NEW i \in DOMAIN w.files, w.files[i].id = w.active
               PROVE v.files[i].tab = id /\ v.files[i].tabs = Append(w.files[i].tabs, Tab(id, {}))
    BY <1>5
  <2> QED
    BY <1>1, <1>2, <1>5, ZenonT(30)

LEMMA RemoveTabFacts ==
  ASSUME WorkspaceAssumption, NEW w \in GoodStore, NEW id, NEW v, v = RemoveTab(w, id)
  PROVE  /\ Edits(w, v)
         /\ \A i \in DOMAIN w.files :
              w.files[i].id = w.active =>
                \/ Len(w.files[i].tabs) <= 1 /\ v.files[i] = w.files[i]
                \/ /\ Len(w.files[i].tabs) > 1
                   /\ v.files[i].tabs = Without(w.files[i].tabs, id)
                   /\ v.files[i].tab = IF w.files[i].tab = id THEN Last(v.files[i].tabs).id ELSE w.files[i].tab
<1> DEFINE R(f) == Without(f.tabs, id)
           N(f) == IF f.tab = id THEN Last(R(f)).id ELSE f.tab
           G(f) == IF Len(f.tabs) <= 1 THEN f ELSE [f EXCEPT !.tabs = R(f), !.tab = N(f)]
           g == [i \in DOMAIN w.files |-> G(w.files[i])]
<1>1. ASSUME NEW f \in GoodFile
      PROVE  /\ G(f) \in GoodFile /\ G(f).id = f.id /\ G(f).name = f.name /\ G(f).cloud = f.cloud
             /\ Len(f.tabs) <= 1 => G(f) = f
             /\ Len(f.tabs) > 1 => G(f).tabs = R(f) /\ G(f).tab = N(f)
  <2>0. CASE Len(f.tabs) <= 1
    BY <2>0, GoodFileFacts, GoodTabsFacts
  <2>1. /\ f.tabs \in Seq(TabType) /\ Len(f.tabs) \in 1..MaxTabs
        /\ \A i, j \in DOMAIN f.tabs : f.tabs[i].id = f.tabs[j].id => i = j
    BY GoodFileFacts, GoodTabsFacts
  <2>2. CASE Len(f.tabs) > 1
    <3>1. /\ R(f) \in Seq(TabType) /\ Len(R(f)) <= Len(f.tabs)
          /\ R(f) = <<>> <=> \A i \in DOMAIN f.tabs : f.tabs[i].id = id
      BY <2>1, WithoutFacts
    <3>2. PICK m \in [DOMAIN R(f) -> DOMAIN f.tabs] :
            /\ \A k \in DOMAIN R(f) : R(f)[k] = f.tabs[m[k]] /\ f.tabs[m[k]].id # id
            /\ \A k, l \in DOMAIN R(f) : m[k] = m[l] => k = l
            /\ \A i \in DOMAIN f.tabs : f.tabs[i].id # id => \E k \in DOMAIN R(f) : m[k] = i
      BY <2>1, WithoutFacts, Zenon
    <3> HIDE DEF R
    <3>3. R(f) # <<>>
      <4>1. 1 \in DOMAIN f.tabs /\ 2 \in DOMAIN f.tabs
        BY <2>1, <2>2
      <4>2. f.tabs[1].id # f.tabs[2].id
        BY <2>1, <4>1
      <4> QED
        BY <3>1, <4>1, <4>2
    <3>4. Len(R(f)) \in 1..MaxTabs /\ Len(R(f)) \in DOMAIN R(f)
      <4>1. MaxTabs \in Nat
        BY DEF WorkspaceAssumption
      <4>2. Len(R(f)) \in Nat /\ Len(R(f)) # 0
        BY <3>1, <3>3
      <4> QED
        BY <2>1, <3>1, <4>1, <4>2
    <3>5. \A i, j \in DOMAIN R(f) : R(f)[i].id = R(f)[j].id => i = j
      BY <2>1, <3>2
    <3>6. R(f) \in GoodTabs
      BY <3>1, <3>4, <3>5 DEF GoodTabs
    <3>7. Last(R(f)).id \in Nat
      BY <3>4, <3>6, GoodTabsFacts DEF Last
    <3>8. N(f) \in Nat
      BY <3>7, GoodFileFacts
    <3> HIDE DEF N
    <3>9. G(f) = [id |-> f.id, name |-> f.name, cloud |-> f.cloud, tabs |-> R(f), tab |-> N(f)]
      <4>1. f = [id |-> f.id, name |-> f.name, cloud |-> f.cloud, tabs |-> f.tabs, tab |-> f.tab]
        BY GoodFileFacts
      <4>2. ~(Len(f.tabs) <= 1)
        BY <2>1, <2>2
      <4> QED
        BY <4>1, <4>2
    <3> HIDE DEF G
    <3> QED
      BY <2>2, <2>1, <3>6, <3>8, <3>9, GoodFileFacts DEF GoodFile
  <2> QED
    BY <2>0, <2>1, <2>2
<1>2. \A i \in DOMAIN w.files : w.files[i] \in GoodFile
  BY GoodStoreFacts
<1>3. v = [w EXCEPT !.files = [i \in DOMAIN @ |-> IF @[i].id = w.active THEN g[i] ELSE @[i]]]
  BY DEF RemoveTab, Changed
<1> HIDE DEF G
<1>4. g \in [DOMAIN w.files -> GoodFile] /\ \A i \in DOMAIN w.files : g[i] = G(w.files[i])
  BY <1>1, <1>2
<1> HIDE DEF g
<1>5. /\ Edits(w, v)
      /\ \A i \in DOMAIN w.files : w.files[i].id = w.active => v.files[i] = G(w.files[i])
  BY <1>1, <1>2, <1>3, <1>4, ChangedFacts
<1>6. \A i \in DOMAIN w.files : Len(w.files[i].tabs) \in Nat
  BY <1>2, GoodFileFacts, GoodTabsFacts
<1> HIDE DEF R
<1> QED
  <2> SUFFICES ASSUME NEW i \in DOMAIN w.files, w.files[i].id = w.active
               PROVE \/ Len(w.files[i].tabs) <= 1 /\ v.files[i] = w.files[i]
                     \/ /\ Len(w.files[i].tabs) > 1
                        /\ v.files[i].tabs = R(w.files[i])
                        /\ v.files[i].tab = IF w.files[i].tab = id THEN Last(v.files[i].tabs).id ELSE w.files[i].tab
    BY <1>5 DEF R
  <2>1. v.files[i] = G(w.files[i]) /\ w.files[i] \in GoodFile
    BY <1>2, <1>5
  <2> QED
    BY <1>1, <1>6, <2>1

LEMMA LoadFromFileFacts ==
  ASSUME NEW w \in GoodStore, NEW tabs \in GoodTabs, NEW v, v = LoadFromFile(w, tabs)
  PROVE  /\ Edits(w, v)
         /\ \A i \in DOMAIN w.files :
              w.files[i].id = w.active => v.files[i].tab = tabs[1].id /\ v.files[i].tabs = tabs
<1> DEFINE G(f) == [f EXCEPT !.tabs = tabs, !.tab = tabs[1].id]
           g == [i \in DOMAIN w.files |-> G(w.files[i])]
<1>0. tabs[1].id \in Nat
  BY GoodTabsFacts
<1>1. ASSUME NEW f \in GoodFile
      PROVE  /\ G(f) \in GoodFile /\ G(f).id = f.id /\ G(f).name = f.name /\ G(f).cloud = f.cloud
             /\ G(f).tab = tabs[1].id /\ G(f).tabs = tabs
  BY <1>0 DEF GoodFile
<1>2. \A i \in DOMAIN w.files : w.files[i] \in GoodFile
  BY GoodStoreFacts
<1>3. v = [w EXCEPT !.files = [i \in DOMAIN @ |-> IF @[i].id = w.active THEN g[i] ELSE @[i]]]
  BY DEF LoadFromFile, Changed
<1> HIDE DEF G
<1>4. g \in [DOMAIN w.files -> GoodFile] /\ \A i \in DOMAIN w.files : g[i] = G(w.files[i])
  BY <1>1, <1>2
<1> HIDE DEF g
<1>5. /\ Edits(w, v)
      /\ \A i \in DOMAIN w.files : w.files[i].id = w.active => v.files[i] = G(w.files[i])
  BY <1>1, <1>2, <1>3, <1>4, ChangedFacts
<1> QED
  BY <1>1, <1>2, <1>5

LEMMA CreatedFacts ==
  ASSUME NEW w \in GoodStore, NEW f \in GoodFile, NEW v, v = Created(w, f)
  PROVE  /\ v \in GoodStore
         /\ v.files = Append(w.files, f) /\ v.active = f.id
         /\ v.pending = w.pending /\ v.loading = w.loading /\ v.sync = w.sync
         /\ DOMAIN v.files = 1..(Len(w.files) + 1) /\ v.files # <<>>
         /\ \A i \in DOMAIN w.files : v.files[i] = w.files[i]
         /\ v.files[Len(w.files) + 1] = f
         /\ \A i \in DOMAIN v.files : i \in DOMAIN w.files \/ i = Len(w.files) + 1
<1>1. w.files \in Seq(GoodFile) /\ f.id \in Nat
  BY GoodStoreFacts, GoodFileFacts
<1> DEFINE fs == Append(w.files, f)
<1>2. fs \in Seq(GoodFile)
  BY <1>1
<1>3. v = [w EXCEPT !.files = fs, !.active = f.id]
  BY DEF Created
<1>4. /\ DOMAIN fs = 1..(Len(w.files) + 1) /\ fs # <<>>
      /\ \A i \in DOMAIN w.files : fs[i] = w.files[i]
      /\ fs[Len(w.files) + 1] = f
      /\ \A i \in DOMAIN fs : i \in DOMAIN w.files \/ i = Len(w.files) + 1
  BY <1>1
<1> HIDE DEF fs
<1>5. /\ v \in GoodStore /\ v.files = fs /\ v.active = f.id
      /\ v.pending = w.pending /\ v.loading = w.loading /\ v.sync = w.sync
  BY <1>1, <1>2, <1>3 DEF GoodStore
<1> QED
  BY <1>4, <1>5 DEF fs

LEMMA DeletedFacts ==
  ASSUME NEW w \in GoodStore, NEW files \in Seq(GoodFile), NEW active \in Nat, NEW id,
         NEW v, v = Deleted(w, files, active, id)
  PROVE  /\ v \in GoodStore
         /\ \/ active = id /\ Without(files, id) = <<>> /\ v = w
            \/ /\ v.files = Without(files, id)
               /\ active = id => v.files # <<>> /\ v.active = v.files[1].id
               /\ active # id => v.active = active
               /\ v.pending = w.pending /\ v.loading = w.loading /\ v.sync = w.sync
<1> DEFINE rest == Without(files, id)
           next == IF active = id THEN rest[1].id ELSE active
<1>1. rest \in Seq(GoodFile)
  BY WithoutFacts
<1>2. CASE active = id /\ rest = <<>>
  BY <1>2 DEF Deleted
<1>3. CASE ~(active = id /\ rest = <<>>)
  <2>1. v = [w EXCEPT !.files = rest, !.active = next]
    BY <1>3 DEF Deleted
  <2>2. next \in Nat
    <3>1. CASE active = id
      <4>1. rest # <<>>
        BY <1>3, <3>1
      <4>2. rest[1] \in GoodFile
        BY <1>1, <4>1
      <4> QED
        BY <3>1, <4>2, GoodFileFacts
    <3> QED
      BY <3>1
  <2>3. (active = id => rest # <<>> /\ next = rest[1].id) /\ (active # id => next = active)
    BY <1>3
  <2> HIDE DEF rest, next
  <2>4. /\ v \in GoodStore /\ v.files = rest /\ v.active = next
        /\ v.pending = w.pending /\ v.loading = w.loading /\ v.sync = w.sync
    BY <1>1, <2>1, <2>2 DEF GoodStore
  <2> QED
    BY <2>3, <2>4 DEF rest
<1> QED
  BY <1>2, <1>3

LEMMA RenamedFacts ==
  ASSUME NEW w \in GoodStore, NEW id, NEW name \in Nat, NEW v, v = Renamed(w, id, name)
  PROVE  /\ v \in GoodStore
         /\ v.active = w.active /\ v.pending = w.pending /\ v.loading = w.loading /\ v.sync = w.sync
         /\ DOMAIN v.files = DOMAIN w.files
         /\ \A i \in DOMAIN w.files :
              /\ v.files[i].id = w.files[i].id /\ v.files[i].cloud = w.files[i].cloud
              /\ v.files[i].tabs = w.files[i].tabs /\ v.files[i].tab = w.files[i].tab
              /\ v.files[i].name = IF w.files[i].id = id THEN name ELSE w.files[i].name
<1> DEFINE G(f) == IF f.id = id THEN [f EXCEPT !.name = name] ELSE f
           fs == [i \in DOMAIN w.files |-> G(w.files[i])]
<1>1. ASSUME NEW f \in GoodFile
      PROVE  /\ G(f) \in GoodFile /\ G(f).id = f.id /\ G(f).cloud = f.cloud /\ G(f).tabs = f.tabs /\ G(f).tab = f.tab
             /\ G(f).name = IF f.id = id THEN name ELSE f.name
  BY DEF GoodFile
<1>2. w.files \in Seq(GoodFile) /\ \A i \in DOMAIN w.files : w.files[i] \in GoodFile
  BY GoodStoreFacts
<1>3. v = [w EXCEPT !.files = fs]
  BY DEF Renamed
<1> HIDE DEF G
<1>4. fs \in [DOMAIN w.files -> GoodFile] /\ \A i \in DOMAIN w.files : fs[i] = G(w.files[i])
  BY <1>1, <1>2
<1> HIDE DEF fs
<1>5. fs \in Seq(GoodFile) /\ DOMAIN fs = DOMAIN w.files
  BY <1>2, <1>4, Mapped, Zenon
<1>6. /\ v \in GoodStore
      /\ v.active = w.active /\ v.pending = w.pending /\ v.loading = w.loading /\ v.sync = w.sync
      /\ v.files = fs
  BY <1>3, <1>5 DEF GoodStore
<1> QED
  BY <1>1, <1>2, <1>4, <1>5, <1>6

LEMMA EmptyFileFacts ==
  ASSUME WorkspaceAssumption, TypeInv, NEW name \in Nat
  PROVE  LET f == EmptyFile(name)
         IN /\ f \in GoodFile
            /\ f.id = NewId /\ f.name = name /\ ~f.cloud /\ f.tabs = <<Tab(NewTab, {})>> /\ f.tab = NewTab
<1>1. NewId \in Nat /\ NewTab \in Nat
  BY NewIds
<1>2. Tab(NewTab, {}) \in TabType /\ Tab(NewTab, {}).id = NewTab
  BY <1>1, TabGood
<1>3. <<Tab(NewTab, {})>> \in GoodTabs
  BY <1>2, OneTabGood
<1>4. File(NewId, name, FALSE, <<Tab(NewTab, {})>>) \in GoodFile
  BY <1>1, <1>3, FileGood
<1> QED
  BY <1>2, <1>4 DEF EmptyFile, File

LEMMA ResetFacts ==
  ASSUME WorkspaceAssumption, TypeInv, NEW v, v = ResetToGuestState(store)
  PROVE  /\ v \in GoodStore
         /\ v.pending = <<>> /\ v.loading = FALSE /\ v.sync = "idle"
         /\ v.files = IF Local(store.files) = <<>> THEN <<EmptyFile(Untitled)>> ELSE Local(store.files)
         /\ v.files # <<>>
         /\ v.active = IF store.active \in Ids(v.files) THEN store.active ELSE v.files[1].id
<1> DEFINE locals == IF Local(store.files) = <<>> THEN <<EmptyFile(Untitled)>> ELSE Local(store.files)
           a == IF store.active \in Ids(locals) THEN store.active ELSE locals[1].id
<1>1. store.files \in Seq(GoodFile) /\ store.active \in Nat
  BY GoodStoreFacts DEF TypeInv, StoreTyped, OthersTyped
<1>2. Local(store.files) \in Seq(GoodFile)
  BY <1>1, LocalFacts
<1>3. EmptyFile(Untitled) \in GoodFile
  BY EmptyFileFacts DEF Untitled
<1>4. locals \in Seq(GoodFile) /\ locals # <<>>
  BY <1>2, <1>3
<1>5. v = [files |-> locals, pending |-> <<>>, loading |-> FALSE, sync |-> "idle", active |-> a]
  BY DEF ResetToGuestState
<1>6. locals[1] \in GoodFile
  <2> HIDE DEF locals
  <2> QED
    BY <1>4
<1>7. a \in Nat
  BY <1>1, <1>6, GoodFileFacts
<1>8. v.files = locals /\ v.active = a /\ v.pending = <<>> /\ v.loading = FALSE /\ v.sync = "idle"
  BY <1>5
<1>9. v \in GoodStore
  <2>1. <<>> \in Seq(GoodFile)
    OBVIOUS
  <2> HIDE DEF locals, a
  <2> QED
    BY <1>4, <1>5, <1>7, <2>1 DEF GoodStore
<1> QED
  BY <1>4, <1>8, <1>9

LEMMA MigratedFacts ==
  ASSUME NEW w \in GoodStore, NEW up \in Seq(AccountFile), NEW v, v = Migrated(w, up)
  PROVE  /\ v \in GoodStore
         /\ v.active = w.active /\ v.pending = w.pending /\ v.loading = w.loading
         /\ DOMAIN v.files = DOMAIN w.files
         /\ \A i \in DOMAIN w.files :
              /\ v.files[i].name = w.files[i].name
              /\ v.files[i].tabs = w.files[i].tabs /\ v.files[i].tab = w.files[i].tab
              /\ \/ v.files[i] = w.files[i]
                 \/ /\ ~w.files[i].cloud /\ v.files[i].cloud
                    /\ \E k \in DOMAIN up : up[k].name = w.files[i].name /\ v.files[i].id = up[k].id
<1> DEFINE Same(f) == {k \in DOMAIN up : up[k].name = f.name /\ Len(up[k].tabs) = Len(f.tabs)}
           first(f) == Nth(Same(f), 1)
           G(f) == IF f.cloud \/ Same(f) = {} THEN f
                   ELSE [f EXCEPT !.id = up[first(f)].id, !.cloud = TRUE]
           fs == [i \in DOMAIN w.files |-> G(w.files[i])]
<1>1. ASSUME NEW f \in GoodFile
      PROVE  /\ G(f) \in GoodFile /\ G(f).name = f.name /\ G(f).tabs = f.tabs /\ G(f).tab = f.tab
             /\ \/ G(f) = f
                \/ /\ ~f.cloud /\ G(f).cloud
                   /\ \E k \in DOMAIN up : up[k].name = f.name /\ G(f).id = up[k].id
  <2>1. CASE f.cloud \/ Same(f) = {}
    <3>1. G(f) = f
      BY <2>1
    <3> QED
      BY <3>1
  <2>2. CASE ~f.cloud /\ Same(f) # {}
    <3>1. first(f) \in Same(f)
      <4>1. IsFiniteSet(DOMAIN up)
        <5>1. ASSUME NEW m \in Nat PROVE IsFiniteSet(1..m)
          BY FS_Interval
        <5>2. DOMAIN up = 1..Len(up) /\ Len(up) \in Nat
          OBVIOUS
        <5> QED
          BY <5>1, <5>2, Zenon
      <4>2. Same(f) \in SUBSET DOMAIN up
        OBVIOUS
      <4>3. IsFiniteSet(Same(f))
        BY <4>1, <4>2, FS_Subset, Zenon
      <4>4. Same(f) \in SUBSET Nat
        OBVIOUS
      <4> HIDE DEF Same
      <4>5. /\ Cardinality(Same(f)) \in Nat
            /\ Cardinality(Same(f)) = 0 <=> Same(f) = {}
            /\ \A k \in 1..Cardinality(Same(f)) : Nth(Same(f), k) \in Same(f)
        BY <4>3, <4>4, NthMember, Zenon
      <4>6. 1 \in 1..Cardinality(Same(f))
        BY <2>2, <4>5
      <4> QED
        BY <4>5, <4>6, Zenon
    <3> HIDE DEF first
    <3>2. first(f) \in DOMAIN up /\ up[first(f)].name = f.name
      BY <3>1
    <3>3. up[first(f)].id \in Nat
      <4>1. up[first(f)] \in AccountFile
        BY <3>2
      <4> QED
        BY <4>1 DEF AccountFile
    <3>4. G(f) = [f EXCEPT !.id = up[first(f)].id, !.cloud = TRUE]
      BY <2>2
    <3> HIDE DEF G, Same
    <3>5. f = [id |-> f.id, name |-> f.name, cloud |-> f.cloud, tabs |-> f.tabs, tab |-> f.tab]
      BY GoodFileFacts
    <3>6. G(f) = [id |-> up[first(f)].id, name |-> f.name, cloud |-> TRUE, tabs |-> f.tabs, tab |-> f.tab]
      BY <3>4, <3>5
    <3>7. /\ G(f) \in GoodFile /\ G(f).name = f.name /\ G(f).tabs = f.tabs /\ G(f).tab = f.tab
          /\ G(f).cloud /\ G(f).id = up[first(f)].id
      BY <3>3, <3>6, GoodFileFacts DEF GoodFile
    <3> QED
      BY <2>2, <3>2, <3>7, Zenon
  <2> QED
    BY <2>1, <2>2
<1>2. w.files \in Seq(GoodFile) /\ \A i \in DOMAIN w.files : w.files[i] \in GoodFile
  BY GoodStoreFacts
<1>3. v = [w EXCEPT !.files = fs, !.sync = "synced"]
  BY DEF Migrated
<1> HIDE DEF G
<1>4. fs \in [DOMAIN w.files -> GoodFile] /\ \A i \in DOMAIN w.files : fs[i] = G(w.files[i])
  BY <1>1, <1>2
<1> HIDE DEF fs
<1>5. fs \in Seq(GoodFile) /\ DOMAIN fs = DOMAIN w.files
  BY <1>2, <1>4, Mapped, Zenon
<1>6. /\ v \in GoodStore
      /\ v.active = w.active /\ v.pending = w.pending /\ v.loading = w.loading
      /\ v.files = fs
  BY <1>3, <1>5 DEF GoodStore
<1>7. \A i \in DOMAIN w.files : v.files[i] = G(w.files[i])
  BY <1>4, <1>6
<1> QED
  <2> SUFFICES ASSUME NEW i \in DOMAIN w.files
               PROVE  /\ v.files[i].name = w.files[i].name
                      /\ v.files[i].tabs = w.files[i].tabs /\ v.files[i].tab = w.files[i].tab
                      /\ \/ v.files[i] = w.files[i]
                         \/ /\ ~w.files[i].cloud /\ v.files[i].cloud
                            /\ \E k \in DOMAIN up : up[k].name = w.files[i].name /\ v.files[i].id = up[k].id
    BY <1>5, <1>6
  <2>1. w.files[i] \in GoodFile /\ v.files[i] = G(w.files[i])
    BY <1>2, <1>7
  <2> QED
    BY <1>1, <2>1, SMT

LEMMA TimesGrows ==
  ASSUME NEW m \in Nat, NEW a \in Nat, NEW b \in Nat, a <= b
  PROVE  a * m \in Nat /\ b * m \in Nat /\ a * m <= b * m
<1>1. b = a + (b - a) /\ b - a \in Nat
  OBVIOUS
<1> DEFINE d == b - a
<1>2. d \in Nat /\ b = a + d
  BY <1>1
<1> HIDE DEF d
<1>3. (a + d) * m = a * m + d * m
  BY <1>2
<1>4. a * m \in Nat /\ d * m \in Nat
  BY <1>2
<1> QED
  BY <1>2, <1>3, <1>4

\* The places that CloudFiles keeps for the sheets of each file.
Place(m, i, j) == (i - 1) * m + j

\* In a list of n files with m sheets each, every sheet has a place of its own.
PlacesApart(m, n) ==
  \A i, p \in 1..n : \A j, q \in 1..m :
    /\ Place(m, i, j) \in 1..(m * n)
    /\ Place(m, i, j) = Place(m, p, q) => i = p /\ j = q

LEMMA Places ==
  ASSUME NEW m \in Nat, NEW n \in Nat
  PROVE  PlacesApart(m, n)
<1> SUFFICES ASSUME NEW i \in 1..n, NEW p \in 1..n, NEW j \in 1..m, NEW q \in 1..m
             PROVE  /\ (i - 1) * m + j \in 1..(m * n)
                    /\ (i - 1) * m + j = (p - 1) * m + q => i = p /\ j = q
  BY Zenon DEF Place, PlacesApart
<1>1. ASSUME NEW a \in 1..n PROVE (a - 1) * m \in Nat /\ a * m \in Nat /\ a * m = (a - 1) * m + m
  <2>1. a - 1 \in Nat /\ a \in Nat
    OBVIOUS
  <2>2. (a - 1) * m \in Nat /\ a * m \in Nat
    BY <2>1, TimesGrows
  <2> DEFINE c == a - 1
  <2>3. c \in Nat /\ a = c + 1
    OBVIOUS
  <2> HIDE DEF c
  <2>4. (c + 1) * m = c * m + m
    BY <2>3
  <2>5. a - 1 = c
    BY <2>3
  <2> QED
    BY <2>2, <2>3, <2>4, <2>5
<1>2. i * m <= n * m /\ n * m \in Nat
  BY TimesGrows
<1>3. m * n = n * m
  OBVIOUS
<1>4. (i - 1) * m + j \in 1..(m * n)
  BY <1>1, <1>2, <1>3
<1>5. ASSUME NEW a \in 1..n, NEW b \in 1..n, a < b PROVE a * m <= (b - 1) * m
  <2>1. a \in Nat /\ b - 1 \in Nat /\ a <= b - 1
    BY <1>5
  <2> QED
    BY <2>1, TimesGrows
<1>6. CASE i < p
  <2>1. i * m <= (p - 1) * m /\ i * m = (i - 1) * m + m /\ (i - 1) * m \in Nat /\ (p - 1) * m \in Nat /\ i * m \in Nat
    BY <1>1, <1>5, <1>6
  <2>2. (i - 1) * m + j # (p - 1) * m + q
    BY <2>1
  <2> QED
    BY <1>4, <2>2
<1>7. CASE p < i
  <2>1. p * m <= (i - 1) * m /\ p * m = (p - 1) * m + m /\ (p - 1) * m \in Nat /\ (i - 1) * m \in Nat /\ p * m \in Nat
    BY <1>1, <1>5, <1>7
  <2>2. (i - 1) * m + j # (p - 1) * m + q
    BY <2>1
  <2> QED
    BY <1>4, <2>2
<1>8. CASE i = p
  <2>1. (i - 1) * m \in Nat
    BY <1>1
  <2>2. (i - 1) * m + j = (i - 1) * m + q => j = q
    BY <2>1
  <2> QED
    BY <1>4, <1>8, <2>2
<1> QED
  BY <1>6, <1>7, <1>8

LEMMA CloudFilesFacts ==
  ASSUME WorkspaceAssumption, TypeInv, NEW bare
  PROVE  /\ CloudFiles(bare) \in Seq(GoodFile) /\ DOMAIN CloudFiles(bare) = DOMAIN cloud
         /\ \A i \in DOMAIN cloud :
              /\ CloudFiles(bare)[i].id = cloud[i].id /\ CloudFiles(bare)[i].cloud
              /\ CloudFiles(bare)[i].tab = CloudFiles(bare)[i].tabs[1].id
              /\ TabsWork(CloudFiles(bare)[i].tabs) \subseteq TabsWork(cloud[i].tabs)
              /\ \A k \in DOMAIN CloudFiles(bare)[i].tabs : CloudFiles(bare)[i].tabs[k].id \notin UsedTabs
         /\ \A i, j \in DOMAIN cloud : \A k \in DOMAIN CloudFiles(bare)[i].tabs, l \in DOMAIN CloudFiles(bare)[j].tabs :
              CloudFiles(bare)[i].tabs[k].id = CloudFiles(bare)[j].tabs[l].id => i = j /\ k = l
<1> DEFINE n == Len(cloud)
           new == Fresh(MaxTabs * n, UsedTabs)
           Listed(i) == [j \in DOMAIN cloud[i].tabs |-> Tab(new[Place(MaxTabs, i, j)], cloud[i].tabs[j].content)]
           T(i) == IF i \in bare \/ cloud[i].tabs = <<>> THEN <<Tab(new[Place(MaxTabs, i, 1)], {})>> ELSE Listed(i)
<1>1. n \in Nat /\ MaxTabs \in Nat \ {0} /\ cloud \in Seq(AccountFile) /\ DOMAIN cloud = 1..n
  BY DEF TypeInv, StoreTyped, OthersTyped, WorkspaceAssumption
<1>2. MaxTabs * n \in Nat
  BY <1>1
<1>3. /\ new \in [1..(MaxTabs * n) -> Nat]
      /\ \A k \in 1..(MaxTabs * n) : new[k] \notin UsedTabs
      /\ \A k, l \in 1..(MaxTabs * n) : new[k] = new[l] => k = l
  BY <1>2, UsedFinite, FreshFacts, Zenon
<1> HIDE DEF new
<1>4. \A i, p \in 1..n, j, q \in 1..MaxTabs :
        /\ Place(MaxTabs, i, j) \in 1..(MaxTabs * n)
        /\ Place(MaxTabs, i, j) = Place(MaxTabs, p, q) => i = p /\ j = q
  <2> HIDE DEF n, Listed, T
  <2>1. n \in Nat /\ MaxTabs \in Nat
    BY <1>1
  <2>2. PlacesApart(MaxTabs, n)
    BY <2>1, Places, Zenon
  <2> QED
    BY <2>2, Zenon DEF PlacesApart
<1>5. ASSUME NEW i \in 1..n
      PROVE  /\ cloud[i].id \in Nat /\ cloud[i].name \in Nat
             /\ cloud[i].tabs \in Seq(TabType) /\ Len(cloud[i].tabs) <= MaxTabs
             /\ \A j \in DOMAIN cloud[i].tabs : cloud[i].tabs[j].content \in SUBSET (1..MaxStrokes)
  <2>1. cloud[i] \in AccountFile
    BY <1>1
  <2>2. cloud[i].tabs \in Seq(TabType) /\ Len(cloud[i].tabs) <= MaxTabs /\ cloud[i].id \in Nat /\ cloud[i].name \in Nat
    BY <2>1 DEF AccountFile
  <2>3. \A j \in DOMAIN cloud[i].tabs : cloud[i].tabs[j] \in TabType
    BY <2>2
  <2> QED
    BY <2>2, <2>3 DEF TabType
<1>6. ASSUME NEW i \in 1..n
      PROVE  /\ T(i) \in Seq(TabType) /\ Len(T(i)) \in 1..MaxTabs
             /\ \A k \in DOMAIN T(i) : k \in 1..MaxTabs /\ T(i)[k].id = new[Place(MaxTabs, i, k)]
             /\ TabsWork(T(i)) \subseteq TabsWork(cloud[i].tabs)
  <2>1. CASE i \in bare \/ cloud[i].tabs = <<>>
    <3>1. 1 \in 1..MaxTabs
      BY <1>1
    <3>2. new[Place(MaxTabs, i, 1)] \in Nat
      BY <1>3, <1>4, <3>1
    <3>3. Tab(new[Place(MaxTabs, i, 1)], {}) \in TabType /\ Tab(new[Place(MaxTabs, i, 1)], {}).id = new[Place(MaxTabs, i, 1)]
          /\ Tab(new[Place(MaxTabs, i, 1)], {}).content = {}
      BY <3>2, TabGood
    <3> DEFINE t == Tab(new[Place(MaxTabs, i, 1)], {})
    <3>4. T(i) = <<t>>
      BY <2>1
    <3> HIDE DEF t
    <3>5. <<t>> \in Seq(TabType) /\ Len(<<t>>) = 1 /\ DOMAIN <<t>> = {1} /\ <<t>>[1] = t
      BY <3>3 DEF t
    <3>6. TabsWork(<<t>>) = {}
      BY <3>3, <3>5 DEF TabsWork, t
    <3> HIDE DEF T
    <3> QED
      BY <2>1, <3>1, <3>3, <3>4, <3>5, <3>6 DEF t
  <2>2. CASE ~(i \in bare \/ cloud[i].tabs = <<>>)
    <3>0. \A j \in DOMAIN cloud[i].tabs : j \in 1..MaxTabs
      BY <1>1, <1>5
    <3>1. ASSUME NEW j \in DOMAIN cloud[i].tabs
          PROVE  /\ Listed(i)[j] \in TabType /\ Listed(i)[j].id = new[Place(MaxTabs, i, j)]
                 /\ Listed(i)[j].content = cloud[i].tabs[j].content
      <4>1. new[Place(MaxTabs, i, j)] \in Nat
        BY <1>3, <1>4, <3>0
      <4> QED
        BY <1>5, <4>1, TabGood
    <3>2. Listed(i) \in [DOMAIN cloud[i].tabs -> TabType]
      BY <3>1
    <3>3. Listed(i) \in Seq(TabType) /\ Len(Listed(i)) = Len(cloud[i].tabs) /\ DOMAIN Listed(i) = DOMAIN cloud[i].tabs
      BY <1>5, <3>2, Mapped, Zenon
    <3>4. T(i) = Listed(i)
      BY <2>2
    <3> HIDE DEF Listed, T
    <3>5. Len(T(i)) \in 1..MaxTabs
      BY <1>1, <1>5, <2>2, <3>3, <3>4
    <3>6. TabsWork(T(i)) = TabsWork(cloud[i].tabs)
      BY <3>1, <3>3, <3>4, SMTT(30) DEF TabsWork
    <3> QED
      BY <3>0, <3>1, <3>3, <3>4, <3>5, <3>6
  <2> QED
    BY <2>1, <2>2
<1>7. CloudFiles(bare) = [i \in DOMAIN cloud |-> File(cloud[i].id, cloud[i].name, TRUE, T(i))]
  BY DEF CloudFiles, Place, new
<1> HIDE DEF T
<1>8. ASSUME NEW i \in 1..n
      PROVE  /\ T(i) \in GoodTabs
             /\ \A k \in DOMAIN T(i) : T(i)[k].id \notin UsedTabs
  <2>1. \A k \in DOMAIN T(i) : k \in 1..MaxTabs /\ T(i)[k].id = new[Place(MaxTabs, i, k)] /\ Place(MaxTabs, i, k) \in 1..(MaxTabs * n)
    BY <1>4, <1>6
  <2>2. \A k, l \in DOMAIN T(i) : T(i)[k].id = T(i)[l].id => k = l
    BY <1>3, <1>4, <2>1
  <2>3. T(i) \in GoodTabs
    BY <1>6, <2>2 DEF GoodTabs
  <2> QED
    BY <1>3, <2>1, <2>3
<1>9. ASSUME NEW i \in 1..n
      PROVE  CloudFiles(bare)[i] \in GoodFile /\ CloudFiles(bare)[i].id = cloud[i].id /\ CloudFiles(bare)[i].cloud
             /\ CloudFiles(bare)[i].tabs = T(i) /\ CloudFiles(bare)[i].tab = T(i)[1].id
  <2>1. CloudFiles(bare)[i] = File(cloud[i].id, cloud[i].name, TRUE, T(i))
    BY <1>1, <1>7
  <2>2. File(cloud[i].id, cloud[i].name, TRUE, T(i)) \in GoodFile
    BY <1>5, <1>8, FileGood
  <2> QED
    BY <2>1, <2>2 DEF File
<1>10. CloudFiles(bare) \in [DOMAIN cloud -> GoodFile]
  BY <1>1, <1>7, <1>9
<1>11. CloudFiles(bare) \in Seq(GoodFile) /\ DOMAIN CloudFiles(bare) = DOMAIN cloud
  BY <1>1, <1>10, Mapped, Zenon
<1>12. ASSUME NEW i \in 1..n, NEW j \in 1..n, NEW k \in DOMAIN T(i), NEW l \in DOMAIN T(j), T(i)[k].id = T(j)[l].id
       PROVE  i = j /\ k = l
  <2>1. /\ k \in 1..MaxTabs /\ l \in 1..MaxTabs
        /\ T(i)[k].id = new[Place(MaxTabs, i, k)] /\ T(j)[l].id = new[Place(MaxTabs, j, l)]
    BY <1>6
  <2>2. Place(MaxTabs, i, k) = Place(MaxTabs, j, l)
    BY <1>3, <1>4, <1>12, <2>1
  <2> QED
    BY <1>4, <2>1, <2>2
<1> QED
  <2>1. /\ \A i \in DOMAIN cloud :
              /\ CloudFiles(bare)[i].id = cloud[i].id /\ CloudFiles(bare)[i].cloud
              /\ CloudFiles(bare)[i].tabs = T(i)
              /\ CloudFiles(bare)[i].tab = CloudFiles(bare)[i].tabs[1].id
              /\ TabsWork(CloudFiles(bare)[i].tabs) \subseteq TabsWork(cloud[i].tabs)
              /\ \A k \in DOMAIN CloudFiles(bare)[i].tabs : CloudFiles(bare)[i].tabs[k].id \notin UsedTabs
    BY <1>1, <1>6, <1>8, <1>9
  <2>2. ASSUME NEW i \in DOMAIN cloud, NEW j \in DOMAIN cloud,
               NEW k \in DOMAIN CloudFiles(bare)[i].tabs, NEW l \in DOMAIN CloudFiles(bare)[j].tabs,
               CloudFiles(bare)[i].tabs[k].id = CloudFiles(bare)[j].tabs[l].id
        PROVE  i = j /\ k = l
    <3>1. CloudFiles(bare)[i].tabs = T(i) /\ CloudFiles(bare)[j].tabs = T(j) /\ i \in 1..n /\ j \in 1..n
      BY <1>1, <1>9
    <3> QED
      BY <1>12, <2>2, <3>1
  <2> QED
    BY <1>11, <2>1, <2>2

HasLoaded(v, locals, bare) ==
  /\ v \in GoodStore /\ v.loading = FALSE /\ v.files # <<>> /\ v.active = v.files[1].id
  /\ cloud = <<>> /\ locals # <<>> => v.files = locals /\ v.pending = <<>>
  /\ cloud = <<>> /\ locals = <<>> => v.files = <<EmptyFile(Untitled)>> /\ v.pending = <<>>
  /\ cloud # <<>> => v.files = CloudFiles(bare) /\ v.pending = locals

LEMMA LoadedFacts ==
  ASSUME WorkspaceAssumption, TypeInv, NEW locals \in Seq(GoodFile), NEW bare, NEW v, v = Loaded(store, locals, bare)
  PROVE  HasLoaded(v, locals, bare)
<1>0. <<>> \in Seq(GoodFile)
  OBVIOUS
<1>1. ASSUME NEW fs \in Seq(GoodFile), fs # <<>>, NEW ps \in Seq(GoodFile), NEW s \in {"syncing", "synced"},
             v = [files |-> fs, active |-> fs[1].id, pending |-> ps, loading |-> FALSE, sync |-> s]
      PROVE  v \in GoodStore /\ v.loading = FALSE /\ v.files = fs /\ v.pending = ps /\ v.active = fs[1].id
  <2>1. fs[1] \in GoodFile
    BY <1>1
  <2>2. fs[1].id \in Nat
    BY <2>1, GoodFileFacts
  <2> QED
    BY <1>1, <2>2 DEF GoodStore
<1>2. CASE cloud = <<>> /\ locals # <<>>
  <2>1. v = [files |-> locals, active |-> locals[1].id, pending |-> <<>>, loading |-> FALSE, sync |-> "syncing"]
    BY <1>2 DEF Loaded
  <2> QED
    BY <1>0, <1>1, <1>2, <2>1 DEF HasLoaded
<1>3. CASE ~(cloud = <<>> /\ locals # <<>>)
  <2> DEFINE fs == IF cloud = <<>> THEN <<EmptyFile(Untitled)>> ELSE CloudFiles(bare)
             ps == IF cloud = <<>> THEN <<>> ELSE locals
  <2>1. v = [files |-> fs, active |-> fs[1].id, loading |-> FALSE, sync |-> "synced", pending |-> ps]
    BY <1>3 DEF Loaded
  <2>2. v = [files |-> fs, active |-> fs[1].id, pending |-> ps, loading |-> FALSE, sync |-> "synced"]
    BY <2>1
  <2>3. fs \in Seq(GoodFile) /\ fs # <<>>
    <3>1. CASE cloud = <<>>
      <4>1. EmptyFile(Untitled) \in GoodFile
        BY EmptyFileFacts DEF Untitled
      <4> QED
        BY <3>1, <4>1
    <3>2. CASE cloud # <<>>
      <4>1. CloudFiles(bare) \in Seq(GoodFile) /\ DOMAIN CloudFiles(bare) = DOMAIN cloud
        BY CloudFilesFacts
      <4>2. cloud \in Seq(AccountFile)
        BY DEF TypeInv, StoreTyped, OthersTyped
      <4>3. 1 \in DOMAIN cloud
        BY <3>2, <4>2
      <4> QED
        BY <3>2, <4>1, <4>3
    <3> QED
      BY <3>1, <3>2
  <2>4. ps \in Seq(GoodFile)
    BY <1>0
  <2> HIDE DEF fs, ps
  <2>5. v \in GoodStore /\ v.loading = FALSE /\ v.files = fs /\ v.pending = ps /\ v.active = fs[1].id
    BY <1>1, <2>2, <2>3, <2>4
  <2> QED
    BY <1>3, <2>3, <2>5 DEF fs, ps, HasLoaded
<1> QED
  BY <1>2, <1>3

-----------------------------------------------------------------------------
\* The open file.
LEMMA OpenFacts ==
  ASSUME NEW w \in GoodStore
  PROVE  /\ IsOpen(w) <=> \E i \in DOMAIN w.files : w.files[i].id = w.active
         /\ IsOpen(w) => \E i \in DOMAIN w.files : w.files[i].id = w.active /\ ActiveFile(w) = w.files[i]
<1>1. w.files \in Seq(GoodFile)
  BY GoodStoreFacts
<1> DEFINE p == With(w.files, w.active)
<1>2. p \in Seq(GoodFile)
  BY <1>1, WithFacts
<1>5. \A k \in DOMAIN p : \E i \in DOMAIN w.files : w.files[i].id = w.active /\ p[k] = w.files[i]
  <2> DEFINE s == w.files
             a == w.active
  <2>1. s \in Seq(GoodFile)
    BY <1>1
  <2> HIDE DEF s, a
  <2>2. \A k \in DOMAIN With(s, a) : \E i \in DOMAIN s : s[i].id = a /\ With(s, a)[k] = s[i]
    BY <2>1, WithFacts
  <2> QED
    BY <2>2 DEF s, a
<1>6. p = <<>> <=> \A i \in DOMAIN w.files : w.files[i].id # w.active
  BY <1>1, WithFacts
<1>3. (IsOpen(w) <=> p # <<>>) /\ ActiveFile(w) = Head(p)
  BY DEF IsOpen, ActiveFile
<1> HIDE DEF p
<1>4. p # <<>> => 1 \in DOMAIN p /\ Head(p) = p[1]
  BY <1>2
<1> QED
  BY <1>2, <1>3, <1>4, <1>5, <1>6

LEMMA ShownTypes ==
  ASSUME NEW w \in GoodStore
  PROVE  /\ IsOpen(w) => ActiveFile(w) \in GoodFile
         /\ ActiveTab(w) \in Nat \cup {None}
         /\ Stored(w) \in SUBSET (1..MaxStrokes)
         /\ TabsOf(w) \in Seq(TabType)
         /\ \A i \in DOMAIN TabsOf(w) : TabsOf(w)[i].id \in Nat
<1>1. IsOpen(w) => ActiveFile(w) \in GoodFile
  BY OpenFacts, GoodStoreFacts
<1>2. IsOpen(w) => ActiveFile(w).tab \in Nat /\ ActiveFile(w).tabs \in GoodTabs
  BY <1>1, GoodFileFacts
<1>3. IsOpen(w) => /\ ActiveFile(w).tabs \in Seq(TabType)
                   /\ \A i \in DOMAIN ActiveFile(w).tabs : ActiveFile(w).tabs[i].id \in Nat
  BY <1>2, GoodTabsFacts
<1>4. ActiveTab(w) \in Nat \cup {None}
  BY <1>2 DEF ActiveTab
<1>5. Stored(w) \in SUBSET (1..MaxStrokes)
  <2>1. CASE IsOpen(w)
    <3>1. With(ActiveFile(w).tabs, ActiveTab(w)) \in Seq(TabType)
      BY <1>3, <2>1, WithFacts
    <3> QED
      BY <2>1, <3>1, TabsWorkType DEF Stored
  <2>2. CASE ~IsOpen(w)
    BY <2>2 DEF Stored
  <2> QED
    BY <2>1, <2>2
<1>6. <<>> \in Seq(TabType) /\ DOMAIN <<>> = {}
  OBVIOUS
<1> QED
  BY <1>1, <1>3, <1>4, <1>5, <1>6 DEF TabsOf

LEMMA ContentTypes ==
  ASSUME TypeInv, NEW id
  PROVE  ContentOf(id) \in SUBSET (1..MaxStrokes)
<1>1. TabsOf(store) \in Seq(TabType)
  BY ShownTypes DEF TypeInv, StoreTyped, OthersTyped
<1>2. With(TabsOf(store), id) \in Seq(TabType)
  BY <1>1, WithFacts
<1> QED
  BY <1>2, TabsWorkType DEF ContentOf

LEMMA SavedTyped ==
  ASSUME TypeInv, store' \in GoodStore, SavedBy
  PROVE  saved' \in SUBSET (1..MaxStrokes)
<1>1. store'.files \in Seq(GoodFile) /\ store'.pending \in Seq(GoodFile)
  BY GoodStoreFacts
<1>2. Work(store'.files) \in SUBSET (1..MaxStrokes) /\ Work(store'.pending) \in SUBSET (1..MaxStrokes)
  BY <1>1, GoodWorkType
<1> QED
  BY <1>2 DEF SavedBy, TypeInv, StoreTyped

LEMMA PutTyped ==
  ASSUME TypeInv, NEW w, w \in GoodStore, NEW given \in SUBSET (1..MaxStrokes), Put(w, given)
  PROVE  StoreTyped'
<1>1. store' \in GoodStore /\ store' = w
  BY DEF Put
<1>2. saved' \in SUBSET (1..MaxStrokes)
  BY <1>1, SavedTyped DEF Put
<1>3. forsaken' \in SUBSET (1..MaxStrokes)
  BY DEF Put, TypeInv, StoreTyped
<1>4. Stored(store') \in SUBSET (1..MaxStrokes)
  BY <1>1, ShownTypes
<1>5. /\ scene' \in SUBSET (1..MaxStrokes)
      /\ timer' = None \/ timer' \in [tab : Nat \cup {None}, content : SUBSET (1..MaxStrokes)]
  <2>1. \/ scene' = scene /\ timer' = timer
        \/ scene' = Stored(store') /\ timer' = None
    BY DEF Put
  <2> QED
    BY <1>4, <2>1 DEF TypeInv, StoreTyped, OthersTyped
<1> QED
  BY <1>1, <1>2, <1>3, <1>5 DEF StoreTyped

\* The parts of the store, for the proofs about actions.
LEMMA StoreParts ==
  ASSUME TypeInv
  PROVE  /\ store \in GoodStore
         /\ store.files \in Seq(GoodFile) /\ store.pending \in Seq(GoodFile) /\ store.active \in Nat
         /\ \A i \in DOMAIN store.files : store.files[i] \in GoodFile
         /\ scene \in SUBSET (1..MaxStrokes) /\ ActiveTab(store) \in Nat \cup {None}
BY GoodStoreFacts, ShownTypes DEF TypeInv, StoreTyped

LEMMA NamesFinite ==
  ASSUME NEW S, NEW s \in Seq(S)
  PROVE  IsFiniteSet(Names(s))
<1> DEFINE T == {s[i].name : i \in DOMAIN s}
           g == [i \in DOMAIN s |-> s[i].name]
<1>1. g \in Surjection(DOMAIN s, T)
  BY Zenon DEF Surjection
<1>2. ASSUME NEW m \in Nat PROVE IsFiniteSet(1..m)
  BY FS_Interval
<1>3. IsFiniteSet(DOMAIN s)
  <2>1. DOMAIN s = 1..Len(s) /\ Len(s) \in Nat
    OBVIOUS
  <2> QED
    BY <1>2, <2>1, Zenon
<1> QED
  BY <1>1, <1>3, FS_Surjection, Zenon DEF Names

\* The name of a new file.
LEMMA ChosenFacts ==
  ASSUME TypeInv, NEW name \in Nat
  PROVE  /\ Chosen(name) \in Nat
         /\ ~Reuse => /\ Chosen(name) # Untitled
                      /\ Chosen(name) \notin Names(store.files) /\ Chosen(name) \notin Names(store.pending)
<1> DEFINE U == Names(store.files) \cup Names(store.pending) \cup {Untitled}
<1>1. IsFiniteSet(U)
  <2>1. IsFiniteSet(Names(store.files)) /\ IsFiniteSet(Names(store.pending))
    BY StoreParts, NamesFinite, Zenon
  <2> QED
    BY <2>1, FS_Union, FS_AddElement, Zenon
<1>2. Fresh(1, U)[1] \in Nat /\ Fresh(1, U)[1] \notin U
  <2>1. Fresh(1, U) \in [1..1 -> Nat] /\ \A k \in 1..1 : Fresh(1, U)[k] \notin U
    BY <1>1, FreshFacts
  <2> QED
    BY <2>1
<1> QED
  BY <1>2 DEF Chosen

LEMMA StoreOnly ==
  ASSUME NEW w \in GoodStore, NEW v,
         \/ \E a \in Nat : v = [w EXCEPT !.active = a]
         \/ v = [w EXCEPT !.pending = <<>>]
         \/ v = [w EXCEPT !.loading = TRUE, !.sync = "syncing"]
         \/ v = [w EXCEPT !.loading = FALSE, !.sync = "error"]
         \/ v = [w EXCEPT !.pending = <<>>, !.loading = FALSE, !.sync = "idle"]
         \/ v = [w EXCEPT !.files = @ \o w.pending, !.pending = <<>>, !.sync = "syncing"]
  PROVE  v \in GoodStore
<1>1. <<>> \in Seq(GoodFile)
  OBVIOUS
<1>2. w.files \o w.pending \in Seq(GoodFile)
  BY GoodStoreFacts
<1> DEFINE fs == w.files \o w.pending
<1>3. \/ \E a \in Nat : v = [w EXCEPT !.active = a]
      \/ v = [w EXCEPT !.pending = <<>>]
      \/ v = [w EXCEPT !.loading = TRUE, !.sync = "syncing"]
      \/ v = [w EXCEPT !.loading = FALSE, !.sync = "error"]
      \/ v = [w EXCEPT !.pending = <<>>, !.loading = FALSE, !.sync = "idle"]
      \/ v = [w EXCEPT !.files = fs, !.pending = <<>>, !.sync = "syncing"]
  OBVIOUS
<1> HIDE DEF fs
<1> QED
  BY <1>1, <1>2, <1>3 DEF GoodStore, fs

-----------------------------------------------------------------------------
(* Sheets. *)

LEMMA SheetsAreNumbers ==
  ASSUME TypeInv, NEW id \in Sheets
  PROVE  id \in Nat
BY ShownTypes, StoreParts DEF Sheets

LEMMA TabClickTyped ==
  ASSUME TypeInv, NEW id \in Sheets, TabClick(id)
  PROVE  StoreTyped'
<1>1. id \in Nat
  BY SheetsAreNumbers
<1> DEFINE u == SaveTabState(store, ActiveTab(store), scene)
           w == SetActiveTab(u, id)
<1>2. u \in GoodStore
  BY StoreParts, SaveTabStateFacts DEF Edits
<1> HIDE DEF u
<1>3. w \in GoodStore
  BY <1>1, <1>2, SetActiveTabFacts DEF Edits
<1>4. Put(w, {})
  BY DEF TabClick, u
<1> HIDE DEF w
<1> QED
  BY <1>3, <1>4, PutTyped

LEMMA NewTabIsNew ==
  ASSUME TypeInv
  PROVE  /\ NewTab \in Nat
         /\ \A i \in DOMAIN store.files : \A k \in DOMAIN store.files[i].tabs : store.files[i].tabs[k].id # NewTab
<1>1. NewTab \in Nat /\ NewTab \notin TabIds(store.files)
  BY NewIds DEF UsedTabs
<1> QED
  BY <1>1 DEF TabIds

LEMMA HandleAddTabTyped ==
  ASSUME WorkspaceAssumption, TypeInv, HandleAddTab
  PROVE  StoreTyped'
<1> DEFINE u == SaveTabState(store, ActiveTab(store), scene)
           w == AddTab(u, NewTab)
<1>1. /\ Edits(store, u)
      /\ \A i \in DOMAIN store.files :
           store.files[i].id = store.active =>
             /\ Len(u.files[i].tabs) = Len(store.files[i].tabs)
             /\ DOMAIN u.files[i].tabs = DOMAIN store.files[i].tabs
             /\ \A k \in DOMAIN store.files[i].tabs :
                  u.files[i].tabs[k] = IF store.files[i].tabs[k].id = ActiveTab(store) THEN Tab(ActiveTab(store), scene)
                                       ELSE store.files[i].tabs[k]
  BY StoreParts, SaveTabStateFacts, SMTT(30)
<1>2. \A i \in DOMAIN store.files : store.files[i].id = store.active => Len(store.files[i].tabs) < MaxTabs
  BY DEF HandleAddTab, RoomForSheet
<1> HIDE DEF u
<1>3. \A i \in DOMAIN u.files : u.files[i].id = u.active =>
        /\ Len(u.files[i].tabs) < MaxTabs
        /\ \A k \in DOMAIN u.files[i].tabs : u.files[i].tabs[k].id # NewTab
  BY <1>1, <1>2, NewTabIsNew, SMTT(30) DEF Edits, Tab
<1>4. u \in GoodStore /\ NewTab \in Nat
  BY <1>1, NewTabIsNew DEF Edits
<1>5. w \in GoodStore
  BY <1>3, <1>4, AddTabFacts DEF Edits
<1>6. Put(w, {})
  BY DEF HandleAddTab, u
<1> HIDE DEF w
<1> QED
  BY <1>5, <1>6, PutTyped

LEMMA KeyAddTabTyped ==
  ASSUME WorkspaceAssumption, TypeInv, KeyAddTab
  PROVE  StoreTyped'
<1> DEFINE w == AddTab(store, NewTab)
<1>1. \A i \in DOMAIN store.files : store.files[i].id = store.active =>
        /\ Len(store.files[i].tabs) < MaxTabs
        /\ \A k \in DOMAIN store.files[i].tabs : store.files[i].tabs[k].id # NewTab
  BY NewTabIsNew DEF KeyAddTab, RoomForSheet
<1>2. store \in GoodStore /\ NewTab \in Nat
  BY StoreParts, NewTabIsNew
<1>3. w \in GoodStore
  BY <1>1, <1>2, AddTabFacts DEF Edits
<1>4. Put(w, {})
  BY DEF KeyAddTab
<1> HIDE DEF w
<1> QED
  BY <1>3, <1>4, PutTyped

LEMMA KeyTabTyped ==
  ASSUME TypeInv, NEW id \in Sheets, KeyTab(id)
  PROVE  StoreTyped'
<1> DEFINE w == SetActiveTab(store, id)
<1>1. id \in Nat /\ store \in GoodStore
  BY SheetsAreNumbers, StoreParts
<1>2. w \in GoodStore
  BY <1>1, SetActiveTabFacts DEF Edits
<1>3. Put(w, {})
  BY DEF KeyTab
<1> HIDE DEF w
<1> QED
  BY <1>2, <1>3, PutTyped

LEMMA RemoveTabTyped ==
  ASSUME WorkspaceAssumption, TypeInv, NEW id, NEW given \in SUBSET (1..MaxStrokes), Put(RemoveTab(store, id), given)
  PROVE  StoreTyped'
<1> DEFINE w == RemoveTab(store, id)
<1>1. w \in GoodStore
  BY StoreParts, RemoveTabFacts DEF Edits
<1> HIDE DEF w
<1> QED
  BY <1>1, PutTyped DEF w

LEMMA KeyRemoveTyped ==
  ASSUME WorkspaceAssumption, TypeInv, KeyRemove
  PROVE  StoreTyped'
<1>1. ContentOf(ActiveTab(store)) \cup scene \in SUBSET (1..MaxStrokes)
  BY ContentTypes, StoreParts
<1> QED
  BY <1>1, RemoveTabTyped DEF KeyRemove

LEMMA StoreKept ==
  ASSUME TypeInv, UNCHANGED <<store, scene, timer, saved>>, forsaken' \in SUBSET (1..MaxStrokes)
  PROVE  StoreTyped'
BY DEF TypeInv, StoreTyped

LEMMA DeleteRequestTyped ==
  ASSUME WorkspaceAssumption, TypeInv, NEW id \in Sheets, DeleteRequest(id)
  PROVE  StoreTyped' /\ OthersTyped'
<1>1. StoreTyped'
  <2>1. CASE Put(RemoveTab(store, id), {})
    BY <2>1, RemoveTabTyped
  <2>2. CASE UNCHANGED <<store, scene, timer, saved, forsaken>>
    BY <2>2, StoreKept DEF TypeInv, StoreTyped
  <2> QED
    BY <2>1, <2>2 DEF DeleteRequest
<1>2. OthersTyped'
  BY SheetsAreNumbers DEF DeleteRequest, TypeInv, OthersTyped
<1> QED
  BY <1>1, <1>2

LEMMA DeleteDecidedTyped ==
  ASSUME WorkspaceAssumption, TypeInv, DeleteDecided
  PROVE  StoreTyped' /\ OthersTyped'
<1>1. StoreTyped'
  <2>1. CASE Put(RemoveTab(store, dialog), ContentOf(dialog))
    <3>1. ContentOf(dialog) \in SUBSET (1..MaxStrokes)
      BY ContentTypes
    <3> QED
      BY <2>1, <3>1, RemoveTabTyped
  <2>2. CASE UNCHANGED <<store, scene, timer, saved, forsaken>>
    BY <2>2, StoreKept DEF TypeInv, StoreTyped
  <2> QED
    BY <2>1, <2>2 DEF DeleteDecided
<1>2. OthersTyped'
  BY DEF DeleteDecided, TypeInv, OthersTyped
<1> QED
  BY <1>1, <1>2

LEMMA DrawTyped ==
  ASSUME WorkspaceAssumption, TypeInv, Draw
  PROVE  StoreTyped' /\ OthersTyped'
<1>1. strokes' \in 0..MaxStrokes /\ strokes' \in 1..MaxStrokes
  BY DEF Draw, TypeInv, OthersTyped, WorkspaceAssumption
<1>2. scene' \in SUBSET (1..MaxStrokes)
  BY <1>1, StoreParts DEF Draw
<1>3. timer' \in [tab : Nat \cup {None}, content : SUBSET (1..MaxStrokes)]
  BY <1>2, StoreParts DEF Draw
<1>4. forsaken' \in SUBSET (1..MaxStrokes)
  BY <1>1 DEF Draw, TypeInv, StoreTyped
<1> QED
  BY <1>1, <1>2, <1>3, <1>4 DEF Draw, TypeInv, StoreTyped, OthersTyped

LEMMA SaveTimerTyped ==
  ASSUME TypeInv, SaveTimer
  PROVE  StoreTyped' /\ OthersTyped'
<1>1. timer.content \in SUBSET (1..MaxStrokes)
  BY DEF SaveTimer, TypeInv, StoreTyped
<1>2. store' \in GoodStore
  BY <1>1, StoreParts, SaveTabStateFacts DEF SaveTimer, Edits
<1>3. saved' \in SUBSET (1..MaxStrokes)
  BY <1>2, SavedTyped DEF SaveTimer
<1> QED
  BY <1>2, <1>3 DEF SaveTimer, TypeInv, StoreTyped, OthersTyped

-----------------------------------------------------------------------------
(* Files. *)

LEMMA CallTyped ==
  ASSUME TypeInv, NEW kind \in {"create", "delete", "rename", "load", "migrate", "export"},
         NEW id \in Nat \cup {None}, NEW name \in Nat, NEW files \in Seq(GoodFile), NEW tabs \in GoodTabs \cup {<<>>}
  PROVE  Call(kind, id, name, files, tabs) \in GoodCall
BY StoreParts DEF Call, GoodCall

LEMMA CallsTyped ==
  ASSUME TypeInv, NEW c \in GoodCall, Calls(c)
  PROVE  calls' \in SUBSET GoodCall /\ IsFiniteSet(calls')
<1>1. calls \in SUBSET GoodCall /\ IsFiniteSet(calls) /\ calls' = calls \cup {c}
  BY DEF Calls, TypeInv, OthersTyped
<1>2. IsFiniteSet(calls \cup {c})
  BY <1>1, FS_AddElement
<1> QED
  BY <1>1, <1>2

\* What the parts that a handler leaves alone are.
LEMMA RestTyped ==
  ASSUME TypeInv, UNCHANGED <<auth, cloud, dialog, strokes>>, calls' \in SUBSET GoodCall, IsFiniteSet(calls')
  PROVE  OthersTyped'
BY DEF TypeInv, OthersTyped

LEMMA AtRestTyped ==
  ASSUME TypeInv, AtRest
  PROVE  OthersTyped'
BY DEF TypeInv, OthersTyped, AtRest

LEMMA SwitchFileTyped ==
  ASSUME TypeInv, NEW id \in Nat, SwitchFile(id)
  PROVE  StoreTyped' /\ OthersTyped'
<1> DEFINE w == [store EXCEPT !.active = id]
<1>1. w \in GoodStore
  BY StoreParts, StoreOnly
<1>2. Put(w, {}) /\ AtRest
  BY DEF SwitchFile
<1> HIDE DEF w
<1> QED
  BY <1>1, <1>2, PutTyped, AtRestTyped

\* The file that a guest makes or imports.
LEMMA NewFileFacts ==
  ASSUME WorkspaceAssumption, TypeInv, NEW name \in Nat, NEW tabs \in GoodTabs \cup {<<>>}, NEW u, NEW v,
         u = Created(store, EmptyFile(name)), v = IF tabs = <<>> THEN u ELSE LoadFromFile(u, tabs)
  PROVE  v \in GoodStore
<1>1. EmptyFile(name) \in GoodFile
  BY EmptyFileFacts
<1>2. store \in GoodStore
  BY StoreParts
<1>3. u \in GoodStore
  BY <1>1, <1>2, CreatedFacts
<1>4. CASE tabs = <<>>
  BY <1>3, <1>4
<1>5. CASE tabs # <<>>
  BY <1>3, <1>5, LoadFromFileFacts DEF Edits
<1> QED
  BY <1>4, <1>5

LEMMA CreateFileTyped ==
  ASSUME WorkspaceAssumption, TypeInv, NEW name \in Nat, NEW tabs \in GoodTabs \cup {<<>>}, CreateFile(name, tabs)
  PROVE  /\ StoreTyped' /\ calls' \in SUBSET GoodCall /\ IsFiniteSet(calls')
         /\ UNCHANGED <<auth, cloud, dialog>>
<1>0. UNCHANGED <<auth, cloud, dialog>>
  BY DEF CreateFile
<1> DEFINE n == Chosen(name)
<1>1. n \in Nat
  BY ChosenFacts
<1>2. CASE auth
  <2> DEFINE c == Call("create", None, n, <<>>, tabs)
  <2>1. Calls(c) /\ UNCHANGED <<store, scene, timer, saved, forsaken>>
    BY <1>2 DEF CreateFile
  <2>2. <<>> \in Seq(GoodFile)
    OBVIOUS
  <2>3. c \in GoodCall
    BY <1>1, <2>2, CallTyped
  <2>4. StoreTyped'
    BY <2>1, StoreKept DEF TypeInv, StoreTyped
  <2> HIDE DEF c
  <2> QED
    BY <1>0, <2>1, <2>3, <2>4, CallsTyped
<1>3. CASE ~auth
  <2> DEFINE u == Created(store, EmptyFile(n))
             v == IF tabs = <<>> THEN u ELSE LoadFromFile(u, tabs)
  <2>1. Put(v, {}) /\ UNCHANGED calls
    BY <1>3 DEF CreateFile
  <2>2. v \in GoodStore
    BY <1>1, NewFileFacts
  <2> HIDE DEF v
  <2> QED
    BY <1>0, <2>1, <2>2, PutTyped DEF TypeInv, OthersTyped
<1> QED
  BY <1>2, <1>3

LEMMA HandleCreateFileTyped ==
  ASSUME WorkspaceAssumption, TypeInv, HandleCreateFile
  PROVE  StoreTyped' /\ OthersTyped'
<1>1. Len(store.files) + 1 \in Nat
  BY StoreParts
<1>2. CreateFile(Len(store.files) + 1, <<>>) /\ UNCHANGED strokes
  BY DEF HandleCreateFile
<1> DEFINE n == Len(store.files) + 1
<1> HIDE DEF n
<1>3. StoreTyped' /\ calls' \in SUBSET GoodCall /\ IsFiniteSet(calls') /\ UNCHANGED <<auth, cloud, dialog>>
  BY <1>1, <1>2, CreateFileTyped DEF n
<1> QED
  BY <1>2, <1>3, RestTyped

LEMMA TabsOfGood ==
  ASSUME TypeInv, IsOpen(store)
  PROVE  TabsOf(store) \in GoodTabs
BY StoreParts, ShownTypes, GoodFileFacts DEF TabsOf

LEMMA NextStroke ==
  ASSUME WorkspaceAssumption, TypeInv, strokes < MaxStrokes, strokes' = strokes + 1
  PROVE  strokes' \in 0..MaxStrokes /\ strokes' \in 1..MaxStrokes
BY DEF TypeInv, OthersTyped, WorkspaceAssumption

LEMMA ImportFileTyped ==
  ASSUME WorkspaceAssumption, TypeInv, ImportFile
  PROVE  StoreTyped' /\ OthersTyped'
<1>1. strokes' \in 0..MaxStrokes /\ strokes' \in 1..MaxStrokes
  BY NextStroke DEF ImportFile
<1>2. PICK tabs \in {<<Tab(NewTab, {strokes'})>>} \cup (IF Reuse /\ IsOpen(store) THEN {TabsOf(store)} ELSE {}) :
        CreateFile(Imported, tabs)
  BY DEF ImportFile
<1>3. <<Tab(NewTab, {strokes'})>> \in GoodTabs
  BY <1>1, NewIds, TabGood, OneTabGood
<1>4. tabs \in GoodTabs
  BY <1>2, <1>3, TabsOfGood
<1>5. StoreTyped' /\ calls' \in SUBSET GoodCall /\ IsFiniteSet(calls') /\ UNCHANGED <<auth, cloud, dialog>>
  BY <1>2, <1>4, CreateFileTyped DEF Imported
<1> QED
  BY <1>1, <1>5 DEF OthersTyped, TypeInv

LEMMA ImportSceneTyped ==
  ASSUME WorkspaceAssumption, TypeInv, ImportScene
  PROVE  StoreTyped' /\ OthersTyped'
<1>1. strokes' \in 0..MaxStrokes /\ strokes' \in 1..MaxStrokes
  BY NextStroke DEF ImportScene
<1>2. {strokes'} \in SUBSET (1..MaxStrokes)
  BY <1>1
<1>3. store' \in GoodStore
  BY <1>2, StoreParts, SaveTabStateFacts DEF ImportScene, LoadNative, Edits
<1>4. saved' \in SUBSET (1..MaxStrokes)
  BY <1>3, SavedTyped DEF ImportScene
<1>5. timer' \in [tab : Nat \cup {None}, content : SUBSET (1..MaxStrokes)]
  BY <1>2, StoreParts DEF ImportScene
<1>6. forsaken' \in SUBSET (1..MaxStrokes)
  BY ContentTypes, StoreParts DEF ImportScene, TypeInv, StoreTyped
<1>7. StoreTyped'
  BY <1>2, <1>3, <1>4, <1>5, <1>6 DEF StoreTyped, ImportScene
<1> QED
  BY <1>1, <1>7 DEF ImportScene, TypeInv, OthersTyped

LEMMA ExportFileTyped ==
  ASSUME TypeInv, NEW id \in Nat, ExportFile(id)
  PROVE  StoreTyped' /\ OthersTyped'
<1>1. ASSUME NEW tab \in Nat \cup {None}, Calls(Call("export", tab, Untitled, <<>>, <<>>))
      PROVE  calls' \in SUBSET GoodCall /\ IsFiniteSet(calls')
  <2> DEFINE c == Call("export", tab, Untitled, <<>>, <<>>)
  <2>1. <<>> \in Seq(GoodFile)
    OBVIOUS
  <2>2. c \in GoodCall
    BY <2>1, CallTyped DEF Untitled
  <2>3. Calls(c)
    BY <1>1
  <2> HIDE DEF c
  <2> QED
    BY <2>2, <2>3, CallsTyped
<1>2. ActiveTab(store) \in Nat \cup {None}
  BY StoreParts, ShownTypes
<1>3. calls' \in SUBSET GoodCall /\ IsFiniteSet(calls')
  BY <1>1, <1>2 DEF ExportFile
<1> DEFINE w == [store EXCEPT !.active = id]
<1>4. w \in GoodStore
  BY StoreParts, StoreOnly
<1>5. Put(w, {})
  BY DEF ExportFile
<1> HIDE DEF w
<1> QED
  BY <1>3, <1>4, <1>5, PutTyped, RestTyped DEF ExportFile

\* The sheets of a copy.
LEMMA CopyFacts ==
  ASSUME TypeInv, NEW f \in GoodFile, NEW tabs,
         tabs = [i \in DOMAIN f.tabs |-> Tab(Fresh(Len(f.tabs), UsedTabs)[i], f.tabs[i].content)]
  PROVE  /\ tabs \in GoodTabs /\ DOMAIN tabs = DOMAIN f.tabs
         /\ \A k \in DOMAIN tabs : tabs[k].id \notin UsedTabs /\ tabs[k].content = f.tabs[k].content
<1> DEFINE n == Len(f.tabs)
           new == Fresh(n, UsedTabs)
<1>1. /\ f.tabs \in Seq(TabType) /\ n \in 1..MaxTabs /\ DOMAIN f.tabs = 1..n
      /\ \A i \in DOMAIN f.tabs : f.tabs[i].content \in SUBSET (1..MaxStrokes)
  BY GoodFileFacts, GoodTabsFacts
<1>2. IsFiniteSet(UsedTabs) /\ n \in Nat
  BY <1>1, UsedFinite
<1> HIDE DEF n
<1>3. /\ new \in [1..n -> Nat] /\ \A k \in 1..n : new[k] \notin UsedTabs
      /\ \A k, l \in 1..n : new[k] = new[l] => k = l
  BY <1>2, FreshFacts
<1>4. tabs = [i \in DOMAIN f.tabs |-> Tab(new[i], f.tabs[i].content)]
  BY DEF n
<1> HIDE DEF new
<1>5. \A i \in DOMAIN f.tabs :
        /\ Tab(new[i], f.tabs[i].content) \in TabType
        /\ Tab(new[i], f.tabs[i].content).id = new[i]
        /\ Tab(new[i], f.tabs[i].content).content = f.tabs[i].content
  <2> TAKE i \in DOMAIN f.tabs
  <2>1. new[i] \in Nat /\ f.tabs[i].content \in SUBSET (1..MaxStrokes)
    BY <1>1, <1>3
  <2> QED
    BY <2>1, TabGood
<1>6. \A i \in DOMAIN tabs : tabs[i] \in TabType /\ tabs[i].id = new[i] /\ tabs[i].content = f.tabs[i].content
  BY <1>4, <1>5
<1>7. tabs \in Seq(TabType) /\ Len(tabs) = n /\ DOMAIN tabs = 1..n
  <2>1. tabs \in [DOMAIN f.tabs -> TabType]
    BY <1>4, <1>5
  <2> QED
    BY <1>1, <2>1, Mapped DEF n
<1>8. tabs \in GoodTabs
  BY <1>1, <1>3, <1>6, <1>7 DEF GoodTabs
<1> QED
  BY <1>1, <1>3, <1>6, <1>7, <1>8

LEMMA DuplicateFileTyped ==
  ASSUME WorkspaceAssumption, TypeInv, NEW f \in GoodFile, DuplicateFile(f)
  PROVE  StoreTyped' /\ OthersTyped'
<1> DEFINE tabs == [i \in DOMAIN f.tabs |-> Tab(Fresh(Len(f.tabs), UsedTabs)[i], f.tabs[i].content)]
           name == Chosen(Copy(f.name))
           g == File(NewId, name, FALSE, tabs)
           w == Created(store, g)
<1>1. Put(w, {}) /\ AtRest
  BY DEF DuplicateFile
<1>2. tabs \in GoodTabs
  BY CopyFacts
<1> HIDE DEF tabs
<1>3. name \in Nat
  <2>1. Copy(f.name) \in Nat
    BY GoodFileFacts DEF Copy
  <2> QED
    BY <2>1, ChosenFacts
<1> HIDE DEF name
<1>4. g \in GoodFile
  BY <1>2, <1>3, NewIds, FileGood
<1> HIDE DEF g
<1>5. w \in GoodStore
  BY <1>4, StoreParts, CreatedFacts
<1> HIDE DEF w
<1> QED
  BY <1>1, <1>5, PutTyped, AtRestTyped

LEMMA RenameFileTyped ==
  ASSUME WorkspaceAssumption, TypeInv, NEW f \in GoodFile, RenameFile(f)
  PROVE  StoreTyped' /\ OthersTyped'
<1> DEFINE n == Chosen(Picked)
<1>1. n \in Nat
  BY ChosenFacts DEF Picked
<1>2. UNCHANGED <<auth, cloud, dialog, strokes>>
  BY DEF RenameFile
<1>3. CASE auth /\ f.cloud
  <2> DEFINE c == Call("rename", f.id, n, <<>>, <<>>)
  <2>1. Calls(c) /\ UNCHANGED <<store, scene, timer, saved, forsaken>>
    BY <1>3 DEF RenameFile
  <2>2. <<>> \in Seq(GoodFile)
    OBVIOUS
  <2>3. c \in GoodCall
    BY <1>1, <2>2, CallTyped, GoodFileFacts
  <2>4. StoreTyped'
    BY <2>1, StoreKept DEF TypeInv, StoreTyped
  <2> HIDE DEF c
  <2> QED
    BY <1>2, <2>1, <2>3, <2>4, CallsTyped, RestTyped
<1>4. CASE ~(auth /\ f.cloud)
  <2> DEFINE w == Renamed(store, f.id, n)
  <2>1. Put(w, {}) /\ UNCHANGED calls
    BY <1>4 DEF RenameFile
  <2>2. w \in GoodStore
    BY <1>1, StoreParts, RenamedFacts
  <2> HIDE DEF w
  <2> QED
    BY <1>2, <2>1, <2>2, PutTyped, RestTyped DEF TypeInv, OthersTyped
<1> QED
  BY <1>3, <1>4

LEMMA DeleteFileTyped ==
  ASSUME WorkspaceAssumption, TypeInv, NEW f \in GoodFile, DeleteFile(f)
  PROVE  StoreTyped' /\ OthersTyped'
<1> DEFINE given == TabsWork(f.tabs) \cup Work(With(cloud, f.id)) \cup (IF f.id = store.active THEN scene ELSE {})
<1>1. given \in SUBSET (1..MaxStrokes)
  <2>1. TabsWork(f.tabs) \in SUBSET (1..MaxStrokes)
    BY GoodFileFacts, GoodTabsFacts, TabsWorkType
  <2>2. cloud \in Seq(AccountFile)
    BY DEF TypeInv, OthersTyped
  <2>3. With(cloud, f.id) \in Seq(AccountFile)
    BY <2>2, WithFacts
  <2>4. Work(With(cloud, f.id)) \in SUBSET (1..MaxStrokes)
    BY <2>3, AccountWorkType
  <2> QED
    BY <2>1, <2>4, StoreParts
<1>2. UNCHANGED <<auth, cloud, dialog, strokes>>
  BY DEF DeleteFile
<1>3. CASE auth /\ f.cloud
  <2> DEFINE c == Call("delete", f.id, f.name, store.files, <<>>)
  <2>1. Calls(c) /\ forsaken' = forsaken \cup given /\ UNCHANGED <<store, scene, timer, saved>>
    BY <1>3 DEF DeleteFile
  <2>2. store.files \in Seq(GoodFile)
    BY StoreParts
  <2>3. c \in GoodCall
    BY <2>2, CallTyped, GoodFileFacts
  <2>4. StoreTyped'
    <3> HIDE DEF given
    <3> QED
      BY <1>1, <2>1, StoreKept DEF TypeInv, StoreTyped
  <2> HIDE DEF c
  <2> QED
    BY <1>2, <2>1, <2>3, <2>4, CallsTyped, RestTyped
<1>4. CASE ~(auth /\ f.cloud)
  <2> DEFINE w == Deleted(store, store.files, store.active, f.id)
  <2>1. Put(w, given) /\ UNCHANGED calls
    BY <1>4 DEF DeleteFile
  <2>2. w \in GoodStore
    BY StoreParts, DeletedFacts
  <2> HIDE DEF w, given
  <2> QED
    BY <1>1, <1>2, <2>1, <2>2, PutTyped, RestTyped DEF TypeInv, OthersTyped
<1> QED
  BY <1>3, <1>4

-----------------------------------------------------------------------------
(* The session. *)

LEMMA LoginTyped ==
  ASSUME TypeInv, Login
  PROVE  StoreTyped' /\ OthersTyped'
<1> DEFINE c == Call("load", None, Untitled, Local(store.files), <<>>)
<1>1. Local(store.files) \in Seq(GoodFile)
  BY StoreParts, LocalFacts
<1>2. c \in GoodCall
  BY <1>1, CallTyped DEF Untitled
<1>3. Calls(c)
  BY DEF Login
<1> HIDE DEF c
<1>4. calls' \in SUBSET GoodCall /\ IsFiniteSet(calls')
  BY <1>2, <1>3, CallsTyped
<1>5. store' \in GoodStore
  BY StoreParts, StoreOnly DEF Login
<1> QED
  BY <1>4, <1>5 DEF Login, TypeInv, StoreTyped, OthersTyped

LEMMA UnsyncedTyped ==
  ASSUME TypeInv
  PROVE  Unsynced \in SUBSET (1..MaxStrokes)
<1> DEFINE I == {i \in DOMAIN store.files : store.files[i].cloud}
<1>1. Pick(store.files, I) \in Seq(GoodFile)
  <2>1. I \in SUBSET DOMAIN store.files
    OBVIOUS
  <2> HIDE DEF I
  <2> QED
    BY <2>1, StoreParts, PickFacts
<1>2. Work(Pick(store.files, I)) \in SUBSET (1..MaxStrokes)
  <2> HIDE DEF I
  <2> QED
    BY <1>1, GoodWorkType
<1> QED
  BY <1>2, StoreParts DEF Unsynced

\* What the end of a session takes.
LEMMA TakenTyped ==
  ASSUME TypeInv
  PROVE  Unsynced \cup Work(store.pending) \in SUBSET (1..MaxStrokes)
<1>1. Work(store.pending) \in SUBSET (1..MaxStrokes)
  BY StoreParts, GoodWorkType
<1> QED
  BY <1>1, UnsyncedTyped

LEMMA SessionEndsTyped ==
  ASSUME WorkspaceAssumption, TypeInv, SessionEnds
  PROVE  StoreTyped' /\ OthersTyped'
<1> DEFINE w == ResetToGuestState(store)
           taken == Unsynced \cup Work(store.pending)
<1>1. w \in GoodStore
  BY ResetFacts
<1>2. Put(w, taken)
  BY DEF SessionEnds
<1>4. taken \in SUBSET (1..MaxStrokes)
  BY TakenTyped
<1> HIDE DEF w, taken
<1>3. StoreTyped'
  BY <1>1, <1>2, <1>4, PutTyped
<1> QED
  BY <1>3 DEF SessionEnds, TypeInv, OthersTyped

LEMMA MigrationDecidedTyped ==
  ASSUME TypeInv, MigrationDecided
  PROVE  StoreTyped' /\ OthersTyped'
<1>0. UNCHANGED <<auth, cloud, dialog, strokes>>
  BY DEF MigrationDecided
<1>1. ASSUME Put([store EXCEPT !.files = @ \o store.pending, !.pending = <<>>, !.sync = "syncing"], {}),
             Calls(Call("migrate", None, Untitled, store.pending, <<>>))
      PROVE  StoreTyped' /\ OthersTyped'
  <2> DEFINE w == [store EXCEPT !.files = @ \o store.pending, !.pending = <<>>, !.sync = "syncing"]
             c == Call("migrate", None, Untitled, store.pending, <<>>)
  <2>1. w \in GoodStore
    BY StoreParts, StoreOnly
  <2>2. c \in GoodCall
    BY StoreParts, CallTyped DEF Untitled
  <2>3. Put(w, {}) /\ Calls(c)
    BY <1>1
  <2> HIDE DEF w, c
  <2> QED
    BY <1>0, <2>1, <2>2, <2>3, PutTyped, CallsTyped, RestTyped
<1>2. ASSUME Put([store EXCEPT !.pending = <<>>], Work(store.pending)), UNCHANGED calls
      PROVE  StoreTyped' /\ OthersTyped'
  <2> DEFINE w == [store EXCEPT !.pending = <<>>]
  <2>1. w \in GoodStore
    BY StoreParts, StoreOnly
  <2>2. Work(store.pending) \in SUBSET (1..MaxStrokes)
    BY StoreParts, GoodWorkType
  <2>3. Put(w, Work(store.pending))
    BY <1>2
  <2> HIDE DEF w
  <2> QED
    BY <1>0, <1>2, <2>1, <2>2, <2>3, PutTyped, RestTyped DEF TypeInv, OthersTyped
<1> QED
  BY <1>1, <1>2 DEF MigrationDecided

LEMMA ReloadTyped ==
  ASSUME TypeInv, Reload
  PROVE  StoreTyped' /\ OthersTyped'
<1>1. store' \in GoodStore
  BY StoreParts, StoreOnly DEF Reload
<1>2. Stored(store) \in SUBSET (1..MaxStrokes)
  BY StoreParts, ShownTypes
<1>3. IsFiniteSet({})
  BY FS_EmptySet
<1>5. Work(store.pending) \in SUBSET (1..MaxStrokes)
  BY StoreParts, GoodWorkType
<1>4. StoreTyped'
  BY <1>1, <1>2, <1>5 DEF Reload, TypeInv, StoreTyped
<1> QED
  BY <1>3, <1>4 DEF Reload, TypeInv, OthersTyped

-----------------------------------------------------------------------------
(* Answers. *)

LEMMA CallParts ==
  ASSUME TypeInv, NEW c \in calls
  PROVE  /\ c.id \in Nat \cup {None} /\ c.name \in Nat /\ c.files \in Seq(GoodFile)
         /\ c.tabs \in GoodTabs \cup {<<>>} /\ c.active \in Nat
         /\ calls \in SUBSET GoodCall /\ calls \ {c} \in SUBSET GoodCall /\ IsFiniteSet(calls \ {c})
         /\ cloud \in Seq(AccountFile)
<1>1. c \in GoodCall /\ calls \in SUBSET GoodCall /\ IsFiniteSet(calls) /\ cloud \in Seq(AccountFile)
  BY DEF TypeInv, OthersTyped
<1>2. IsFiniteSet(calls \ {c})
  BY <1>1, FS_RemoveElement
<1> QED
  BY <1>1, <1>2 DEF GoodCall

LEMMA SeqParts ==
  ASSUME NEW S, NEW s \in Seq(S), NEW t \in Seq(S), NEW a \in S
  PROVE  Append(s, a) \in Seq(S) /\ s \o t \in Seq(S) /\ <<a>> \in Seq(S) /\ <<>> \in Seq(S)
OBVIOUS

LEMMA AfterFacts ==
  ASSUME WorkspaceAssumption, TypeInv, NEW how
  PROVE  After(how) \in GoodStore /\ Taken(how) \in SUBSET (1..MaxStrokes)
<1>1. CASE how = "expired"
  BY <1>1, ResetFacts, TakenTyped DEF After, Taken
<1>2. CASE how # "expired"
  BY <1>2, StoreParts DEF After, Taken
<1> QED
  BY <1>1, <1>2

LEMMA AnsweredTyped ==
  ASSUME TypeInv, NEW c \in calls, NEW how, Answered(c, how), cloud' \in Seq(AccountFile)
  PROVE  OthersTyped'
BY CallParts DEF Answered, TypeInv, OthersTyped

\* The file that the answer to create makes, and its sheets.
LEMMA MadeFacts ==
  ASSUME WorkspaceAssumption, TypeInv, NEW how
  PROVE  LET id == IF how = "expired" THEN Fresh(1, UsedIds \cup Ids(After(how).files))[1]
                   ELSE Fresh(2, UsedIds)[IF how = "lost" THEN 2 ELSE 1]
         IN /\ id \in Nat /\ id \notin UsedIds
            /\ how = "expired" => id \notin Ids(After(how).files)
            /\ how = "lost" => id # NewId
            /\ <<Tab(Fresh(2, UsedTabs)[2], {})>> \in GoodTabs
            /\ Fresh(2, UsedTabs)[2] \in Nat \ UsedTabs /\ Fresh(2, UsedTabs)[2] # NewTab
<1>1. ASSUME NEW U, IsFiniteSet(U)
      PROVE  /\ Fresh(2, U)[1] \in Nat \ U /\ Fresh(2, U)[2] \in Nat \ U
             /\ Fresh(2, U)[1] # Fresh(2, U)[2] /\ Fresh(2, U)[1] = Fresh(1, U)[1]
             /\ Fresh(1, U)[1] \in Nat \ U
  <2>1. /\ Fresh(2, U) \in [1..2 -> Nat] /\ \A k \in 1..2 : Fresh(2, U)[k] \notin U
        /\ \A k, l \in 1..2 : Fresh(2, U)[k] = Fresh(2, U)[l] => k = l
    BY <1>1, FreshFacts
  <2>2. Fresh(2, U)[1] = Fresh(1, U)[1]
    BY FreshSame
  <2> QED
    BY <2>1, <2>2
<1>2. IsFiniteSet(UsedIds) /\ IsFiniteSet(UsedTabs)
  BY UsedFinite
<1>3. IsFiniteSet(UsedIds \cup Ids(After(how).files))
  <2>1. After(how).files \in Seq(GoodFile)
    BY AfterFacts, GoodStoreFacts
  <2>2. IsFiniteSet(Ids(After(how).files))
    BY <2>1, IdsFinite, Zenon DEF Ids
  <2> QED
    BY <1>2, <2>2, FS_Union, Zenon
<1> DEFINE V == UsedIds \cup Ids(After(how).files)
<1>4. Fresh(1, V)[1] \in Nat \ V
  BY <1>1, <1>3, Zenon
<1>5. /\ Fresh(2, UsedIds)[1] \in Nat \ UsedIds /\ Fresh(2, UsedIds)[2] \in Nat \ UsedIds
      /\ Fresh(2, UsedIds)[1] # Fresh(2, UsedIds)[2] /\ Fresh(2, UsedIds)[1] = NewId
  BY <1>1, <1>2, Zenon DEF NewId
<1>6. Fresh(2, UsedTabs)[2] \in Nat \ UsedTabs /\ Fresh(2, UsedTabs)[2] # NewTab
  BY <1>1, <1>2, SMT DEF NewTab
<1>7. <<Tab(Fresh(2, UsedTabs)[2], {})>> \in GoodTabs
  <2>1. Tab(Fresh(2, UsedTabs)[2], {}) \in TabType
    BY <1>6, TabGood
  <2> QED
    BY <2>1, OneTabGood
<1> QED
  BY <1>4, <1>5, <1>6, <1>7

LEMMA CreateAnswerTyped ==
  ASSUME WorkspaceAssumption, TypeInv, NEW c \in calls, NEW how, CreateAnswer(c, how)
  PROVE  StoreTyped' /\ OthersTyped'
<1> DEFINE id == IF how = "expired" THEN Fresh(1, UsedIds \cup Ids(After(how).files))[1]
                 ELSE Fresh(2, UsedIds)[IF how = "lost" THEN 2 ELSE 1]
           one == <<Tab(Fresh(2, UsedTabs)[2], {})>>
           f == File(id, c.name, how = "good", one)
           w == Created(After(how), f)
           v == IF c.tabs = <<>> THEN w ELSE LoadFromFile(w, c.tabs)
<1>1. Put(v, Taken(how))
  BY DEF CreateAnswer
<1>2. id \in Nat /\ one \in GoodTabs
  BY MadeFacts
<1> HIDE DEF id, one
<1>3. f \in GoodFile
  <2>1. (how = "good") \in BOOLEAN
    OBVIOUS
  <2> QED
    BY <1>2, <2>1, CallParts, FileGood
<1> HIDE DEF f
<1>4. w \in GoodStore
  BY <1>3, AfterFacts, CreatedFacts
<1> HIDE DEF w
<1>5. v \in GoodStore
  BY <1>4, CallParts, LoadFromFileFacts DEF Edits
<1> HIDE DEF v
<1>6. StoreTyped'
  BY <1>1, <1>5, AfterFacts, PutTyped
<1>7. cloud' \in Seq(AccountFile)
  <2> DEFINE a == [id |-> NewId, name |-> c.name, tabs |-> <<>>]
  <2>0. <<>> \in Seq(TabType) /\ Len(<<>>) = 0 /\ 0 <= MaxTabs
    BY DEF WorkspaceAssumption
  <2>1. a \in AccountFile
    BY <2>0, NewIds, CallParts DEF AccountFile
  <2>2. cloud' = IF Done(c, how) THEN Append(cloud, a) ELSE cloud
    BY DEF CreateAnswer
  <2> HIDE DEF a
  <2>3. cloud \in Seq(AccountFile)
    BY CallParts
  <2>4. Append(cloud, a) \in Seq(AccountFile)
    BY <2>1, <2>3, SeqParts, Zenon
  <2> QED
    BY <2>2, <2>3, <2>4
<1> QED
  BY <1>6, <1>7, AnsweredTyped DEF CreateAnswer

LEMMA RenameAnswerTyped ==
  ASSUME WorkspaceAssumption, TypeInv, NEW c \in calls, NEW how, RenameAnswer(c, how)
  PROVE  StoreTyped' /\ OthersTyped'
<1> DEFINE w == Renamed(After(how), c.id, c.name)
<1>1. w \in GoodStore
  BY AfterFacts, CallParts, RenamedFacts
<1>2. Put(w, Taken(how))
  BY DEF RenameAnswer
<1> HIDE DEF w
<1>3. StoreTyped'
  BY <1>1, <1>2, AfterFacts, PutTyped
<1>4. cloud' \in Seq(AccountFile)
  <2> DEFINE g == [i \in DOMAIN cloud |-> IF cloud[i].id = c.id /\ Done(c, how)
                                            THEN [cloud[i] EXCEPT !.name = c.name] ELSE cloud[i]]
  <2>1. \A i \in DOMAIN cloud : cloud[i] \in AccountFile /\ [cloud[i] EXCEPT !.name = c.name] \in AccountFile
    <3>1. cloud \in Seq(AccountFile) /\ c.name \in Nat
      BY CallParts
    <3>2. \A i \in DOMAIN cloud : cloud[i] \in AccountFile
      BY <3>1
    <3> QED
      BY <3>1, <3>2 DEF AccountFile
  <2>2. g \in [DOMAIN cloud -> AccountFile]
    BY <2>1
  <2>3. cloud' = g
    BY DEF RenameAnswer
  <2> HIDE DEF g
  <2>4. g \in Seq(AccountFile)
    BY <2>2, CallParts, Mapped
  <2> QED
    BY <2>3, <2>4
<1> QED
  BY <1>3, <1>4, AnsweredTyped DEF RenameAnswer

LEMMA DeleteAnswerTyped ==
  ASSUME WorkspaceAssumption, TypeInv, NEW c \in calls, NEW how, DeleteAnswer(c, how)
  PROVE  StoreTyped' /\ OthersTyped'
<1> DEFINE w == Deleted(After(how), c.files, c.active, c.id)
<1>1. w \in GoodStore
  BY AfterFacts, CallParts, DeletedFacts
<1>2. Put(w, Taken(how))
  BY DEF DeleteAnswer
<1> HIDE DEF w
<1>3. StoreTyped'
  BY <1>1, <1>2, AfterFacts, PutTyped
<1>4. cloud' \in Seq(AccountFile)
  BY CallParts, WithoutFacts DEF DeleteAnswer
<1> QED
  BY <1>3, <1>4, AnsweredTyped DEF DeleteAnswer

LEMMA LoadAnswerTyped ==
  ASSUME WorkspaceAssumption, TypeInv, NEW c \in calls, NEW how, LoadAnswer(c, how)
  PROVE  StoreTyped' /\ OthersTyped'
<1>0. UNCHANGED <<cloud, dialog, strokes>> /\ auth' = (auth /\ how # "expired")
  BY DEF LoadAnswer
<1>1. CASE how = "good"
  <2>0. PICK bare \in SUBSET DOMAIN cloud : Put(Loaded(store, c.files, bare), {})
    BY <1>1 DEF LoadAnswer
  <2> DEFINE w == Loaded(store, c.files, bare)
             d == Call("migrate", None, Untitled, c.files, <<>>)
             D == IF cloud = <<>> /\ c.files # <<>> THEN {d} ELSE {}
  <2>1. w \in GoodStore
    <3>1. HasLoaded(w, c.files, bare)
      BY CallParts, LoadedFacts
    <3> QED
      BY <3>1 DEF HasLoaded
  <2>2. Put(w, {}) /\ calls' = (calls \ {c}) \cup D
    BY <1>1, <2>0 DEF LoadAnswer
  <2>3. d \in GoodCall
    BY CallParts, CallTyped DEF Untitled
  <2> HIDE DEF w, d
  <2>4. IsFiniteSet(D) /\ D \in SUBSET GoodCall
    BY <2>3, FS_Singleton, FS_EmptySet
  <2> HIDE DEF D
  <2>5. IsFiniteSet((calls \ {c}) \cup D)
    BY <2>4, CallParts, FS_Union, Zenon
  <2>6. calls' \in SUBSET GoodCall /\ IsFiniteSet(calls')
    BY <2>2, <2>4, <2>5, CallParts
  <2>7. StoreTyped'
    BY <2>1, <2>2, PutTyped
  <2> QED
    BY <1>0, <2>6, <2>7 DEF TypeInv, OthersTyped
<1>2. CASE how # "good"
  <2> DEFINE w == [After(how) EXCEPT !.loading = FALSE, !.sync = "error"]
  <2>1. w \in GoodStore
    BY AfterFacts, StoreOnly
  <2>2. Put(w, Taken(how)) /\ calls' = calls \ {c}
    BY <1>2 DEF LoadAnswer
  <2> HIDE DEF w
  <2>3. StoreTyped'
    BY <2>1, <2>2, AfterFacts, PutTyped
  <2> QED
    BY <1>0, <2>2, <2>3, CallParts DEF TypeInv, OthersTyped
<1> QED
  BY <1>1, <1>2

\* What the server makes of the files that are sent to it.
Uploaded(up) ==
  /\ up \in Seq(AccountFile)
  /\ \A k \in DOMAIN up : up[k].id \notin UsedIds
  /\ \A k, l \in DOMAIN up : up[k].id = up[l].id => k = l

LEMMA UploadedFacts ==
  ASSUME WorkspaceAssumption, TypeInv, NEW sent \in Seq(GoodFile), NEW kept, NEW up,
         up = LET ids == Fresh(Len(sent), UsedIds)
              IN [k \in DOMAIN sent |->
                    [id |-> ids[k], name |-> sent[k].name,
                     tabs |-> Pick(sent[k].tabs, DOMAIN sent[k].tabs \cap kept[k])]]
  PROVE  Uploaded(up) /\ DOMAIN up = DOMAIN sent
<1> DEFINE n == Len(sent)
           ids == Fresh(n, UsedIds)
           Sheets1(k) == Pick(sent[k].tabs, DOMAIN sent[k].tabs \cap kept[k])
           file(k) == [id |-> ids[k], name |-> sent[k].name, tabs |-> Sheets1(k)]
<1>1. n \in Nat /\ DOMAIN sent = 1..n /\ IsFiniteSet(UsedIds)
  BY UsedFinite
<1>3. up = [k \in DOMAIN sent |-> file(k)]
  OBVIOUS
<1> HIDE DEF n
<1>2. /\ ids \in [1..n -> Nat] /\ \A k \in 1..n : ids[k] \notin UsedIds
      /\ \A k, l \in 1..n : ids[k] = ids[l] => k = l
  BY <1>1, FreshFacts
<1> HIDE DEF ids
<1>4. ASSUME NEW k \in DOMAIN sent
      PROVE  file(k) \in AccountFile /\ file(k).id = ids[k]
  <2>1. sent[k] \in GoodFile
    OBVIOUS
  <2>2. sent[k].name \in Nat /\ sent[k].tabs \in Seq(TabType) /\ Len(sent[k].tabs) <= MaxTabs
    BY <2>1, GoodFileFacts, GoodTabsFacts
  <2>3. MaxTabs \in Nat
    BY DEF WorkspaceAssumption
  <2>4. ids[k] \in Nat
    BY <1>1, <1>2
  <2>5. Sheets1(k) \in Seq(TabType) /\ Len(Sheets1(k)) <= MaxTabs
    <3> DEFINE tabs == sent[k].tabs
               I == DOMAIN tabs \cap kept[k]
    <3>1. tabs \in Seq(TabType) /\ I \in SUBSET DOMAIN tabs
      BY <2>2
    <3> HIDE DEF tabs, I
    <3>2. Pick(tabs, I) \in Seq(TabType) /\ Len(Pick(tabs, I)) = Cardinality(I) /\ Cardinality(I) <= Len(tabs)
      BY <3>1, PickFacts
    <3>3. Len(Pick(tabs, I)) <= Len(tabs) /\ Len(Pick(tabs, I)) \in Nat /\ Len(tabs) \in Nat
      BY <3>1, <3>2
    <3>4. Len(tabs) <= MaxTabs
      BY <2>2 DEF tabs
    <3>5. Len(Pick(tabs, I)) <= MaxTabs
      BY <2>3, <3>3, <3>4
    <3> QED
      BY <3>2, <3>5 DEF tabs, I
  <2> HIDE DEF Sheets1
  <2> QED
    BY <2>2, <2>4, <2>5 DEF AccountFile
<1> HIDE DEF file
<1>5. up \in [DOMAIN sent -> AccountFile] /\ \A k \in DOMAIN sent : up[k].id = ids[k]
  BY <1>3, <1>4
<1>6. up \in Seq(AccountFile) /\ DOMAIN up = DOMAIN sent
  BY <1>5, Mapped
<1>7. \A k \in DOMAIN up : k \in 1..n /\ up[k].id = ids[k]
  BY <1>1, <1>5, <1>6
<1>8. \A k, l \in DOMAIN up : up[k].id = up[l].id => k = l
  <2> SUFFICES ASSUME NEW k \in DOMAIN up, NEW l \in DOMAIN up, up[k].id = up[l].id PROVE k = l
    OBVIOUS
  <2>1. k \in 1..n /\ l \in 1..n /\ ids[k] = ids[l]
    BY <1>7
  <2> HIDE DEF ids
  <2> QED
    BY <1>2, <2>1
<1>9. \A k \in DOMAIN up : up[k].id \notin UsedIds
  BY <1>2, <1>7
<1> QED
  BY <1>6, <1>8, <1>9 DEF Uploaded

LEMMA MigrateAnswerFacts ==
  ASSUME WorkspaceAssumption, TypeInv, NEW c \in calls, NEW how, MigrateAnswer(c, how)
  PROVE  \E up :
           /\ Uploaded(up)
           /\ up # <<>> => Done(c, how)
           /\ cloud' = cloud \o up
           /\ Put(IF how = "good" THEN Migrated(store, up) ELSE After(how), Taken(how))
<1>1. PICK made \in SUBSET DOMAIN c.files :
        /\ made # {} <=> Done(c, how)
        /\ LET sent == Pick(c.files, made)
               ids == Fresh(Len(sent), UsedIds)
           IN \E kept \in [DOMAIN sent -> SUBSET (1..MaxTabs)] :
                LET up == [k \in DOMAIN sent |->
                             [id |-> ids[k], name |-> sent[k].name,
                              tabs |-> Pick(sent[k].tabs, DOMAIN sent[k].tabs \cap kept[k])]]
                IN /\ cloud' = cloud \o up
                   /\ Put(IF how = "good" THEN Migrated(store, up) ELSE After(how), Taken(how))
  BY DEF MigrateAnswer
<1>2. PICK sent : sent = Pick(c.files, made)
  OBVIOUS
<1>3. sent \in Seq(GoodFile) /\ (sent = <<>> <=> made = {})
  <2>1. c.files \in Seq(GoodFile)
    BY CallParts
  <2> QED
    BY <1>2, <2>1, PickFacts
<1>4. PICK kept : LET ids == Fresh(Len(sent), UsedIds)
                      up == [k \in DOMAIN sent |->
                               [id |-> ids[k], name |-> sent[k].name,
                                tabs |-> Pick(sent[k].tabs, DOMAIN sent[k].tabs \cap kept[k])]]
                  IN /\ cloud' = cloud \o up
                     /\ Put(IF how = "good" THEN Migrated(store, up) ELSE After(how), Taken(how))
  BY <1>1, <1>2
<1>5. PICK up : up = LET ids == Fresh(Len(sent), UsedIds)
                     IN [k \in DOMAIN sent |->
                           [id |-> ids[k], name |-> sent[k].name,
                            tabs |-> Pick(sent[k].tabs, DOMAIN sent[k].tabs \cap kept[k])]]
  OBVIOUS
<1>6. /\ cloud' = cloud \o up
      /\ Put(IF how = "good" THEN Migrated(store, up) ELSE After(how), Taken(how))
  BY <1>4, <1>5
<1>7. Uploaded(up) /\ DOMAIN up = DOMAIN sent
  BY <1>3, <1>5, UploadedFacts
<1>8. sent = <<>> => up = <<>>
  BY <1>7 DEF Uploaded
<1>9. up # <<>> => Done(c, how)
  BY <1>1, <1>3, <1>8
<1> QED
  BY <1>6, <1>7, <1>9

LEMMA MigrateAnswerTyped ==
  ASSUME WorkspaceAssumption, TypeInv, NEW c \in calls, NEW how, MigrateAnswer(c, how)
  PROVE  StoreTyped' /\ OthersTyped'
<1>1. PICK up :
        /\ Uploaded(up)
        /\ cloud' = cloud \o up
        /\ Put(IF how = "good" THEN Migrated(store, up) ELSE After(how), Taken(how))
  BY MigrateAnswerFacts, Zenon
<1> DEFINE w == IF how = "good" THEN Migrated(store, up) ELSE After(how)
<1>2. up \in Seq(AccountFile)
  BY <1>1 DEF Uploaded
<1>3. Put(w, Taken(how)) /\ cloud' = cloud \o up
  BY <1>1
<1>4. w \in GoodStore
  BY <1>2, StoreParts, MigratedFacts, AfterFacts
<1> HIDE DEF w
<1>5. StoreTyped'
  BY <1>3, <1>4, AfterFacts, PutTyped
<1>6. cloud' \in Seq(AccountFile)
  <2>1. cloud \in Seq(AccountFile)
    BY CallParts
  <2>2. cloud \o up \in Seq(AccountFile)
    BY <1>2, <2>1
  <2> QED
    BY <1>3, <2>2
<1> QED
  BY <1>5, <1>6, AnsweredTyped DEF MigrateAnswer

LEMMA ExportAnswerTyped ==
  ASSUME TypeInv, NEW c \in calls, ExportAnswer(c)
  PROVE  StoreTyped' /\ OthersTyped'
<1>0. PICK content : content = IF <<c.active, c.id>> = Key(store) THEN scene ELSE {}
  OBVIOUS
<1> DEFINE w == SaveTabState(store, ActiveTab(store), content)
<1>1. w \in GoodStore
  <2>1. content \in SUBSET (1..MaxStrokes)
    BY <1>0, StoreParts
  <2> QED
    BY <2>1, StoreParts, SaveTabStateFacts DEF Edits
<1>2. Put(w, {}) /\ calls' = calls \ {c} /\ UNCHANGED <<auth, cloud, dialog, strokes>>
  BY <1>0 DEF ExportAnswer
<1> HIDE DEF w
<1>3. StoreTyped'
  BY <1>1, <1>2, PutTyped
<1> QED
  BY <1>2, <1>3, CallParts, RestTyped

-----------------------------------------------------------------------------

LEMMA TypeInvInit ==
  ASSUME WorkspaceAssumption, Init
  PROVE  TypeInv
<1> DEFINE tabs == <<Tab(1, {})>>
           f == File(1, Untitled, FALSE, tabs)
           fs == <<f>>
<1>1. tabs \in GoodTabs
  BY TabGood, OneTabGood
<1> HIDE DEF tabs
<1>2. f \in GoodFile
  BY <1>1, FileGood DEF Untitled
<1> HIDE DEF f
<1>3. fs \in Seq(GoodFile) /\ <<>> \in Seq(GoodFile)
  BY <1>2
<1>4. store = [files |-> fs, active |-> 1, pending |-> <<>>, loading |-> FALSE, sync |-> "idle"]
  BY DEF Init, f, tabs
<1> HIDE DEF fs
<1>5. store \in GoodStore
  BY <1>3, <1>4 DEF GoodStore
<1>6. cloud \in Seq(AccountFile)
  <2> DEFINE a == [id |-> 2, name |-> Untitled, tabs |-> <<>>]
  <2>0. <<>> \in Seq(TabType) /\ Len(<<>>) = 0 /\ 0 <= MaxTabs
    BY DEF WorkspaceAssumption
  <2>1. a \in AccountFile
    BY <2>0 DEF AccountFile, Untitled
  <2>2. cloud \in {<<>>, <<a>>}
    BY DEF Init
  <2> HIDE DEF a
  <2>3. <<>> \in Seq(AccountFile) /\ <<a>> \in Seq(AccountFile)
    BY <2>1
  <2> QED
    BY <2>2, <2>3
<1>7. IsFiniteSet({})
  BY FS_EmptySet
<1>8. strokes \in 0..MaxStrokes /\ clicks \in 0..MaxClicks
  BY DEF Init, WorkspaceAssumption
<1> QED
  BY <1>5, <1>6, <1>7, <1>8 DEF Init, TypeInv, StoreTyped, OthersTyped, CallsCut

LEMMA OnSheetsTyped ==
  ASSUME WorkspaceAssumption, TypeInv, OnSheets
  PROVE  StoreTyped' /\ OthersTyped'
<1>1. CASE Draw
  BY <1>1, DrawTyped
<1>2. CASE SaveTimer
  BY <1>2, SaveTimerTyped
<1>3. ASSUME NEW id \in Sheets, TabClick(id) PROVE StoreTyped' /\ OthersTyped'
  BY <1>3, TabClickTyped, AtRestTyped DEF TabClick
<1>4. ASSUME NEW id \in Sheets, KeyTab(id) PROVE StoreTyped' /\ OthersTyped'
  BY <1>4, KeyTabTyped, AtRestTyped DEF KeyTab
<1>5. ASSUME NEW id \in Sheets, DeleteRequest(id) PROVE StoreTyped' /\ OthersTyped'
  BY <1>5, DeleteRequestTyped
<1>6. CASE KeyRemove
  BY <1>6, KeyRemoveTyped, AtRestTyped DEF KeyRemove
<1>7. CASE DeleteDecided
  BY <1>7, DeleteDecidedTyped
<1> QED
  BY <1>1, <1>2, <1>3, <1>4, <1>5, <1>6, <1>7 DEF OnSheets

LEMMA OnFilesTyped ==
  ASSUME WorkspaceAssumption, TypeInv, OnFiles
  PROVE  StoreTyped' /\ OthersTyped'
<1>1. ASSUME NEW i \in DOMAIN store.files, NEW f, f = store.files[i],
             SwitchFile(f.id) \/ ExportFile(f.id) \/ DuplicateFile(f) \/ RenameFile(f) \/ DeleteFile(f)
      PROVE  StoreTyped' /\ OthersTyped'
  <2>1. f \in GoodFile /\ f.id \in Nat
    BY <1>1, StoreParts, GoodFileFacts
  <2> QED
    BY <1>1, <2>1, SwitchFileTyped, ExportFileTyped, DuplicateFileTyped, RenameFileTyped, DeleteFileTyped
<1>2. CASE HandleAddTab
  BY <1>2, HandleAddTabTyped, AtRestTyped DEF HandleAddTab
<1>3. CASE KeyAddTab
  BY <1>3, KeyAddTabTyped, AtRestTyped DEF KeyAddTab
<1>4. CASE HandleCreateFile
  BY <1>4, HandleCreateFileTyped
<1>5. CASE ImportFile
  BY <1>5, ImportFileTyped
<1>6. CASE ImportScene
  BY <1>6, ImportSceneTyped
<1>7. CASE Login
  BY <1>7, LoginTyped
<1>8. CASE SessionEnds
  BY <1>8, SessionEndsTyped
<1>9. CASE Reload
  BY <1>9, ReloadTyped
<1> QED
  BY <1>1, <1>2, <1>3, <1>4, <1>5, <1>6, <1>7, <1>8, <1>9 DEF OnFiles

LEMMA AnswersTyped ==
  ASSUME WorkspaceAssumption, TypeInv, Answers
  PROVE  StoreTyped' /\ OthersTyped'
<1>1. PICK c \in calls :
        \/ ExportAnswer(c)
        \/ \E how \in {"good", "failed", "lost", "expired"} :
             \/ CreateAnswer(c, how) \/ RenameAnswer(c, how) \/ DeleteAnswer(c, how)
             \/ LoadAnswer(c, how) \/ MigrateAnswer(c, how)
  BY Zenon DEF Answers
<1> QED
  BY <1>1, ExportAnswerTyped, CreateAnswerTyped, RenameAnswerTyped, DeleteAnswerTyped, LoadAnswerTyped,
     MigrateAnswerTyped

LEMMA CutTyped ==
  ASSUME TypeInv, OthersTyped', Recorded
  PROVE  cut' \in SUBSET CallsCut
<1>1. \A c \in calls \cup calls' : c.kind \in CallsCut \cup {"rename"}
  <2>1. \A c \in calls \cup calls' : c \in GoodCall
    BY DEF TypeInv, OthersTyped
  <2> QED
    BY <2>1 DEF GoodCall, CallsCut
<1>2. Interrupted \subseteq CallsCut
  BY <1>1 DEF Interrupted
<1> QED
  BY <1>2 DEF Recorded, TypeInv

LEMMA TypeInvNext ==
  ASSUME WorkspaceAssumption, TypeInv, [Next]_wvars
  PROVE  TypeInv'
<1>1. CASE Next
  <2>1. StoreTyped' /\ OthersTyped'
    BY <1>1, OnSheetsTyped, OnFilesTyped, AnswersTyped, MigrationDecidedTyped DEF Next
  <2>3. cut' \in SUBSET CallsCut
    BY <1>1, <2>1, CutTyped DEF Next
  <2>2. clicks' \in 0..MaxClicks
    <3>1. MaxClicks \in Nat /\ clicks \in 0..MaxClicks
      BY DEF WorkspaceAssumption, TypeInv
    <3>2. clicks' = clicks \/ (clicks < MaxClicks /\ clicks' = clicks + 1)
      BY <1>1 DEF Next
    <3> QED
      BY <3>1, <3>2
  <2> QED
    BY <2>1, <2>2, <2>3 DEF TypeInv
<1>2. CASE UNCHANGED wvars
  BY <1>2 DEF wvars, TypeInv, StoreTyped, OthersTyped
<1> QED
  BY <1>1, <1>2

\* The store, the account and what is under way keep their shape: every file has a
\* sheet, at most MaxTabs of them, and calls bring back files and sheets of that
\* shape, also after failures, half-done uploads and ends of sessions.
THEOREM WorkspaceTyped ==
  ASSUME WorkspaceAssumption
  PROVE  Spec => []TypeInv
<1>1. Init => TypeInv
  BY TypeInvInit
<1>2. TypeInv /\ [Next]_wvars => TypeInv'
  BY TypeInvNext
<1> QED
  BY <1>1, <1>2, PTL DEF Spec

LEMMA TypeInvWork ==
  ASSUME TypeInv
  PROVE  WorkTypeOK
<1>1. GoodFile \subseteq FileType
  <2> SUFFICES ASSUME NEW f \in GoodFile PROVE f \in FileType
    OBVIOUS
  <2>1. f = [id |-> f.id, name |-> f.name, cloud |-> f.cloud, tabs |-> f.tabs, tab |-> f.tab]
    BY GoodFileFacts
  <2>2. f.id \in Nat /\ f.name \in Nat /\ f.cloud \in BOOLEAN /\ f.tabs \in Seq(TabType) /\ f.tab \in Nat
    BY GoodFileFacts, GoodTabsFacts
  <2> HIDE DEF GoodFile
  <2> QED
    BY <2>1, <2>2 DEF FileType
<1>2. \A s \in Seq(GoodFile) : s \in Seq(FileType)
  BY <1>1
<1>3. store \in [files : Seq(FileType), active : Nat, pending : Seq(FileType),
                 loading : BOOLEAN, sync : {"idle", "syncing", "synced", "error"}]
  BY <1>2 DEF TypeInv, StoreTyped, GoodStore
<1>4. AccountFile \subseteq [id : Nat, name : Nat, tabs : Seq(TabType)]
  BY DEF AccountFile
<1>5. cloud \in Seq([id : Nat, name : Nat, tabs : Seq(TabType)])
  <2> DEFINE A == [id : Nat, name : Nat, tabs : Seq(TabType)]
  <2>1. cloud \in Seq(AccountFile)
    BY DEF TypeInv, OthersTyped
  <2>2. \A x \in AccountFile : x \in A
    BY <1>4
  <2> HIDE DEF A
  <2>3. cloud \in Seq(A)
    BY <2>1, <2>2
  <2> QED
    BY <2>3 DEF A
<1> QED
  BY <1>3, <1>5 DEF TypeInv, StoreTyped, OthersTyped, CallsCut, WorkTypeOK

\* The types that a run checks.
THEOREM WorkspaceTypes ==
  ASSUME WorkspaceAssumption
  PROVE  Spec => []WorkTypeOK
<1>1. Spec => []TypeInv
  BY WorkspaceTyped
<1>2. TypeInv => WorkTypeOK
  BY TypeInvWork
<1> QED
  BY <1>1, <1>2, PTL

-----------------------------------------------------------------------------
(* What steps do to the store. *)

LEMMA EditsSame ==
  ASSUME NEW w \in GoodStore
  PROVE  Edits(w, w)
BY DEF Edits

LEMMA EditsTwice ==
  ASSUME NEW u, NEW v, NEW w, Edits(u, v), Edits(v, w)
  PROVE  Edits(u, w)
BY DEF Edits

LEMMA TabClickEdits ==
  ASSUME TypeInv, NEW id \in Sheets, TabClick(id)
  PROVE  Edits(store, store')
<1> DEFINE u == SaveTabState(store, ActiveTab(store), scene)
           w == SetActiveTab(u, id)
<1>1. Edits(store, u)
  BY StoreParts, SaveTabStateFacts
<1>2. u \in GoodStore /\ id \in Nat
  BY <1>1, SheetsAreNumbers DEF Edits
<1> HIDE DEF u
<1>3. Edits(u, w)
  BY <1>2, SetActiveTabFacts
<1>4. store' = w
  BY DEF TabClick, Put, u
<1> HIDE DEF w
<1> QED
  BY <1>1, <1>3, <1>4, EditsTwice

LEMMA AddTabEdits ==
  ASSUME WorkspaceAssumption, TypeInv, HandleAddTab \/ KeyAddTab
  PROVE  Edits(store, store')
<1>0. \A i \in DOMAIN store.files : store.files[i].id = store.active => Len(store.files[i].tabs) < MaxTabs
  BY DEF HandleAddTab, KeyAddTab, RoomForSheet
<1>1. CASE HandleAddTab
  <2> DEFINE u == SaveTabState(store, ActiveTab(store), scene)
             w == AddTab(u, NewTab)
  <2>1. /\ Edits(store, u)
        /\ \A i \in DOMAIN store.files :
             store.files[i].id = store.active =>
               /\ Len(u.files[i].tabs) = Len(store.files[i].tabs)
               /\ DOMAIN u.files[i].tabs = DOMAIN store.files[i].tabs
               /\ \A k \in DOMAIN store.files[i].tabs :
                    u.files[i].tabs[k] = IF store.files[i].tabs[k].id = ActiveTab(store) THEN Tab(ActiveTab(store), scene)
                                         ELSE store.files[i].tabs[k]
    <3>1. store \in GoodStore /\ scene \in SUBSET (1..MaxStrokes)
      BY StoreParts
    <3> QED
      BY <3>1, SaveTabStateFacts
  <2> HIDE DEF u
  <2>3. \A i \in DOMAIN u.files : u.files[i].id = u.active =>
          /\ Len(u.files[i].tabs) < MaxTabs
          /\ \A k \in DOMAIN u.files[i].tabs : u.files[i].tabs[k].id # NewTab
    BY <1>0, <2>1, NewTabIsNew, SMTT(40) DEF Edits, Tab
  <2>4. u \in GoodStore /\ NewTab \in Nat
    BY <2>1, NewTabIsNew DEF Edits
  <2>5. Edits(u, w)
    BY <2>3, <2>4, AddTabFacts
  <2>6. store' = w
    BY <1>1 DEF HandleAddTab, Put, u
  <2> HIDE DEF w
  <2> QED
    BY <2>1, <2>5, <2>6, EditsTwice
<1>2. CASE KeyAddTab
  <2> DEFINE w == AddTab(store, NewTab)
  <2>1. \A i \in DOMAIN store.files : store.files[i].id = store.active =>
          /\ Len(store.files[i].tabs) < MaxTabs
          /\ \A k \in DOMAIN store.files[i].tabs : store.files[i].tabs[k].id # NewTab
    BY <1>0, NewTabIsNew
  <2>2. store \in GoodStore /\ NewTab \in Nat
    BY StoreParts, NewTabIsNew
  <2>3. Edits(store, w)
    BY <2>1, <2>2, AddTabFacts
  <2>4. store' = w
    BY <1>2 DEF KeyAddTab, Put
  <2> HIDE DEF w
  <2> QED
    BY <2>3, <2>4
<1> QED
  BY <1>1, <1>2

LEMMA RemoveEdits ==
  ASSUME WorkspaceAssumption, TypeInv, NEW id, store' = RemoveTab(store, id)
  PROVE  Edits(store, store')
<1> DEFINE w == RemoveTab(store, id)
<1>1. Edits(store, w)
  BY StoreParts, RemoveTabFacts
<1> HIDE DEF w
<1> QED
  BY <1>1 DEF w

LEMMA SaveEdits ==
  ASSUME TypeInv, NEW id, NEW content \in SUBSET (1..MaxStrokes), store' = SaveTabState(store, id, content)
  PROVE  Edits(store, store')
BY StoreParts, SaveTabStateFacts

\* Handlers about sheets keep the files, up to the sheets of the open one.
LEMMA OnSheetsEdits ==
  ASSUME WorkspaceAssumption, TypeInv, OnSheets
  PROVE  Edits(store, store') /\ UNCHANGED <<auth, cloud, calls>>
<1>0. Edits(store, store)
  BY StoreParts, EditsSame
<1>1. CASE Draw
  BY <1>0, <1>1 DEF Draw
<1>2. CASE SaveTimer
  <2>1. timer.content \in SUBSET (1..MaxStrokes)
    BY <1>2 DEF SaveTimer, TypeInv, StoreTyped
  <2> QED
    BY <1>2, <2>1, SaveEdits DEF SaveTimer
<1>3. ASSUME NEW id \in Sheets, TabClick(id) PROVE Edits(store, store') /\ UNCHANGED <<auth, cloud, calls>>
  BY <1>3, TabClickEdits DEF TabClick, AtRest
<1>4. ASSUME NEW id \in Sheets, KeyTab(id) PROVE Edits(store, store') /\ UNCHANGED <<auth, cloud, calls>>
  <2>1. Edits(store, SetActiveTab(store, id))
    BY SheetsAreNumbers, StoreParts, SetActiveTabFacts
  <2>2. store' = SetActiveTab(store, id) /\ UNCHANGED <<auth, cloud, calls>>
    BY <1>4 DEF KeyTab, Put, AtRest
  <2> QED
    BY <2>1, <2>2
<1>5. ASSUME NEW id \in Sheets, DeleteRequest(id) PROVE Edits(store, store') /\ UNCHANGED <<auth, cloud, calls>>
  <2>1. (store' = store \/ store' = RemoveTab(store, id)) /\ UNCHANGED <<auth, cloud, calls>>
    BY <1>5 DEF DeleteRequest, Put
  <2> QED
    BY <1>0, <2>1, RemoveEdits
<1>6. CASE KeyRemove
  <2>1. store' = RemoveTab(store, ActiveTab(store)) /\ UNCHANGED <<auth, cloud, calls>>
    BY <1>6 DEF KeyRemove, Put, AtRest
  <2> QED
    BY <2>1, RemoveEdits
<1>7. CASE DeleteDecided
  <2>1. (store' = store \/ store' = RemoveTab(store, dialog)) /\ UNCHANGED <<auth, cloud, calls>>
    BY <1>7 DEF DeleteDecided, Put
  <2> QED
    BY <1>0, <2>1, RemoveEdits
<1> QED
  BY <1>1, <1>2, <1>3, <1>4, <1>5, <1>6, <1>7 DEF OnSheets

-----------------------------------------------------------------------------
(* The user who waits. *)

Renaming(c) == c.kind = "rename"
Exporting(c) == c.kind = "export"
Slight(c) == Renaming(c) \/ Exporting(c)

\* A renaming and an export may be under way at once; nothing else is under way
\* with another call, and what a deletion or a sign-in has read is still so, unless
\* the session has ended meanwhile.
WaitInv ==
  /\ \A c, d \in calls : c = d \/ (Renaming(c) /\ Exporting(d)) \/ (Exporting(c) /\ Renaming(d))
  /\ store.pending # <<>> => calls = {} /\ timer = None /\ dialog = None
  /\ dialog # None => calls = {} /\ timer = None
  /\ \A c \in calls :
       /\ ~Slight(c) => timer = None
       /\ c.kind = "delete" => "delete" \in cut \/ (c.files = store.files /\ c.active = store.active)
       /\ c.kind = "load" => "load" \in cut \/ c.files = Local(store.files)

\* Nothing is awaited and nobody is asked.
Quiet == calls = {} /\ dialog = None /\ store.pending = <<>>

LEMMA QuietWaits ==
  ASSUME Quiet'
  PROVE  WaitInv'
BY DEF Quiet, WaitInv

\* Renamings and exports that are left.
LEMMA LeftWaits ==
  ASSUME WaitInv, calls' \subseteq calls, \A d \in calls' : Slight(d), dialog' = None, store'.pending = <<>>
  PROVE  WaitInv'
BY DEF WaitInv, Slight, Renaming, Exporting

LEMMA UnhurriedQuiet ==
  ASSUME Patient, Unhurried
  PROVE  Quiet /\ timer = None /\ Clickable
BY DEF Unhurried, Quiet, Clickable, AsksAboutFiles, AsksAboutSheet

\* A click for which nothing has to have been saved.
LEMMA WaitedFacts ==
  ASSUME Patient, WaitInv, Clickable, Waited
  PROVE  store.pending = <<>> /\ dialog = None /\ \A c \in calls : Renaming(c)
BY DEF Clickable, Waited, AsksAboutFiles, AsksAboutSheet, Renaming

\* While a file's new name is awaited, the rest goes on, and so does the save that is
\* pending when a file is exported.
LEMMA RenamingWaits ==
  ASSUME Patient, WaitInv, Clickable \/ (timer # None), Waited \/ (timer # None), UNCHANGED <<calls, dialog>>, store'.pending = store.pending
  PROVE  WaitInv'
<1>1. store.pending = <<>> /\ dialog = None /\ \A c \in calls : Slight(c)
  <2>1. CASE timer = None
    BY <2>1, WaitedFacts DEF Slight
  <2>2. CASE timer # None
    BY <2>2 DEF WaitInv
  <2> QED
    BY <2>1, <2>2
<1> QED
  BY <1>1, LeftWaits

\* A call that is made.
LEMMA CallWaits ==
  ASSUME Patient, Quiet, timer = None, NEW c, calls' = calls \cup {c}, UNCHANGED dialog, store'.pending = store.pending,
         UNCHANGED timer \/ timer' = None,
         c.kind = "delete" => c.files = store'.files /\ c.active = store'.active,
         c.kind = "load" => c.files = Local(store'.files)
  PROVE  WaitInv'
<1>1. calls' = {c} /\ timer' = None /\ dialog' = None /\ store'.pending = <<>>
  BY DEF Quiet
<1> QED
  BY <1>1 DEF WaitInv

LEMMA OnSheetsWait ==
  ASSUME WorkspaceAssumption, Patient, TypeInv, WaitInv, OnSheets
  PROVE  WaitInv'
<1>0. Edits(store, store') /\ UNCHANGED <<auth, cloud, calls>>
  BY OnSheetsEdits
<1>1. store'.pending = store.pending
  BY <1>0 DEF Edits
<1>2. CASE Draw
  BY <1>0, <1>1, <1>2, RenamingWaits DEF Draw
<1>3. CASE SaveTimer
  BY <1>0, <1>1, <1>3, RenamingWaits DEF SaveTimer
<1>4. ASSUME NEW id \in Sheets, TabClick(id) PROVE WaitInv'
  BY <1>0, <1>1, <1>4, RenamingWaits DEF TabClick, AtRest
<1>5. ASSUME NEW id \in Sheets, KeyTab(id) PROVE WaitInv'
  <2>1. Quiet /\ UNCHANGED dialog
    BY <1>5, UnhurriedQuiet DEF KeyTab, AtRest
  <2> QED
    BY <1>0, <1>1, <2>1, QuietWaits DEF Quiet
<1>6. ASSUME NEW id \in Sheets, DeleteRequest(id) PROVE WaitInv'
  <2>1. Quiet /\ timer = None
    BY <1>6, UnhurriedQuiet DEF DeleteRequest
  <2>2. UNCHANGED timer \/ timer' = None
    BY <1>6 DEF DeleteRequest, Put
  <2> QED
    BY <1>0, <1>1, <2>1, <2>2 DEF Quiet, WaitInv
<1>7. CASE KeyRemove
  <2>1. Quiet /\ UNCHANGED dialog
    BY <1>7, UnhurriedQuiet DEF KeyRemove, AtRest
  <2> QED
    BY <1>0, <1>1, <2>1, QuietWaits DEF Quiet
<1>8. CASE DeleteDecided
  <2>1. dialog # None /\ dialog' = None
    BY <1>8 DEF DeleteDecided, AsksAboutSheet
  <2> QED
    BY <1>0, <1>1, <2>1 DEF WaitInv
<1> QED
  BY <1>2, <1>3, <1>4, <1>5, <1>6, <1>7, <1>8 DEF OnSheets

LEMMA CreateFileWaits ==
  ASSUME WorkspaceAssumption, Patient, TypeInv, Quiet, timer = None, NEW name \in Nat, NEW tabs \in GoodTabs \cup {<<>>},
         CreateFile(name, tabs)
  PROVE  WaitInv'
<1> DEFINE n == Chosen(name)
<1>1. n \in Nat
  BY ChosenFacts
<1>2. CASE auth
  <2> DEFINE c == Call("create", None, n, <<>>, tabs)
  <2>1. calls' = calls \cup {c} /\ UNCHANGED <<store, timer, dialog>>
    BY <1>2 DEF CreateFile, Calls
  <2>2. c.kind = "create"
    BY DEF Call
  <2> HIDE DEF c
  <2> QED
    BY <2>1, <2>2, CallWaits
<1>3. CASE ~auth
  <2> DEFINE u == Created(store, EmptyFile(n))
             v == IF tabs = <<>> THEN u ELSE LoadFromFile(u, tabs)
  <2>1. store' = v /\ UNCHANGED <<calls, dialog>>
    BY <1>3 DEF CreateFile, Put
  <2>2. u \in GoodStore /\ u.pending = store.pending
    BY <1>1, EmptyFileFacts, StoreParts, CreatedFacts
  <2> HIDE DEF u
  <2>3. v.pending = store.pending
    BY <2>2, LoadFromFileFacts DEF Edits
  <2> HIDE DEF v
  <2> QED
    BY <2>1, <2>3, QuietWaits DEF Quiet
<1> QED
  BY <1>2, <1>3

\* The end of a session leaves the calls; cut records the deletions and sign-ins.
LEMMA SessionEndsWaits ==
  ASSUME WorkspaceAssumption, TypeInv, WaitInv, SessionEnds, Recorded
  PROVE  WaitInv'
<1>1. auth /\ ~auth' /\ UNCHANGED <<calls, dialog>> /\ store' = ResetToGuestState(store) /\ (UNCHANGED timer \/ timer' = None)
  BY DEF SessionEnds, Put
<1>2. store'.pending = <<>>
  BY <1>1, ResetFacts
<1>3. \A c \in calls : c.kind # "rename" => c.kind \in cut'
  BY <1>1 DEF Recorded, Interrupted
<1> QED
  BY <1>1, <1>2, <1>3 DEF WaitInv, Slight, Renaming, Exporting

LEMMA OnFilesWait ==
  ASSUME WorkspaceAssumption, Patient, TypeInv, WaitInv, OnFiles, Recorded
  PROVE  WaitInv'
<1>1. ASSUME NEW i \in DOMAIN store.files, NEW f, f = store.files[i],
             SwitchFile(f.id) \/ ExportFile(f.id) \/ DuplicateFile(f) \/ RenameFile(f) \/ DeleteFile(f)
      PROVE  WaitInv'
  <2>0. f \in GoodFile /\ f.id \in Nat
    BY <1>1, StoreParts, GoodFileFacts
  <2>1. CASE SwitchFile(f.id)
    <3>1. Quiet /\ store' = [store EXCEPT !.active = f.id] /\ UNCHANGED <<calls, dialog>>
      BY <2>1, UnhurriedQuiet DEF SwitchFile, AtRest, Put
    <3>2. store'.pending = store.pending
      BY <3>1, StoreParts DEF GoodStore
    <3> QED
      BY <3>1, <3>2, QuietWaits DEF Quiet
  <2>2. CASE ExportFile(f.id)
    <3>1. Clickable /\ Waited /\ UNCHANGED dialog /\ store' = [store EXCEPT !.active = f.id]
      BY <2>2 DEF ExportFile, Put
    <3>2. store.pending = <<>> /\ dialog = None /\ \A c \in calls : Renaming(c)
      BY <3>1, WaitedFacts
    <3>3. PICK tab : calls' = calls \cup {Call("export", tab, Untitled, <<>>, <<>>)}
      BY <2>2 DEF ExportFile, Calls
    <3>4. Exporting(Call("export", tab, Untitled, <<>>, <<>>))
      BY DEF Call, Exporting
    <3>5. PICK c : calls' = calls \cup {c} /\ Exporting(c)
      BY <3>3, <3>4
    <3>6. store'.pending = <<>>
      BY <3>1, <3>2, StoreParts DEF GoodStore
    <3> QED
      BY <3>1, <3>2, <3>5, <3>6 DEF WaitInv, Slight, Renaming, Exporting
  <2>3. CASE DuplicateFile(f)
    <3> DEFINE tabs == [k \in DOMAIN f.tabs |-> Tab(Fresh(Len(f.tabs), UsedTabs)[k], f.tabs[k].content)]
               g == File(NewId, Chosen(Copy(f.name)), FALSE, tabs)
    <3>1. Quiet /\ store' = Created(store, g) /\ UNCHANGED <<calls, dialog>>
      BY <2>3, UnhurriedQuiet DEF DuplicateFile, AtRest, Put
    <3> HIDE DEF g
    <3>2. store'.pending = store.pending
      BY <3>1, StoreParts DEF Created, GoodStore
    <3> QED
      BY <3>1, <3>2, QuietWaits DEF Quiet
  <2>4. CASE RenameFile(f)
    <3> DEFINE n == Chosen(Picked)
               c == Call("rename", f.id, n, <<>>, <<>>)
    <3>0. Quiet /\ timer = None
      BY <2>4, UnhurriedQuiet DEF RenameFile
    <3>1. CASE auth /\ f.cloud
      <4>1. calls' = calls \cup {c} /\ UNCHANGED <<store, timer, dialog>>
        BY <2>4, <3>1 DEF RenameFile, Calls
      <4>2. c.kind = "rename"
        BY DEF Call
      <4> HIDE DEF c
      <4> QED
        BY <3>0, <4>1, <4>2, CallWaits
    <3>2. CASE ~(auth /\ f.cloud)
      <4>1. store' = Renamed(store, f.id, n) /\ UNCHANGED <<calls, dialog>>
        BY <2>4, <3>2 DEF RenameFile, Put
      <4>2. store'.pending = store.pending
        BY <4>1, StoreParts DEF Renamed, GoodStore
      <4> QED
        BY <3>0, <4>1, <4>2, QuietWaits DEF Quiet
    <3> QED
      BY <3>1, <3>2
  <2>5. CASE DeleteFile(f)
    <3> DEFINE c == Call("delete", f.id, f.name, store.files, <<>>)
    <3>0. Quiet /\ timer = None
      BY <2>5, UnhurriedQuiet DEF DeleteFile
    <3>1. CASE auth /\ f.cloud
      <4>1. calls' = calls \cup {c} /\ UNCHANGED <<store, timer, dialog>>
        BY <2>5, <3>1 DEF DeleteFile, Calls
      <4>2. c.kind = "delete" /\ c.files = store'.files /\ c.active = store'.active
        BY <4>1 DEF Call
      <4> HIDE DEF c
      <4> QED
        BY <3>0, <4>1, <4>2, CallWaits
    <3>2. CASE ~(auth /\ f.cloud)
      <4>1. store' = Deleted(store, store.files, store.active, f.id) /\ UNCHANGED <<calls, dialog>>
        BY <2>5, <3>2 DEF DeleteFile, Put
      <4>2. store'.pending = store.pending
        BY <4>1, StoreParts, DeletedFacts
      <4> QED
        BY <3>0, <4>1, <4>2, QuietWaits DEF Quiet
    <3> QED
      BY <3>1, <3>2
  <2> QED
    BY <1>1, <2>1, <2>2, <2>3, <2>4, <2>5
<1>2. CASE HandleAddTab
  <2>1. Edits(store, store') /\ UNCHANGED <<calls, dialog>> /\ Clickable /\ Waited
    BY <1>2, AddTabEdits DEF HandleAddTab, AtRest
  <2> QED
    BY <2>1, RenamingWaits DEF Edits
<1>3. CASE KeyAddTab
  <2>1. Edits(store, store') /\ UNCHANGED <<calls, dialog>> /\ Quiet
    BY <1>3, AddTabEdits, UnhurriedQuiet DEF KeyAddTab, AtRest
  <2> QED
    BY <2>1, QuietWaits DEF Quiet, Edits
<1>4. CASE HandleCreateFile
  <2>1. Quiet /\ timer = None /\ CreateFile(Len(store.files) + 1, <<>>)
    BY <1>4, UnhurriedQuiet DEF HandleCreateFile
  <2>2. Len(store.files) + 1 \in Nat
    BY StoreParts
  <2> QED
    BY <2>1, <2>2, CreateFileWaits
<1>5. CASE ImportFile
  <2>1. Quiet /\ timer = None
    BY <1>5, UnhurriedQuiet DEF ImportFile
  <2>2. strokes' \in 1..MaxStrokes
    BY <1>5, NextStroke DEF ImportFile
  <2>3. PICK tabs \in {<<Tab(NewTab, {strokes'})>>} \cup (IF Reuse /\ IsOpen(store) THEN {TabsOf(store)} ELSE {}) :
          CreateFile(Imported, tabs)
    BY <1>5 DEF ImportFile
  <2>4. <<Tab(NewTab, {strokes'})>> \in GoodTabs
    BY <2>2, NewIds, TabGood, OneTabGood
  <2>5. tabs \in GoodTabs
    BY <2>3, <2>4, TabsOfGood
  <2> QED
    BY <2>1, <2>3, <2>5, CreateFileWaits DEF Imported
<1>6. CASE ImportScene
  <2>1. Quiet /\ UNCHANGED <<calls, dialog>> /\ store' = SaveTabState(store, ActiveTab(store), {strokes'})
    BY <1>6, UnhurriedQuiet DEF ImportScene, LoadNative
  <2>2. strokes' \in 1..MaxStrokes
    BY <1>6, NextStroke DEF ImportScene
  <2>3. Edits(store, store')
    BY <2>1, <2>2, SaveEdits
  <2> QED
    BY <2>1, <2>3, QuietWaits DEF Quiet, Edits
<1>7. CASE Login
  <2> DEFINE c == Call("load", None, Untitled, Local(store.files), <<>>)
  <2>1. /\ Quiet /\ timer = None /\ calls' = calls \cup {c} /\ UNCHANGED <<dialog, timer>>
        /\ store' = [store EXCEPT !.loading = TRUE, !.sync = "syncing"]
    BY <1>7, UnhurriedQuiet DEF Login, Calls
  <2>2. store'.pending = store.pending /\ store'.files = store.files
    BY <2>1, StoreParts DEF GoodStore
  <2>3. c.kind = "load" /\ c.files = Local(store'.files)
    BY <2>2 DEF Call
  <2> HIDE DEF c
  <2> QED
    BY <2>1, <2>2, <2>3, CallWaits
<1>8. CASE SessionEnds
  BY <1>8, SessionEndsWaits
<1>9. CASE Reload
  <2>1. calls' = {} /\ dialog' = None /\ store'.pending = <<>>
    BY <1>9, StoreParts DEF Reload, GoodStore
  <2> QED
    BY <2>1, QuietWaits DEF Quiet
<1> QED
  BY <1>1, <1>2, <1>3, <1>4, <1>5, <1>6, <1>7, <1>8, <1>9 DEF OnFiles

LEMMA DecidedWaits ==
  ASSUME WorkspaceAssumption, Patient, TypeInv, WaitInv, MigrationDecided
  PROVE  WaitInv'
<1>1. calls = {} /\ timer = None /\ dialog = None /\ UNCHANGED dialog
  BY DEF MigrationDecided, AsksAboutFiles, WaitInv
<1>2. store'.pending = <<>> /\ (UNCHANGED timer \/ timer' = None)
  BY StoreParts DEF MigrationDecided, Put, GoodStore
<1>3. CASE UNCHANGED calls
  BY <1>1, <1>2, <1>3 DEF WaitInv
<1>4. CASE ~UNCHANGED calls
  <2> DEFINE c == Call("migrate", None, Untitled, store.pending, <<>>)
  <2>1. calls' = calls \cup {c}
    BY <1>4 DEF MigrationDecided, Calls
  <2>2. c.kind = "migrate"
    BY DEF Call
  <2> HIDE DEF c
  <2> QED
    BY <1>1, <1>2, <2>1, <2>2 DEF WaitInv
<1> QED
  BY <1>3, <1>4

\* The call that is answered is the only one, but for a renaming and an export.
LEMMA AnsweredAlone ==
  ASSUME WaitInv, NEW c \in calls
  PROVE  /\ dialog = None /\ store.pending = <<>>
         /\ ~Slight(c) => calls \ {c} = {} /\ timer = None
         /\ Renaming(c) => \A d \in calls \ {c} : Exporting(d)
         /\ Exporting(c) => \A d \in calls \ {c} : Renaming(d)
BY DEF WaitInv, Slight, Renaming, Exporting

LEMMA AfterPending ==
  ASSUME WorkspaceAssumption, TypeInv, NEW how, store.pending = <<>>
  PROVE  After(how).pending = <<>>
<1>1. CASE how = "expired"
  BY <1>1, ResetFacts DEF After
<1>2. CASE how # "expired"
  BY <1>2 DEF After
<1> QED
  BY <1>1, <1>2

\* The sheet that an export stores.
LEMMA ExportEdits ==
  ASSUME TypeInv, NEW c, ExportAnswer(c)
  PROVE  Edits(store, store')
<1>1. PICK content : content = IF <<c.active, c.id>> = Key(store) THEN scene ELSE {}
  OBVIOUS
<1>2. content \in SUBSET (1..MaxStrokes)
  BY <1>1, StoreParts
<1>3. store' = SaveTabState(store, ActiveTab(store), content)
  BY <1>1 DEF ExportAnswer, Put
<1> QED
  BY <1>2, <1>3, SaveEdits

LEMMA AnswerWaits ==
  ASSUME WorkspaceAssumption, Patient, TypeInv, WaitInv, NEW c \in calls, NEW how,
         ExportAnswer(c) \/ CreateAnswer(c, how) \/ RenameAnswer(c, how) \/ DeleteAnswer(c, how)
           \/ LoadAnswer(c, how) \/ MigrateAnswer(c, how)
  PROVE  WaitInv'
<1>0. /\ dialog = None /\ store.pending = <<>> /\ \A d \in calls \ {c} : Slight(d)
      /\ ~Slight(c) => calls \ {c} = {} /\ timer = None
  BY AnsweredAlone DEF Slight
<1>1. After(how).pending = <<>> /\ After(how) \in GoodStore
  BY <1>0, AfterPending, AfterFacts
<1>9. c.name \in Nat /\ c.files \in Seq(GoodFile) /\ c.tabs \in GoodTabs \cup {<<>>} /\ c.active \in Nat
  BY CallParts
<1>2. CASE ExportAnswer(c)
  <2>1. Edits(store, store')
    BY <1>2, ExportEdits
  <2>2. calls' = calls \ {c} /\ UNCHANGED dialog
    BY <1>2 DEF ExportAnswer
  <2> QED
    BY <1>0, <2>1, <2>2, LeftWaits DEF Edits
<1>3. ASSUME Answered(c, how), store'.pending = <<>> PROVE WaitInv'
  BY <1>0, <1>3, LeftWaits DEF Answered
<1>4. CASE CreateAnswer(c, how)
  <2> DEFINE id == IF how = "expired" THEN Fresh(1, UsedIds \cup Ids(After(how).files))[1]
                   ELSE Fresh(2, UsedIds)[IF how = "lost" THEN 2 ELSE 1]
             one == <<Tab(Fresh(2, UsedTabs)[2], {})>>
             f == File(id, c.name, how = "good", one)
             w == Created(After(how), f)
             v == IF c.tabs = <<>> THEN w ELSE LoadFromFile(w, c.tabs)
  <2>1. store' = v /\ Answered(c, how)
    BY <1>4 DEF CreateAnswer, Put
  <2>2. id \in Nat /\ one \in GoodTabs
    BY MadeFacts
  <2> HIDE DEF id, one
  <2>3. f \in GoodFile
    <3>1. (how = "good") \in BOOLEAN
      OBVIOUS
    <3> QED
      BY <2>2, <3>1, CallParts, FileGood
  <2> HIDE DEF f
  <2>4. w \in GoodStore /\ w.pending = <<>>
    BY <1>1, <2>3, CreatedFacts
  <2> HIDE DEF w
  <2>5. v.pending = <<>>
    BY <1>9, <2>4, LoadFromFileFacts DEF Edits
  <2> QED
    BY <1>3, <2>1, <2>5
<1>5. CASE RenameAnswer(c, how)
  <2>1. store' = Renamed(After(how), c.id, c.name) /\ Answered(c, how)
    BY <1>5 DEF RenameAnswer, Put
  <2>2. store'.pending = <<>>
    BY <1>1, <1>9, <2>1, RenamedFacts
  <2> QED
    BY <1>3, <2>1, <2>2
<1>6. CASE DeleteAnswer(c, how)
  <2>1. store' = Deleted(After(how), c.files, c.active, c.id) /\ Answered(c, how)
    BY <1>6 DEF DeleteAnswer, Put
  <2>2. store'.pending = <<>>
    BY <1>1, <1>9, <2>1, DeletedFacts
  <2> QED
    BY <1>3, <2>1, <2>2
<1>7. CASE MigrateAnswer(c, how)
  <2>1. PICK up :
          Uploaded(up) /\ Put(IF how = "good" THEN Migrated(store, up) ELSE After(how), Taken(how))
    BY <1>7, MigrateAnswerFacts, Zenon
  <2>2. store' = (IF how = "good" THEN Migrated(store, up) ELSE After(how))
    BY <2>1 DEF Put
  <2>3. up \in Seq(AccountFile)
    BY <2>1 DEF Uploaded
  <2>4. store'.pending = <<>>
    BY <1>0, <1>1, <2>2, <2>3, StoreParts, MigratedFacts
  <2> QED
    BY <1>3, <1>7, <2>4 DEF MigrateAnswer
<1>8. CASE LoadAnswer(c, how)
  <2>0. timer = None /\ UNCHANGED dialog /\ calls \ {c} = {}
    BY <1>0, <1>8 DEF LoadAnswer, Slight, Renaming, Exporting
  <2>1. CASE how = "good"
    <3> DEFINE d == Call("migrate", None, Untitled, c.files, <<>>)
    <3>0. PICK bare : store' = Loaded(store, c.files, bare) /\ (UNCHANGED timer \/ timer' = None)
      BY <1>8, <2>1 DEF LoadAnswer, Put
    <3>1. /\ store' = Loaded(store, c.files, bare) /\ (UNCHANGED timer \/ timer' = None)
          /\ calls' = IF cloud = <<>> /\ c.files # <<>> THEN {d} ELSE {}
      BY <2>0, <1>8, <2>1, <3>0 DEF LoadAnswer
    <3>2. d.kind = "migrate"
      BY DEF Call
    <3> HIDE DEF d
    <3>3. cloud = <<>> => store'.pending = <<>>
      BY <3>1 DEF Loaded
    <3> QED
      BY <1>0, <2>0, <3>1, <3>2, <3>3 DEF WaitInv, Slight
  <2>2. CASE how # "good"
    <3>1. store' = [After(how) EXCEPT !.loading = FALSE, !.sync = "error"] /\ calls' = {}
      BY <2>0, <1>8, <2>2 DEF LoadAnswer, Put
    <3>2. store'.pending = <<>>
      BY <1>1, <3>1 DEF GoodStore
    <3> QED
      BY <1>0, <2>0, <3>1, <3>2, QuietWaits DEF Quiet
  <2> QED
    BY <2>1, <2>2
<1> QED
  BY <1>2, <1>4, <1>5, <1>6, <1>7, <1>8

LEMMA AnswersWait ==
  ASSUME WorkspaceAssumption, Patient, TypeInv, WaitInv, Answers
  PROVE  WaitInv'
<1>1. PICK c \in calls :
        \/ ExportAnswer(c)
        \/ \E how \in {"good", "failed", "lost", "expired"} :
             \/ CreateAnswer(c, how) \/ RenameAnswer(c, how) \/ DeleteAnswer(c, how)
             \/ LoadAnswer(c, how) \/ MigrateAnswer(c, how)
  BY Zenon DEF Answers
<1>2. CASE ExportAnswer(c)
  BY <1>2, AnswerWaits
<1>3. ASSUME NEW how, \/ CreateAnswer(c, how) \/ RenameAnswer(c, how) \/ DeleteAnswer(c, how)
                      \/ LoadAnswer(c, how) \/ MigrateAnswer(c, how)
      PROVE  WaitInv'
  BY <1>3, AnswerWaits
<1> QED
  BY <1>1, <1>2, <1>3, Zenon

LEMMA WaitInvNext ==
  ASSUME WorkspaceAssumption, Patient, TypeInv, WaitInv, [Next]_wvars
  PROVE  WaitInv'
<1>1. CASE Next
  BY <1>1, OnSheetsWait, OnFilesWait, AnswersWait, DecidedWaits DEF Next
<1>2. CASE UNCHANGED wvars
  BY <1>2 DEF wvars, WaitInv
<1> QED
  BY <1>1, <1>2

-----------------------------------------------------------------------------
(* The guest's files. *)

AllLocal(fs) == \A i \in DOMAIN fs : ~fs[i].cloud

GuestInv ==
  /\ ~auth => AllLocal(store.files) /\ store.pending = <<>>
  /\ \A c \in calls : ~Slight(c) => auth

\* No session has ended under a call that changes files of the account.
FilesUncut == cut \subseteq {"export"}

LEMMA CutGrows ==
  ASSUME Recorded
  PROVE  cut \subseteq cut'
BY DEF Recorded

LEMMA EditsLocal ==
  ASSUME NEW w, NEW v, Edits(w, v), AllLocal(w.files)
  PROVE  AllLocal(v.files)
BY DEF Edits, AllLocal

LEMMA CreatedLocal ==
  ASSUME NEW w \in GoodStore, NEW f \in GoodFile, NEW v, v = Created(w, f), AllLocal(w.files), ~f.cloud
  PROVE  AllLocal(v.files)
BY CreatedFacts DEF AllLocal

LEMMA RenamedLocal ==
  ASSUME NEW w \in GoodStore, NEW id, NEW name \in Nat, NEW v, v = Renamed(w, id, name), AllLocal(w.files)
  PROVE  AllLocal(v.files)
BY RenamedFacts DEF AllLocal

LEMMA WithoutLocal ==
  ASSUME NEW S, NEW s \in Seq(S), NEW id, AllLocal(s)
  PROVE  AllLocal(Without(s, id))
<1>1. PICK f \in [DOMAIN Without(s, id) -> DOMAIN s] :
        \A k \in DOMAIN Without(s, id) : Without(s, id)[k] = s[f[k]] /\ s[f[k]].id # id
  BY WithoutFacts
<1> QED
  BY <1>1 DEF AllLocal

LEMMA ResetLocal ==
  ASSUME WorkspaceAssumption, TypeInv
  PROVE  AllLocal(ResetToGuestState(store).files)
<1>1. PICK f \in [DOMAIN Local(store.files) -> DOMAIN store.files] :
        \A k \in DOMAIN Local(store.files) : Local(store.files)[k] = store.files[f[k]] /\ ~store.files[f[k]].cloud
  BY StoreParts, LocalFacts
<1>2. AllLocal(Local(store.files))
  BY <1>1 DEF AllLocal
<1>3. ~EmptyFile(Untitled).cloud
  BY EmptyFileFacts DEF Untitled
<1>4. AllLocal(<<EmptyFile(Untitled)>>)
  BY <1>3 DEF AllLocal
<1> QED
  BY <1>2, <1>4, ResetFacts

LEMMA CreateFileGuest ==
  ASSUME WorkspaceAssumption, TypeInv, GuestInv, Quiet, NEW name \in Nat, NEW tabs \in GoodTabs \cup {<<>>},
         CreateFile(name, tabs)
  PROVE  GuestInv'
<1> DEFINE n == Chosen(name)
<1>1. n \in Nat
  BY ChosenFacts
<1>2. CASE auth
  <2> DEFINE c == Call("create", None, n, <<>>, tabs)
  <2>1. calls' = calls \cup {c} /\ UNCHANGED auth
    BY <1>2 DEF CreateFile, Calls
  <2> HIDE DEF c
  <2> QED
    BY <1>2, <2>1 DEF GuestInv
<1>3. CASE ~auth
  <2> DEFINE e == EmptyFile(n)
             u == Created(store, e)
             v == IF tabs = <<>> THEN u ELSE LoadFromFile(u, tabs)
  <2>1. store' = v /\ UNCHANGED <<calls, auth>>
    BY <1>3 DEF CreateFile, Put
  <2>2. e \in GoodFile /\ ~e.cloud
    BY <1>1, EmptyFileFacts
  <2> HIDE DEF e
  <2>3. u \in GoodStore /\ u.pending = store.pending /\ AllLocal(u.files)
    BY <1>3, <2>2, StoreParts, CreatedFacts, CreatedLocal DEF GuestInv
  <2> HIDE DEF u
  <2>4. v.pending = store.pending /\ AllLocal(v.files)
    <3>1. CASE tabs = <<>>
      BY <2>3, <3>1
    <3>2. CASE tabs # <<>>
      <4>1. Edits(u, v)
        BY <2>3, <3>2, LoadFromFileFacts
      <4> QED
        BY <2>3, <4>1, EditsLocal DEF Edits
    <3> QED
      BY <3>1, <3>2
  <2> HIDE DEF v
  <2> QED
    BY <1>3, <2>1, <2>4 DEF GuestInv
<1> QED
  BY <1>2, <1>3

LEMMA EditsGuest ==
  ASSUME GuestInv, Edits(store, store'), UNCHANGED auth, calls' \subseteq calls
  PROVE  GuestInv'
BY EditsLocal DEF GuestInv, Edits

LEMMA OnFilesGuest ==
  ASSUME WorkspaceAssumption, Patient, TypeInv, WaitInv, GuestInv, OnFiles, Recorded, FilesUncut'
  PROVE  GuestInv'
<1>1. ASSUME NEW i \in DOMAIN store.files, NEW f, f = store.files[i],
             SwitchFile(f.id) \/ ExportFile(f.id) \/ DuplicateFile(f) \/ RenameFile(f) \/ DeleteFile(f)
      PROVE  GuestInv'
  <2>0. f \in GoodFile /\ f.id \in Nat
    BY <1>1, StoreParts, GoodFileFacts
  <2>1. CASE SwitchFile(f.id)
    <3>1. store' = [store EXCEPT !.active = f.id] /\ UNCHANGED <<calls, auth>>
      BY <2>1 DEF SwitchFile, AtRest, Put
    <3>2. store'.pending = store.pending /\ store'.files = store.files
      BY <3>1, StoreParts DEF GoodStore
    <3> QED
      BY <3>1, <3>2 DEF GuestInv
  <2>2. CASE ExportFile(f.id)
    <3>3. PICK tab : calls' = calls \cup {Call("export", tab, Untitled, <<>>, <<>>)}
      BY <2>2 DEF ExportFile, Calls
    <3>4. Call("export", tab, Untitled, <<>>, <<>>).kind = "export"
      BY DEF Call
    <3>5. PICK c : calls' = calls \cup {c} /\ c.kind = "export"
      BY <3>3, <3>4
    <3>1. store' = [store EXCEPT !.active = f.id] /\ UNCHANGED auth
      BY <2>2 DEF ExportFile, Put
    <3>2. store'.pending = store.pending /\ store'.files = store.files
      BY <3>1, StoreParts DEF GoodStore
    <3> QED
      BY <3>1, <3>2, <3>5 DEF GuestInv, Slight, Exporting
  <2>3. CASE DuplicateFile(f)
    <3> DEFINE tabs == [k \in DOMAIN f.tabs |-> Tab(Fresh(Len(f.tabs), UsedTabs)[k], f.tabs[k].content)]
               name == Chosen(Copy(f.name))
               g == File(NewId, name, FALSE, tabs)
    <3>1. store' = Created(store, g) /\ UNCHANGED <<calls, auth>>
      BY <2>3 DEF DuplicateFile, AtRest, Put
    <3>2. tabs \in GoodTabs
      BY <2>0, CopyFacts
    <3> HIDE DEF tabs
    <3>3. name \in Nat
      <4>1. Copy(f.name) \in Nat
        BY <2>0, GoodFileFacts DEF Copy
      <4> QED
        BY <4>1, ChosenFacts
    <3> HIDE DEF name
    <3>4. g \in GoodFile /\ ~g.cloud
      BY <3>2, <3>3, NewIds, FileGood DEF File
    <3> HIDE DEF g
    <3>5. store'.pending = store.pending /\ (AllLocal(store.files) => AllLocal(store'.files))
      BY <3>1, <3>4, StoreParts, CreatedFacts, CreatedLocal
    <3> QED
      BY <3>1, <3>5 DEF GuestInv
  <2>4. CASE RenameFile(f)
    <3> DEFINE n == Chosen(Picked)
               c == Call("rename", f.id, n, <<>>, <<>>)
    <3>0. n \in Nat
      BY ChosenFacts DEF Picked
    <3>1. CASE auth /\ f.cloud
      <4>1. calls' = calls \cup {c} /\ UNCHANGED auth
        BY <2>4, <3>1 DEF RenameFile, Calls
      <4> HIDE DEF c
      <4> QED
        BY <3>1, <4>1 DEF GuestInv
    <3>2. CASE ~(auth /\ f.cloud)
      <4>1. store' = Renamed(store, f.id, n) /\ UNCHANGED <<calls, auth>>
        BY <2>4, <3>2 DEF RenameFile, Put
      <4> HIDE DEF n
      <4>2. store'.pending = store.pending /\ (AllLocal(store.files) => AllLocal(store'.files))
        BY <3>0, <4>1, StoreParts, RenamedFacts, RenamedLocal
      <4> QED
        BY <4>1, <4>2 DEF GuestInv
    <3> QED
      BY <3>1, <3>2
  <2>5. CASE DeleteFile(f)
    <3> DEFINE c == Call("delete", f.id, f.name, store.files, <<>>)
    <3>1. CASE auth /\ f.cloud
      <4>1. calls' = calls \cup {c} /\ UNCHANGED auth
        BY <2>5, <3>1 DEF DeleteFile, Calls
      <4> HIDE DEF c
      <4> QED
        BY <3>1, <4>1 DEF GuestInv
    <3>2. CASE ~(auth /\ f.cloud)
      <4>1. store' = Deleted(store, store.files, store.active, f.id) /\ UNCHANGED <<calls, auth>>
        BY <2>5, <3>2 DEF DeleteFile, Put
      <4>2. store'.pending = store.pending /\ (store'.files = store.files \/ store'.files = Without(store.files, f.id))
        BY <4>1, StoreParts, DeletedFacts
      <4>3. AllLocal(store.files) => AllLocal(store'.files)
        BY <4>2, StoreParts, WithoutLocal
      <4> QED
        BY <4>1, <4>2, <4>3 DEF GuestInv
    <3> QED
      BY <3>1, <3>2
  <2> QED
    BY <1>1, <2>1, <2>2, <2>3, <2>4, <2>5
<1>2. CASE HandleAddTab
  <2>1. Edits(store, store') /\ UNCHANGED <<calls, auth>>
    BY <1>2, AddTabEdits DEF HandleAddTab, AtRest
  <2> QED
    BY <2>1, EditsGuest
<1>3. CASE KeyAddTab
  <2>1. Edits(store, store') /\ UNCHANGED <<calls, auth>>
    BY <1>3, AddTabEdits DEF KeyAddTab, AtRest
  <2> QED
    BY <2>1, EditsGuest
<1>4. CASE HandleCreateFile
  <2>1. Quiet /\ CreateFile(Len(store.files) + 1, <<>>)
    BY <1>4, UnhurriedQuiet DEF HandleCreateFile
  <2>2. Len(store.files) + 1 \in Nat
    BY StoreParts
  <2> QED
    BY <2>1, <2>2, CreateFileGuest
<1>5. CASE ImportFile
  <2>1. Quiet
    BY <1>5, UnhurriedQuiet DEF ImportFile
  <2>2. strokes' \in 1..MaxStrokes
    BY <1>5, NextStroke DEF ImportFile
  <2>3. PICK tabs \in {<<Tab(NewTab, {strokes'})>>} \cup (IF Reuse /\ IsOpen(store) THEN {TabsOf(store)} ELSE {}) :
          CreateFile(Imported, tabs)
    BY <1>5 DEF ImportFile
  <2>4. <<Tab(NewTab, {strokes'})>> \in GoodTabs
    BY <2>2, NewIds, TabGood, OneTabGood
  <2>5. tabs \in GoodTabs
    BY <2>3, <2>4, TabsOfGood
  <2> QED
    BY <2>1, <2>3, <2>5, CreateFileGuest DEF Imported
<1>6. CASE ImportScene
  <2>1. UNCHANGED <<calls, auth>> /\ store' = SaveTabState(store, ActiveTab(store), {strokes'})
    BY <1>6 DEF ImportScene, LoadNative
  <2>2. strokes' \in 1..MaxStrokes
    BY <1>6, NextStroke DEF ImportScene
  <2>3. Edits(store, store')
    BY <2>1, <2>2, SaveEdits
  <2> QED
    BY <2>1, <2>3, EditsGuest
<1>7. CASE Login
  BY <1>7 DEF Login, GuestInv
<1>8. CASE SessionEnds
  <2>1. auth /\ ~auth' /\ UNCHANGED calls /\ store' = ResetToGuestState(store)
    BY <1>8 DEF SessionEnds, Put
  <2>2. store'.pending = <<>> /\ AllLocal(store'.files)
    BY <2>1, ResetFacts, ResetLocal
  <2>3. \A c \in calls' : c.kind = "rename" \/ c.kind \in cut'
    BY <2>1 DEF Recorded, Interrupted
  <2>4. \A c \in calls' : Slight(c)
    BY <2>3 DEF FilesUncut, Slight, Renaming, Exporting
  <2> QED
    BY <2>2, <2>4 DEF GuestInv
<1>9. CASE Reload
  <2>1. calls' = {} /\ UNCHANGED auth /\ store'.pending = <<>> /\ store'.files = store.files
    BY <1>9, StoreParts DEF Reload, GoodStore
  <2> QED
    BY <2>1 DEF GuestInv
<1> QED
  BY <1>1, <1>2, <1>3, <1>4, <1>5, <1>6, <1>7, <1>8, <1>9 DEF OnFiles

LEMMA AnswerGuest ==
  ASSUME WorkspaceAssumption, TypeInv, WaitInv, GuestInv, Recorded, FilesUncut', NEW c \in calls, NEW how,
         ExportAnswer(c) \/ CreateAnswer(c, how) \/ RenameAnswer(c, how) \/ DeleteAnswer(c, how)
           \/ LoadAnswer(c, how) \/ MigrateAnswer(c, how)
  PROVE  GuestInv'
<1>1. store.pending = <<>> /\ (\A d \in calls \ {c} : Slight(d)) /\ (~Slight(c) => calls \ {c} = {})
  BY AnsweredAlone DEF Slight
<1>2. c.name \in Nat /\ c.files \in Seq(GoodFile) /\ c.tabs \in GoodTabs \cup {<<>>} /\ c.active \in Nat
  BY CallParts
<1>3. After(how) \in GoodStore /\ After(how).pending = <<>>
  BY <1>1, AfterPending, AfterFacts
<1>4. ~Slight(c) => auth
  BY DEF GuestInv
<1>5. how = "expired" => AllLocal(After(how).files)
  BY ResetLocal DEF After
<1>6. ASSUME Answered(c, how), ~auth' => store'.pending = <<>> /\ AllLocal(store'.files)
      PROVE  GuestInv'
  BY <1>1, <1>6 DEF Answered, GuestInv
<1>13. ASSUME Answered(c, how), auth
       PROVE  ~auth' => how = "expired"
  BY <1>13 DEF Answered
<1>7. CASE ExportAnswer(c)
  <2>1. calls' \subseteq calls /\ UNCHANGED auth
    BY <1>7 DEF ExportAnswer
  <2>2. Edits(store, store')
    BY <1>7, ExportEdits
  <2> QED
    BY <2>1, <2>2, EditsGuest
<1>8. CASE CreateAnswer(c, how)
  <2> DEFINE id == IF how = "expired" THEN Fresh(1, UsedIds \cup Ids(After(how).files))[1]
                   ELSE Fresh(2, UsedIds)[IF how = "lost" THEN 2 ELSE 1]
             one == <<Tab(Fresh(2, UsedTabs)[2], {})>>
             f == File(id, c.name, how = "good", one)
             w == Created(After(how), f)
             v == IF c.tabs = <<>> THEN w ELSE LoadFromFile(w, c.tabs)
  <2>1. store' = v /\ Answered(c, how) /\ auth
    BY <1>4, <1>8 DEF CreateAnswer, Put, Slight, Renaming, Exporting
  <2>2. id \in Nat /\ one \in GoodTabs
    BY MadeFacts
  <2> HIDE DEF id, one
  <2>3. f \in GoodFile /\ (how = "expired" => ~f.cloud)
    <3>1. (how = "good") \in BOOLEAN
      OBVIOUS
    <3> QED
      BY <1>2, <2>2, <3>1, FileGood DEF File
  <2> HIDE DEF f
  <2>4. w \in GoodStore /\ w.pending = <<>> /\ (how = "expired" => AllLocal(w.files))
    BY <1>3, <1>5, <2>3, CreatedFacts, CreatedLocal
  <2> HIDE DEF w
  <2>5. v.pending = <<>> /\ (how = "expired" => AllLocal(v.files))
    <3>1. CASE c.tabs = <<>>
      BY <2>4, <3>1
    <3>2. CASE c.tabs # <<>>
      <4>1. Edits(w, v)
        BY <1>2, <2>4, <3>2, LoadFromFileFacts
      <4> QED
        BY <2>4, <4>1, EditsLocal DEF Edits
    <3> QED
      BY <3>1, <3>2
  <2> QED
    BY <1>6, <1>13, <2>1, <2>5
<1>9. CASE RenameAnswer(c, how)
  <2>1. store' = Renamed(After(how), c.id, c.name) /\ Answered(c, how)
    BY <1>9 DEF RenameAnswer, Put
  <2>2. ~auth' => AllLocal(After(how).files)
    BY <1>5, <2>1 DEF Answered, After, GuestInv
  <2>3. store'.pending = <<>> /\ (~auth' => AllLocal(store'.files))
    BY <1>2, <1>3, <2>1, <2>2, RenamedFacts, RenamedLocal
  <2> QED
    BY <1>6, <2>1, <2>3
<1>10. CASE DeleteAnswer(c, how)
  <2>1. c.kind = "delete" /\ Answered(c, how) /\ auth
    BY <1>4, <1>10 DEF DeleteAnswer, Slight, Renaming, Exporting
  <2>2. ~auth' => "delete" \in cut'
    BY <2>1 DEF Recorded, Interrupted
  <2>3. auth'
    BY <2>2 DEF FilesUncut
  <2> QED
    BY <1>6, <2>1, <2>3
<1>11. CASE MigrateAnswer(c, how)
  <2>1. PICK up : Put(IF how = "good" THEN Migrated(store, up) ELSE After(how), Taken(how))
    BY <1>11, MigrateAnswerFacts, Zenon
  <2>2. how = "expired" => store' = After(how)
    BY <2>1 DEF Put
  <2>3. Answered(c, how) /\ auth
    BY <1>4, <1>11 DEF MigrateAnswer, Slight, Renaming, Exporting
  <2> QED
    BY <1>3, <1>5, <1>6, <1>13, <2>2, <2>3
<1>12. CASE LoadAnswer(c, how)
  <2>0. auth /\ auth' = (how # "expired") /\ calls \ {c} = {}
    BY <1>1, <1>4, <1>12 DEF LoadAnswer, Slight, Renaming, Exporting
  <2>1. CASE how = "good"
    BY <2>0, <2>1 DEF GuestInv
  <2>2. CASE how # "good"
    <3>1. store' = [After(how) EXCEPT !.loading = FALSE, !.sync = "error"] /\ calls' = {}
      BY <2>0, <1>12, <2>2 DEF LoadAnswer, Put
    <3>2. store'.pending = <<>> /\ store'.files = After(how).files
      BY <1>3, <3>1 DEF GoodStore
    <3> QED
      BY <1>5, <2>0, <3>1, <3>2 DEF GuestInv
  <2> QED
    BY <2>1, <2>2
<1> QED
  BY <1>7, <1>8, <1>9, <1>10, <1>11, <1>12

LEMMA GuestInvNext ==
  ASSUME WorkspaceAssumption, Patient, TypeInv, WaitInv, FilesUncut => GuestInv, [Next]_wvars
  PROVE  (FilesUncut => GuestInv)'
<1>5. CASE UNCHANGED wvars
  BY <1>5 DEF wvars, GuestInv, FilesUncut
<1> SUFFICES ASSUME Next, FilesUncut' PROVE GuestInv'
  BY <1>5
<1>6. Recorded
  BY DEF Next
<1>7. GuestInv
  BY <1>6, CutGrows DEF FilesUncut
<1>1. CASE OnSheets
  BY <1>1, <1>7, OnSheetsEdits, EditsGuest
<1>2. CASE OnFiles
  BY <1>2, <1>6, <1>7, OnFilesGuest
<1>3. CASE Answers
  <2>1. PICK c \in calls :
          \/ ExportAnswer(c)
          \/ \E how \in {"good", "failed", "lost", "expired"} :
               \/ CreateAnswer(c, how) \/ RenameAnswer(c, how) \/ DeleteAnswer(c, how)
               \/ LoadAnswer(c, how) \/ MigrateAnswer(c, how)
    BY <1>3, Zenon DEF Answers
  <2>2. CASE ExportAnswer(c)
    BY <1>6, <1>7, <2>2, AnswerGuest
  <2>3. ASSUME NEW how, \/ CreateAnswer(c, how) \/ RenameAnswer(c, how) \/ DeleteAnswer(c, how)
                        \/ LoadAnswer(c, how) \/ MigrateAnswer(c, how)
        PROVE  GuestInv'
    BY <1>6, <1>7, <2>3, AnswerGuest
  <2> QED
    BY <2>1, <2>2, <2>3, Zenon
<1>4. CASE MigrationDecided
  <2>1. auth /\ UNCHANGED auth
    BY <1>4, <1>7 DEF MigrationDecided, AsksAboutFiles, GuestInv
  <2> QED
    BY <2>1 DEF GuestInv
<1> QED
  BY <1>1, <1>2, <1>3, <1>4 DEF Next

\* A guest's store has no file of an account, however the session ended: at rest,
\* under the question about a guest's files or about a sheet, with a save pending,
\* under a renaming or an export, or at the refusal of a renaming, of a new file, of
\* the files of a sign-in or of an upload.
THEOREM WorkspaceGuests ==
  ASSUME WorkspaceAssumption, Patient
  PROVE  Spec => []GuestOwnsFiles
<1> DEFINE Inv == TypeInv /\ WaitInv /\ (FilesUncut => GuestInv)
<1>1. Init => Inv
  <2> SUFFICES ASSUME Init PROVE Inv
    OBVIOUS
  <2>1. calls = {} /\ dialog = None /\ store.pending = <<>>
    BY DEF Init
  <2>2. AllLocal(store.files)
    BY DEF Init, AllLocal, File
  <2> QED
    BY <2>1, <2>2, TypeInvInit DEF WaitInv, GuestInv
<1>2. Inv /\ [Next]_wvars => Inv'
  BY TypeInvNext, WaitInvNext, GuestInvNext
<1>3. Inv => GuestOwnsFiles
  BY DEF GuestInv, GuestOwnsFiles, AllLocal, FilesUncut
<1> QED
  BY <1>1, <1>2, <1>3, PTL DEF Spec

-----------------------------------------------------------------------------
(* Files and sheets that can be told apart. *)

IdsApart(fs) == \A i, j \in DOMAIN fs : fs[i].id = fs[j].id => i = j
SheetsApart(fs) ==
  \A i, j \in DOMAIN fs : \A k \in DOMAIN fs[i].tabs, l \in DOMAIN fs[j].tabs :
    fs[i].tabs[k].id = fs[j].tabs[l].id => i = j /\ k = l
HasSheet(f) == \E k \in DOMAIN f.tabs : f.tab = f.tabs[k].id
NamesApart(fs) == \A i, j \in DOMAIN fs : ~fs[i].cloud /\ ~fs[j].cloud /\ fs[i].name = fs[j].name => i = j
Apart(fs) ==
  /\ fs \in Seq(GoodFile)
  /\ IdsApart(fs)
  /\ SheetsApart(fs)
  /\ \A i \in DOMAIN fs : HasSheet(fs[i])
  /\ NamesApart(fs)

\* The account's file of an id is not a file of the guest.
NotIn(fs, cl) == \A i \in DOMAIN fs, k \in DOMAIN cl : ~fs[i].cloud => fs[i].id # cl[k].id

LEMMA SheetsDiffer ==
  ASSUME NEW fs \in Seq(GoodFile),
         \A i, j \in DOMAIN fs : \A k \in DOMAIN fs[i].tabs, l \in DOMAIN fs[j].tabs :
           fs[i].tabs[k].id = fs[j].tabs[l].id => i = j
  PROVE  SheetsApart(fs)
<1>1. \A i \in DOMAIN fs : \A k, l \in DOMAIN fs[i].tabs : fs[i].tabs[k].id = fs[i].tabs[l].id => k = l
  <2> TAKE i \in DOMAIN fs
  <2>1. fs[i] \in GoodFile
    OBVIOUS
  <2>2. fs[i].tabs \in GoodTabs
    BY <2>1, GoodFileFacts
  <2> QED
    BY <2>2, GoodTabsFacts
<1> QED
  BY <1>1 DEF SheetsApart

\* Some of the files.
LEMMA ApartPart ==
  ASSUME NEW fs, Apart(fs), NEW gs \in Seq(GoodFile), NEW m \in [DOMAIN gs -> DOMAIN fs],
         \A i \in DOMAIN gs : gs[i] = fs[m[i]],
         \A i, j \in DOMAIN gs : m[i] = m[j] => i = j
  PROVE  Apart(gs)
<1>1. IdsApart(gs)
  BY DEF Apart, IdsApart
<1>2. SheetsApart(gs)
  <2>1. \A i, j \in DOMAIN gs : \A k \in DOMAIN gs[i].tabs, l \in DOMAIN gs[j].tabs :
          gs[i].tabs[k].id = gs[j].tabs[l].id => i = j
    BY DEF Apart, SheetsApart
  <2> QED
    BY <2>1, SheetsDiffer
<1>3. \A i \in DOMAIN gs : HasSheet(gs[i])
  BY DEF Apart
<1>4. NamesApart(gs)
  BY DEF Apart, NamesApart
<1> QED
  BY <1>1, <1>2, <1>3, <1>4 DEF Apart

LEMMA WithoutApart ==
  ASSUME NEW fs, Apart(fs), NEW id
  PROVE  /\ Apart(Without(fs, id))
         /\ \A i \in DOMAIN Without(fs, id) : \E j \in DOMAIN fs : Without(fs, id)[i] = fs[j]
<1>1. fs \in Seq(GoodFile)
  BY DEF Apart
<1>2. PICK m \in [DOMAIN Without(fs, id) -> DOMAIN fs] :
        /\ \A k \in DOMAIN Without(fs, id) : Without(fs, id)[k] = fs[m[k]]
        /\ \A k, l \in DOMAIN Without(fs, id) : m[k] = m[l] => k = l
  BY <1>1, WithoutFacts, SMTT(30)
<1>3. Without(fs, id) \in Seq(GoodFile)
  BY <1>1, WithoutFacts
<1> DEFINE gs == Without(fs, id)
<1>4. gs \in Seq(GoodFile) /\ m \in [DOMAIN gs -> DOMAIN fs] /\ (\A i \in DOMAIN gs : gs[i] = fs[m[i]])
      /\ \A k, l \in DOMAIN gs : m[k] = m[l] => k = l
  BY <1>2, <1>3
<1> HIDE DEF gs
<1>5. Apart(gs)
  BY <1>4, ApartPart
<1> QED
  BY <1>4, <1>5 DEF gs

LEMMA LocalApart ==
  ASSUME NEW fs, Apart(fs)
  PROVE  /\ Apart(Local(fs)) /\ AllLocal(Local(fs))
         /\ \A i \in DOMAIN Local(fs) : \E j \in DOMAIN fs : Local(fs)[i] = fs[j]
<1>1. fs \in Seq(GoodFile)
  BY DEF Apart
<1>2. PICK m \in [DOMAIN Local(fs) -> DOMAIN fs] :
        /\ \A k \in DOMAIN Local(fs) : Local(fs)[k] = fs[m[k]] /\ ~fs[m[k]].cloud
        /\ \A k, l \in DOMAIN Local(fs) : m[k] = m[l] => k = l
  BY <1>1, LocalFacts
<1>3. Local(fs) \in Seq(GoodFile)
  BY <1>1, LocalFacts
<1> DEFINE gs == Local(fs)
<1>4. gs \in Seq(GoodFile) /\ m \in [DOMAIN gs -> DOMAIN fs] /\ (\A i \in DOMAIN gs : gs[i] = fs[m[i]] /\ ~gs[i].cloud)
      /\ \A k, l \in DOMAIN gs : m[k] = m[l] => k = l
  BY <1>2, <1>3
<1> HIDE DEF gs
<1>5. Apart(gs)
  BY <1>4, ApartPart
<1> QED
  BY <1>4, <1>5 DEF gs, AllLocal

LEMMA FrontApart ==
  ASSUME NEW fs \in Seq(GoodFile), NEW ps \in Seq(GoodFile), Apart(fs \o ps)
  PROVE  Apart(fs) /\ Apart(ps)
<1> DEFINE all == fs \o ps
           n == Len(fs)
           m == [i \in DOMAIN fs |-> i]
           q == [i \in DOMAIN ps |-> n + i]
<1>1. /\ all \in Seq(GoodFile) /\ DOMAIN all = 1..(n + Len(ps)) /\ n \in Nat /\ Len(ps) \in Nat
      /\ DOMAIN fs = 1..n /\ DOMAIN ps = 1..Len(ps)
      /\ \A i \in DOMAIN fs : all[i] = fs[i]
      /\ \A i \in DOMAIN ps : all[n + i] = ps[i]
  OBVIOUS
<1>2. Apart(all)
  OBVIOUS
<1> HIDE DEF all, n
<1>3. /\ m \in [DOMAIN fs -> DOMAIN all] /\ (\A i \in DOMAIN fs : fs[i] = all[m[i]])
      /\ \A k, l \in DOMAIN fs : m[k] = m[l] => k = l
  BY <1>1
<1>4. /\ q \in [DOMAIN ps -> DOMAIN all] /\ (\A i \in DOMAIN ps : ps[i] = all[q[i]])
      /\ \A k, l \in DOMAIN ps : q[k] = q[l] => k = l
  BY <1>1
<1> HIDE DEF m, q
<1> QED
  BY <1>2, <1>3, <1>4, ApartPart

\* A new file.
LEMMA ApartAppend ==
  ASSUME NEW fs, Apart(fs), NEW f \in GoodFile, HasSheet(f),
         \A i \in DOMAIN fs : /\ fs[i].id # f.id
                              /\ ~fs[i].cloud /\ ~f.cloud => fs[i].name # f.name
                              /\ \A k \in DOMAIN fs[i].tabs, l \in DOMAIN f.tabs : fs[i].tabs[k].id # f.tabs[l].id
  PROVE  Apart(Append(fs, f))
<1> DEFINE gs == Append(fs, f)
           n == Len(fs)
<1>0. fs \in Seq(GoodFile)
  BY DEF Apart
<1>1. /\ gs \in Seq(GoodFile) /\ n \in Nat
      /\ \A i \in DOMAIN gs : (i \in DOMAIN fs /\ gs[i] = fs[i]) \/ (i = n + 1 /\ gs[i] = f)
  BY <1>0
<1> HIDE DEF gs, n
<1>2. IdsApart(gs)
  BY <1>1 DEF Apart, IdsApart
<1>3. SheetsApart(gs)
  <2>1. \A i, j \in DOMAIN gs : \A k \in DOMAIN gs[i].tabs, l \in DOMAIN gs[j].tabs :
          gs[i].tabs[k].id = gs[j].tabs[l].id => i = j
    BY <1>1 DEF Apart, SheetsApart
  <2> QED
    BY <1>1, <2>1, SheetsDiffer
<1>4. \A i \in DOMAIN gs : HasSheet(gs[i])
  BY <1>1 DEF Apart
<1>5. NamesApart(gs)
  BY <1>1 DEF Apart, NamesApart
<1>6. Apart(gs)
  BY <1>1, <1>2, <1>3, <1>4, <1>5 DEF Apart
<1> QED
  BY <1>6 DEF gs

\* One file alone.
LEMMA ApartOne ==
  ASSUME NEW f \in GoodFile, HasSheet(f)
  PROVE  Apart(<<f>>)
<1> DEFINE gs == <<f>>
<1>1. gs \in Seq(GoodFile) /\ DOMAIN gs = {1} /\ gs[1] = f
  OBVIOUS
<1> HIDE DEF gs
<1>2. SheetsApart(gs)
  <2>1. \A i, j \in DOMAIN gs : \A k \in DOMAIN gs[i].tabs, l \in DOMAIN gs[j].tabs :
          gs[i].tabs[k].id = gs[j].tabs[l].id => i = j
    BY <1>1
  <2> QED
    BY <1>1, <2>1, SheetsDiffer
<1>3. Apart(gs)
  BY <1>1, <1>2 DEF Apart, IdsApart, NamesApart
<1> QED
  BY <1>3 DEF gs

\* The open file's sheets change: those it had, and ones of N.
Sheeted(w, v, N) ==
  /\ Edits(w, v)
  /\ \A i \in DOMAIN w.files :
       /\ HasSheet(w.files[i]) => HasSheet(v.files[i])
       /\ \A k \in DOMAIN v.files[i].tabs :
            \/ \E l \in DOMAIN w.files[i].tabs : v.files[i].tabs[k].id = w.files[i].tabs[l].id
            \/ w.files[i].id = w.active /\ v.files[i].tabs[k].id \in N

LEMMA SheetedTwice ==
  ASSUME NEW u, NEW v, NEW w, NEW N, Sheeted(u, v, {}), Sheeted(v, w, N)
  PROVE  Sheeted(u, w, N)
<1>1. Edits(u, w)
  BY EditsTwice DEF Sheeted
<1>2. DOMAIN u.files = DOMAIN v.files /\ v.active = u.active /\ \A i \in DOMAIN u.files : v.files[i].id = u.files[i].id
  BY DEF Sheeted, Edits
<1>3. ASSUME NEW i \in DOMAIN u.files
      PROVE  /\ HasSheet(u.files[i]) => HasSheet(w.files[i])
             /\ \A k \in DOMAIN w.files[i].tabs :
                  \/ \E l \in DOMAIN u.files[i].tabs : w.files[i].tabs[k].id = u.files[i].tabs[l].id
                  \/ u.files[i].id = u.active /\ w.files[i].tabs[k].id \in N
  <2>1. HasSheet(u.files[i]) => HasSheet(w.files[i])
    BY <1>2, <1>3 DEF Sheeted
  <2>2. ASSUME NEW k \in DOMAIN w.files[i].tabs
        PROVE  \/ \E l \in DOMAIN u.files[i].tabs : w.files[i].tabs[k].id = u.files[i].tabs[l].id
               \/ u.files[i].id = u.active /\ w.files[i].tabs[k].id \in N
    <3>1. CASE \E l \in DOMAIN v.files[i].tabs : w.files[i].tabs[k].id = v.files[i].tabs[l].id
      <4>1. PICK l \in DOMAIN v.files[i].tabs : w.files[i].tabs[k].id = v.files[i].tabs[l].id
        BY <3>1
      <4>2. \E p \in DOMAIN u.files[i].tabs : v.files[i].tabs[l].id = u.files[i].tabs[p].id
        BY <1>3 DEF Sheeted
      <4> QED
        BY <4>1, <4>2
    <3>2. CASE v.files[i].id = v.active /\ w.files[i].tabs[k].id \in N
      BY <1>2, <1>3, <3>2
    <3> QED
      BY <1>2, <1>3, <2>2, <3>1, <3>2 DEF Sheeted
  <2> QED
    BY <2>1, <2>2
<1> QED
  BY <1>1, <1>3 DEF Sheeted

LEMMA SheetedApart ==
  ASSUME NEW w \in GoodStore, NEW v, NEW N, Apart(w.files), Sheeted(w, v, N),
         \A i \in DOMAIN w.files : w.files[i].id # w.active => \A k \in DOMAIN w.files[i].tabs : w.files[i].tabs[k].id \notin N
  PROVE  Apart(v.files)
<1>1. /\ v.files \in Seq(GoodFile) /\ DOMAIN v.files = DOMAIN w.files
      /\ \A i \in DOMAIN w.files : /\ v.files[i].id = w.files[i].id /\ v.files[i].name = w.files[i].name
                                   /\ v.files[i].cloud = w.files[i].cloud
  BY GoodStoreFacts DEF Sheeted, Edits
<1>2. IdsApart(v.files) /\ NamesApart(v.files)
  BY <1>1 DEF Apart, IdsApart, NamesApart
<1>3. \A i \in DOMAIN v.files : HasSheet(v.files[i])
  BY <1>1 DEF Apart, Sheeted
<1>4. SheetsApart(v.files)
  <2>1. ASSUME NEW i \in DOMAIN v.files, NEW j \in DOMAIN v.files,
               NEW k \in DOMAIN v.files[i].tabs, NEW l \in DOMAIN v.files[j].tabs,
               v.files[i].tabs[k].id = v.files[j].tabs[l].id, i # j
        PROVE  FALSE
    <3>0. i \in DOMAIN w.files /\ j \in DOMAIN w.files
      BY <1>1
    <3>1. \/ \E p \in DOMAIN w.files[i].tabs : v.files[i].tabs[k].id = w.files[i].tabs[p].id
          \/ w.files[i].id = w.active /\ v.files[i].tabs[k].id \in N
      BY <3>0 DEF Sheeted
    <3>2. \/ \E p \in DOMAIN w.files[j].tabs : v.files[j].tabs[l].id = w.files[j].tabs[p].id
          \/ w.files[j].id = w.active /\ v.files[j].tabs[l].id \in N
      BY <3>0 DEF Sheeted
    <3>3. ~(w.files[i].id = w.active /\ w.files[j].id = w.active)
      BY <2>1, <3>0 DEF Apart, IdsApart
    <3>4. \A p \in DOMAIN w.files[i].tabs, q \in DOMAIN w.files[j].tabs : w.files[i].tabs[p].id # w.files[j].tabs[q].id
      BY <2>1, <3>0 DEF Apart, SheetsApart
    <3> QED
      BY <2>1, <3>0, <3>1, <3>2, <3>3, <3>4
  <2> QED
    BY <1>1, <2>1, SheetsDiffer
<1> QED
  BY <1>1, <1>2, <1>3, <1>4 DEF Apart

LEMMA SheetedSame ==
  ASSUME NEW w \in GoodStore, NEW N
  PROVE  Sheeted(w, w, N)
BY EditsSame DEF Sheeted

LEMMA SaveSheeted ==
  ASSUME NEW w \in GoodStore, NEW id, NEW content \in SUBSET (1..MaxStrokes), NEW v, v = SaveTabState(w, id, content)
  PROVE  Sheeted(w, v, {})
<1>1. /\ Edits(w, v)
      /\ \A i \in DOMAIN w.files :
           w.files[i].id = w.active =>
             /\ v.files[i].tab = w.files[i].tab
             /\ DOMAIN v.files[i].tabs = DOMAIN w.files[i].tabs
             /\ Len(v.files[i].tabs) = Len(w.files[i].tabs)
             /\ \A k \in DOMAIN w.files[i].tabs :
                  v.files[i].tabs[k] = IF w.files[i].tabs[k].id = id THEN Tab(id, content) ELSE w.files[i].tabs[k]
  BY SaveTabStateFacts
<1>2. Tab(id, content).id = id
  BY DEF Tab
<1>3. ASSUME NEW i \in DOMAIN w.files, w.files[i].id = w.active
      PROVE  /\ v.files[i].tab = w.files[i].tab
             /\ DOMAIN v.files[i].tabs = DOMAIN w.files[i].tabs
             /\ \A k \in DOMAIN w.files[i].tabs : v.files[i].tabs[k].id = w.files[i].tabs[k].id
  BY <1>1, <1>2, <1>3
<1>4. \A i \in DOMAIN w.files : w.files[i].id # w.active => v.files[i] = w.files[i]
  BY <1>1 DEF Edits
<1> QED
  BY <1>1, <1>3, <1>4 DEF Sheeted, HasSheet

LEMMA ChosenSheet ==
  ASSUME NEW w \in GoodStore, NEW id \in Nat, NEW v, v = SetActiveTab(w, id),
         \A i \in DOMAIN w.files : w.files[i].id = w.active => \E k \in DOMAIN w.files[i].tabs : w.files[i].tabs[k].id = id
  PROVE  Sheeted(w, v, {})
<1>1. /\ Edits(w, v)
      /\ \A i \in DOMAIN w.files : w.files[i].id = w.active => v.files[i].tab = id /\ v.files[i].tabs = w.files[i].tabs
  BY SetActiveTabFacts
<1>2. \A i \in DOMAIN w.files : w.files[i].id # w.active => v.files[i] = w.files[i]
  BY <1>1 DEF Edits
<1>3. ASSUME NEW i \in DOMAIN w.files
      PROVE  v.files[i].tabs = w.files[i].tabs /\ (HasSheet(w.files[i]) => HasSheet(v.files[i]))
  <2>1. CASE w.files[i].id = w.active
    BY <1>1, <2>1 DEF HasSheet
  <2>2. CASE w.files[i].id # w.active
    BY <1>2, <2>2
  <2> QED
    BY <2>1, <2>2
<1> QED
  BY <1>1, <1>3 DEF Sheeted

LEMMA AddedSheet ==
  ASSUME WorkspaceAssumption, NEW w \in GoodStore, NEW id \in Nat, NEW v, v = AddTab(w, id),
         \A i \in DOMAIN w.files :
           w.files[i].id = w.active =>
             /\ Len(w.files[i].tabs) < MaxTabs
             /\ \A k \in DOMAIN w.files[i].tabs : w.files[i].tabs[k].id # id
  PROVE  Sheeted(w, v, {id})
<1>1. /\ Edits(w, v)
      /\ \A i \in DOMAIN w.files :
           w.files[i].id = w.active => v.files[i].tab = id /\ v.files[i].tabs = Append(w.files[i].tabs, Tab(id, {}))
  BY AddTabFacts, SMTT(30)
<1>2. \A i \in DOMAIN w.files : w.files[i].id # w.active => v.files[i] = w.files[i]
  BY <1>1 DEF Edits
<1>3. ASSUME NEW i \in DOMAIN w.files, w.files[i].id = w.active
      PROVE  /\ HasSheet(v.files[i])
             /\ \A k \in DOMAIN v.files[i].tabs :
                  \/ \E l \in DOMAIN w.files[i].tabs : v.files[i].tabs[k].id = w.files[i].tabs[l].id
                  \/ v.files[i].tabs[k].id \in {id}
  <2> DEFINE t == w.files[i].tabs
             u == v.files[i].tabs
  <2>1. t \in Seq(TabType)
    <3>1. w.files[i] \in GoodFile
      BY GoodStoreFacts
    <3> QED
      BY <3>1, GoodFileFacts, GoodTabsFacts
  <2>2. u = Append(t, Tab(id, {})) /\ v.files[i].tab = id
    BY <1>1, <1>3
  <2>3. Tab(id, {}).id = id
    BY DEF Tab
  <2> HIDE DEF t, u
  <2>4. /\ DOMAIN u = 1..(Len(t) + 1) /\ DOMAIN t = 1..Len(t) /\ Len(t) \in Nat
        /\ (\A k \in DOMAIN t : u[k] = t[k]) /\ u[Len(t) + 1] = Tab(id, {})
    BY <2>1, <2>2
  <2>5. \E k \in DOMAIN u : id = u[k].id
    BY <2>3, <2>4
  <2>6. \A k \in DOMAIN u : (\E l \in DOMAIN t : u[k].id = t[l].id) \/ u[k].id \in {id}
    BY <2>3, <2>4
  <2> QED
    BY <2>2, <2>5, <2>6 DEF t, u, HasSheet
<1> QED
  BY <1>1, <1>2, <1>3 DEF Sheeted

LEMMA RemovedSheet ==
  ASSUME WorkspaceAssumption, NEW w \in GoodStore, NEW id, NEW v, v = RemoveTab(w, id)
  PROVE  Sheeted(w, v, {})
<1>1. /\ Edits(w, v)
      /\ \A i \in DOMAIN w.files :
           w.files[i].id = w.active =>
             \/ Len(w.files[i].tabs) <= 1 /\ v.files[i] = w.files[i]
             \/ /\ Len(w.files[i].tabs) > 1
                /\ v.files[i].tabs = Without(w.files[i].tabs, id)
                /\ v.files[i].tab = IF w.files[i].tab = id THEN Last(v.files[i].tabs).id ELSE w.files[i].tab
  BY RemoveTabFacts
<1>2. \A i \in DOMAIN w.files : w.files[i].id # w.active => v.files[i] = w.files[i]
  BY <1>1 DEF Edits
<1>3. ASSUME NEW i \in DOMAIN w.files, v.files[i] # w.files[i]
      PROVE  /\ HasSheet(w.files[i]) => HasSheet(v.files[i])
             /\ \A k \in DOMAIN v.files[i].tabs : \E l \in DOMAIN w.files[i].tabs : v.files[i].tabs[k].id = w.files[i].tabs[l].id
  <2> DEFINE t == w.files[i].tabs
             u == v.files[i].tabs
  <2>1. t \in Seq(TabType) /\ u \in Seq(TabType) /\ u # <<>>
    <3>1. w.files[i] \in GoodFile /\ v.files[i] \in GoodFile
      BY <1>1, GoodStoreFacts DEF Edits
    <3> QED
      BY <3>1, GoodFileFacts, GoodTabsFacts
  <2>2. u = Without(t, id) /\ v.files[i].tab = IF w.files[i].tab = id THEN Last(u).id ELSE w.files[i].tab
    BY <1>1, <1>2, <1>3
  <2> HIDE DEF t, u
  <2>3. PICK f \in [DOMAIN u -> DOMAIN t] :
          /\ \A k \in DOMAIN u : u[k] = t[f[k]]
          /\ \A p \in DOMAIN t : t[p].id # id => \E k \in DOMAIN u : f[k] = p
    <3>1. \E f \in [DOMAIN Without(t, id) -> DOMAIN t] :
            /\ \A k \in DOMAIN Without(t, id) : Without(t, id)[k] = t[f[k]] /\ t[f[k]].id # id
            /\ \A k, l \in DOMAIN Without(t, id) : f[k] = f[l] => k = l
            /\ \A p \in DOMAIN t : t[p].id # id => \E k \in DOMAIN Without(t, id) : f[k] = p
      BY <2>1, WithoutFacts
    <3> QED
      BY <2>2, <3>1
  <2>4. \A k \in DOMAIN u : \E l \in DOMAIN t : u[k].id = t[l].id
    BY <2>3
  <2>5. Len(u) \in DOMAIN u /\ Last(u) = u[Len(u)]
    BY <2>1 DEF Last
  <2>6. (\E k \in DOMAIN t : w.files[i].tab = t[k].id) => \E k \in DOMAIN u : v.files[i].tab = u[k].id
    <3>1. CASE w.files[i].tab = id
      BY <2>2, <2>5, <3>1
    <3>2. CASE w.files[i].tab # id
      BY <2>2, <2>3, <3>2
    <3> QED
      BY <3>1, <3>2
  <2> QED
    BY <2>4, <2>6 DEF t, u, HasSheet
<1>4. ASSUME NEW i \in DOMAIN w.files, v.files[i] = w.files[i]
      PROVE  /\ HasSheet(w.files[i]) => HasSheet(v.files[i])
             /\ \A k \in DOMAIN v.files[i].tabs : \E l \in DOMAIN w.files[i].tabs : v.files[i].tabs[k].id = w.files[i].tabs[l].id
  BY <1>4
<1> QED
  BY <1>1, <1>3, <1>4 DEF Sheeted

\* What is loaded into a file: sheets with ids of its own, or of no other file.
LEMMA LoadedSheets ==
  ASSUME NEW w \in GoodStore, NEW tabs \in GoodTabs, NEW v, v = LoadFromFile(w, tabs)
  PROVE  Sheeted(w, v, {tabs[k].id : k \in DOMAIN tabs})
<1>1. /\ Edits(w, v)
      /\ \A i \in DOMAIN w.files : w.files[i].id = w.active => v.files[i].tab = tabs[1].id /\ v.files[i].tabs = tabs
  BY LoadFromFileFacts
<1>2. \A i \in DOMAIN w.files : w.files[i].id # w.active => v.files[i] = w.files[i]
  BY <1>1 DEF Edits
<1>3. 1 \in DOMAIN tabs
  BY GoodTabsFacts
<1> QED
  BY <1>1, <1>2, <1>3 DEF Sheeted, HasSheet

-----------------------------------------------------------------------------
(* The handlers about sheets. *)

LEMMA OpenUnique ==
  ASSUME NEW w \in GoodStore, IdsApart(w.files), NEW i \in DOMAIN w.files, w.files[i].id = w.active
  PROVE  /\ IsOpen(w) /\ ActiveFile(w) = w.files[i] /\ TabsOf(w) = w.files[i].tabs /\ ActiveTab(w) = w.files[i].tab
<1>1. IsOpen(w)
  BY OpenFacts
<1>2. PICK j \in DOMAIN w.files : w.files[j].id = w.active /\ ActiveFile(w) = w.files[j]
  BY <1>1, OpenFacts
<1>3. j = i
  BY <1>2 DEF IdsApart
<1> QED
  BY <1>1, <1>2, <1>3 DEF TabsOf, ActiveTab

LEMMA TabClickSheeted ==
  ASSUME TypeInv, Apart(store.files), NEW id \in Sheets, store' = SetActiveTab(SaveTabState(store, ActiveTab(store), scene), id)
  PROVE  Sheeted(store, store', {})
<1> DEFINE u == SaveTabState(store, ActiveTab(store), scene)
           w == SetActiveTab(u, id)
<1>1. store \in GoodStore /\ scene \in SUBSET (1..MaxStrokes) /\ id \in Nat
  BY StoreParts, SheetsAreNumbers
<1>2. Sheeted(store, u, {})
  BY <1>1, SaveSheeted
<1>3. /\ Edits(store, u)
      /\ \A i \in DOMAIN store.files :
           store.files[i].id = store.active =>
             /\ DOMAIN u.files[i].tabs = DOMAIN store.files[i].tabs
             /\ \A k \in DOMAIN store.files[i].tabs :
                  u.files[i].tabs[k] = IF store.files[i].tabs[k].id = ActiveTab(store) THEN Tab(ActiveTab(store), scene)
                                       ELSE store.files[i].tabs[k]
  BY <1>1, SaveTabStateFacts
<1> HIDE DEF u
<1>4. \A i \in DOMAIN store.files : store.files[i].id = store.active =>
        \E k \in DOMAIN store.files[i].tabs : store.files[i].tabs[k].id = id
  BY <1>1, OpenUnique DEF Sheets, Apart
<1>5. u \in GoodStore /\ \A i \in DOMAIN u.files : u.files[i].id = u.active =>
        \E k \in DOMAIN u.files[i].tabs : u.files[i].tabs[k].id = id
  BY <1>3, <1>4 DEF Edits, Tab
<1>6. Sheeted(u, w, {})
  BY <1>1, <1>5, ChosenSheet
<1>7. store' = w
  BY DEF u
<1> HIDE DEF w
<1> QED
  BY <1>2, <1>6, <1>7, SheetedTwice

LEMMA AddTabSheeted ==
  ASSUME WorkspaceAssumption, TypeInv, HandleAddTab \/ KeyAddTab
  PROVE  Sheeted(store, store', {NewTab})
<1>0. \A i \in DOMAIN store.files : store.files[i].id = store.active => Len(store.files[i].tabs) < MaxTabs
  BY DEF HandleAddTab, KeyAddTab, RoomForSheet
<1>1. store \in GoodStore /\ scene \in SUBSET (1..MaxStrokes) /\ NewTab \in Nat
  BY StoreParts, NewTabIsNew
<1>2. CASE HandleAddTab
  <2> DEFINE u == SaveTabState(store, ActiveTab(store), scene)
             w == AddTab(u, NewTab)
  <2>1. /\ Edits(store, u)
        /\ \A i \in DOMAIN store.files :
             store.files[i].id = store.active =>
               /\ Len(u.files[i].tabs) = Len(store.files[i].tabs)
               /\ DOMAIN u.files[i].tabs = DOMAIN store.files[i].tabs
               /\ \A k \in DOMAIN store.files[i].tabs :
                    u.files[i].tabs[k] = IF store.files[i].tabs[k].id = ActiveTab(store) THEN Tab(ActiveTab(store), scene)
                                         ELSE store.files[i].tabs[k]
    BY <1>1, SaveTabStateFacts
  <2>2. Sheeted(store, u, {})
    BY <1>1, SaveSheeted
  <2> HIDE DEF u
  <2>3. u \in GoodStore /\ \A i \in DOMAIN u.files : u.files[i].id = u.active =>
          /\ Len(u.files[i].tabs) < MaxTabs
          /\ \A k \in DOMAIN u.files[i].tabs : u.files[i].tabs[k].id # NewTab
    BY <1>0, <2>1, NewTabIsNew, SMTT(40) DEF Edits, Tab
  <2>5. Sheeted(u, w, {NewTab})
    BY <1>1, <2>3, AddedSheet
  <2>6. store' = w
    BY <1>2 DEF HandleAddTab, Put, u
  <2> HIDE DEF w
  <2> QED
    BY <2>2, <2>5, <2>6, SheetedTwice
<1>3. CASE KeyAddTab
  <2> DEFINE w == AddTab(store, NewTab)
  <2>1. \A i \in DOMAIN store.files : store.files[i].id = store.active =>
          /\ Len(store.files[i].tabs) < MaxTabs
          /\ \A k \in DOMAIN store.files[i].tabs : store.files[i].tabs[k].id # NewTab
    BY <1>0, NewTabIsNew
  <2>3. Sheeted(store, w, {NewTab})
    BY <1>1, <2>1, AddedSheet
  <2>4. store' = w
    BY <1>3 DEF KeyAddTab, Put
  <2> HIDE DEF w
  <2> QED
    BY <2>3, <2>4
<1> QED
  BY <1>2, <1>3

LEMMA RemoveSheeted ==
  ASSUME WorkspaceAssumption, TypeInv, NEW id, store' = RemoveTab(store, id)
  PROVE  Sheeted(store, store', {})
BY StoreParts, RemovedSheet

LEMMA OnSheetsSheeted ==
  ASSUME WorkspaceAssumption, TypeInv, Apart(store.files), OnSheets
  PROVE  Sheeted(store, store', {})
<1>0. Sheeted(store, store, {})
  BY StoreParts, SheetedSame
<1>1. CASE Draw
  BY <1>0, <1>1 DEF Draw
<1>2. CASE SaveTimer
  <2>1. timer.content \in SUBSET (1..MaxStrokes)
    BY <1>2 DEF SaveTimer, TypeInv, StoreTyped
  <2> QED
    BY <1>2, <2>1, StoreParts, SaveSheeted DEF SaveTimer
<1>3. ASSUME NEW id \in Sheets, TabClick(id) PROVE Sheeted(store, store', {})
  BY <1>3, TabClickSheeted DEF TabClick, Put
<1>4. ASSUME NEW id \in Sheets, KeyTab(id) PROVE Sheeted(store, store', {})
  <2>1. store' = SetActiveTab(store, id) /\ id \in Nat /\ store \in GoodStore
    BY <1>4, SheetsAreNumbers, StoreParts DEF KeyTab, Put
  <2>2. \A i \in DOMAIN store.files : store.files[i].id = store.active =>
          \E k \in DOMAIN store.files[i].tabs : store.files[i].tabs[k].id = id
    BY <2>1, OpenUnique DEF Sheets, Apart
  <2> QED
    BY <2>1, <2>2, ChosenSheet
<1>5. ASSUME NEW id \in Sheets, DeleteRequest(id) PROVE Sheeted(store, store', {})
  <2>1. store' = store \/ store' = RemoveTab(store, id)
    BY <1>5 DEF DeleteRequest, Put
  <2> QED
    BY <1>0, <2>1, RemoveSheeted
<1>6. CASE KeyRemove
  <2>1. store' = RemoveTab(store, ActiveTab(store))
    BY <1>6 DEF KeyRemove, Put
  <2> QED
    BY <2>1, RemoveSheeted
<1>7. CASE DeleteDecided
  <2>1. store' = store \/ store' = RemoveTab(store, dialog)
    BY <1>7 DEF DeleteDecided, Put
  <2> QED
    BY <1>0, <2>1, RemoveSheeted
<1> QED
  BY <1>1, <1>2, <1>3, <1>4, <1>5, <1>6, <1>7 DEF OnSheets

\* While sheets are worked on, no call but a renaming and an export is awaited.
LEMMA OnSheetsSlight ==
  ASSUME WorkspaceAssumption, Patient, TypeInv, WaitInv, OnSheets
  PROVE  store.pending = <<>> /\ \A c \in calls : Slight(c)
<1>1. CASE Clickable /\ Waited
  BY <1>1, WaitedFacts DEF Slight
<1>2. CASE timer # None
  BY <1>2 DEF WaitInv
<1>3. CASE Unhurried
  BY <1>3, UnhurriedQuiet DEF Quiet
<1>4. CASE dialog # None
  BY <1>4 DEF WaitInv
<1> QED
  BY <1>1, <1>2, <1>3, <1>4 DEF OnSheets, Draw, SaveTimer, TabClick, KeyTab, DeleteRequest, KeyRemove, DeleteDecided,
     AsksAboutSheet

\* What a call brings along is nobody's name and nobody's sheet, and the files that a
\* deletion or a sign-in has read are those of their ids.
CallApart(c, fs, cl) ==
  /\ c.kind \in {"create", "rename"} => c.name # Untitled /\ \A i \in DOMAIN fs : fs[i].name # c.name
  /\ c.kind = "create" =>
       \A i \in DOMAIN fs : \A k \in DOMAIN fs[i].tabs, l \in DOMAIN c.tabs : fs[i].tabs[k].id # c.tabs[l].id
  /\ c.kind = "delete" => Len(c.files) > 1 /\ Apart(c.files) /\ NotIn(c.files, cl)
  /\ c.kind = "load" => Apart(c.files) /\ AllLocal(c.files) /\ NotIn(c.files, cl)
  /\ c.kind \in {"delete", "load"} => \A i \in DOMAIN fs, j \in DOMAIN c.files : fs[i].id = c.files[j].id => fs[i] = c.files[j]

ApartInv ==
  /\ store.files # <<>>
  /\ Apart(store.files \o store.pending)
  /\ NotIn(store.files \o store.pending, cloud)
  /\ IdsApart(cloud)
  /\ \A c \in calls : CallApart(c, store.files, cloud)

LEMMA FilesApart ==
  ASSUME TypeInv, ApartInv
  PROVE  Apart(store.files) /\ NotIn(store.files, cloud) /\ store.files # <<>> /\ IdsApart(cloud)
<1> DEFINE fs == store.files
           ps == store.pending
           all == fs \o ps
<1>1. fs \in Seq(GoodFile) /\ ps \in Seq(GoodFile) /\ Apart(all) /\ NotIn(all, cloud)
  BY StoreParts DEF ApartInv
<1>2. Apart(fs)
  BY <1>1, FrontApart
<1>5. store.files # <<>> /\ IdsApart(cloud)
  BY DEF ApartInv
<1> HIDE DEF fs, ps
<1>3. \A i \in DOMAIN fs : i \in DOMAIN all /\ all[i] = fs[i]
  BY <1>1
<1>4. NotIn(fs, cloud)
  BY <1>1, <1>3 DEF NotIn
<1> QED
  BY <1>2, <1>4, <1>5 DEF fs

LEMMA ApartMade ==
  ASSUME TypeInv', store'.pending = <<>>, store'.files # <<>>, Apart(store'.files), NotIn(store'.files, cloud'),
         IdsApart(cloud'), \A c \in calls' : CallApart(c, store'.files, cloud')
  PROVE  ApartInv'
<1>1. (store.files \o store.pending)' = store'.files
  <2>1. store'.files \in Seq(GoodFile)
    BY GoodStoreFacts DEF TypeInv, StoreTyped
  <2> QED
    BY <2>1
<1>2. (\A c \in calls : CallApart(c, store.files, cloud))' <=> \A c \in calls' : CallApart(c, store'.files, cloud')
  BY DEF CallApart
<1>3. (Apart(store.files \o store.pending))' <=> Apart((store.files \o store.pending)')
  BY DEF Apart, IdsApart, SheetsApart, NamesApart, HasSheet, GoodFile, GoodTabs, TabType
<1>4. (NotIn(store.files \o store.pending, cloud))' <=> NotIn((store.files \o store.pending)', cloud')
  BY DEF NotIn
<1>5. (IdsApart(cloud))' <=> IdsApart(cloud')
  BY DEF IdsApart
<1> QED
  BY <1>1, <1>2, <1>3, <1>4, <1>5 DEF ApartInv

LEMMA InUse ==
  ASSUME TypeInv
  PROVE  /\ \A i \in DOMAIN store.files :
              store.files[i].id \in UsedIds /\ \A k \in DOMAIN store.files[i].tabs : store.files[i].tabs[k].id \in UsedTabs
         /\ \A k \in DOMAIN cloud : cloud[k].id \in UsedIds
         /\ \A c \in calls : \A l \in DOMAIN c.tabs : c.tabs[l].id \in UsedTabs
         /\ store.active \in UsedIds
<1>1. \A i \in DOMAIN store.files : store.files[i].id \in UsedIds
  BY DEF UsedIds, Ids
<1>2. \A i \in DOMAIN store.files : \A k \in DOMAIN store.files[i].tabs : store.files[i].tabs[k].id \in UsedTabs
  <2>1. \A i \in DOMAIN store.files : \A k \in DOMAIN store.files[i].tabs : store.files[i].tabs[k].id \in TabIds(store.files)
    BY DEF TabIds
  <2> QED
    BY <2>1 DEF UsedTabs
<1>3. \A k \in DOMAIN cloud : cloud[k].id \in UsedIds
  BY DEF UsedIds, Ids
<1>4. \A c \in calls : \A l \in DOMAIN c.tabs : c.tabs[l].id \in UsedTabs
  BY DEF UsedTabs
<1>5. store.active \in UsedIds
  BY DEF UsedIds
<1> QED
  BY <1>1, <1>2, <1>3, <1>4, <1>5

\* A step about the sheets of the open file.
LEMMA SheetedStep ==
  ASSUME TypeInv, TypeInv', ApartInv, store.pending = <<>>, NEW N, Sheeted(store, store', N),
         \A i \in DOMAIN store.files : \A k \in DOMAIN store.files[i].tabs : store.files[i].tabs[k].id \notin N,
         UNCHANGED cloud, calls' \subseteq calls, \A c \in calls' : Slight(c)
  PROVE  ApartInv'
<1>1. Apart(store.files) /\ NotIn(store.files, cloud) /\ store.files # <<>> /\ IdsApart(cloud)
  BY FilesApart
<1>2. Apart(store'.files)
  BY <1>1, StoreParts, SheetedApart
<1>3. /\ store'.pending = store.pending /\ DOMAIN store'.files = DOMAIN store.files
      /\ \A i \in DOMAIN store.files : /\ store'.files[i].id = store.files[i].id /\ store'.files[i].name = store.files[i].name
                                       /\ store'.files[i].cloud = store.files[i].cloud
  BY DEF Sheeted, Edits
<1>4. NotIn(store'.files, cloud')
  BY <1>1, <1>3 DEF NotIn
<1>5. store'.files # <<>>
  <2>1. DOMAIN store.files # {}
    BY <1>1, StoreParts
  <2> QED
    BY <1>3, <2>1
<1>6. \A c \in calls' : CallApart(c, store'.files, cloud')
  BY <1>3 DEF ApartInv, CallApart, Slight, Renaming, Exporting
<1> QED
  BY <1>1, <1>2, <1>3, <1>4, <1>5, <1>6, ApartMade

\* A step that makes a file.
LEMMA CreatedStep ==
  ASSUME TypeInv, NEW w \in GoodStore, Apart(w.files), NEW f \in GoodFile, HasSheet(f), NEW v, v = Created(w, f),
         \A i \in DOMAIN w.files : /\ w.files[i].id # f.id
                                   /\ ~w.files[i].cloud /\ ~f.cloud => w.files[i].name # f.name
                                   /\ \A k \in DOMAIN w.files[i].tabs, l \in DOMAIN f.tabs : w.files[i].tabs[k].id # f.tabs[l].id
  PROVE  Apart(v.files)
<1>1. v.files = Append(w.files, f)
  BY CreatedFacts
<1> QED
  BY <1>1, ApartAppend

LEMMA EmptyFileApart ==
  ASSUME WorkspaceAssumption, TypeInv, NEW name \in Nat, NEW f, f = EmptyFile(name)
  PROVE  /\ f \in GoodFile /\ HasSheet(f) /\ f.id = NewId /\ f.name = name /\ ~f.cloud
         /\ \A k \in DOMAIN f.tabs : f.tabs[k].id = NewTab
<1>1. f \in GoodFile /\ f.id = NewId /\ f.name = name /\ ~f.cloud /\ f.tabs = <<Tab(NewTab, {})>> /\ f.tab = NewTab
  BY EmptyFileFacts
<1>2. DOMAIN f.tabs = {1} /\ f.tabs[1].id = NewTab
  BY <1>1 DEF Tab
<1> QED
  BY <1>1, <1>2 DEF HasSheet

\* A guest's new file, and one that is imported.
LEMMA NewFileApart ==
  ASSUME WorkspaceAssumption, TypeInv, Apart(store.files), NotIn(store.files, cloud), NEW name \in Nat,
         \A i \in DOMAIN store.files : store.files[i].name # name,
         NEW tabs \in GoodTabs \cup {<<>>}, \A k \in DOMAIN tabs : tabs[k].id = NewTab,
         NEW u, NEW v, u = Created(store, EmptyFile(name)), v = IF tabs = <<>> THEN u ELSE LoadFromFile(u, tabs)
  PROVE  /\ Apart(v.files) /\ NotIn(v.files, cloud) /\ v.files # <<>> /\ v.pending = store.pending
<1> DEFINE f == EmptyFile(name)
<1>1. /\ f \in GoodFile /\ HasSheet(f) /\ f.id = NewId /\ f.name = name /\ ~f.cloud
      /\ \A k \in DOMAIN f.tabs : f.tabs[k].id = NewTab
  BY EmptyFileApart
<1>2. NewId \notin UsedIds /\ NewTab \notin UsedTabs
  BY NewIds
<1>3. u = Created(store, f)
  OBVIOUS
<1> HIDE DEF f
<1>4. \A i \in DOMAIN store.files :
        /\ store.files[i].id # f.id
        /\ ~store.files[i].cloud /\ ~f.cloud => store.files[i].name # f.name
        /\ \A k \in DOMAIN store.files[i].tabs, l \in DOMAIN f.tabs : store.files[i].tabs[k].id # f.tabs[l].id
  BY <1>1, <1>2, InUse
<1>5. store \in GoodStore
  BY StoreParts
<1>6. Apart(u.files)
  BY <1>1, <1>3, <1>4, <1>5, CreatedStep
<1>7. /\ u \in GoodStore /\ u.active = f.id /\ u.pending = store.pending /\ u.files # <<>>
      /\ \A i \in DOMAIN store.files : u.files[i] = store.files[i]
      /\ u.files[Len(store.files) + 1] = f
      /\ \A i \in DOMAIN u.files : i \in DOMAIN store.files \/ i = Len(store.files) + 1
  BY <1>1, <1>3, <1>5, CreatedFacts
<1>8. NotIn(u.files, cloud)
  <2>1. \A k \in DOMAIN cloud : cloud[k].id # f.id
    BY <1>1, <1>2, InUse
  <2> QED
    BY <1>7, <2>1 DEF NotIn
<1>9. CASE tabs = <<>>
  BY <1>6, <1>7, <1>8, <1>9
<1>10. CASE tabs # <<>>
  <2> DEFINE N == {tabs[k].id : k \in DOMAIN tabs}
  <2>1. Sheeted(u, v, N)
    BY <1>7, <1>10, LoadedSheets
  <2>2. \A i \in DOMAIN u.files : u.files[i].id # u.active => \A k \in DOMAIN u.files[i].tabs : u.files[i].tabs[k].id \notin N
    <3>1. \A i \in DOMAIN store.files : \A k \in DOMAIN store.files[i].tabs : store.files[i].tabs[k].id # NewTab
      BY NewTabIsNew
    <3>2. \A x \in N : x = NewTab
      OBVIOUS
    <3> QED
      BY <1>7, <3>1, <3>2
  <2> HIDE DEF N
  <2>3. Apart(v.files)
    BY <1>6, <1>7, <2>1, <2>2, SheetedApart
  <2>4. NotIn(v.files, cloud) /\ v.pending = store.pending /\ v.files # <<>>
    <3>1. Edits(u, v)
      BY <2>1 DEF Sheeted
    <3>2. DOMAIN v.files # {}
      <4>1. u.files \in Seq(GoodFile)
        BY <1>7, GoodStoreFacts
      <4> QED
        BY <1>7, <3>1, <4>1 DEF Edits
    <3> QED
      BY <1>7, <1>8, <3>1, <3>2 DEF Edits, NotIn
  <2> QED
    BY <2>3, <2>4
<1> QED
  BY <1>9, <1>10

\* The store in which the caller goes on.
LEMMA AfterApart ==
  ASSUME WorkspaceAssumption, TypeInv, Apart(store.files), NotIn(store.files, cloud), store.files # <<>>, NEW how
  PROVE  /\ Apart(After(how).files) /\ NotIn(After(how).files, cloud) /\ After(how).files # <<>>
         /\ \A i \in DOMAIN After(how).files :
              \/ \E j \in DOMAIN store.files : After(how).files[i] = store.files[j]
              \/ how = "expired" /\ After(how).files[i] = EmptyFile(Untitled)
<1>1. CASE how # "expired"
  BY <1>1 DEF After
<1>2. CASE how = "expired"
  <2> DEFINE v == ResetToGuestState(store)
             e == EmptyFile(Untitled)
  <2>1. v.files = (IF Local(store.files) = <<>> THEN <<e>> ELSE Local(store.files)) /\ v.files # <<>>
    BY ResetFacts
  <2>2. After(how) = v
    BY <1>2 DEF After
  <2>3. e \in GoodFile /\ HasSheet(e) /\ e.id = NewId
    BY EmptyFileApart DEF Untitled
  <2> HIDE DEF v, e
  <2>4. CASE Local(store.files) = <<>>
    <3>1. v.files = <<e>>
      BY <2>1, <2>4
    <3>2. Apart(v.files)
      BY <2>3, <3>1, ApartOne
    <3>3. DOMAIN v.files = {1} /\ v.files[1] = e
      BY <3>1
    <3>4. \A k \in DOMAIN cloud : cloud[k].id # e.id
      BY <2>3, NewIds, InUse
    <3> QED
      BY <1>2, <2>1, <2>2, <3>2, <3>3, <3>4 DEF NotIn, e
  <2>5. CASE Local(store.files) # <<>>
    <3>1. v.files = Local(store.files)
      BY <2>1, <2>5
    <3>2. Apart(v.files) /\ \A i \in DOMAIN v.files : \E j \in DOMAIN store.files : v.files[i] = store.files[j]
      BY <3>1, LocalApart
    <3>3. NotIn(v.files, cloud)
      BY <3>2 DEF NotIn
    <3> QED
      BY <2>1, <2>2, <3>2, <3>3
  <2> QED
    BY <2>4, <2>5
<1> QED
  BY <1>1, <1>2

\* The calls that go on in it.
LEMMA AfterCalls ==
  ASSUME WorkspaceAssumption, TypeInv, ApartInv, NEW how, NEW c \in calls
  PROVE  CallApart(c, After(how).files, cloud)
<1> DEFINE e == EmptyFile(Untitled)
           u == After(how)
<1>1. CallApart(c, store.files, cloud)
  BY DEF ApartInv
<1>2. \A i \in DOMAIN u.files : (\E j \in DOMAIN store.files : u.files[i] = store.files[j]) \/ u.files[i] = e
  BY FilesApart, AfterApart
<1>3. e.name = Untitled /\ \A k \in DOMAIN e.tabs : e.tabs[k].id = NewTab
  BY EmptyFileApart DEF Untitled
<1>4. \A l \in DOMAIN c.tabs : c.tabs[l].id # NewTab
  BY InUse, NewIds
<1>7. \A j \in DOMAIN c.files : c.files[j].id # e.id
  <2>1. \A j \in DOMAIN c.files : c.files[j].id \in UsedIds
    BY DEF UsedIds, Ids
  <2> QED
    BY <2>1, EmptyFileApart, NewIds DEF Untitled
<1> HIDE DEF e, u
<1>5. c.kind \in {"create", "rename"} => c.name # Untitled /\ \A i \in DOMAIN u.files : u.files[i].name # c.name
  BY <1>1, <1>2, <1>3 DEF CallApart
<1>6. c.kind = "create" =>
        \A i \in DOMAIN u.files : \A k \in DOMAIN u.files[i].tabs, l \in DOMAIN c.tabs : u.files[i].tabs[k].id # c.tabs[l].id
  <2> SUFFICES ASSUME c.kind = "create", NEW i \in DOMAIN u.files, NEW k \in DOMAIN u.files[i].tabs, NEW l \in DOMAIN c.tabs
               PROVE  u.files[i].tabs[k].id # c.tabs[l].id
    OBVIOUS
  <2>1. CASE u.files[i] = e
    BY <1>3, <1>4, <2>1
  <2>2. CASE \E j \in DOMAIN store.files : u.files[i] = store.files[j]
    BY <1>1, <2>2 DEF CallApart
  <2> QED
    BY <1>2, <2>1, <2>2
<1>8. c.kind \in {"delete", "load"} => \A i \in DOMAIN u.files, j \in DOMAIN c.files : u.files[i].id = c.files[j].id => u.files[i] = c.files[j]
  BY <1>1, <1>2, <1>7 DEF CallApart
<1> QED
  BY <1>1, <1>5, <1>6, <1>8 DEF CallApart, u

LEMMA OnSheetsApart ==
  ASSUME WorkspaceAssumption, Patient, TypeInv, TypeInv', WaitInv, ApartInv, OnSheets
  PROVE  ApartInv'
<1>1. store.pending = <<>> /\ \A c \in calls : Slight(c)
  BY OnSheetsSlight
<1>2. Sheeted(store, store', {})
  BY FilesApart, OnSheetsSheeted
<1>3. UNCHANGED <<cloud, calls>>
  BY OnSheetsEdits
<1> QED
  BY <1>1, <1>2, <1>3, SheetedStep

\* A step that leaves the files alone.
LEMMA FilesSame ==
  ASSUME TypeInv, TypeInv', ApartInv, store'.files = store.files, store'.pending = <<>>, UNCHANGED cloud,
         \A c \in calls' : c \in calls \/ CallApart(c, store.files, cloud)
  PROVE  ApartInv'
BY FilesApart, ApartMade DEF ApartInv

\* A name that the user prefers is nobody's.
LEMMA ChosenApart ==
  ASSUME ~Reuse, TypeInv, NEW name \in Nat
  PROVE  Chosen(name) \in Nat /\ Chosen(name) # Untitled /\ \A i \in DOMAIN store.files : store.files[i].name # Chosen(name)
BY ChosenFacts DEF Names

LEMMA CreateFileApart ==
  ASSUME WorkspaceAssumption, ~Reuse, TypeInv, TypeInv', ApartInv, Quiet, NEW name \in Nat,
         NEW tabs \in GoodTabs \cup {<<>>}, \A k \in DOMAIN tabs : tabs[k].id = NewTab, CreateFile(name, tabs)
  PROVE  ApartInv'
<1> DEFINE n == Chosen(name)
<1>1. n \in Nat /\ n # Untitled /\ \A i \in DOMAIN store.files : store.files[i].name # n
  BY ChosenApart
<1>2. CASE auth
  <2> DEFINE c == Call("create", None, n, <<>>, tabs)
  <2>1. calls' = calls \cup {c} /\ UNCHANGED <<store, cloud>>
    BY <1>2 DEF CreateFile, Calls
  <2>2. CallApart(c, store.files, cloud)
    BY <1>1, NewTabIsNew DEF Call, CallApart
  <2> HIDE DEF c
  <2> QED
    BY <2>1, <2>2, FilesSame DEF Quiet
<1>3. CASE ~auth
  <2> DEFINE u == Created(store, EmptyFile(n))
             v == IF tabs = <<>> THEN u ELSE LoadFromFile(u, tabs)
  <2>1. store' = v /\ UNCHANGED <<calls, cloud>>
    BY <1>3 DEF CreateFile, Put
  <2>2. Apart(v.files) /\ NotIn(v.files, cloud) /\ v.files # <<>> /\ v.pending = store.pending
    <3> HIDE DEF n
    <3> QED
      BY <1>1, FilesApart, NewFileApart
  <2> HIDE DEF v
  <2> QED
    BY <2>1, <2>2, FilesApart, ApartMade DEF Quiet
<1> QED
  BY <1>2, <1>3

LEMMA RenamedApart ==
  ASSUME NEW w \in GoodStore, Apart(w.files), NEW id, NEW name \in Nat, NEW v, v = Renamed(w, id, name),
         \A i \in DOMAIN w.files : w.files[i].name # name
  PROVE  Apart(v.files) /\ (\A cl : NotIn(w.files, cl) => NotIn(v.files, cl)) /\ (w.files # <<>> => v.files # <<>>)
<1>1. /\ v \in GoodStore /\ DOMAIN v.files = DOMAIN w.files
      /\ \A i \in DOMAIN w.files :
           /\ v.files[i].id = w.files[i].id /\ v.files[i].cloud = w.files[i].cloud
           /\ v.files[i].tabs = w.files[i].tabs /\ v.files[i].tab = w.files[i].tab
           /\ v.files[i].name = IF w.files[i].id = id THEN name ELSE w.files[i].name
  BY RenamedFacts
<1>2. v.files \in Seq(GoodFile) /\ w.files \in Seq(GoodFile)
  BY <1>1, GoodStoreFacts
<1>3. IdsApart(v.files)
  BY <1>1 DEF Apart, IdsApart
<1>4. SheetsApart(v.files)
  BY <1>1 DEF Apart, SheetsApart
<1>5. \A i \in DOMAIN v.files : HasSheet(v.files[i])
  BY <1>1 DEF Apart, HasSheet
<1>6. NamesApart(v.files)
  <2> SUFFICES ASSUME NEW i \in DOMAIN w.files, NEW j \in DOMAIN w.files, ~w.files[i].cloud, ~w.files[j].cloud,
                      v.files[i].name = v.files[j].name
               PROVE  i = j
    BY <1>1 DEF NamesApart
  <2>1. w.files[i].name # name /\ w.files[j].name # name
    OBVIOUS
  <2>2. w.files[i].id = w.files[j].id \/ w.files[i].name = w.files[j].name
    BY <1>1, <2>1
  <2> QED
    BY <2>2 DEF Apart, IdsApart, NamesApart
<1>7. \A cl : NotIn(w.files, cl) => NotIn(v.files, cl)
  BY <1>1 DEF NotIn
<1>8. w.files # <<>> => v.files # <<>>
  <2>1. w.files # <<>> => DOMAIN w.files # {}
    BY <1>2
  <2> QED
    BY <1>1, <2>1
<1> QED
  BY <1>2, <1>3, <1>4, <1>5, <1>6, <1>7, <1>8 DEF Apart

LEMMA DeletedApart ==
  ASSUME NEW files, Apart(files), NotIn(files, cloud), Len(files) > 1, NEW id,
         NEW w \in GoodStore, Apart(w.files), NotIn(w.files, cloud), w.files # <<>>, NEW active \in Nat,
         NEW v, v = Deleted(w, files, active, id)
  PROVE  Apart(v.files) /\ NotIn(v.files, cloud) /\ v.files # <<>>
<1>1. files \in Seq(GoodFile)
  BY DEF Apart
<1>2. \/ v = w
      \/ v.files = Without(files, id)
  BY <1>1, DeletedFacts
<1>3. CASE v = w
  BY <1>3
<1>4. CASE v.files = Without(files, id)
  <2>1. Apart(v.files) /\ \A i \in DOMAIN v.files : \E j \in DOMAIN files : v.files[i] = files[j]
    BY <1>4, WithoutApart
  <2>2. NotIn(v.files, cloud)
    BY <2>1 DEF NotIn
  <2>3. ~(\A i \in DOMAIN files : files[i].id = id)
    <3>1. 1 \in DOMAIN files /\ 2 \in DOMAIN files
      BY <1>1
    <3>2. files[1].id # files[2].id
      BY <3>1 DEF Apart, IdsApart
    <3> QED
      BY <3>1, <3>2
  <2>4. v.files # <<>>
    BY <1>1, <1>4, <2>3, WithoutFacts
  <2> QED
    BY <2>1, <2>2, <2>4
<1> QED
  BY <1>2, <1>3, <1>4

LEMMA OnFilesApart ==
  ASSUME WorkspaceAssumption, Patient, ~Reuse, TypeInv, TypeInv', WaitInv, ApartInv, OnFiles
  PROVE  ApartInv'
<1>0. Apart(store.files) /\ NotIn(store.files, cloud) /\ store.files # <<>> /\ IdsApart(cloud)
  BY FilesApart
<1>1. ASSUME NEW i \in DOMAIN store.files, NEW f, f = store.files[i],
             SwitchFile(f.id) \/ ExportFile(f.id) \/ DuplicateFile(f) \/ RenameFile(f) \/ DeleteFile(f)
      PROVE  ApartInv'
  <2>0. f \in GoodFile /\ f.id \in Nat
    BY <1>1, StoreParts, GoodFileFacts
  <2>1. CASE SwitchFile(f.id)
    <3>1. Quiet /\ store' = [store EXCEPT !.active = f.id] /\ UNCHANGED <<calls, cloud>>
      BY <2>1, UnhurriedQuiet DEF SwitchFile, AtRest, Put
    <3>2. store'.pending = <<>> /\ store'.files = store.files
      BY <3>1, StoreParts DEF GoodStore, Quiet
    <3> QED
      BY <3>1, <3>2, FilesSame
  <2>2. CASE ExportFile(f.id)
    <3>1. PICK tab : calls' = calls \cup {Call("export", tab, Untitled, <<>>, <<>>)}
      BY <2>2 DEF ExportFile, Calls
    <3>2. Call("export", tab, Untitled, <<>>, <<>>).kind = "export"
      BY DEF Call
    <3>3. PICK c : calls' = calls \cup {c} /\ c.kind = "export"
      BY <3>1, <3>2
    <3>4. store' = [store EXCEPT !.active = f.id] /\ UNCHANGED cloud /\ Clickable /\ Waited
      BY <2>2 DEF ExportFile, Put
    <3>5. store'.pending = <<>> /\ store'.files = store.files
      BY <3>4, WaitedFacts, StoreParts DEF GoodStore
    <3>6. CallApart(c, store.files, cloud)
      BY <3>3 DEF CallApart
    <3> QED
      BY <3>3, <3>4, <3>5, <3>6, FilesSame
  <2>3. CASE DuplicateFile(f)
    <3> DEFINE tabs == [k \in DOMAIN f.tabs |-> Tab(Fresh(Len(f.tabs), UsedTabs)[k], f.tabs[k].content)]
               name == Chosen(Copy(f.name))
               g == File(NewId, name, FALSE, tabs)
    <3>1. Quiet /\ store' = Created(store, g) /\ UNCHANGED <<calls, cloud>>
      BY <2>3, UnhurriedQuiet DEF DuplicateFile, AtRest, Put
    <3>2. tabs \in GoodTabs /\ \A k \in DOMAIN tabs : tabs[k].id \notin UsedTabs
      BY <2>0, CopyFacts
    <3> HIDE DEF tabs
    <3>3. name \in Nat /\ \A j \in DOMAIN store.files : store.files[j].name # name
      <4>1. Copy(f.name) \in Nat
        BY <2>0, GoodFileFacts DEF Copy
      <4> QED
        BY <4>1, ChosenApart
    <3> HIDE DEF name
    <3>4. g \in GoodFile /\ HasSheet(g) /\ g.id = NewId /\ g.name = name /\ g.tabs = tabs
      <4>1. NewId \in Nat /\ FALSE \in BOOLEAN
        BY NewIds
      <4> QED
        BY <3>2, <3>3, <4>1, FileGood, GoodTabsFacts DEF File, HasSheet
    <3> HIDE DEF g
    <3>5. \A j \in DOMAIN store.files :
            /\ store.files[j].id # g.id
            /\ ~store.files[j].cloud /\ ~g.cloud => store.files[j].name # g.name
            /\ \A k \in DOMAIN store.files[j].tabs, l \in DOMAIN g.tabs : store.files[j].tabs[k].id # g.tabs[l].id
      BY <3>2, <3>3, <3>4, InUse, NewIds
    <3>6. Apart(store'.files)
      BY <1>0, <3>1, <3>4, <3>5, StoreParts, CreatedStep
    <3>7. /\ store'.pending = store.pending /\ store'.files # <<>>
          /\ \A j \in DOMAIN store.files : store'.files[j] = store.files[j]
          /\ store'.files[Len(store.files) + 1] = g
          /\ \A j \in DOMAIN store'.files : j \in DOMAIN store.files \/ j = Len(store.files) + 1
      <4>1. store \in GoodStore
        BY StoreParts
      <4> QED
        BY <3>1, <3>4, <4>1, CreatedFacts
    <3>8. NotIn(store'.files, cloud')
      <4>1. \A k \in DOMAIN cloud : cloud[k].id # g.id
        BY <3>4, InUse, NewIds
      <4> QED
        BY <1>0, <3>1, <3>7, <4>1 DEF NotIn
    <3> QED
      BY <1>0, <3>1, <3>6, <3>7, <3>8, ApartMade DEF Quiet
  <2>4. CASE RenameFile(f)
    <3> DEFINE n == Chosen(Picked)
               c == Call("rename", f.id, n, <<>>, <<>>)
    <3>0. n \in Nat /\ n # Untitled /\ (\A j \in DOMAIN store.files : store.files[j].name # n) /\ Quiet /\ UNCHANGED cloud
      BY <2>4, ChosenApart, UnhurriedQuiet DEF Picked, RenameFile
    <3>1. CASE auth /\ f.cloud
      <4>1. calls' = calls \cup {c} /\ UNCHANGED store
        BY <2>4, <3>1 DEF RenameFile, Calls
      <4>2. CallApart(c, store.files, cloud)
        BY <3>0 DEF Call, CallApart
      <4> HIDE DEF c, n
      <4> QED
        BY <3>0, <4>1, <4>2, FilesSame DEF Quiet
    <3>2. CASE ~(auth /\ f.cloud)
      <4>1. store' = Renamed(store, f.id, n) /\ UNCHANGED calls
        BY <2>4, <3>2 DEF RenameFile, Put
      <4> HIDE DEF n
      <4>2. store'.pending = store.pending
        BY <3>0, <4>1, StoreParts, RenamedFacts
      <4>3. Apart(store'.files) /\ NotIn(store'.files, cloud) /\ store'.files # <<>>
        <5>1. store \in GoodStore
          BY StoreParts
        <5> QED
          BY <1>0, <3>0, <4>1, <5>1, RenamedApart
      <4> QED
        BY <1>0, <3>0, <4>1, <4>2, <4>3, ApartMade DEF Quiet
    <3> QED
      BY <3>1, <3>2
  <2>5. CASE DeleteFile(f)
    <3> DEFINE c == Call("delete", f.id, f.name, store.files, <<>>)
    <3>0. Quiet /\ Len(store.files) > 1 /\ UNCHANGED cloud
      BY <2>5, UnhurriedQuiet DEF DeleteFile
    <3>1. CASE auth /\ f.cloud
      <4>1. calls' = calls \cup {c} /\ UNCHANGED store
        BY <2>5, <3>1 DEF DeleteFile, Calls
      <4>2. CallApart(c, store.files, cloud)
        BY <1>0, <3>0 DEF Call, CallApart, Apart, IdsApart
      <4> HIDE DEF c
      <4> QED
        BY <3>0, <4>1, <4>2, FilesSame DEF Quiet
    <3>2. CASE ~(auth /\ f.cloud)
      <4>1. store' = Deleted(store, store.files, store.active, f.id) /\ UNCHANGED calls
        BY <2>5, <3>2 DEF DeleteFile, Put
      <4>2. store'.pending = store.pending
        BY <4>1, StoreParts, DeletedFacts
      <4>3. Apart(store'.files) /\ NotIn(store'.files, cloud) /\ store'.files # <<>>
        BY <1>0, <3>0, <4>1, StoreParts, DeletedApart
      <4> QED
        BY <1>0, <3>0, <4>1, <4>2, <4>3, ApartMade DEF Quiet
    <3> QED
      BY <3>1, <3>2
  <2> QED
    BY <1>1, <2>1, <2>2, <2>3, <2>4, <2>5
<1>2. CASE HandleAddTab \/ KeyAddTab
  <2>1. Sheeted(store, store', {NewTab}) /\ UNCHANGED <<calls, cloud>>
    BY <1>2, AddTabSheeted DEF HandleAddTab, KeyAddTab, AtRest
  <2>2. store.pending = <<>> /\ \A c \in calls : Slight(c)
    BY <1>2, WaitedFacts, UnhurriedQuiet DEF HandleAddTab, KeyAddTab, Quiet, Slight
  <2>3. \A i \in DOMAIN store.files : \A k \in DOMAIN store.files[i].tabs : store.files[i].tabs[k].id \notin {NewTab}
    BY NewTabIsNew
  <2> QED
    BY <2>1, <2>2, <2>3, SheetedStep
<1>4. CASE HandleCreateFile
  <2>1. Quiet /\ CreateFile(Len(store.files) + 1, <<>>)
    BY <1>4, UnhurriedQuiet DEF HandleCreateFile
  <2>2. Len(store.files) + 1 \in Nat /\ DOMAIN <<>> = {}
    BY StoreParts
  <2> QED
    BY <2>1, <2>2, CreateFileApart
<1>5. CASE ImportFile
  <2>1. Quiet
    BY <1>5, UnhurriedQuiet DEF ImportFile
  <2>2. strokes' \in 1..MaxStrokes
    BY <1>5, NextStroke DEF ImportFile
  <2> DEFINE tabs == <<Tab(NewTab, {strokes'})>>
  <2>3. CreateFile(Imported, tabs)
    BY <1>5 DEF ImportFile
  <2>4. tabs \in GoodTabs
    BY <2>2, NewIds, TabGood, OneTabGood
  <2>5. \A k \in DOMAIN tabs : tabs[k].id = NewTab
    BY DEF Tab
  <2> HIDE DEF tabs
  <2> QED
    BY <2>1, <2>3, <2>4, <2>5, CreateFileApart DEF Imported
<1>6. CASE ImportScene
  <2>1. Quiet /\ UNCHANGED <<calls, cloud>> /\ store' = SaveTabState(store, ActiveTab(store), {strokes'})
    BY <1>6, UnhurriedQuiet DEF ImportScene, LoadNative
  <2>2. strokes' \in 1..MaxStrokes
    BY <1>6, NextStroke DEF ImportScene
  <2>3. Sheeted(store, store', {})
    BY <2>1, <2>2, StoreParts, SaveSheeted
  <2> QED
    BY <2>1, <2>3, SheetedStep DEF Quiet
<1>7. CASE Login
  <2> DEFINE c == Call("load", None, Untitled, Local(store.files), <<>>)
  <2>1. /\ Quiet /\ calls' = calls \cup {c} /\ UNCHANGED cloud
        /\ store' = [store EXCEPT !.loading = TRUE, !.sync = "syncing"]
    BY <1>7, UnhurriedQuiet DEF Login, Calls
  <2>2. store'.pending = <<>> /\ store'.files = store.files
    BY <2>1, StoreParts DEF GoodStore, Quiet
  <2>3. Apart(Local(store.files)) /\ AllLocal(Local(store.files)) /\ NotIn(Local(store.files), cloud)
    <3>1. \A i \in DOMAIN Local(store.files) : \E j \in DOMAIN store.files : Local(store.files)[i] = store.files[j]
      BY <1>0, LocalApart
    <3>2. Apart(Local(store.files)) /\ AllLocal(Local(store.files))
      BY <1>0, LocalApart
    <3> QED
      BY <1>0, <3>1, <3>2 DEF NotIn
  <2>4. CallApart(c, store.files, cloud)
    <3>1. \A j \in DOMAIN Local(store.files) : \E k \in DOMAIN store.files : Local(store.files)[j] = store.files[k]
      BY <1>0, LocalApart
    <3>2. \A i \in DOMAIN store.files, j \in DOMAIN Local(store.files) :
             store.files[i].id = Local(store.files)[j].id => store.files[i] = Local(store.files)[j]
      BY <1>0, <3>1 DEF Apart, IdsApart
    <3> QED
      BY <2>3, <3>2 DEF Call, CallApart
  <2> HIDE DEF c
  <2> QED
    BY <2>1, <2>2, <2>4, FilesSame
<1>8. CASE SessionEnds
  <2>1. UNCHANGED <<calls, cloud>> /\ store' = ResetToGuestState(store)
    BY <1>8 DEF SessionEnds, Put
  <2>2. store'.pending = <<>> /\ store' = After("expired")
    BY <2>1, ResetFacts DEF After
  <2>3. Apart(store'.files) /\ NotIn(store'.files, cloud) /\ store'.files # <<>>
    BY <1>0, <2>2, AfterApart
  <2>4. \A c \in calls : CallApart(c, store'.files, cloud)
    BY <1>0, <2>2, AfterCalls
  <2> QED
    BY <1>0, <2>1, <2>2, <2>3, <2>4, ApartMade
<1>9. CASE Reload
  <2>1. calls' = {} /\ UNCHANGED cloud /\ store'.pending = <<>> /\ store'.files = store.files
    BY <1>9, StoreParts DEF Reload, GoodStore
  <2> QED
    BY <2>1, FilesSame
<1> QED
  BY <1>1, <1>2, <1>4, <1>5, <1>6, <1>7, <1>8, <1>9 DEF OnFiles

LEMMA DecidedApart ==
  ASSUME WorkspaceAssumption, Patient, TypeInv, TypeInv', WaitInv, ApartInv, MigrationDecided
  PROVE  ApartInv'
<1>0. calls = {} /\ UNCHANGED cloud /\ Apart(store.files) /\ NotIn(store.files, cloud) /\ store.files # <<>> /\ IdsApart(cloud)
  BY FilesApart DEF MigrationDecided, AsksAboutFiles, WaitInv
<1>1. ASSUME Put([store EXCEPT !.files = @ \o store.pending, !.pending = <<>>, !.sync = "syncing"], {}),
             Calls(Call("migrate", None, Untitled, store.pending, <<>>))
      PROVE  ApartInv'
  <2> DEFINE c == Call("migrate", None, Untitled, store.pending, <<>>)
             all == store.files \o store.pending
  <2>1. store' = [store EXCEPT !.files = all, !.pending = <<>>, !.sync = "syncing"] /\ calls' = calls \cup {c}
    BY <1>1 DEF Put, Calls
  <2>2. \A fs, cl : CallApart(c, fs, cl)
    BY DEF Call, CallApart
  <2> HIDE DEF c
  <2>3. Apart(all) /\ NotIn(all, cloud)
    BY DEF ApartInv
  <2>4. all # <<>>
    BY <1>0, StoreParts
  <2> HIDE DEF all
  <2>5. store'.files = all /\ store'.pending = <<>>
    BY <2>1, StoreParts DEF GoodStore
  <2> QED
    BY <1>0, <2>1, <2>2, <2>3, <2>4, <2>5, ApartMade
<1>2. ASSUME Put([store EXCEPT !.pending = <<>>], Work(store.pending)), UNCHANGED calls
      PROVE  ApartInv'
  <2>1. store' = [store EXCEPT !.pending = <<>>]
    BY <1>2 DEF Put
  <2>2. store'.files = store.files /\ store'.pending = <<>>
    BY <2>1, StoreParts DEF GoodStore
  <2> QED
    BY <1>0, <1>2, <2>2, FilesSame
<1> QED
  BY <1>1, <1>2 DEF MigrationDecided

\* A file is made, and sheets that nobody has are loaded into it.
LEMMA MadeApart ==
  ASSUME WorkspaceAssumption, NEW u \in GoodStore, Apart(u.files), NEW f \in GoodFile, HasSheet(f), NEW tabs \in GoodTabs \cup {<<>>},
         \A i \in DOMAIN u.files :
           /\ u.files[i].id # f.id /\ u.files[i].name # f.name
           /\ \A k \in DOMAIN u.files[i].tabs, l \in DOMAIN f.tabs : u.files[i].tabs[k].id # f.tabs[l].id
           /\ \A k \in DOMAIN u.files[i].tabs, l \in DOMAIN tabs : u.files[i].tabs[k].id # tabs[l].id,
         NEW w, w = Created(u, f), NEW v, v = IF tabs = <<>> THEN w ELSE LoadFromFile(w, tabs)
  PROVE  /\ Apart(v.files) /\ v.files # <<>> /\ v.pending = u.pending /\ Edits(w, v)
         /\ \A i \in DOMAIN u.files : w.files[i] = u.files[i] /\ w.files[i].id # f.id
         /\ \A i \in DOMAIN w.files : i \in DOMAIN u.files \/ w.files[i] = f
<1>11. Apart(w.files)
  <2>1. \A i \in DOMAIN u.files :
          /\ u.files[i].id # f.id
          /\ ~u.files[i].cloud /\ ~f.cloud => u.files[i].name # f.name
          /\ \A k \in DOMAIN u.files[i].tabs, l \in DOMAIN f.tabs : u.files[i].tabs[k].id # f.tabs[l].id
    OBVIOUS
  <2>2. w.files = Append(u.files, f)
    BY CreatedFacts
  <2> QED
    BY <2>1, <2>2, ApartAppend
<1>12. /\ w \in GoodStore /\ w.active = f.id /\ w.pending = u.pending /\ w.files # <<>>
       /\ \A i \in DOMAIN u.files : w.files[i] = u.files[i]
       /\ w.files[Len(u.files) + 1] = f
       /\ \A i \in DOMAIN w.files : i \in DOMAIN u.files \/ i = Len(u.files) + 1
  BY CreatedFacts
<1>13. Apart(v.files) /\ v.files # <<>> /\ v.pending = u.pending /\ Edits(w, v)
  <2>1. CASE tabs = <<>>
    BY <1>11, <1>12, <2>1, EditsSame
  <2>2. CASE tabs # <<>>
    <3> DEFINE N == {tabs[k].id : k \in DOMAIN tabs}
    <3>1. Sheeted(w, v, N)
      BY <1>12, <2>2, LoadedSheets
    <3>2. \A i \in DOMAIN w.files : w.files[i].id # w.active => \A k \in DOMAIN w.files[i].tabs : w.files[i].tabs[k].id \notin N
      BY <1>12
    <3> HIDE DEF N
    <3>3. Apart(v.files)
      BY <1>11, <1>12, <3>1, <3>2, SheetedApart
    <3>4. Edits(w, v)
      BY <3>1 DEF Sheeted
    <3>5. v.files # <<>>
      <4>1. w.files \in Seq(GoodFile)
        BY <1>12, GoodStoreFacts
      <4>2. DOMAIN w.files # {}
        BY <1>12, <4>1
      <4> QED
        BY <3>4, <4>2 DEF Edits
    <3> QED
      BY <1>12, <3>3, <3>4, <3>5 DEF Edits
  <2> QED
    BY <2>1, <2>2
<1> QED
  BY <1>12, <1>13

\* The new file of one empty sheet.
IsOneSheet(f, id, name, isCloud, t) ==
  /\ f = File(id, name, isCloud, <<Tab(t, {})>>)
  /\ f \in GoodFile /\ HasSheet(f) /\ f.id = id /\ f.name = name /\ f.cloud = isCloud
  /\ \A l \in DOMAIN f.tabs : f.tabs[l].id = t

LEMMA OneSheetFile ==
  ASSUME NEW id \in Nat, NEW name \in Nat, NEW isCloud \in BOOLEAN, NEW t, <<Tab(t, {})>> \in GoodTabs
  PROVE  \E f \in GoodFile : IsOneSheet(f, id, name, isCloud, t)
<1> DEFINE one == <<Tab(t, {})>>
<1>2. DOMAIN one = {1} /\ one[1].id = t /\ one \in GoodTabs
  BY DEF Tab
<1> HIDE DEF one
<1> DEFINE f == File(id, name, isCloud, one)
<1>4. f \in GoodFile
  BY <1>2, FileGood
<1>5. HasSheet(f) /\ f.id = id /\ f.name = name /\ f.cloud = isCloud /\ \A l \in DOMAIN f.tabs : f.tabs[l].id = t
  BY <1>2 DEF File, HasSheet
<1> HIDE DEF f
<1>6. f = File(id, name, isCloud, one)
  BY DEF f
<1>7. IsOneSheet(f, id, name, isCloud, t)
  BY <1>4, <1>5, <1>6 DEF one, IsOneSheet
<1> QED
  BY <1>4, <1>7, Zenon

\* It is nobody's.
LEMMA AnsweredApart ==
  ASSUME WorkspaceAssumption, TypeInv, Apart(store.files), NotIn(store.files, cloud), store.files # <<>>,
         NEW c \in calls, CallApart(c, store.files, cloud), c.kind = "create", NEW how,
         NEW u, u = After(how),
         NEW id, id \notin UsedIds, how = "expired" => id \notin Ids(u.files),
         NEW t2, t2 \notin UsedTabs, t2 # NewTab
  PROVE  \A i \in DOMAIN u.files :
           /\ u.files[i].id # id /\ u.files[i].name # c.name
           /\ \A k \in DOMAIN u.files[i].tabs : u.files[i].tabs[k].id # t2
           /\ \A k \in DOMAIN u.files[i].tabs, l \in DOMAIN c.tabs : u.files[i].tabs[k].id # c.tabs[l].id
<1>6. \A i \in DOMAIN u.files :
           \/ \E j \in DOMAIN store.files : u.files[i] = store.files[j]
           \/ how = "expired" /\ u.files[i] = EmptyFile(Untitled)
  BY AfterApart
<1> DEFINE e == EmptyFile(Untitled)
<1>7. /\ e.name = Untitled /\ (\A k \in DOMAIN e.tabs : e.tabs[k].id = NewTab)
  BY EmptyFileApart DEF Untitled
<1>8. how = "expired" => \A i \in DOMAIN u.files : u.files[i].id # id
  BY DEF Ids
<1> HIDE DEF e
<1>9. ASSUME NEW i \in DOMAIN u.files
      PROVE  /\ u.files[i].id # id /\ u.files[i].name # c.name
             /\ \A k \in DOMAIN u.files[i].tabs : u.files[i].tabs[k].id # t2
             /\ \A k \in DOMAIN u.files[i].tabs, l \in DOMAIN c.tabs : u.files[i].tabs[k].id # c.tabs[l].id
  <2> DEFINE g == u.files[i]
  <2>1. CASE \E j \in DOMAIN store.files : g = store.files[j]
    <3>1. PICK j \in DOMAIN store.files : g = store.files[j]
      BY <2>1
    <3> HIDE DEF g
    <3>2. g.id \in UsedIds /\ \A k \in DOMAIN g.tabs : g.tabs[k].id \in UsedTabs
      BY <3>1, InUse
    <3>3. /\ g.name # c.name
          /\ \A k \in DOMAIN g.tabs, l \in DOMAIN c.tabs : g.tabs[k].id # c.tabs[l].id
      BY <3>1 DEF CallApart
    <3>4. g.id # id /\ \A k \in DOMAIN g.tabs : g.tabs[k].id # t2
      BY <3>2
    <3> QED
      BY <3>3, <3>4 DEF g
  <2>2. CASE how = "expired" /\ g = e
    <3>1. e.name # c.name
      BY <1>7 DEF CallApart
    <3>2. \A l \in DOMAIN c.tabs : c.tabs[l].id # NewTab
      BY InUse, NewIds
    <3>3. g.id # id
      BY <1>8, <2>2
    <3> HIDE DEF g
    <3>4. /\ g.name # c.name /\ \A k \in DOMAIN g.tabs : g.tabs[k].id # t2
          /\ \A k \in DOMAIN g.tabs, l \in DOMAIN c.tabs : g.tabs[k].id # c.tabs[l].id
      BY <1>7, <2>2, <3>1, <3>2
    <3> QED
      BY <3>3, <3>4 DEF g
  <2> QED
    BY <1>6, <1>9, <2>1, <2>2 DEF e
<1> QED
  BY <1>9

LEMMA CreateAnswerApart ==
  ASSUME WorkspaceAssumption, Patient, TypeInv, TypeInv', WaitInv, ApartInv, NEW c \in calls, NEW how, CreateAnswer(c, how)
  PROVE  ApartInv'
<1>0. Apart(store.files) /\ NotIn(store.files, cloud) /\ store.files # <<>> /\ IdsApart(cloud)
  BY FilesApart
<1>1. calls' = {} /\ store.pending = <<>> /\ After(how).pending = <<>>
  BY AnsweredAlone, AfterPending DEF CreateAnswer, Answered, Slight, Renaming, Exporting
<1>2. CallApart(c, store.files, cloud) /\ c.kind = "create"
  BY DEF ApartInv, CreateAnswer
<1> DEFINE id == IF how = "expired" THEN Fresh(1, UsedIds \cup Ids(After(how).files))[1]
                 ELSE Fresh(2, UsedIds)[IF how = "lost" THEN 2 ELSE 1]
           f == File(id, c.name, how = "good", <<Tab(Fresh(2, UsedTabs)[2], {})>>)
           w == Created(After(how), f)
           v == IF c.tabs = <<>> THEN w ELSE LoadFromFile(w, c.tabs)
<1>3. store' = v
  BY DEF CreateAnswer, Put
<1>4. how = "lost" => id # NewId
  BY MadeFacts
<1>10. id \in Nat /\ id \notin UsedIds /\ (how = "expired" => id \notin Ids(After(how).files))
  BY MadeFacts
<1> HIDE DEF id
<1>11. /\ f \in GoodFile /\ HasSheet(f) /\ f.id = id /\ f.name = c.name /\ f.cloud = (how = "good")
       /\ \A l \in DOMAIN f.tabs : f.tabs[l].id = Fresh(2, UsedTabs)[2]
  <2> DEFINE t == Fresh(2, UsedTabs)[2]
             isCloud == how = "good"
             n == c.name
  <2>1. n \in Nat /\ isCloud \in BOOLEAN
    BY CallParts
  <2>2. <<Tab(t, {})>> \in GoodTabs
    BY MadeFacts
  <2>3. f = File(id, n, isCloud, <<Tab(t, {})>>) /\ id \in Nat
    BY <1>10
  <2> HIDE DEF f, t, isCloud, n, w, v
  <2>4. PICK g \in GoodFile : IsOneSheet(g, id, n, isCloud, t)
    BY <2>1, <2>2, <2>3, OneSheetFile, Zenon
  <2>5. f = g
    BY <2>3, <2>4, Zenon DEF IsOneSheet
  <2> QED
    BY <2>4, <2>5 DEF t, isCloud, n, IsOneSheet
<1> HIDE DEF f
<1>12. After(how) \in GoodStore /\ Apart(After(how).files)
  BY <1>0, AfterApart, AfterFacts
<1>13. Fresh(2, UsedTabs)[2] \notin UsedTabs /\ Fresh(2, UsedTabs)[2] # NewTab
  BY MadeFacts
<1>14. \A i \in DOMAIN After(how).files :
         /\ After(how).files[i].id # id /\ After(how).files[i].name # c.name
         /\ \A k \in DOMAIN After(how).files[i].tabs : After(how).files[i].tabs[k].id # Fresh(2, UsedTabs)[2]
         /\ \A k \in DOMAIN After(how).files[i].tabs, l \in DOMAIN c.tabs : After(how).files[i].tabs[k].id # c.tabs[l].id
  BY <1>0, <1>2, <1>10, <1>13, AnsweredApart
<1>15. \A i \in DOMAIN After(how).files :
         /\ After(how).files[i].id # f.id /\ After(how).files[i].name # f.name
         /\ \A k \in DOMAIN After(how).files[i].tabs, l \in DOMAIN f.tabs : After(how).files[i].tabs[k].id # f.tabs[l].id
         /\ \A k \in DOMAIN After(how).files[i].tabs, l \in DOMAIN c.tabs : After(how).files[i].tabs[k].id # c.tabs[l].id
  BY <1>11, <1>14
<1>16. c.tabs \in GoodTabs \cup {<<>>}
  BY CallParts
<1>5. /\ f \in GoodFile /\ f.id = id /\ f.cloud = (how = "good") /\ id \in Nat \ UsedIds
      /\ Apart(v.files) /\ v.files # <<>> /\ v.pending = After(how).pending /\ Edits(w, v)
      /\ \A i \in DOMAIN After(how).files : w.files[i] = After(how).files[i] /\ w.files[i].id # id
      /\ \A i \in DOMAIN w.files : i \in DOMAIN After(how).files \/ w.files[i] = f
  <2>1. /\ Apart(v.files) /\ v.files # <<>> /\ v.pending = After(how).pending /\ Edits(w, v)
        /\ \A i \in DOMAIN After(how).files : w.files[i] = After(how).files[i] /\ w.files[i].id # f.id
        /\ \A i \in DOMAIN w.files : i \in DOMAIN After(how).files \/ w.files[i] = f
    <3> DEFINE u == After(how)
    <3>1. w = Created(u, f)
      OBVIOUS
    <3>2. v = IF c.tabs = <<>> THEN w ELSE LoadFromFile(w, c.tabs)
      OBVIOUS
    <3>3. f \in GoodFile /\ HasSheet(f)
      BY <1>11
    <3> HIDE DEF u, w, v
    <3> SUFFICES /\ Apart(v.files) /\ v.files # <<>> /\ v.pending = u.pending /\ Edits(w, v)
                 /\ \A i \in DOMAIN u.files : w.files[i] = u.files[i] /\ w.files[i].id # f.id
                 /\ \A i \in DOMAIN w.files : i \in DOMAIN u.files \/ w.files[i] = f
      BY DEF u
    <3>4. /\ u \in GoodStore /\ Apart(u.files)
          /\ \A i \in DOMAIN u.files :
               /\ u.files[i].id # f.id /\ u.files[i].name # f.name
               /\ \A k \in DOMAIN u.files[i].tabs, l \in DOMAIN f.tabs : u.files[i].tabs[k].id # f.tabs[l].id
               /\ \A k \in DOMAIN u.files[i].tabs, l \in DOMAIN c.tabs : u.files[i].tabs[k].id # c.tabs[l].id
      BY <1>12, <1>15 DEF u
    <3> QED
      BY <1>16, <3>1, <3>2, <3>3, <3>4, MadeApart
  <2> QED
    BY <1>10, <1>11, <2>1
<1> HIDE DEF w, v
<1> DEFINE a == [id |-> NewId, name |-> c.name, tabs |-> <<>>]
<1>6. cloud' = (IF Done(c, how) THEN Append(cloud, a) ELSE cloud) /\ a.id = NewId
  BY DEF CreateAnswer
<1> HIDE DEF a
<1>7. /\ DOMAIN cloud \subseteq DOMAIN cloud'
      /\ \A k \in DOMAIN cloud : cloud'[k] = cloud[k]
      /\ \A k \in DOMAIN cloud' : k \in DOMAIN cloud \/ (Done(c, how) /\ cloud'[k].id = NewId /\ k = Len(cloud) + 1)
  <2>1. cloud \in Seq(AccountFile)
    BY CallParts
  <2> QED
    BY <1>6, <2>1
<1>8. IdsApart(cloud')
  <2>1. \A k \in DOMAIN cloud : cloud[k].id # NewId
    BY InUse, NewIds
  <2> QED
    BY <1>0, <1>7, <2>1 DEF IdsApart
<1>9. NotIn(v.files, cloud')
  <2>1. \A i \in DOMAIN v.files : i \in DOMAIN w.files /\ v.files[i].id = w.files[i].id /\ v.files[i].cloud = w.files[i].cloud
    BY <1>5 DEF Edits
  <2>2. ASSUME NEW i \in DOMAIN w.files, NEW k \in DOMAIN cloud', ~w.files[i].cloud PROVE w.files[i].id # cloud'[k].id
    <3>1. CASE w.files[i] = f
      <4>1. how # "good"
        BY <1>5, <2>2, <3>1
      <4>2. Done(c, how) => how = "lost"
        BY <4>1 DEF Done
      <4>3. \A m \in DOMAIN cloud : cloud[m].id # id
        BY <1>5, InUse
      <4> QED
        BY <1>4, <1>5, <1>7, <3>1, <4>2, <4>3
    <3>2. CASE i \in DOMAIN After(how).files
      <4>1. w.files[i] = After(how).files[i] /\ NotIn(After(how).files, cloud)
        BY <1>0, <1>5, <3>2, AfterApart
      <4>2. \A m \in DOMAIN cloud : cloud[m].id # w.files[i].id
        BY <2>2, <3>2, <4>1 DEF NotIn
      <4>3. Done(c, how) => w.files[i].id # NewId
        <5> SUFFICES ASSUME Done(c, how) PROVE w.files[i].id # NewId
          OBVIOUS
        <5>1. After(how) = store
          BY DEF Done, After
        <5> QED
          BY <3>2, <4>1, <5>1, InUse, NewIds
      <4> QED
        BY <1>7, <4>2, <4>3
    <3> QED
      BY <1>5, <3>1, <3>2
  <2> QED
    BY <2>1, <2>2 DEF NotIn
<1> QED
  BY <1>1, <1>3, <1>5, <1>8, <1>9, ApartMade

LEMMA RenameAnswerApart ==
  ASSUME WorkspaceAssumption, Patient, TypeInv, TypeInv', WaitInv, ApartInv, NEW c \in calls, NEW how, RenameAnswer(c, how)
  PROVE  ApartInv'
<1>0. Apart(store.files) /\ NotIn(store.files, cloud) /\ store.files # <<>> /\ IdsApart(cloud)
  BY FilesApart
<1>1. (\A d \in calls' : Exporting(d)) /\ store.pending = <<>> /\ After(how).pending = <<>>
  BY AnsweredAlone, AfterPending DEF RenameAnswer, Answered, Renaming
<1>2. CallApart(c, store.files, cloud) /\ c.kind = "rename" /\ c.name \in Nat /\ cloud \in Seq(AccountFile)
  BY CallParts DEF ApartInv, RenameAnswer
<1> DEFINE u == After(how)
<1>3. /\ u \in GoodStore /\ Apart(u.files) /\ NotIn(u.files, cloud) /\ u.files # <<>>
      /\ \A i \in DOMAIN u.files :
           \/ \E j \in DOMAIN store.files : u.files[i] = store.files[j]
           \/ how = "expired" /\ u.files[i] = EmptyFile(Untitled)
  BY <1>0, AfterApart, AfterFacts
<1>4. EmptyFile(Untitled).name = Untitled
  BY EmptyFileApart DEF Untitled
<1>5. \A i \in DOMAIN u.files : u.files[i].name # c.name
  BY <1>2, <1>3, <1>4 DEF CallApart
<1>6. store' = Renamed(u, c.id, c.name)
  BY DEF RenameAnswer, Put
<1>7. /\ DOMAIN cloud' = DOMAIN cloud /\ \A k \in DOMAIN cloud : cloud'[k].id = cloud[k].id
  <2>1. cloud' = [i \in DOMAIN cloud |-> IF cloud[i].id = c.id /\ Done(c, how)
                                        THEN [cloud[i] EXCEPT !.name = c.name] ELSE cloud[i]]
    BY DEF RenameAnswer
  <2>2. \A k \in DOMAIN cloud : [cloud[k] EXCEPT !.name = c.name].id = cloud[k].id
    <3>1. \A k \in DOMAIN cloud : cloud[k] \in AccountFile
      BY <1>2
    <3> QED
      BY <3>1 DEF AccountFile
  <2> QED
    BY <2>1, <2>2
<1> HIDE DEF u
<1>8. /\ Apart(store'.files) /\ NotIn(store'.files, cloud) /\ store'.files # <<>>
  <2>1. PICK id, n : id = c.id /\ n = c.name
    OBVIOUS
  <2>2. u \in GoodStore /\ Apart(u.files) /\ NotIn(u.files, cloud) /\ u.files # <<>> /\ n \in Nat
    BY <1>2, <1>3, <2>1
  <2>3. store' = Renamed(u, id, n) /\ \A i \in DOMAIN u.files : u.files[i].name # n
    BY <1>5, <1>6, <2>1
  <2> QED
    BY <2>2, <2>3, RenamedApart
<1>9. store'.pending = <<>>
  BY <1>1, <1>2, <1>3, <1>6, RenamedFacts DEF u
<1>10. NotIn(store'.files, cloud') /\ IdsApart(cloud')
  BY <1>0, <1>7, <1>8 DEF NotIn, IdsApart
<1>11. \A d \in calls' : CallApart(d, store'.files, cloud')
  BY <1>1 DEF CallApart, Exporting
<1> QED
  BY <1>1, <1>8, <1>9, <1>10, <1>11, ApartMade

LEMMA DeleteAnswerApart ==
  ASSUME WorkspaceAssumption, Patient, TypeInv, TypeInv', WaitInv, ApartInv, NEW c \in calls, NEW how, DeleteAnswer(c, how)
  PROVE  ApartInv'
<1>0. Apart(store.files) /\ NotIn(store.files, cloud) /\ store.files # <<>> /\ IdsApart(cloud)
  BY FilesApart
<1>1. calls' = {} /\ store.pending = <<>> /\ After(how).pending = <<>>
  BY AnsweredAlone, AfterPending DEF DeleteAnswer, Answered, Slight, Renaming, Exporting
<1>2. Len(c.files) > 1 /\ Apart(c.files) /\ NotIn(c.files, cloud)
  BY DEF ApartInv, CallApart, DeleteAnswer
<1>3. cloud \in Seq(AccountFile) /\ c.files \in Seq(GoodFile) /\ c.active \in Nat
  BY CallParts
<1> DEFINE u == After(how)
<1>4. u \in GoodStore /\ Apart(u.files) /\ NotIn(u.files, cloud) /\ u.files # <<>>
  BY <1>0, AfterApart, AfterFacts
<1>5. store' = Deleted(u, c.files, c.active, c.id)
  BY DEF DeleteAnswer, Put
<1> HIDE DEF u
<1>6. /\ Apart(store'.files) /\ NotIn(store'.files, cloud) /\ store'.files # <<>>
  BY <1>0, <1>2, <1>3, <1>4, <1>5, DeletedApart
<1>7. store'.pending = <<>>
  BY <1>1, <1>3, <1>4, <1>5, DeletedFacts DEF u
<1>8. \A k, l \in DOMAIN cloud' : \E m, n \in DOMAIN cloud : cloud'[k] = cloud[m] /\ cloud'[l] = cloud[n] /\ (m = n => k = l)
  <2>1. CASE cloud' = cloud
    BY <2>1
  <2>2. CASE cloud' = Without(cloud, c.id)
    <3> DEFINE d == Without(cloud, c.id)
    <3> DEFINE x == c.id
    <3>0. d = Without(cloud, x)
      OBVIOUS
    <3> HIDE DEF x, d
    <3>1. \E f \in [DOMAIN d -> DOMAIN cloud] :
            /\ \A k \in DOMAIN d : d[k] = cloud[f[k]]
            /\ \A k, l \in DOMAIN d : f[k] = f[l] => k = l
      <4>1. \E f \in [DOMAIN Without(cloud, x) -> DOMAIN cloud] :
              /\ \A k \in DOMAIN Without(cloud, x) : Without(cloud, x)[k] = cloud[f[k]] /\ cloud[f[k]].id # x
              /\ \A k, l \in DOMAIN Without(cloud, x) : f[k] = f[l] => k = l
              /\ \A i \in DOMAIN cloud : cloud[i].id # x => \E k \in DOMAIN Without(cloud, x) : f[k] = i
        BY <1>3, WithoutFacts
      <4> QED
        BY <3>0, <4>1
    <3>2. PICK f \in [DOMAIN d -> DOMAIN cloud] :
            /\ \A k \in DOMAIN d : d[k] = cloud[f[k]]
            /\ \A k, l \in DOMAIN d : f[k] = f[l] => k = l
      BY <3>1
    <3>3. \A k \in DOMAIN d : f[k] \in DOMAIN cloud
      OBVIOUS
    <3> QED
      BY <2>2, <3>2, <3>3 DEF d
  <2> QED
    BY <2>1, <2>2 DEF DeleteAnswer
<1>9. NotIn(store'.files, cloud') /\ IdsApart(cloud')
  <2>1. IdsApart(cloud')
    BY <1>0, <1>8 DEF IdsApart
  <2>2. \A k \in DOMAIN cloud' : \E m \in DOMAIN cloud : cloud'[k] = cloud[m]
    BY <1>8
  <2> QED
    BY <1>6, <2>1, <2>2 DEF NotIn
<1> QED
  BY <1>1, <1>6, <1>7, <1>9, ApartMade

\* The parts of ApartInv after a step.
LEMMA ApartParts ==
  ASSUME store'.files # <<>>, Apart(store'.files \o store'.pending), NotIn(store'.files \o store'.pending, cloud'),
         IdsApart(cloud'), \A c \in calls' : CallApart(c, store'.files, cloud')
  PROVE  ApartInv'
<1>2. (\A c \in calls : CallApart(c, store.files, cloud))' <=> \A c \in calls' : CallApart(c, store'.files, cloud')
  BY DEF CallApart
<1>3. (Apart(store.files \o store.pending))' <=> Apart(store'.files \o store'.pending)
  BY DEF Apart, IdsApart, SheetsApart, NamesApart, HasSheet, GoodFile, GoodTabs, TabType
<1>4. (NotIn(store.files \o store.pending, cloud))' <=> NotIn(store'.files \o store'.pending, cloud')
  BY DEF NotIn
<1>5. (IdsApart(cloud))' <=> IdsApart(cloud')
  BY DEF IdsApart
<1> QED
  BY <1>2, <1>3, <1>4, <1>5 DEF ApartInv

\* The account's files and a guest's are put together.
LEMMA ApartBoth ==
  ASSUME NEW fs \in Seq(GoodFile), NEW ps, Apart(ps), IdsApart(fs), SheetsApart(fs),
         \A i \in DOMAIN fs : fs[i].cloud /\ HasSheet(fs[i]),
         \A i \in DOMAIN fs, j \in DOMAIN ps :
           /\ fs[i].id # ps[j].id
           /\ \A k \in DOMAIN fs[i].tabs, l \in DOMAIN ps[j].tabs : fs[i].tabs[k].id # ps[j].tabs[l].id
  PROVE  Apart(fs \o ps)
<1> DEFINE all == fs \o ps
           n == Len(fs)
<1>0. ps \in Seq(GoodFile)
  BY DEF Apart
<1>1. /\ all \in Seq(GoodFile) /\ n \in Nat
      /\ \A i \in DOMAIN all : \/ i \in DOMAIN fs /\ all[i] = fs[i] /\ i <= n
                               \/ i \in Nat /\ i > n /\ i - n \in DOMAIN ps /\ all[i] = ps[i - n]
      /\ DOMAIN fs \subseteq Nat
  BY <1>0
<1> HIDE DEF all, n
<1>2. IdsApart(all)
  <2> SUFFICES ASSUME NEW i \in DOMAIN all, NEW j \in DOMAIN all, all[i].id = all[j].id PROVE i = j
    BY DEF IdsApart
  <2>1. CASE i \in DOMAIN fs /\ all[i] = fs[i] /\ j \in DOMAIN fs /\ all[j] = fs[j]
    BY <2>1 DEF IdsApart
  <2>2. CASE i \in Nat /\ i > n /\ i - n \in DOMAIN ps /\ all[i] = ps[i - n] /\ j \in Nat /\ j > n /\ j - n \in DOMAIN ps /\ all[j] = ps[j - n]
    <3>1. i - n = j - n
      BY <2>2 DEF Apart, IdsApart
    <3> QED
      BY <1>1, <2>2, <3>1
  <2>3. CASE i \in DOMAIN fs /\ all[i] = fs[i] /\ j - n \in DOMAIN ps /\ all[j] = ps[j - n]
    BY <2>3
  <2>4. CASE j \in DOMAIN fs /\ all[j] = fs[j] /\ i - n \in DOMAIN ps /\ all[i] = ps[i - n]
    BY <2>4
  <2> QED
    BY <1>1, <2>1, <2>2, <2>3, <2>4
<1>3. SheetsApart(all)
  <2>1. ASSUME NEW i \in DOMAIN all, NEW j \in DOMAIN all, NEW k \in DOMAIN all[i].tabs, NEW l \in DOMAIN all[j].tabs,
               all[i].tabs[k].id = all[j].tabs[l].id
        PROVE  i = j
    <3>1. CASE i \in DOMAIN fs /\ all[i] = fs[i] /\ j \in DOMAIN fs /\ all[j] = fs[j]
      BY <2>1, <3>1 DEF SheetsApart
    <3>2. CASE i \in Nat /\ i > n /\ i - n \in DOMAIN ps /\ all[i] = ps[i - n] /\ j \in Nat /\ j > n /\ j - n \in DOMAIN ps /\ all[j] = ps[j - n]
      <4>1. i - n = j - n
        BY <2>1, <3>2 DEF Apart, SheetsApart
      <4> QED
        BY <1>1, <3>2, <4>1
    <3>3. CASE i \in DOMAIN fs /\ all[i] = fs[i] /\ j - n \in DOMAIN ps /\ all[j] = ps[j - n]
      BY <2>1, <3>3
    <3>4. CASE j \in DOMAIN fs /\ all[j] = fs[j] /\ i - n \in DOMAIN ps /\ all[i] = ps[i - n]
      BY <2>1, <3>4
    <3> QED
      BY <1>1, <3>1, <3>2, <3>3, <3>4
  <2> QED
    BY <1>1, <2>1, SheetsDiffer
<1>4. \A i \in DOMAIN all : HasSheet(all[i])
  BY <1>1 DEF Apart
<1>5. NamesApart(all)
  <2> SUFFICES ASSUME NEW i \in DOMAIN all, NEW j \in DOMAIN all, ~all[i].cloud, ~all[j].cloud, all[i].name = all[j].name
               PROVE  i = j
    BY DEF NamesApart
  <2>1. i \in Nat /\ i > n /\ i - n \in DOMAIN ps /\ all[i] = ps[i - n] /\ j \in Nat /\ j > n /\ j - n \in DOMAIN ps /\ all[j] = ps[j - n]
    BY <1>1
  <2>2. i - n = j - n
    BY <2>1 DEF Apart, NamesApart
  <2> QED
    BY <1>1, <2>1, <2>2
<1>6. Apart(all)
  BY <1>1, <1>2, <1>3, <1>4, <1>5 DEF Apart
<1> QED
  BY <1>6 DEF all

LEMMA NotInBoth ==
  ASSUME NEW fs \in Seq(GoodFile), NEW ps \in Seq(GoodFile), NEW cl, NotIn(fs, cl), NotIn(ps, cl)
  PROVE  NotIn(fs \o ps, cl)
<1> DEFINE all == fs \o ps
           n == Len(fs)
<1>1. \A i \in DOMAIN all : (i \in DOMAIN fs /\ all[i] = fs[i]) \/ (i - n \in DOMAIN ps /\ all[i] = ps[i - n])
  OBVIOUS
<1> HIDE DEF all, n
<1>2. NotIn(all, cl)
  BY <1>1 DEF NotIn
<1> QED
  BY <1>2 DEF all

\* What signing in shows.
LEMMA LoadedApart ==
  ASSUME WorkspaceAssumption, TypeInv, IdsApart(cloud), NEW bare,
         NEW locals, Apart(locals), AllLocal(locals), NotIn(locals, cloud),
         \A j \in DOMAIN locals : \A l \in DOMAIN locals[j].tabs : locals[j].tabs[l].id \in UsedTabs,
         NEW v, v.files # <<>>,
         cloud = <<>> /\ locals # <<>> => v.files = locals /\ v.pending = <<>>,
         cloud = <<>> /\ locals = <<>> => v.files = <<EmptyFile(Untitled)>> /\ v.pending = <<>>,
         cloud # <<>> => v.files = CloudFiles(bare) /\ v.pending = locals
  PROVE  v.files # <<>> /\ Apart(v.files \o v.pending) /\ NotIn(v.files \o v.pending, cloud)
<1>2. locals \in Seq(GoodFile)
  BY DEF Apart
<1>5. CASE cloud = <<>> /\ locals # <<>>
  <2>1. v.files \o v.pending = locals
    <3>1. locals \o <<>> = locals
      BY <1>2
    <3> QED
      BY <1>5, <3>1
  <2> QED
    BY <2>1
<1>6. CASE cloud = <<>> /\ locals = <<>>
  <2> DEFINE e == EmptyFile(Untitled)
  <2>1. e \in GoodFile /\ HasSheet(e)
    BY EmptyFileApart DEF Untitled
  <2>2. v.files = <<e>> /\ v.pending = <<>>
    BY <1>6
  <2> HIDE DEF e
  <2>3. v.files \o v.pending = <<e>>
    BY <2>1, <2>2
  <2>4. Apart(<<e>>)
    BY <2>1, ApartOne
  <2> QED
    BY <1>6, <2>3, <2>4 DEF NotIn
<1>7. CASE cloud # <<>>
  <2> DEFINE fs == CloudFiles(bare)
  <2>1. /\ fs \in Seq(GoodFile) /\ DOMAIN fs = DOMAIN cloud
        /\ \A i \in DOMAIN cloud :
              /\ fs[i].id = cloud[i].id /\ fs[i].cloud
              /\ fs[i].tab = fs[i].tabs[1].id
              /\ \A k \in DOMAIN fs[i].tabs : fs[i].tabs[k].id \notin UsedTabs
        /\ \A i, j \in DOMAIN cloud : \A k \in DOMAIN fs[i].tabs, l \in DOMAIN fs[j].tabs :
              fs[i].tabs[k].id = fs[j].tabs[l].id => i = j /\ k = l
    BY CloudFilesFacts
  <2> HIDE DEF fs
  <2>2. \A i \in DOMAIN fs : fs[i].cloud /\ HasSheet(fs[i])
    <3>1. \A i \in DOMAIN fs : 1 \in DOMAIN fs[i].tabs
      <4>1. \A i \in DOMAIN fs : fs[i] \in GoodFile
        BY <2>1
      <4> QED
        BY <4>1, GoodFileFacts, GoodTabsFacts
    <3> QED
      BY <2>1, <3>1 DEF HasSheet
  <2>3. IdsApart(fs) /\ SheetsApart(fs)
    BY <2>1 DEF IdsApart, SheetsApart
  <2>4. \A i \in DOMAIN fs, j \in DOMAIN locals :
           /\ fs[i].id # locals[j].id
           /\ \A k \in DOMAIN fs[i].tabs, l \in DOMAIN locals[j].tabs : fs[i].tabs[k].id # locals[j].tabs[l].id
    <3>1. \A i \in DOMAIN fs, j \in DOMAIN locals : fs[i].id # locals[j].id
      BY <2>1 DEF NotIn, AllLocal
    <3> QED
      BY <2>1, <3>1
  <2>5. Apart(fs \o locals)
    BY <2>1, <2>2, <2>3, <2>4, ApartBoth
  <2>6. NotIn(fs, cloud)
    BY <2>2 DEF NotIn
  <2>7. NotIn(fs \o locals, cloud)
    BY <1>2, <2>1, <2>6, NotInBoth
  <2>8. v.files = fs /\ v.pending = locals
    BY <1>7 DEF fs
  <2> QED
    BY <2>5, <2>7, <2>8
<1> QED
  BY <1>5, <1>6, <1>7

LEMMA LoadAnswerApart ==
  ASSUME WorkspaceAssumption, Patient, TypeInv, TypeInv', WaitInv, ApartInv, NEW c \in calls, NEW how, LoadAnswer(c, how)
  PROVE  ApartInv'
<1>0. Apart(store.files) /\ NotIn(store.files, cloud) /\ store.files # <<>> /\ IdsApart(cloud)
  BY FilesApart
<1>1. /\ calls \ {c} = {} /\ store.pending = <<>> /\ After(how).pending = <<>> /\ UNCHANGED cloud
      /\ Apart(c.files) /\ AllLocal(c.files) /\ NotIn(c.files, cloud)
  BY AnsweredAlone, AfterPending DEF LoadAnswer, ApartInv, CallApart, Slight, Renaming, Exporting
<1>2. CASE how = "good"
  <2>0. PICK bare \in SUBSET DOMAIN cloud : store' = Loaded(store, c.files, bare)
    BY <1>2 DEF LoadAnswer, Put
  <2> DEFINE v == Loaded(store, c.files, bare)
             d == Call("migrate", None, Untitled, c.files, <<>>)
  <2>1. store' = v /\ calls' = (calls \ {c}) \cup (IF cloud = <<>> /\ c.files # <<>> THEN {d} ELSE {})
    BY <1>2, <2>0 DEF LoadAnswer
  <2>2. \A fs, cl : CallApart(d, fs, cl)
    BY DEF Call, CallApart
  <2>3. v.files # <<>> /\ Apart(v.files \o v.pending) /\ NotIn(v.files \o v.pending, cloud)
    <3> DEFINE locals == c.files
    <3>1. \A j \in DOMAIN locals : \A l \in DOMAIN locals[j].tabs : locals[j].tabs[l].id \in UsedTabs
      <4>1. \A j \in DOMAIN locals : \A l \in DOMAIN locals[j].tabs : locals[j].tabs[l].id \in TabIds(c.files)
        BY DEF TabIds
      <4>2. TabIds(c.files) \subseteq UsedTabs
        BY DEF UsedTabs
      <4> QED
        BY <4>1, <4>2
    <3>2. Apart(locals) /\ AllLocal(locals) /\ NotIn(locals, cloud)
      BY <1>1
    <3>3. locals \in Seq(GoodFile)
      BY CallParts
    <3>4. /\ v.files # <<>>
          /\ cloud = <<>> /\ locals # <<>> => v.files = locals /\ v.pending = <<>>
          /\ cloud = <<>> /\ locals = <<>> => v.files = <<EmptyFile(Untitled)>> /\ v.pending = <<>>
          /\ cloud # <<>> => v.files = CloudFiles(bare) /\ v.pending = locals
      <4>1. HasLoaded(v, locals, bare)
        BY <3>3, LoadedFacts
      <4> HIDE DEF v
      <4> QED
        BY <4>1 DEF HasLoaded
    <3> HIDE DEF v, locals
    <3> QED
      BY <1>0, <3>1, <3>2, <3>4, LoadedApart
  <2> HIDE DEF v, d
  <2>4. \A x \in calls' : CallApart(x, store'.files, cloud')
    BY <1>1, <2>1, <2>2
  <2> QED
    BY <1>0, <1>1, <2>1, <2>3, <2>4, ApartParts
<1>3. CASE how # "good"
  <2> DEFINE u == After(how)
  <2>1. store' = [u EXCEPT !.loading = FALSE, !.sync = "error"] /\ calls' = {}
    BY <1>1, <1>3 DEF LoadAnswer, Put
  <2>2. /\ u \in GoodStore /\ Apart(u.files) /\ NotIn(u.files, cloud) /\ u.files # <<>>
    BY <1>0, AfterApart, AfterFacts
  <2>3. u.pending = <<>>
    BY <1>1
  <2> HIDE DEF u
  <2>4. store'.files = u.files /\ store'.pending = <<>>
    BY <2>1, <2>2, <2>3 DEF GoodStore
  <2> QED
    BY <1>0, <1>1, <2>1, <2>2, <2>4, ApartMade
<1> QED
  BY <1>2, <1>3

LEMMA SomeFirst ==
  ASSUME NEW S, NEW s \in Seq(S), s # <<>>
  PROVE  1 \in DOMAIN s
OBVIOUS

\* A guest's files become the account's.
LEMMA MigratedApart ==
  ASSUME WorkspaceAssumption, TypeInv, Apart(store.files), NotIn(store.files, cloud), store.files # <<>>,
         NEW up \in Seq(AccountFile), \A k \in DOMAIN up : up[k].id \notin UsedIds,
         \A k, l \in DOMAIN up : up[k].id = up[l].id => k = l,
         NEW v, v = Migrated(store, up)
  PROVE  Apart(v.files) /\ NotIn(v.files, cloud \o up) /\ v.files # <<>> /\ v.pending = store.pending
<1> DEFINE fs == store.files
           gs == v.files
<1>1. /\ v \in GoodStore /\ v.pending = store.pending
      /\ DOMAIN gs = DOMAIN fs
      /\ \A i \in DOMAIN fs :
           /\ gs[i].name = fs[i].name /\ gs[i].tabs = fs[i].tabs /\ gs[i].tab = fs[i].tab
           /\ \/ gs[i] = fs[i]
              \/ /\ ~fs[i].cloud /\ gs[i].cloud
                 /\ \E k \in DOMAIN up : up[k].name = fs[i].name /\ gs[i].id = up[k].id
  <2>1. store \in GoodStore
    BY StoreParts
  <2> QED
    BY <2>1, MigratedFacts
<1>2. gs \in Seq(GoodFile)
  BY <1>1, GoodStoreFacts
<1>3. \A i \in DOMAIN fs : fs[i].id \in UsedIds
  BY InUse
<1>4. fs \in Seq(GoodFile) /\ fs # <<>> /\ Apart(fs) /\ NotIn(fs, cloud)
  BY StoreParts
<1>5. cloud \in Seq(AccountFile)
  BY StoreParts DEF TypeInv, OthersTyped
<1> HIDE DEF fs, gs
<1>6. IdsApart(gs)
  <2> SUFFICES ASSUME NEW i \in DOMAIN fs, NEW j \in DOMAIN fs, gs[i].id = gs[j].id PROVE i = j
    BY <1>1 DEF IdsApart
  <2>1. CASE gs[i] = fs[i] /\ gs[j] = fs[j]
    BY <1>4, <2>1 DEF Apart, IdsApart
  <2>2. CASE gs[i] = fs[i] /\ \E k \in DOMAIN up : up[k].name = fs[j].name /\ gs[j].id = up[k].id
    BY <1>3, <2>2
  <2>3. CASE gs[j] = fs[j] /\ \E k \in DOMAIN up : up[k].name = fs[i].name /\ gs[i].id = up[k].id
    BY <1>3, <2>3
  <2>4. CASE /\ ~fs[i].cloud /\ ~fs[j].cloud
             /\ \E k \in DOMAIN up : up[k].name = fs[i].name /\ gs[i].id = up[k].id
             /\ \E k \in DOMAIN up : up[k].name = fs[j].name /\ gs[j].id = up[k].id
    <3>1. fs[i].name = fs[j].name
      BY <2>4
    <3> QED
      BY <1>4, <2>4, <3>1 DEF Apart, NamesApart
  <2> QED
    BY <1>1, <2>1, <2>2, <2>3, <2>4
<1>7. SheetsApart(gs) /\ \A i \in DOMAIN gs : HasSheet(gs[i])
  <2>1. DOMAIN gs = DOMAIN fs /\ \A i \in DOMAIN fs : gs[i].tabs = fs[i].tabs /\ gs[i].tab = fs[i].tab
    BY <1>1
  <2>2. SheetsApart(fs) /\ \A i \in DOMAIN fs : HasSheet(fs[i])
    BY <1>4 DEF Apart
  <2>3. SheetsApart(gs)
    BY <2>1, <2>2 DEF SheetsApart
  <2>4. \A i \in DOMAIN gs : HasSheet(gs[i])
    BY <2>1, <2>2 DEF HasSheet
  <2> QED
    BY <2>3, <2>4
<1>8. NamesApart(gs)
  BY <1>1, <1>4 DEF Apart, NamesApart
<1>9. NotIn(gs, cloud \o up)
  <2> DEFINE both == cloud \o up
             n == Len(cloud)
  <2>1. \A k \in DOMAIN both : (k \in DOMAIN cloud /\ both[k] = cloud[k]) \/ (k - n \in DOMAIN up /\ both[k] = up[k - n])
    BY <1>5
  <2> HIDE DEF both, n
  <2>2. NotIn(gs, both)
    <3> SUFFICES ASSUME NEW i \in DOMAIN fs, NEW k \in DOMAIN both, ~gs[i].cloud PROVE gs[i].id # both[k].id
      BY <1>1 DEF NotIn
    <3>1. gs[i] = fs[i]
      BY <1>1
    <3> QED
      BY <1>3, <1>4, <2>1, <3>1 DEF NotIn
  <2> QED
    BY <2>2 DEF both
<1>10. gs # <<>>
  <2>1. 1 \in DOMAIN fs
    BY <1>4, SomeFirst
  <2> QED
    BY <1>1, <2>1
<1> QED
  BY <1>1, <1>2, <1>6, <1>7, <1>8, <1>9, <1>10 DEF Apart, gs

LEMMA MigrateAnswerApart ==
  ASSUME WorkspaceAssumption, Patient, TypeInv, TypeInv', WaitInv, ApartInv, NEW c \in calls, NEW how, MigrateAnswer(c, how)
  PROVE  ApartInv'
<1>0. Apart(store.files) /\ NotIn(store.files, cloud) /\ store.files # <<>> /\ IdsApart(cloud)
  BY FilesApart
<1>1. calls' = {} /\ store.pending = <<>> /\ After(how).pending = <<>>
  BY AnsweredAlone, AfterPending DEF MigrateAnswer, Answered, Slight, Renaming, Exporting
<1>2. PICK up : /\ Uploaded(up) /\ (up # <<>> => Done(c, how))
                /\ cloud' = cloud \o up
                /\ Put(IF how = "good" THEN Migrated(store, up) ELSE After(how), Taken(how))
  BY MigrateAnswerFacts, Zenon
<1>3. /\ up \in Seq(AccountFile)
      /\ \A k \in DOMAIN up : up[k].id \notin UsedIds
      /\ \A k, l \in DOMAIN up : up[k].id = up[l].id => k = l
  BY <1>2 DEF Uploaded
<1>4. cloud \in Seq(AccountFile)
  BY CallParts
<1>5. cloud' = cloud \o up /\ store' = (IF how = "good" THEN Migrated(store, up) ELSE After(how))
  BY <1>2 DEF Put
<1>6. up # <<>> => Done(c, how)
  BY <1>2
<1>7. \A k \in DOMAIN cloud' : \/ k \in DOMAIN cloud /\ cloud'[k] = cloud[k] /\ k <= Len(cloud)
                               \/ k - Len(cloud) \in DOMAIN up /\ cloud'[k] = up[k - Len(cloud)] /\ k > Len(cloud) /\ k \in Nat
  BY <1>3, <1>4, <1>5
<1>8. IdsApart(cloud')
  <2> DEFINE n == Len(cloud)
  <2>1. \A k \in DOMAIN cloud : cloud[k].id \in UsedIds
    BY InUse
  <2>2. n \in Nat
    BY <1>4
  <2>3. \A k \in DOMAIN cloud' : \/ k \in DOMAIN cloud /\ cloud'[k] = cloud[k]
                                 \/ k - n \in DOMAIN up /\ cloud'[k] = up[k - n] /\ k \in Nat
    BY <1>7
  <2> HIDE DEF n
  <2> SUFFICES ASSUME NEW k \in DOMAIN cloud', NEW l \in DOMAIN cloud', cloud'[k].id = cloud'[l].id PROVE k = l
    BY DEF IdsApart
  <2>4. CASE k \in DOMAIN cloud /\ cloud'[k] = cloud[k] /\ l \in DOMAIN cloud /\ cloud'[l] = cloud[l]
    BY <1>0, <2>4 DEF IdsApart
  <2>5. CASE /\ k - n \in DOMAIN up /\ cloud'[k] = up[k - n] /\ k \in Nat
             /\ l - n \in DOMAIN up /\ cloud'[l] = up[l - n] /\ l \in Nat
    <3>1. k - n = l - n
      BY <1>3, <2>5
    <3> QED
      BY <2>2, <2>5, <3>1
  <2>6. CASE k \in DOMAIN cloud /\ cloud'[k] = cloud[k] /\ l - n \in DOMAIN up /\ cloud'[l] = up[l - n]
    BY <1>3, <2>1, <2>6
  <2>7. CASE l \in DOMAIN cloud /\ cloud'[l] = cloud[l] /\ k - n \in DOMAIN up /\ cloud'[k] = up[k - n]
    BY <1>3, <2>1, <2>7
  <2> QED
    BY <2>3, <2>4, <2>5, <2>6, <2>7
<1>9. CASE how = "good"
  <2> DEFINE v == Migrated(store, up)
  <2>1. Apart(v.files) /\ NotIn(v.files, cloud \o up) /\ v.files # <<>> /\ v.pending = store.pending
    BY <1>0, <1>3, MigratedApart
  <2>2. store' = v
    BY <1>5, <1>9
  <2> HIDE DEF v
  <2> QED
    BY <1>1, <1>5, <1>8, <2>1, <2>2, ApartMade
<1>10. CASE how # "good"
  <2> DEFINE u == After(how)
  <2>1. store' = u /\ u.pending = <<>>
    BY <1>1, <1>5, <1>10
  <2>2. Apart(u.files) /\ NotIn(u.files, cloud) /\ u.files # <<>>
    BY <1>0, AfterApart
  <2>3. up # <<>> => \A i \in DOMAIN u.files : u.files[i].id \in UsedIds
    <3> SUFFICES ASSUME up # <<>> PROVE \A i \in DOMAIN u.files : u.files[i].id \in UsedIds
      OBVIOUS
    <3>1. u = store
      BY <1>6 DEF Done, After
    <3> QED
      BY <3>1, InUse
  <2> HIDE DEF u
  <2>4. NotIn(u.files, cloud')
    <3> SUFFICES ASSUME NEW i \in DOMAIN u.files, NEW k \in DOMAIN cloud', ~u.files[i].cloud PROVE u.files[i].id # cloud'[k].id
      BY DEF NotIn
    <3>1. CASE k \in DOMAIN cloud /\ cloud'[k] = cloud[k]
      BY <2>2, <3>1 DEF NotIn
    <3>2. CASE k - Len(cloud) \in DOMAIN up /\ cloud'[k] = up[k - Len(cloud)]
      <4>1. up # <<>>
        BY <3>2
      <4> QED
        BY <1>3, <2>3, <3>2, <4>1
    <3> QED
      BY <1>7, <3>1, <3>2
  <2> QED
    BY <1>1, <1>8, <2>1, <2>2, <2>4, ApartMade
<1> QED
  BY <1>9, <1>10

LEMMA ExportAnswerApart ==
  ASSUME WorkspaceAssumption, Patient, TypeInv, TypeInv', WaitInv, ApartInv, NEW c \in calls, ExportAnswer(c)
  PROVE  ApartInv'
<1>1. calls' \subseteq calls /\ (\A d \in calls' : Slight(d)) /\ store.pending = <<>> /\ UNCHANGED cloud
  BY AnsweredAlone DEF ExportAnswer, Slight, Exporting
<1>2. PICK content : content = IF <<c.active, c.id>> = Key(store) THEN scene ELSE {}
  OBVIOUS
<1>3. store' = SaveTabState(store, ActiveTab(store), content) /\ content \in SUBSET (1..MaxStrokes) /\ store \in GoodStore
  BY <1>2, StoreParts DEF ExportAnswer, Put
<1>4. Sheeted(store, store', {})
  BY <1>3, SaveSheeted
<1> QED
  BY <1>1, <1>4, SheetedStep

LEMMA ApartInvInit ==
  ASSUME WorkspaceAssumption, Init
  PROVE  ApartInv
<1> DEFINE f == File(1, Untitled, FALSE, <<Tab(1, {})>>)
<1>1. store.files = <<f>> /\ store.pending = <<>> /\ calls = {} /\ cloud \in {<<>>, <<[id |-> 2, name |-> Untitled, tabs |-> <<>>]>>}
  BY DEF Init
<1>2. f.id = 1 /\ ~f.cloud /\ HasSheet(f)
  BY DEF File, HasSheet
<1>3. f \in GoodFile
  <2>1. TypeInv
    BY TypeInvInit
  <2>2. 1 \in DOMAIN store.files
    BY <1>1
  <2>3. store.files[1] \in GoodFile
    BY <2>1, <2>2, StoreParts
  <2>4. store.files[1] = f
    BY <1>1
  <2> HIDE DEF f
  <2> QED
    BY <2>3, <2>4
<1> HIDE DEF f
<1>4. store.files \o store.pending = <<f>> /\ store.files # <<>>
  BY <1>1
<1>5. Apart(<<f>>)
  BY <1>2, <1>3, ApartOne
<1>6. DOMAIN <<f>> = {1} /\ <<f>>[1] = f
  OBVIOUS
<1>7. IdsApart(cloud) /\ \A k \in DOMAIN cloud : cloud[k].id = 2
  BY <1>1 DEF IdsApart
<1>8. NotIn(<<f>>, cloud)
  BY <1>2, <1>6, <1>7 DEF NotIn
<1> QED
  BY <1>1, <1>4, <1>5, <1>7, <1>8 DEF ApartInv

LEMMA ApartInvNext ==
  ASSUME WorkspaceAssumption, Patient, ~Reuse, TypeInv, TypeInv', WaitInv, ApartInv, [Next]_wvars
  PROVE  ApartInv'
<1>1. CASE OnSheets
  BY <1>1, OnSheetsApart
<1>2. CASE OnFiles
  BY <1>2, OnFilesApart
<1>3. CASE Answers
  <2>1. PICK c \in calls :
          \/ ExportAnswer(c)
          \/ \E how \in {"good", "failed", "lost", "expired"} :
               \/ CreateAnswer(c, how) \/ RenameAnswer(c, how) \/ DeleteAnswer(c, how)
               \/ LoadAnswer(c, how) \/ MigrateAnswer(c, how)
    BY <1>3, Zenon DEF Answers
  <2>2. CASE ExportAnswer(c)
    BY <2>2, ExportAnswerApart
  <2>3. ASSUME NEW how, \/ CreateAnswer(c, how) \/ RenameAnswer(c, how) \/ DeleteAnswer(c, how)
                        \/ LoadAnswer(c, how) \/ MigrateAnswer(c, how)
        PROVE  ApartInv'
    BY <2>3, CreateAnswerApart, RenameAnswerApart, DeleteAnswerApart, LoadAnswerApart, MigrateAnswerApart
  <2> QED
    BY <2>1, <2>2, <2>3, Zenon
<1>4. CASE MigrationDecided
  BY <1>4, DecidedApart
<1>5. CASE UNCHANGED wvars
  <2>1. store' = store /\ cloud' = cloud /\ calls' = calls
    BY <1>5 DEF wvars
  <2>2. /\ store.files # <<>> /\ Apart(store.files \o store.pending) /\ NotIn(store.files \o store.pending, cloud)
        /\ IdsApart(cloud) /\ \A c \in calls : CallApart(c, store.files, cloud)
    BY DEF ApartInv
  <2> QED
    BY <2>1, <2>2, ApartParts
<1> QED
  BY <1>1, <1>2, <1>3, <1>4, <1>5 DEF Next

\* What keeps the files apart: a user who waits for answers, gives every file a name
\* of its own and imports no file twice.
THEOREM WorkspaceApart ==
  ASSUME WorkspaceAssumption, Patient, ~Reuse
  PROVE  Spec => [](TypeInv /\ WaitInv /\ ApartInv)
<1> DEFINE Inv == TypeInv /\ WaitInv /\ ApartInv
<1>1. Init => Inv
  BY TypeInvInit, ApartInvInit DEF Init, WaitInv
<1>2. Inv /\ [Next]_wvars => Inv'
  <2> SUFFICES ASSUME Inv, [Next]_wvars PROVE Inv'
    OBVIOUS
  <2>1. TypeInv'
    BY TypeInvNext
  <2>2. WaitInv'
    BY WaitInvNext
  <2> QED
    BY <2>1, <2>2, ApartInvNext
<1> QED
  BY <1>1, <1>2, PTL DEF Spec

\* Files and sheets can be told apart, also across what is put aside, and every
\* file shows one of its sheets.
THEOREM WorkspaceFiles ==
  ASSUME WorkspaceAssumption, Patient, ~Reuse
  PROVE  Spec => []FilesAreUsable
<1>1. Spec => [](TypeInv /\ WaitInv /\ ApartInv)
  BY WorkspaceApart
<1>2. TypeInv /\ WaitInv /\ ApartInv => FilesAreUsable
  BY DEF ApartInv, FilesAreUsable, Apart, IdsApart, SheetsApart, HasSheet
<1> QED
  BY <1>1, <1>2, PTL

-----------------------------------------------------------------------------
(* What is shown. *)

\* The i-th file is open at its k-th sheet.
Shows(w, i, k) ==
  /\ i \in DOMAIN w.files /\ w.files[i].id = w.active
  /\ k \in DOMAIN w.files[i].tabs /\ w.files[i].tabs[k].id = w.files[i].tab

LEMMA ShowsOpen ==
  ASSUME NEW w \in GoodStore, Apart(w.files), NEW i, NEW k, Shows(w, i, k)
  PROVE  /\ IsOpen(w) /\ ActiveTab(w) = w.files[i].tab /\ ActiveTab(w) \in Nat
         /\ Stored(w) = w.files[i].tabs[k].content
<1>1. i \in DOMAIN w.files /\ w.files[i].id = w.active /\ k \in DOMAIN w.files[i].tabs /\ w.files[i].tabs[k].id = w.files[i].tab
  BY DEF Shows
<1>2. IsOpen(w) /\ ActiveFile(w) = w.files[i] /\ ActiveTab(w) = w.files[i].tab
  BY <1>1, OpenUnique DEF Apart
<1> DEFINE t == w.files[i].tabs
           x == w.files[i].tab
           s == With(t, x)
<1>3. t \in Seq(TabType) /\ x \in Nat /\ \A l, m \in DOMAIN t : t[l].id = t[m].id => l = m
  <2>1. w.files[i] \in GoodFile
    BY <1>1, GoodStoreFacts
  <2>2. t \in GoodTabs /\ x \in Nat
    BY <2>1, GoodFileFacts
  <2> HIDE DEF t, x
  <2> QED
    BY <2>2, GoodTabsFacts
<1>4. k \in DOMAIN t /\ t[k].id = x
  BY <1>1
<1>5. Stored(w) = TabsWork(s)
  BY <1>2 DEF Stored
<1> HIDE DEF t, x, s
<1>6. /\ \A m \in DOMAIN s : \E l \in DOMAIN t : t[l].id = x /\ s[m] = t[l]
      /\ \A l \in DOMAIN t : t[l].id = x => \E m \in DOMAIN s : s[m] = t[l]
  <2>1. t \in Seq(TabType)
    BY <1>3
  <2>2. /\ With(t, x) \in Seq(TabType)
        /\ \A m \in DOMAIN With(t, x) : \E l \in DOMAIN t : t[l].id = x /\ With(t, x)[m] = t[l]
        /\ \A l \in DOMAIN t : t[l].id = x => \E m \in DOMAIN With(t, x) : With(t, x)[m] = t[l]
        /\ With(t, x) = <<>> <=> \A l \in DOMAIN t : t[l].id # x
    BY <2>1, WithFacts
  <2> QED
    BY <2>2 DEF s
<1>7. /\ \A m \in DOMAIN s : s[m] = t[k]
      /\ \E m \in DOMAIN s : s[m] = t[k]
  BY <1>3, <1>4, <1>6
<1>8. TabsWork(s) = t[k].content
  BY <1>7, Zenon DEF TabsWork
<1> QED
  BY <1>2, <1>3, <1>5, <1>8 DEF t, x

LEMMA OpenShows ==
  ASSUME NEW w \in GoodStore, Apart(w.files), IsOpen(w)
  PROVE  \E i, k : Shows(w, i, k)
<1>1. PICK i \in DOMAIN w.files : w.files[i].id = w.active
  BY OpenFacts
<1>2. HasSheet(w.files[i])
  BY DEF Apart
<1>3. PICK k \in DOMAIN w.files[i].tabs : w.files[i].tab = w.files[i].tabs[k].id
  BY <1>2 DEF HasSheet
<1>4. Shows(w, i, k)
  BY <1>1, <1>3 DEF Shows
<1> QED
  BY <1>4

LEMMA KeyOpen ==
  ASSUME WorkspaceAssumption, NEW w \in GoodStore, NEW v \in GoodStore, Apart(w.files), Apart(v.files), Key(w) = Key(v)
  PROVE  w.active = v.active /\ ActiveTab(w) = ActiveTab(v) /\ (IsOpen(w) <=> IsOpen(v))
<1>1. w.active = v.active /\ ActiveTab(w) = ActiveTab(v)
  BY DEF Key
<1>2. ASSUME NEW u \in GoodStore, Apart(u.files) PROVE IsOpen(u) <=> ActiveTab(u) # None
  <2>1. CASE IsOpen(u)
    <3>1. PICK i, k : Shows(u, i, k)
      BY <1>2, <2>1, OpenShows
    <3>2. ActiveTab(u) \in Nat
      BY <1>2, <3>1, ShowsOpen
    <3> QED
      BY <2>1, <3>2 DEF WorkspaceAssumption
  <2>2. CASE ~IsOpen(u)
    BY <2>2 DEF ActiveTab
  <2> QED
    BY <2>1, <2>2
<1> QED
  BY <1>1, <1>2

\* The same files with the same sheets open.
LEMMA SameKey ==
  ASSUME NEW w \in GoodStore, NEW v \in GoodStore, Apart(w.files), Apart(v.files), v.active = w.active,
         DOMAIN v.files = DOMAIN w.files,
         \A i \in DOMAIN w.files : v.files[i].id = w.files[i].id /\ (w.files[i].id = w.active => v.files[i].tab = w.files[i].tab)
  PROVE  Key(v) = Key(w)
<1>1. CASE IsOpen(w)
  <2>1. PICK i \in DOMAIN w.files : w.files[i].id = w.active
    BY <1>1, OpenFacts
  <2>2. ActiveTab(w) = w.files[i].tab /\ ActiveTab(v) = v.files[i].tab
    BY <2>1, OpenUnique DEF Apart
  <2> QED
    BY <2>1, <2>2 DEF Key
<1>2. CASE ~IsOpen(w)
  <2>1. ~IsOpen(v)
    BY <1>2, OpenFacts
  <2> QED
    BY <1>2, <2>1 DEF Key, ActiveTab
<1> QED
  BY <1>1, <1>2

\* The open sheet is still there.
LEMMA SameSheet ==
  ASSUME WorkspaceAssumption, NEW w \in GoodStore, NEW v \in GoodStore, Apart(w.files), Apart(v.files), Key(w) = Key(v),
         \A i, k : Shows(v, i, k) =>
           \E j \in DOMAIN w.files : w.files[j].id = v.files[i].id /\ \E l \in DOMAIN w.files[j].tabs : w.files[j].tabs[l] = v.files[i].tabs[k]
  PROVE  Stored(w) = Stored(v)
<1>1. w.active = v.active /\ ActiveTab(w) = ActiveTab(v) /\ (IsOpen(w) <=> IsOpen(v))
  BY KeyOpen
<1>2. CASE ~IsOpen(v)
  BY <1>1, <1>2 DEF Stored
<1>3. CASE IsOpen(v)
  <2>1. PICK i, k : Shows(v, i, k)
    BY <1>3, OpenShows
  <2>2. ActiveTab(v) = v.files[i].tab /\ Stored(v) = v.files[i].tabs[k].content
    BY <2>1, ShowsOpen
  <2>3. PICK j \in DOMAIN w.files : w.files[j].id = v.files[i].id /\ \E l \in DOMAIN w.files[j].tabs : w.files[j].tabs[l] = v.files[i].tabs[k]
    BY <2>1
  <2>4. PICK l \in DOMAIN w.files[j].tabs : w.files[j].tabs[l] = v.files[i].tabs[k]
    BY <2>3
  <2>5. v.files[i].id = v.active /\ v.files[i].tabs[k].id = v.files[i].tab
    BY <2>1 DEF Shows
  <2>6. ActiveTab(w) = w.files[j].tab
    BY <1>1, <2>3, <2>5, OpenUnique DEF Apart
  <2>7. Shows(w, j, l)
    BY <1>1, <2>2, <2>3, <2>4, <2>5, <2>6 DEF Shows
  <2>8. Stored(w) = w.files[j].tabs[l].content
    BY <2>7, ShowsOpen
  <2> QED
    BY <2>2, <2>4, <2>8
<1> QED
  BY <1>2, <1>3

\* The open file, if there is one, is an old one with its sheets.
LEMMA OldFiles ==
  ASSUME WorkspaceAssumption, NEW w \in GoodStore, NEW v \in GoodStore, Apart(w.files), Apart(v.files), Key(w) = Key(v),
         \A i \in DOMAIN v.files :
           IsOpen(w) /\ v.files[i].id = w.active =>
             \E j \in DOMAIN w.files : v.files[i].id = w.files[j].id /\ v.files[i].tabs = w.files[j].tabs
  PROVE  Stored(w) = Stored(v)
<1>1. w.active = v.active /\ ActiveTab(w) = ActiveTab(v) /\ (IsOpen(w) <=> IsOpen(v))
  BY KeyOpen
<1>2. ASSUME NEW i, NEW k, Shows(v, i, k)
      PROVE  \E j \in DOMAIN w.files : w.files[j].id = v.files[i].id /\ \E l \in DOMAIN w.files[j].tabs : w.files[j].tabs[l] = v.files[i].tabs[k]
  <2>1. i \in DOMAIN v.files /\ k \in DOMAIN v.files[i].tabs /\ v.files[i].id = v.active
    BY <1>2 DEF Shows
  <2>2. IsOpen(v)
    BY <1>2, ShowsOpen
  <2>3. PICK j \in DOMAIN w.files : v.files[i].id = w.files[j].id /\ v.files[i].tabs = w.files[j].tabs
    BY <1>1, <2>1, <2>2
  <2> QED
    BY <2>1, <2>3
<1> QED
  BY <1>2, SameSheet

-----------------------------------------------------------------------------
(* What the canvas shows. *)

\* The canvas is that of the open sheet, and nothing stored of it is missing there.
Shown ==
  IsOpen(store) =>
    /\ Stored(store) \subseteq scene
    /\ IF timer = None THEN scene = Stored(store) ELSE timer.tab = ActiveTab(store) /\ timer.content = scene

LEMMA SceneParts ==
  ASSUME IsOpen(store') => IF timer' = None THEN scene' = Stored(store')
                              ELSE timer'.tab = ActiveTab(store') /\ timer'.content = scene' /\ Stored(store') \subseteq scene'
  PROVE  Shown'
<1>1. IsOpen(store)' <=> IsOpen(store')
  BY DEF IsOpen, With, Pick, Nth
<1>2. ActiveTab(store)' = ActiveTab(store')
  BY DEF ActiveTab, ActiveFile, IsOpen, With, Pick, Nth
<1>3. Stored(store)' = Stored(store')
  BY DEF Stored, TabsWork, ActiveTab, ActiveFile, IsOpen, With, Pick, Nth
<1> QED
  BY <1>1, <1>2, <1>3 DEF Shown

LEMMA PutScene ==
  ASSUME WorkspaceAssumption, Shown, store \in GoodStore, store' \in GoodStore, Apart(store.files), Apart(store'.files),
         NEW w, NEW given, Put(w, given),
         Key(store') = Key(store) /\ IsOpen(store') => Stored(store') = Stored(store) \/ Stored(store') = scene
  PROVE  Shown'
<1>1. CASE Key(store') # Key(store)
  <2>1. scene' = Stored(store') /\ timer' = None
    BY <1>1 DEF Put
  <2> QED
    BY <2>1, SceneParts
<1>2. CASE Key(store') = Key(store)
  <2>1. UNCHANGED <<scene, timer>>
    BY <1>2 DEF Put
  <2>2. ActiveTab(store') = ActiveTab(store) /\ (IsOpen(store') <=> IsOpen(store))
    BY <1>2, KeyOpen
  <2>3. IsOpen(store') => /\ Stored(store) \subseteq scene
                          /\ IF timer = None THEN scene = Stored(store) ELSE timer.tab = ActiveTab(store) /\ timer.content = scene
    BY <2>2 DEF Shown
  <2>4. IsOpen(store') => Stored(store') \subseteq scene
    BY <1>2, <2>3
  <2> QED
    BY <1>2, <2>1, <2>2, <2>3, <2>4, SceneParts
<1> QED
  BY <1>1, <1>2

\* The file that was open is still there, or another one is open.
LEMMA PutOld ==
  ASSUME WorkspaceAssumption, Shown, store \in GoodStore, store' \in GoodStore, Apart(store.files), Apart(store'.files),
         NEW w, NEW given, Put(w, given),
         \A i \in DOMAIN store'.files :
           IsOpen(store) /\ store'.files[i].id = store.active =>
             \E j \in DOMAIN store.files : store'.files[i].id = store.files[j].id /\ store'.files[i].tabs = store.files[j].tabs
  PROVE  Shown'
<1>1. Key(store') = Key(store) => Stored(store') = Stored(store)
  BY OldFiles
<1> QED
  BY <1>1, PutScene

LEMMA NewlyOpen ==
  ASSUME NEW w, NEW given, Put(w, given), store'.active # store.active
  PROVE  Shown' /\ scene' = Stored(store') /\ timer' = None
<1>1. scene' = Stored(store') /\ timer' = None
  BY DEF Put, Key
<1> QED
  BY <1>1, SceneParts

LEMMA FilesApartAfter ==
  ASSUME TypeInv', ApartInv'
  PROVE  store' \in GoodStore /\ Apart(store'.files)
<1>1. store' \in GoodStore
  BY DEF TypeInv, StoreTyped
<1>2. store'.files \in Seq(GoodFile) /\ store'.pending \in Seq(GoodFile)
  BY <1>1, GoodStoreFacts
<1>3. (Apart(store.files \o store.pending))' <=> Apart(store'.files \o store'.pending)
  BY DEF Apart, IdsApart, SheetsApart, NamesApart, HasSheet, GoodFile, GoodTabs, TabType
<1> QED
  BY <1>1, <1>2, <1>3, FrontApart DEF ApartInv

\* An export that is awaited stores what the canvas shows.
SceneInv ==
  /\ Shown
  /\ \A c \in calls : Exporting(c) => <<c.active, c.id>> = Key(store) \/ scene = {}

\* No session has ended under an export.
ExportsUncut == "export" \notin cut

LEMMA Around ==
  ASSUME TypeInv, TypeInv', ApartInv, ApartInv'
  PROVE  store \in GoodStore /\ store' \in GoodStore /\ Apart(store.files) /\ Apart(store'.files)
BY StoreParts, FilesApart, FilesApartAfter

LEMMA SceneSame ==
  ASSUME Shown, store'.files = store.files, store'.active = store.active, UNCHANGED <<scene, timer>>
  PROVE  Shown'
<1>1. /\ IsOpen(store') <=> IsOpen(store)
      /\ ActiveTab(store') = ActiveTab(store) /\ Stored(store') = Stored(store)
  BY DEF IsOpen, ActiveTab, ActiveFile, Stored
<1> QED
  BY <1>1, SceneParts DEF Shown

LEMMA SceneAlone ==
  ASSUME Shown', \A c \in calls' : c.kind # "export"
  PROVE  SceneInv'
BY DEF SceneInv, Exporting

LEMMA SceneMade ==
  ASSUME Shown', \A c \in calls' : Exporting(c) => <<c.active, c.id>> = Key(store') \/ scene' = {}
  PROVE  SceneInv'
<1>1. Key(store)' = Key(store')
  BY DEF Key, ActiveTab, ActiveFile, IsOpen, With, Pick, Nth
<1> QED
  BY <1>1 DEF SceneInv, Exporting

\* The exports that were awaited, with the same sheet open.
LEMMA SceneStays ==
  ASSUME SceneInv, Shown', Key(store') = Key(store), UNCHANGED scene, calls' \subseteq calls
  PROVE  SceneInv'
BY SceneMade DEF SceneInv

LEMMA IsTimer ==
  ASSUME NEW tab \in Nat \cup {None}, NEW content \in SUBSET (1..MaxStrokes), WorkspaceAssumption
  PROVE  [tab |-> tab, content |-> content] # None
<1>1. content \in SUBSET Nat
  BY DEF WorkspaceAssumption
<1> DEFINE t == [tab |-> tab, content |-> content]
<1>2. t \in [tab : Nat \cup {None}, content : SUBSET Nat]
  BY <1>1
<1> HIDE DEF t
<1>3. t # None
  BY <1>2, TimerAssumption
<1> QED
  BY <1>3 DEF t

\* A save of the open sheet.
LEMMA SavedShown ==
  ASSUME NEW w \in GoodStore, Apart(w.files), NEW x \in SUBSET (1..MaxStrokes), NEW v, v = SaveTabState(w, ActiveTab(w), x), Apart(v.files)
  PROVE  IsOpen(v) => Stored(v) = x /\ ActiveTab(v) = ActiveTab(w)
<1> DEFINE id == ActiveTab(w)
<1>1. v = SaveTabState(w, id, x)
  OBVIOUS
<1> HIDE DEF id
<1>2. /\ Edits(w, v)
      /\ \A i \in DOMAIN w.files :
           w.files[i].id = w.active =>
             /\ v.files[i].tab = w.files[i].tab
             /\ DOMAIN v.files[i].tabs = DOMAIN w.files[i].tabs
             /\ Len(v.files[i].tabs) = Len(w.files[i].tabs)
             /\ \A k \in DOMAIN w.files[i].tabs :
                  v.files[i].tabs[k] = IF w.files[i].tabs[k].id = id THEN Tab(id, x) ELSE w.files[i].tabs[k]
  BY <1>1, SaveTabStateFacts
<1>3. v \in GoodStore
  BY <1>2 DEF Edits
<1> SUFFICES ASSUME IsOpen(v) PROVE Stored(v) = x /\ ActiveTab(v) = id
  BY DEF id
<1>4. PICK i, k : Shows(v, i, k)
  BY <1>3, OpenShows
<1>5. ActiveTab(v) = v.files[i].tab /\ Stored(v) = v.files[i].tabs[k].content
  BY <1>3, <1>4, ShowsOpen
<1>6. i \in DOMAIN w.files /\ w.files[i].id = w.active
  BY <1>2, <1>4 DEF Edits, Shows
<1>7. id = w.files[i].tab
  BY <1>6, OpenUnique DEF Apart, id
<1>8. k \in DOMAIN v.files[i].tabs /\ v.files[i].tabs[k].id = v.files[i].tab
  BY <1>4 DEF Shows
<1>9. k \in DOMAIN w.files[i].tabs /\ v.files[i].tab = id
      /\ v.files[i].tabs[k] = IF w.files[i].tabs[k].id = id THEN Tab(id, x) ELSE w.files[i].tabs[k]
  BY <1>2, <1>6, <1>7, <1>8
<1>10. v.files[i].tabs[k] = Tab(id, x)
  BY <1>8, <1>9
<1> QED
  BY <1>5, <1>9, <1>10 DEF Tab

LEMMA ChosenShown ==
  ASSUME NEW w \in GoodStore, NEW id \in Nat, NEW v, v = SetActiveTab(w, id), Apart(v.files)
  PROVE  IsOpen(v) => ActiveTab(v) = id
<1>1. /\ Edits(w, v)
      /\ \A i \in DOMAIN w.files : w.files[i].id = w.active => v.files[i].tab = id /\ v.files[i].tabs = w.files[i].tabs
  BY SetActiveTabFacts
<1>2. v \in GoodStore
  BY <1>1 DEF Edits
<1> SUFFICES ASSUME IsOpen(v) PROVE ActiveTab(v) = id
  OBVIOUS
<1>3. PICK i \in DOMAIN v.files : v.files[i].id = v.active
  BY <1>2, OpenFacts
<1>4. ActiveTab(v) = v.files[i].tab
  BY <1>2, <1>3, OpenUnique DEF Apart
<1>5. i \in DOMAIN w.files /\ w.files[i].id = w.active
  BY <1>1, <1>3 DEF Edits
<1> QED
  BY <1>1, <1>4, <1>5

LEMMA RemovedShown ==
  ASSUME WorkspaceAssumption, NEW w \in GoodStore, Apart(w.files), NEW id, NEW v, v = RemoveTab(w, id), Apart(v.files), Key(w) = Key(v)
  PROVE  Stored(w) = Stored(v)
<1>1. /\ Edits(w, v)
      /\ \A i \in DOMAIN w.files :
           w.files[i].id = w.active =>
             \/ Len(w.files[i].tabs) <= 1 /\ v.files[i] = w.files[i]
             \/ /\ Len(w.files[i].tabs) > 1
                /\ v.files[i].tabs = Without(w.files[i].tabs, id)
                /\ v.files[i].tab = IF w.files[i].tab = id THEN Last(v.files[i].tabs).id ELSE w.files[i].tab
  BY RemoveTabFacts
<1>2. v \in GoodStore
  BY <1>1 DEF Edits
<1>3. ASSUME NEW i, NEW k, Shows(v, i, k)
      PROVE  \E j \in DOMAIN w.files : w.files[j].id = v.files[i].id /\ \E l \in DOMAIN w.files[j].tabs : w.files[j].tabs[l] = v.files[i].tabs[k]
  <2>1. i \in DOMAIN w.files /\ w.files[i].id = w.active /\ w.files[i].id = v.files[i].id /\ k \in DOMAIN v.files[i].tabs
    BY <1>1, <1>3 DEF Edits, Shows
  <2>2. CASE v.files[i] = w.files[i]
    BY <2>1, <2>2
  <2>3. CASE v.files[i].tabs = Without(w.files[i].tabs, id)
    <3> DEFINE t == w.files[i].tabs
               r == Without(t, id)
    <3>1. t \in Seq(TabType)
      <4>1. w.files[i] \in GoodFile
        BY <2>1, GoodStoreFacts
      <4>2. w.files[i].tabs \in GoodTabs
        BY <4>1, GoodFileFacts
      <4> QED
        BY <4>2, GoodTabsFacts
    <3> HIDE DEF t
    <3>2. \E f \in [DOMAIN r -> DOMAIN t] : \A m \in DOMAIN r : r[m] = t[f[m]]
      <4>1. \E f \in [DOMAIN r -> DOMAIN t] :
              /\ \A m \in DOMAIN r : r[m] = t[f[m]] /\ t[f[m]].id # id
              /\ \A m, l \in DOMAIN r : f[m] = f[l] => m = l
              /\ \A j \in DOMAIN t : t[j].id # id => \E m \in DOMAIN r : f[m] = j
        BY <3>1, WithoutFacts
      <4> HIDE DEF r
      <4> QED
        BY <4>1
    <3> HIDE DEF r
    <3>3. \E l \in DOMAIN t : t[l] = r[k]
      BY <2>1, <2>3, <3>2 DEF r, t
    <3> QED
      BY <2>1, <2>3, <3>3 DEF r, t
  <2> QED
    BY <1>1, <2>1, <2>2, <2>3
<1> QED
  BY <1>2, <1>3, SameSheet

LEMMA OnSheetsScene ==
  ASSUME WorkspaceAssumption, Patient, TypeInv, TypeInv', WaitInv, ApartInv, ApartInv', SceneInv, OnSheets
  PROVE  SceneInv'
<1>0. /\ store \in GoodStore /\ store' \in GoodStore /\ Apart(store.files) /\ Apart(store'.files)
      /\ Shown /\ scene \in SUBSET (1..MaxStrokes)
  BY Around, StoreParts DEF SceneInv
<1>a. ASSUME Shown' PROVE SceneInv'
  <2>1. CASE SaveTimer
    <3>1. store' = SaveTabState(store, timer.tab, timer.content) /\ UNCHANGED <<scene, calls>>
      BY <2>1 DEF SaveTimer
    <3>2. timer.content \in SUBSET (1..MaxStrokes)
      BY <2>1 DEF SaveTimer, TypeInv, StoreTyped
    <3>3. /\ Edits(store, store')
          /\ \A i \in DOMAIN store.files : store.files[i].id = store.active => store'.files[i].tab = store.files[i].tab
      BY <1>0, <3>1, <3>2, SaveTabStateFacts
    <3>4. Key(store') = Key(store)
      BY <1>0, <3>3, SameKey DEF Edits
    <3> QED
      BY <1>a, <3>1, <3>4, SceneStays
  <2>2. CASE ~SaveTimer
    <3>1. Clickable /\ Waited => \A c \in calls : c.kind # "export"
      BY WaitedFacts DEF Renaming
    <3>2. Unhurried => calls = {}
      BY UnhurriedQuiet DEF Quiet
    <3>3. dialog # None => calls = {}
      BY DEF WaitInv
    <3>4. \A c \in calls : c.kind # "export"
      BY <2>2, <3>1, <3>2, <3>3 DEF OnSheets, Draw, TabClick, KeyTab, DeleteRequest, KeyRemove, DeleteDecided, AsksAboutSheet
    <3> QED
      BY <1>a, <3>4, OnSheetsEdits, SceneAlone
  <2> QED
    BY <2>1, <2>2
<1> SUFFICES Shown'
  BY <1>a
<1>1. CASE Draw
  <2>1. /\ store' = store /\ scene' = scene \cup {strokes'} /\ strokes' = strokes + 1 /\ strokes < MaxStrokes
        /\ timer' = [tab |-> ActiveTab(store), content |-> scene']
    BY <1>1 DEF Draw
  <2>2. scene' \in SUBSET (1..MaxStrokes)
    BY <1>0, <2>1 DEF TypeInv, StoreTyped, OthersTyped, WorkspaceAssumption
  <2>3. ActiveTab(store) \in Nat \cup {None}
    BY StoreParts
  <2>4. timer' # None
    BY <2>1, <2>2, <2>3, IsTimer
  <2>5. IsOpen(store') => Stored(store') \subseteq scene'
    BY <1>0, <2>1 DEF Shown
  <2> QED
    BY <2>1, <2>4, <2>5, SceneParts
<1>2. CASE SaveTimer
  <2>1. store' = SaveTabState(store, timer.tab, timer.content) /\ timer # None /\ timer' = None /\ scene' = scene
    BY <1>2 DEF SaveTimer
  <2>2. ASSUME IsOpen(store) PROVE IsOpen(store') => Stored(store') = scene
    <3>1. store' = SaveTabState(store, ActiveTab(store), scene)
      BY <1>0, <2>1, <2>2 DEF Shown
    <3> QED
      BY <1>0, <3>1, SavedShown
  <2>3. IsOpen(store') => IsOpen(store)
    <3>1. Edits(store, store')
      BY <1>2, OnSheetsEdits DEF OnSheets
    <3> QED
      BY <1>0, <3>1, OpenFacts DEF Edits
  <2>4. IsOpen(store') => scene' = Stored(store')
    BY <2>1, <2>2, <2>3
  <2> QED
    BY <2>1, <2>4, SceneParts
<1>3. CASE \E id \in Sheets : TabClick(id)
  <2>1. PICK id \in Sheets : TabClick(id)
    BY <1>3
  <2> DEFINE u == SaveTabState(store, ActiveTab(store), scene)
             w == SetActiveTab(u, id)
  <2>2. id # ActiveTab(store) /\ Put(w, {}) /\ store' = w /\ id \in Nat
    BY <2>1, SheetsAreNumbers DEF TabClick, Put
  <2>3. u \in GoodStore
    BY <1>0, SaveTabStateFacts DEF Edits
  <2> HIDE DEF u
  <2>4. IsOpen(store') => ActiveTab(store') = id
    <3>1. store' = SetActiveTab(u, id) /\ id \in Nat
      BY <2>2
    <3> QED
      BY <1>0, <2>3, <3>1, ChosenShown
  <2> HIDE DEF w
  <2>5. Key(store') = Key(store) => ~IsOpen(store')
    BY <2>2, <2>4 DEF Key
  <2> QED
    BY <1>0, <2>2, <2>5, PutScene
<1>4. CASE \E id \in Sheets : KeyTab(id)
  <2>1. PICK id \in Sheets : KeyTab(id)
    BY <1>4
  <2> DEFINE w == SetActiveTab(store, id)
  <2>2. id # ActiveTab(store) /\ Put(w, {}) /\ store' = w /\ id \in Nat
    BY <2>1, SheetsAreNumbers DEF KeyTab, Put
  <2>4. IsOpen(store') => ActiveTab(store') = id
    <3>1. store' = SetActiveTab(store, id) /\ id \in Nat
      BY <2>2
    <3> QED
      BY <1>0, <3>1, ChosenShown
  <2> HIDE DEF w
  <2>5. Key(store') = Key(store) => ~IsOpen(store')
    BY <2>2, <2>4 DEF Key
  <2> QED
    BY <1>0, <2>2, <2>5, PutScene
<1>5. ASSUME NEW id, NEW given, Put(RemoveTab(store, id), given) PROVE Shown'
  <2> DEFINE w == RemoveTab(store, id)
  <2>1. store' = w /\ Put(w, given)
    BY <1>5 DEF Put
  <2>2. Key(store') = Key(store) => Stored(store') = Stored(store)
    BY <1>0, <2>1, RemovedShown
  <2> HIDE DEF w
  <2> QED
    BY <1>0, <2>1, <2>2, PutScene
<1>6. CASE \E id \in Sheets : DeleteRequest(id)
  BY <1>0, <1>5, <1>6, SceneSame DEF DeleteRequest
<1>7. CASE KeyRemove
  BY <1>5, <1>7 DEF KeyRemove
<1>8. CASE DeleteDecided
  BY <1>0, <1>5, <1>8, SceneSame DEF DeleteDecided
<1> QED
  BY <1>1, <1>2, <1>3, <1>4, <1>6, <1>7, <1>8 DEF OnSheets

LEMMA CreateFileScene ==
  ASSUME WorkspaceAssumption, TypeInv, Shown, NEW name \in Nat, NEW tabs \in GoodTabs \cup {<<>>},
         Chosen(name) \in Nat, calls = {}, CreateFile(name, tabs)
  PROVE  Shown' /\ \A c \in calls' : c.kind # "export"
<1> DEFINE n == Chosen(name)
<1>1. CASE auth
  <2> DEFINE c == Call("create", None, n, <<>>, tabs)
  <2>1. calls' = calls \cup {c} /\ UNCHANGED <<store, scene, timer>>
    BY <1>1 DEF CreateFile, Calls
  <2>2. c.kind = "create"
    BY DEF Call
  <2> HIDE DEF c
  <2> QED
    BY <2>1, <2>2, SceneSame
<1>2. CASE ~auth
  <2> DEFINE f == EmptyFile(n)
             u == Created(store, f)
             v == IF tabs = <<>> THEN u ELSE LoadFromFile(u, tabs)
  <2>1. Put(v, {}) /\ UNCHANGED calls /\ store' = v
    BY <1>2 DEF CreateFile, Put
  <2> HIDE DEF n
  <2>2. f \in GoodFile /\ f.id = NewId
    BY EmptyFileFacts DEF n
  <2> HIDE DEF f
  <2>3. u \in GoodStore /\ u.active = f.id
    <3>1. store \in GoodStore
      BY StoreParts
    <3> QED
      BY <2>2, <3>1, CreatedFacts
  <2> HIDE DEF u
  <2>4. v.active = u.active
    <3>1. CASE tabs = <<>>
      BY <3>1
    <3>2. CASE tabs # <<>>
      <4>1. v = LoadFromFile(u, tabs) /\ tabs \in GoodTabs
        BY <3>2
      <4> HIDE DEF v
      <4> QED
        BY <2>3, <4>1, LoadFromFileFacts DEF Edits
    <3> QED
      BY <3>1, <3>2
  <2> HIDE DEF v
  <2>5. NewId # store.active
    BY NewIds, InUse
  <2> QED
    BY <2>1, <2>2, <2>3, <2>4, <2>5, NewlyOpen
<1> QED
  BY <1>1, <1>2

LEMMA OnFilesScene ==
  ASSUME WorkspaceAssumption, Patient, ~Reuse, ~ExportsOthers, TypeInv, TypeInv', WaitInv, ApartInv, ApartInv', SceneInv, OnFiles,
         Recorded, ExportsUncut'
  PROVE  SceneInv'
<1>0. /\ store \in GoodStore /\ store' \in GoodStore /\ Apart(store.files) /\ Apart(store'.files)
      /\ Shown /\ scene \in SUBSET (1..MaxStrokes)
  BY Around, StoreParts DEF SceneInv
<1>1. ASSUME NEW i \in DOMAIN store.files, NEW f, f = store.files[i],
             SwitchFile(f.id) \/ ExportFile(f.id) \/ DuplicateFile(f) \/ RenameFile(f) \/ DeleteFile(f)
      PROVE  SceneInv'
  <2>0. f \in GoodFile /\ f.id \in Nat
    BY <1>1, StoreParts, GoodFileFacts
  <2>1. CASE SwitchFile(f.id)
    <3> DEFINE w == [store EXCEPT !.active = f.id]
    <3>1. Quiet /\ Put(w, {}) /\ store' = w /\ f.id # store.active /\ UNCHANGED calls
      BY <2>1, UnhurriedQuiet DEF SwitchFile, AtRest, Put
    <3>2. store'.active = f.id
      BY <1>0, <3>1 DEF GoodStore
    <3> HIDE DEF w
    <3> QED
      BY <3>1, <3>2, NewlyOpen, SceneAlone DEF Quiet
  <2>2. CASE ExportFile(f.id)
    <3> DEFINE w == [store EXCEPT !.active = f.id]
    <3>0. Put(w, {}) /\ store' = w /\ Clickable /\ Waited
      BY <2>2 DEF ExportFile, Put
    <3>a. store'.active = f.id /\ store'.files = store.files
      BY <1>0, <3>0 DEF GoodStore
    <3>b. \A c \in calls : c.kind # "export"
      BY <3>0, WaitedFacts DEF Renaming
    <3>1. CASE f.id = store.active
      <4> DEFINE c == Call("export", ActiveTab(store), Untitled, <<>>, <<>>)
      <4>1. calls' = calls \cup {c}
        BY <2>2, <3>1 DEF ExportFile, Calls
      <4>2. <<c.active, c.id>> = Key(store)
        BY DEF Call, Key
      <4> HIDE DEF c, w
      <4>3. Key(store') = Key(store)
        BY <1>0, <3>1, <3>a, SameKey
      <4>4. UNCHANGED <<scene, timer>>
        BY <3>0, <4>3 DEF Put
      <4>5. Shown'
        BY <1>0, <3>1, <3>a, <4>4, SceneSame
      <4>6. \A d \in calls' : Exporting(d) => <<d.active, d.id>> = Key(store')
        BY <3>b, <4>1, <4>2, <4>3 DEF Exporting
      <4> QED
        BY <4>5, <4>6, SceneMade
    <3>2. CASE f.id # store.active
      <4>1. Stored(w) = {}
        BY <2>2, <3>2 DEF ExportFile
      <4> HIDE DEF w
      <4>2. Shown' /\ scene' = {}
        BY <3>0, <3>2, <3>a, <4>1, NewlyOpen
      <4> QED
        BY <4>2 DEF SceneInv
    <3> QED
      BY <3>1, <3>2
  <2>3. CASE DuplicateFile(f)
    <3> DEFINE tabs == [k \in DOMAIN f.tabs |-> Tab(Fresh(Len(f.tabs), UsedTabs)[k], f.tabs[k].content)]
               name == Chosen(Copy(f.name))
               g == File(NewId, name, FALSE, tabs)
               w == Created(store, g)
    <3>1. Quiet /\ Put(w, {}) /\ store' = w /\ UNCHANGED calls
      BY <2>3, UnhurriedQuiet DEF DuplicateFile, AtRest, Put
    <3>2. store'.active = NewId
      <4>1. w.active = g.id
        BY <1>0 DEF Created, GoodStore
      <4>2. g.id = NewId
        BY DEF File
      <4> HIDE DEF w, g
      <4> QED
        BY <3>1, <4>1, <4>2
    <3>3. NewId # store.active
      BY NewIds, InUse
    <3> HIDE DEF w
    <3> QED
      BY <3>1, <3>2, <3>3, NewlyOpen, SceneAlone DEF Quiet
  <2>4. CASE RenameFile(f)
    <3> DEFINE n == Chosen(Picked)
               c == Call("rename", f.id, n, <<>>, <<>>)
    <3>0. n \in Nat /\ Quiet
      BY <2>4, ChosenApart, UnhurriedQuiet DEF Picked, RenameFile
    <3>1. CASE auth /\ f.cloud
      <4>1. calls' = calls \cup {c} /\ UNCHANGED <<store, scene, timer>>
        BY <2>4, <3>1 DEF RenameFile, Calls
      <4>2. c.kind = "rename"
        BY DEF Call
      <4> HIDE DEF c, n
      <4> QED
        BY <1>0, <3>0, <4>1, <4>2, SceneSame, SceneAlone DEF Quiet
    <3>2. CASE ~(auth /\ f.cloud)
      <4> DEFINE w == Renamed(store, f.id, n)
      <4>1. Put(w, {}) /\ store' = w /\ UNCHANGED calls
        BY <2>4, <3>2 DEF RenameFile, Put
      <4> HIDE DEF n
      <4>2. /\ DOMAIN w.files = DOMAIN store.files
            /\ \A j \in DOMAIN store.files : w.files[j].id = store.files[j].id /\ w.files[j].tabs = store.files[j].tabs
        BY <1>0, <3>0, RenamedFacts
      <4> HIDE DEF w
      <4>3. Shown'
        BY <1>0, <4>1, <4>2, PutOld
      <4> QED
        BY <3>0, <4>1, <4>3, SceneAlone DEF Quiet
    <3> QED
      BY <3>1, <3>2
  <2>5. CASE DeleteFile(f)
    <3> DEFINE c == Call("delete", f.id, f.name, store.files, <<>>)
               given == TabsWork(f.tabs) \cup Work(With(cloud, f.id)) \cup (IF f.id = store.active THEN scene ELSE {})
               w == Deleted(store, store.files, store.active, f.id)
    <3>0. Quiet
      BY <2>5, UnhurriedQuiet DEF DeleteFile
    <3>1. CASE auth /\ f.cloud
      <4>1. calls' = calls \cup {c} /\ UNCHANGED <<store, scene, timer>>
        BY <2>5, <3>1 DEF DeleteFile, Calls
      <4>2. c.kind = "delete"
        BY DEF Call
      <4> HIDE DEF c
      <4> QED
        BY <1>0, <3>0, <4>1, <4>2, SceneSame, SceneAlone DEF Quiet
    <3>2. CASE ~(auth /\ f.cloud)
      <4>1. Put(w, given) /\ store' = w /\ UNCHANGED calls
        BY <2>5, <3>2 DEF DeleteFile, Put
      <4> HIDE DEF given
      <4>2. w = store \/ w.files = Without(store.files, f.id)
        <5>1. store.files \in Seq(GoodFile) /\ store.active \in Nat
          BY StoreParts
        <5> QED
          BY <1>0, <5>1, DeletedFacts
      <4> HIDE DEF w
      <4>3. \A j \in DOMAIN store'.files : \E l \in DOMAIN store.files : store'.files[j] = store.files[l]
        BY <1>0, <4>1, <4>2, WithoutApart
      <4>4. Shown'
        BY <1>0, <4>1, <4>3, PutOld
      <4> QED
        BY <3>0, <4>1, <4>4, SceneAlone DEF Quiet
    <3> QED
      BY <3>1, <3>2
  <2> QED
    BY <1>1, <2>1, <2>2, <2>3, <2>4, <2>5
<1>2. CASE HandleAddTab \/ KeyAddTab
  <2>1. PICK u \in GoodStore : Put(AddTab(u, NewTab), {}) /\ IsOpen(store) /\ UNCHANGED calls
    <3>1. SaveTabState(store, ActiveTab(store), scene) \in GoodStore
      BY <1>0, SaveTabStateFacts DEF Edits
    <3> QED
      BY <1>0, <1>2, <3>1 DEF HandleAddTab, KeyAddTab, AtRest, RoomForSheet
  <2>2. \A c \in calls : c.kind # "export"
    BY <1>2, WaitedFacts, UnhurriedQuiet DEF HandleAddTab, KeyAddTab, Quiet, Renaming
  <2>3. store' = AddTab(u, NewTab)
    BY <2>1 DEF Put
  <2>4. IsOpen(store') => ActiveTab(store') = NewTab
    <3> SUFFICES ASSUME IsOpen(store') PROVE ActiveTab(store') = NewTab
      OBVIOUS
    <3>1. PICK i \in DOMAIN store'.files : store'.files[i].id = store'.active
      BY <1>0, OpenFacts
    <3>2. ActiveTab(store') = store'.files[i].tab
      BY <1>0, <3>1, OpenUnique DEF Apart
    <3>3. store'.files[i].tab = NewTab
      <4> DEFINE G(g) == [g EXCEPT !.tabs = Append(@, Tab(NewTab, {})), !.tab = NewTab]
                 fs == [j \in DOMAIN u.files |-> IF u.files[j].id = u.active THEN G(u.files[j]) ELSE u.files[j]]
      <4>1. store' = [u EXCEPT !.files = fs]
        BY <2>3 DEF AddTab, Changed
      <4>2. \A g \in GoodFile : G(g).id = g.id /\ G(g).tab = NewTab
        BY DEF GoodFile
      <4> HIDE DEF G
      <4>3. \A j \in DOMAIN fs : j \in DOMAIN u.files /\ u.files[j] \in GoodFile /\ fs[j] = IF u.files[j].id = u.active THEN G(u.files[j]) ELSE u.files[j]
        BY GoodStoreFacts
      <4> HIDE DEF fs
      <4>4. store'.files = fs /\ store'.active = u.active
        BY <4>1 DEF GoodStore
      <4> QED
        BY <3>1, <4>2, <4>3, <4>4
    <3> QED
      BY <3>2, <3>3
  <2>5. ActiveTab(store) # NewTab
    <3>1. PICK i, k : Shows(store, i, k)
      BY <1>0, <2>1, OpenShows
    <3>2. ActiveTab(store) = store.files[i].tabs[k].id /\ i \in DOMAIN store.files /\ k \in DOMAIN store.files[i].tabs
      BY <1>0, <3>1, ShowsOpen DEF Shows
    <3> QED
      BY <3>2, NewTabIsNew
  <2>6. Key(store') = Key(store) => ~IsOpen(store')
    BY <2>4, <2>5 DEF Key
  <2> QED
    BY <1>0, <2>1, <2>2, <2>6, PutScene, SceneAlone
<1>4. CASE HandleCreateFile
  <2>1. Quiet /\ CreateFile(Len(store.files) + 1, <<>>)
    BY <1>4, UnhurriedQuiet DEF HandleCreateFile
  <2>2. Len(store.files) + 1 \in Nat
    BY StoreParts
  <2>3. Chosen(Len(store.files) + 1) \in Nat
    BY <2>2, ChosenApart
  <2> QED
    BY <1>0, <2>1, <2>2, <2>3, CreateFileScene, SceneAlone DEF Quiet
<1>5. CASE ImportFile
  <2>1. Quiet
    BY <1>5, UnhurriedQuiet DEF ImportFile
  <2>2. strokes' \in 1..MaxStrokes
    BY <1>5, NextStroke DEF ImportFile
  <2> DEFINE tabs == <<Tab(NewTab, {strokes'})>>
  <2>3. CreateFile(Imported, tabs)
    BY <1>5 DEF ImportFile
  <2>4. tabs \in GoodTabs
    BY <2>2, NewIds, TabGood, OneTabGood
  <2> HIDE DEF tabs
  <2>5. Imported \in Nat /\ Chosen(Imported) \in Nat
    BY ChosenApart DEF Imported
  <2> QED
    BY <1>0, <2>1, <2>3, <2>4, <2>5, CreateFileScene, SceneAlone DEF Quiet
<1>6. CASE ImportScene
  <2> DEFINE x == {strokes'}
  <2>1. /\ Quiet /\ UNCHANGED calls /\ store' = SaveTabState(store, ActiveTab(store), x) /\ scene' = x
        /\ timer' = [tab |-> ActiveTab(store), content |-> x]
    BY <1>6, UnhurriedQuiet DEF ImportScene, LoadNative
  <2>2. x \in SUBSET (1..MaxStrokes)
    BY <1>6, NextStroke DEF ImportScene
  <2> HIDE DEF x
  <2>3. IsOpen(store') => ActiveTab(store') = ActiveTab(store) /\ Stored(store') = x
    BY <1>0, <2>1, <2>2, SavedShown
  <2>4. timer' # None
    BY <2>1, <2>2, IsTimer, StoreParts
  <2>5. Shown'
    BY <2>1, <2>3, <2>4, SceneParts
  <2> QED
    BY <2>1, <2>5, SceneAlone DEF Quiet
<1>7. CASE Login
  <2> DEFINE c == Call("load", None, Untitled, Local(store.files), <<>>)
  <2>1. /\ Quiet /\ calls' = calls \cup {c} /\ UNCHANGED <<scene, timer>>
        /\ store' = [store EXCEPT !.loading = TRUE, !.sync = "syncing"]
    BY <1>7, UnhurriedQuiet DEF Login, Calls
  <2>2. store'.active = store.active /\ store'.files = store.files
    BY <1>0, <2>1 DEF GoodStore
  <2>3. c.kind = "load"
    BY DEF Call
  <2> HIDE DEF c
  <2> QED
    BY <1>0, <2>1, <2>2, <2>3, SceneSame, SceneAlone DEF Quiet
<1>8. CASE SessionEnds
  <2> DEFINE w == ResetToGuestState(store)
             given == Unsynced \cup Work(store.pending)
  <2>1. auth /\ ~auth' /\ UNCHANGED calls /\ Put(w, given) /\ store' = w /\ w = After("expired")
    BY <1>8 DEF SessionEnds, Put, After
  <2> HIDE DEF w, given
  <2>2. \A i \in DOMAIN store'.files :
              \/ \E j \in DOMAIN store.files : store'.files[i] = store.files[j]
              \/ store'.files[i] = EmptyFile(Untitled)
    BY <2>1, FilesApart, AfterApart
  <2>3. EmptyFile(Untitled).id # store.active
    BY EmptyFileApart, NewIds, InUse DEF Untitled
  <2>4. Shown'
    BY <1>0, <2>1, <2>2, <2>3, PutOld
  <2>5. \A c \in calls' : c.kind # "export"
    BY <2>1 DEF Recorded, Interrupted, ExportsUncut
  <2> QED
    BY <2>4, <2>5, SceneAlone
<1>9. CASE Reload
  <2>1. /\ calls' = {} /\ scene' = Stored(store) /\ timer' = None
        /\ store' = [store EXCEPT !.pending = <<>>, !.loading = FALSE, !.sync = "idle"]
    BY <1>9 DEF Reload
  <2>2. store'.files = store.files /\ store'.active = store.active
    BY <1>0, <2>1 DEF GoodStore
  <2>3. Stored(store') = Stored(store)
    BY <2>2 DEF Stored, IsOpen, ActiveTab, ActiveFile
  <2> QED
    BY <2>1, <2>3, SceneParts, SceneAlone
<1> QED
  BY <1>1, <1>2, <1>4, <1>5, <1>6, <1>7, <1>8, <1>9 DEF OnFiles

\* A sequence begins as its first part does.
LEMMA JoinedFirst ==
  ASSUME NEW S, NEW s \in Seq(S), NEW t \in Seq(S)
  PROVE  /\ DOMAIN s \subseteq DOMAIN (s \o t)
         /\ \A j \in DOMAIN s : (s \o t)[j] = s[j]
OBVIOUS

LEMMA DecidedScene ==
  ASSUME WorkspaceAssumption, Patient, TypeInv, TypeInv', WaitInv, ApartInv, ApartInv', SceneInv, MigrationDecided
  PROVE  SceneInv'
<1>0. /\ store \in GoodStore /\ store' \in GoodStore /\ Apart(store.files) /\ Apart(store'.files)
      /\ Shown /\ calls = {}
  BY Around DEF SceneInv, MigrationDecided, AsksAboutFiles, WaitInv
<1>1. ASSUME Put([store EXCEPT !.files = @ \o store.pending, !.pending = <<>>, !.sync = "syncing"], {}),
             Calls(Call("migrate", None, Untitled, store.pending, <<>>))
      PROVE  SceneInv'
  <2> DEFINE c == Call("migrate", None, Untitled, store.pending, <<>>)
             all == store.files \o store.pending
             w == [store EXCEPT !.files = all, !.pending = <<>>, !.sync = "syncing"]
  <2>1. Put(w, {}) /\ store' = w /\ calls' = calls \cup {c}
    BY <1>1 DEF Put, Calls
  <2>2. c.kind = "migrate"
    BY DEF Call
  <2> HIDE DEF c
  <2>3. /\ DOMAIN store.files \subseteq DOMAIN all
        /\ \A j \in DOMAIN store.files : all[j] = store.files[j]
    <3>1. store.files \in Seq(GoodFile) /\ store.pending \in Seq(GoodFile)
      BY <1>0, StoreParts
    <3> QED
      BY <3>1, JoinedFirst, ZenonT(60)
  <2>4. IdsApart(all)
    BY DEF ApartInv, Apart
  <2> HIDE DEF all
  <2>5. store'.files = all
    BY <1>0, <2>1 DEF GoodStore
  <2> HIDE DEF w
  <2>6. ASSUME NEW i \in DOMAIN store'.files, IsOpen(store), store'.files[i].id = store.active
        PROVE  \E j \in DOMAIN store.files : store'.files[i].id = store.files[j].id /\ store'.files[i].tabs = store.files[j].tabs
    <3>1. PICK j \in DOMAIN store.files : store.files[j].id = store.active
      BY <1>0, <2>6, OpenFacts
    <3>2. i = j
      BY <2>3, <2>4, <2>5, <2>6, <3>1 DEF IdsApart
    <3> QED
      BY <2>3, <2>5, <3>1, <3>2
  <2>7. Shown'
    BY <1>0, <2>1, <2>6, PutOld
  <2> QED
    BY <1>0, <2>1, <2>2, <2>7, SceneAlone
<1>2. ASSUME Put([store EXCEPT !.pending = <<>>], Work(store.pending)), UNCHANGED calls
      PROVE  SceneInv'
  <2> DEFINE w == [store EXCEPT !.pending = <<>>]
             given == Work(store.pending)
  <2>1. Put(w, given) /\ store' = w
    BY <1>2 DEF Put
  <2>2. store'.files = store.files
    BY <1>0, <2>1 DEF GoodStore
  <2> HIDE DEF w, given
  <2>3. Shown'
    BY <1>0, <2>1, <2>2, PutOld
  <2> QED
    BY <1>0, <1>2, <2>3, SceneAlone
<1> QED
  BY <1>1, <1>2 DEF MigrationDecided

\* The files in which the caller goes on.
LEMMA AfterOld ==
  ASSUME WorkspaceAssumption, TypeInv, ApartInv, NEW how
  PROVE  \A i \in DOMAIN After(how).files :
           IsOpen(store) /\ After(how).files[i].id = store.active =>
             \E j \in DOMAIN store.files : After(how).files[i] = store.files[j]
<1>1. \A i \in DOMAIN After(how).files :
              \/ \E j \in DOMAIN store.files : After(how).files[i] = store.files[j]
              \/ After(how).files[i] = EmptyFile(Untitled)
  BY FilesApart, AfterApart
<1>2. EmptyFile(Untitled).id # store.active
  BY EmptyFileApart, NewIds, InUse DEF Untitled
<1> QED
  BY <1>1, <1>2

LEMMA CreateAnswerScene ==
  ASSUME WorkspaceAssumption, Patient, TypeInv, WaitInv, NEW c \in calls, NEW how, CreateAnswer(c, how)
  PROVE  Shown'
<1> DEFINE id == IF how = "expired" THEN Fresh(1, UsedIds \cup Ids(After(how).files))[1]
                 ELSE Fresh(2, UsedIds)[IF how = "lost" THEN 2 ELSE 1]
           f == File(id, c.name, how = "good", <<Tab(Fresh(2, UsedTabs)[2], {})>>)
           w == Created(After(how), f)
           v == IF c.tabs = <<>> THEN w ELSE LoadFromFile(w, c.tabs)
<1>1. Put(v, Taken(how)) /\ store' = v
  BY DEF CreateAnswer, Put
<1>2. id \in Nat /\ id \notin UsedIds
  BY MadeFacts
<1> HIDE DEF id
<1>3. f.id = id
  BY DEF File
<1>4. After(how) \in GoodStore
  BY AfterFacts
<1>5. f \in GoodFile
  <2> DEFINE t == Fresh(2, UsedTabs)[2]
             isCloud == how = "good"
             n == c.name
  <2>1. n \in Nat /\ isCloud \in BOOLEAN
    BY CallParts
  <2>2. <<Tab(t, {})>> \in GoodTabs
    BY MadeFacts
  <2>3. f = File(id, n, isCloud, <<Tab(t, {})>>)
    OBVIOUS
  <2> HIDE DEF f, t, isCloud, n
  <2> QED
    BY <1>2, <2>1, <2>2, <2>3, FileGood
<1> HIDE DEF f
<1>6. w \in GoodStore /\ w.active = id
  <2> DEFINE u == After(how)
  <2>1. w = Created(u, f) /\ u \in GoodStore
    BY <1>4
  <2> HIDE DEF u, w
  <2> QED
    BY <1>3, <1>5, <2>1, CreatedFacts
<1> HIDE DEF w
<1>7. v.active = id
  <2>1. CASE c.tabs = <<>>
    BY <1>6, <2>1
  <2>2. CASE c.tabs # <<>>
    <3>1. v = LoadFromFile(w, c.tabs) /\ c.tabs \in GoodTabs
      BY <2>2, CallParts
    <3> HIDE DEF v
    <3> QED
      BY <1>6, <3>1, LoadFromFileFacts DEF Edits
  <2> QED
    BY <2>1, <2>2
<1> HIDE DEF v
<1> QED
  BY <1>1, <1>2, <1>7, NewlyOpen, InUse

LEMMA RenameAnswerScene ==
  ASSUME WorkspaceAssumption, TypeInv, TypeInv', ApartInv, ApartInv', Shown, NEW c \in calls, NEW how, RenameAnswer(c, how)
  PROVE  Shown' /\ (how # "expired" => Key(store') = Key(store) /\ UNCHANGED scene)
<1>0. store \in GoodStore /\ store' \in GoodStore /\ Apart(store.files) /\ Apart(store'.files)
  BY Around
<1> DEFINE u == After(how)
           w == Renamed(u, c.id, c.name)
<1>1. Put(w, Taken(how)) /\ store' = w
  BY DEF RenameAnswer, Put
<1>2. u \in GoodStore /\ c.name \in Nat
  BY AfterFacts, CallParts
<1>3. \A i \in DOMAIN u.files : IsOpen(store) /\ u.files[i].id = store.active => \E j \in DOMAIN store.files : u.files[i] = store.files[j]
  BY AfterOld
<1> HIDE DEF u
<1>4. /\ DOMAIN w.files = DOMAIN u.files /\ w.active = u.active
      /\ \A i \in DOMAIN u.files :
           w.files[i].id = u.files[i].id /\ w.files[i].tabs = u.files[i].tabs /\ w.files[i].tab = u.files[i].tab
  BY <1>2, RenamedFacts
<1> HIDE DEF w
<1>6. how # "expired" => Key(store') = Key(store)
  <2> SUFFICES ASSUME how # "expired" PROVE Key(store') = Key(store)
    OBVIOUS
  <2>1. u = store
    BY DEF u, After
  <2> QED
    BY <1>0, <1>1, <1>4, <2>1, SameKey
<1>5. \A i \in DOMAIN store'.files :
           IsOpen(store) /\ store'.files[i].id = store.active =>
             \E j \in DOMAIN store.files : store'.files[i].id = store.files[j].id /\ store'.files[i].tabs = store.files[j].tabs
  BY <1>1, <1>3, <1>4
<1>7. Shown'
  BY <1>0, <1>1, <1>5, PutOld
<1> QED
  BY <1>1, <1>6, <1>7 DEF Put

\* The files that a call has read are still those of their ids.
LEMMA ReadFiles ==
  ASSUME WorkspaceAssumption, TypeInv, ApartInv, NEW c \in calls, c.kind \in {"delete", "load"}
  PROVE  /\ Apart(c.files)
         /\ \A j \in DOMAIN c.files :
              IsOpen(store) /\ c.files[j].id = store.active => \E i \in DOMAIN store.files : c.files[j] = store.files[i]
<1>1. CallApart(c, store.files, cloud)
  BY DEF ApartInv
<1>2. Apart(c.files)
  BY <1>1 DEF CallApart
<1>3. IsOpen(store) => \E i \in DOMAIN store.files : store.files[i].id = store.active
  BY StoreParts, OpenFacts
<1>4. \A i \in DOMAIN store.files, j \in DOMAIN c.files : store.files[i].id = c.files[j].id => store.files[i] = c.files[j]
  BY <1>1 DEF CallApart
<1> QED
  BY <1>2, <1>3, <1>4

LEMMA DeleteAnswerScene ==
  ASSUME WorkspaceAssumption, TypeInv, TypeInv', ApartInv, ApartInv', Shown, NEW c \in calls, NEW how, DeleteAnswer(c, how)
  PROVE  Shown'
<1>0. store \in GoodStore /\ store' \in GoodStore /\ Apart(store.files) /\ Apart(store'.files)
  BY Around
<1> DEFINE u == After(how)
           fs == c.files
           w == Deleted(u, fs, c.active, c.id)
<1>1. Put(w, Taken(how)) /\ store' = w
  BY DEF DeleteAnswer, Put
<1>2. u \in GoodStore /\ fs \in Seq(GoodFile) /\ c.active \in Nat
  BY AfterFacts, CallParts
<1>3. \A i \in DOMAIN u.files : IsOpen(store) /\ u.files[i].id = store.active => \E j \in DOMAIN store.files : u.files[i] = store.files[j]
  BY AfterOld
<1>6. /\ Apart(fs)
      /\ \A j \in DOMAIN fs : IsOpen(store) /\ fs[j].id = store.active => \E i \in DOMAIN store.files : fs[j] = store.files[i]
  BY ReadFiles DEF DeleteAnswer
<1> HIDE DEF u, fs
<1>4. w = u \/ w.files = Without(fs, c.id)
  BY <1>2, DeletedFacts
<1> HIDE DEF w
<1>5. \A i \in DOMAIN store'.files :
           IsOpen(store) /\ store'.files[i].id = store.active =>
             \E j \in DOMAIN store.files : store'.files[i].id = store.files[j].id /\ store'.files[i].tabs = store.files[j].tabs
  <2>1. CASE w = u
    BY <1>1, <1>3, <2>1
  <2>2. CASE w.files = Without(fs, c.id)
    <3>1. \A i \in DOMAIN w.files : \E j \in DOMAIN fs : w.files[i] = fs[j]
      BY <1>6, <2>2, WithoutApart
    <3> QED
      BY <1>1, <1>6, <3>1
  <2> QED
    BY <1>4, <2>1, <2>2
<1> QED
  BY <1>0, <1>1, <1>5, PutOld

LEMMA LoadedScene ==
  ASSUME WorkspaceAssumption, TypeInv, TypeInv', ApartInv, ApartInv', Shown,
         NEW bare, NEW locals, Apart(locals),
         \A j \in DOMAIN locals : IsOpen(store) /\ locals[j].id = store.active => \E i \in DOMAIN store.files : locals[j] = store.files[i],
         NEW v, Put(v, {}), v.files # <<>>, v.active = v.files[1].id,
         cloud = <<>> /\ locals # <<>> => v.files = locals /\ v.pending = <<>>,
         cloud = <<>> /\ locals = <<>> => v.files = <<EmptyFile(Untitled)>> /\ v.pending = <<>>,
         cloud # <<>> => v.files = CloudFiles(bare) /\ v.pending = locals
  PROVE  Shown'
<1>0. /\ store \in GoodStore /\ store' \in GoodStore /\ Apart(store.files) /\ Apart(store'.files) /\ store' = v
      /\ v.files \in Seq(GoodFile)
  BY Around, GoodStoreFacts DEF Put
<1>1. CASE cloud = <<>> /\ locals # <<>>
  <2>1. \A i \in DOMAIN store'.files :
           IsOpen(store) /\ store'.files[i].id = store.active => \E j \in DOMAIN store.files : store'.files[i] = store.files[j]
    BY <1>0, <1>1
  <2> QED
    BY <1>0, <2>1, PutOld
<1>2. CASE cloud = <<>> /\ locals = <<>>
  <2> DEFINE e == EmptyFile(Untitled)
  <2>1. e.id # store.active
    BY EmptyFileApart, NewIds, InUse DEF Untitled
  <2>2. v.files = <<e>>
    BY <1>2
  <2> HIDE DEF e
  <2>3. v.active = e.id
    BY <2>2
  <2> QED
    BY <1>0, <2>1, <2>3, NewlyOpen
<1>3. CASE cloud # <<>>
  <2>1. v.files = CloudFiles(bare)
    BY <1>3
  <2>2. 1 \in DOMAIN v.files /\ DOMAIN CloudFiles(bare) = DOMAIN cloud
    BY <1>0, CloudFilesFacts, SomeFirst
  <2>3. v.files[1] \in GoodFile
    BY <1>0, <2>2
  <2>4. 1 \in DOMAIN v.files[1].tabs
    BY <2>3, GoodFileFacts, GoodTabsFacts
  <2>5. v.files[1].tab = v.files[1].tabs[1].id /\ v.files[1].tabs[1].id \notin UsedTabs
    BY <2>1, <2>2, <2>4, CloudFilesFacts
  <2>6. ActiveTab(store') = v.files[1].tab
    BY <1>0, <2>2, OpenUnique DEF Apart
  <2>7. IsOpen(store) => ActiveTab(store) \in UsedTabs
    <3> SUFFICES ASSUME IsOpen(store) PROVE ActiveTab(store) \in UsedTabs
      OBVIOUS
    <3>1. PICK i, k : Shows(store, i, k)
      BY <1>0, OpenShows
    <3>2. ActiveTab(store) = store.files[i].tabs[k].id /\ i \in DOMAIN store.files /\ k \in DOMAIN store.files[i].tabs
      BY <1>0, <3>1, ShowsOpen DEF Shows
    <3> QED
      BY <3>2, InUse
  <2>8. Key(store') = Key(store) => ~IsOpen(store')
    <3> SUFFICES ASSUME Key(store') = Key(store), IsOpen(store') PROVE FALSE
      OBVIOUS
    <3>1. ActiveTab(store) = ActiveTab(store') /\ IsOpen(store)
      BY <1>0, KeyOpen
    <3> QED
      BY <2>5, <2>6, <2>7, <3>1
  <2> QED
    BY <1>0, <2>8, PutScene
<1> QED
  BY <1>1, <1>2, <1>3

LEMMA LoadAnswerScene ==
  ASSUME WorkspaceAssumption, TypeInv, TypeInv', ApartInv, ApartInv', Shown, NEW c \in calls, NEW how, LoadAnswer(c, how)
  PROVE  Shown'
<1>0. store \in GoodStore /\ store' \in GoodStore /\ Apart(store.files) /\ Apart(store'.files)
  BY Around
<1>2. CASE how = "good"
  <2>0. PICK bare \in SUBSET DOMAIN cloud : Put(Loaded(store, c.files, bare), {})
    BY <1>2 DEF LoadAnswer
  <2> DEFINE locals == c.files
             v == Loaded(store, locals, bare)
  <2>1. Put(v, {})
    BY <2>0
  <2>2. /\ Apart(locals)
        /\ \A j \in DOMAIN locals : IsOpen(store) /\ locals[j].id = store.active => \E i \in DOMAIN store.files : locals[j] = store.files[i]
    BY ReadFiles DEF LoadAnswer
  <2>3. HasLoaded(v, locals, bare)
    BY CallParts, LoadedFacts
  <2> HIDE DEF v, locals
  <2>4. /\ v.files # <<>> /\ v.active = v.files[1].id
        /\ cloud = <<>> /\ locals # <<>> => v.files = locals /\ v.pending = <<>>
        /\ cloud = <<>> /\ locals = <<>> => v.files = <<EmptyFile(Untitled)>> /\ v.pending = <<>>
        /\ cloud # <<>> => v.files = CloudFiles(bare) /\ v.pending = locals
    BY <2>3 DEF HasLoaded
  <2> QED
    BY <2>1, <2>2, <2>4, LoadedScene
<1>3. CASE how # "good"
  <2> DEFINE u == After(how)
             w == [u EXCEPT !.loading = FALSE, !.sync = "error"]
  <2>1. Put(w, Taken(how)) /\ store' = w
    BY <1>3 DEF LoadAnswer, Put
  <2>2. u \in GoodStore
    BY AfterFacts
  <2>3. \A i \in DOMAIN u.files : IsOpen(store) /\ u.files[i].id = store.active => \E j \in DOMAIN store.files : u.files[i] = store.files[j]
    BY AfterOld
  <2> HIDE DEF u
  <2>4. w.files = u.files
    BY <2>2 DEF GoodStore
  <2> HIDE DEF w
  <2>5. \A i \in DOMAIN store'.files :
           IsOpen(store) /\ store'.files[i].id = store.active =>
             \E j \in DOMAIN store.files : store'.files[i].id = store.files[j].id /\ store'.files[i].tabs = store.files[j].tabs
    BY <2>1, <2>3, <2>4
  <2> QED
    BY <1>0, <2>1, <2>5, PutOld
<1> QED
  BY <1>2, <1>3

LEMMA MigrateAnswerScene ==
  ASSUME WorkspaceAssumption, TypeInv, TypeInv', ApartInv, ApartInv', Shown, NEW c \in calls, NEW how, MigrateAnswer(c, how)
  PROVE  Shown'
<1>0. store \in GoodStore /\ store' \in GoodStore /\ Apart(store.files) /\ Apart(store'.files)
  BY Around
<1>1. PICK up : Uploaded(up) /\ Put(IF how = "good" THEN Migrated(store, up) ELSE After(how), Taken(how))
  BY MigrateAnswerFacts, Zenon
<1>2. up \in Seq(AccountFile) /\ \A k \in DOMAIN up : up[k].id \notin UsedIds
  BY <1>1 DEF Uploaded
<1>3. CASE how = "good"
  <2> DEFINE w == Migrated(store, up)
  <2>1. Put(w, Taken(how)) /\ store' = w
    BY <1>1, <1>3 DEF Put
  <2>2. /\ DOMAIN w.files = DOMAIN store.files
        /\ \A i \in DOMAIN store.files :
             /\ w.files[i].tabs = store.files[i].tabs
             /\ w.files[i] = store.files[i] \/ \E k \in DOMAIN up : w.files[i].id = up[k].id
    BY <1>0, <1>2, MigratedFacts
  <2> HIDE DEF w
  <2>3. store.active \in UsedIds
    BY InUse
  <2>4. \A i \in DOMAIN store'.files :
           IsOpen(store) /\ store'.files[i].id = store.active =>
             \E j \in DOMAIN store.files : store'.files[i].id = store.files[j].id /\ store'.files[i].tabs = store.files[j].tabs
    BY <1>2, <2>1, <2>2, <2>3
  <2> QED
    BY <1>0, <2>1, <2>4, PutOld
<1>4. CASE how # "good"
  <2> DEFINE u == After(how)
  <2>1. Put(u, Taken(how)) /\ store' = u
    BY <1>1, <1>4 DEF Put
  <2>3. \A i \in DOMAIN u.files : IsOpen(store) /\ u.files[i].id = store.active => \E j \in DOMAIN store.files : u.files[i] = store.files[j]
    BY AfterOld
  <2> HIDE DEF u
  <2> QED
    BY <1>0, <2>1, <2>3, PutOld
<1> QED
  BY <1>3, <1>4

LEMMA ExportAnswerScene ==
  ASSUME WorkspaceAssumption, TypeInv, TypeInv', ApartInv, ApartInv', SceneInv, NEW c \in calls, ExportAnswer(c)
  PROVE  Shown'
<1>0. /\ store \in GoodStore /\ store' \in GoodStore /\ Apart(store.files) /\ Apart(store'.files) /\ Shown
      /\ scene \in SUBSET (1..MaxStrokes)
  BY Around, StoreParts DEF SceneInv
<1>1. (IF <<c.active, c.id>> = Key(store) THEN scene ELSE {}) = scene
  BY DEF SceneInv, ExportAnswer, Exporting
<1> DEFINE w == SaveTabState(store, ActiveTab(store), scene)
<1>2. Put(w, {}) /\ store' = w
  BY <1>1 DEF ExportAnswer, Put
<1>3. IsOpen(w) => Stored(w) = scene
  BY <1>0, <1>2, SavedShown
<1> HIDE DEF w
<1> QED
  BY <1>0, <1>2, <1>3, PutScene

LEMMA AnswersScene ==
  ASSUME WorkspaceAssumption, Patient, TypeInv, TypeInv', WaitInv, ApartInv, ApartInv', SceneInv, Answers,
         Recorded, ExportsUncut'
  PROVE  SceneInv'
<1>1. PICK c \in calls :
          \/ ExportAnswer(c)
          \/ \E how \in {"good", "failed", "lost", "expired"} :
               \/ CreateAnswer(c, how) \/ RenameAnswer(c, how) \/ DeleteAnswer(c, how)
               \/ LoadAnswer(c, how) \/ MigrateAnswer(c, how)
  BY Zenon DEF Answers
<1>2. /\ ~Slight(c) => calls \ {c} = {}
      /\ Exporting(c) => \A d \in calls \ {c} : Renaming(d)
      /\ Shown
  BY AnsweredAlone DEF SceneInv
<1>3. CASE ExportAnswer(c)
  <2>1. \A d \in calls' : d.kind # "export"
    BY <1>2, <1>3 DEF ExportAnswer, Exporting, Renaming
  <2> QED
    BY <1>3, <2>1, ExportAnswerScene, SceneAlone
<1>4. ASSUME NEW how, CreateAnswer(c, how) \/ DeleteAnswer(c, how) \/ MigrateAnswer(c, how)
      PROVE  SceneInv'
  <2>1. calls' = {}
    BY <1>2, <1>4 DEF CreateAnswer, DeleteAnswer, MigrateAnswer, Answered, Slight, Renaming, Exporting
  <2>2. Shown'
    BY <1>2, <1>4, CreateAnswerScene, DeleteAnswerScene, MigrateAnswerScene
  <2> QED
    BY <2>1, <2>2, SceneAlone
<1>5. ASSUME NEW how, LoadAnswer(c, how) PROVE SceneInv'
  <2>1. \A d \in calls' : d.kind # "export"
    <3> DEFINE d == Call("migrate", None, Untitled, c.files, <<>>)
    <3>1. calls' \subseteq {d}
      BY <1>2, <1>5 DEF LoadAnswer, Slight, Renaming, Exporting
    <3>2. d.kind = "migrate"
      BY DEF Call
    <3> HIDE DEF d
    <3> QED
      BY <3>1, <3>2
  <2>2. Shown'
    BY <1>2, <1>5, LoadAnswerScene
  <2> QED
    BY <2>1, <2>2, SceneAlone
<1>6. ASSUME NEW how, RenameAnswer(c, how) PROVE SceneInv'
  <2>1. Shown' /\ (how # "expired" => Key(store') = Key(store) /\ UNCHANGED scene)
    BY <1>2, <1>6, RenameAnswerScene
  <2>2. calls' \subseteq calls /\ auth' = (auth /\ how # "expired") /\ how \in Outcomes
    BY <1>6 DEF RenameAnswer, Answered
  <2>3. CASE how # "expired"
    BY <2>1, <2>2, <2>3, SceneStays
  <2>4. CASE how = "expired"
    <3>1. auth /\ ~auth'
      BY <2>2, <2>4 DEF Outcomes
    <3>2. \A d \in calls' : d.kind # "export"
      BY <3>1 DEF Recorded, Interrupted, ExportsUncut
    <3> QED
      BY <2>1, <3>2, SceneAlone
  <2> QED
    BY <2>3, <2>4
<1> QED
  BY <1>1, <1>3, <1>4, <1>5, <1>6, Zenon

LEMMA SceneInvNext ==
  ASSUME WorkspaceAssumption, Patient, ~Reuse, ~ExportsOthers, TypeInv, TypeInv', WaitInv, ApartInv, ApartInv',
         ExportsUncut => SceneInv, [Next]_wvars
  PROVE  (ExportsUncut => SceneInv)'
<1>1. CASE UNCHANGED wvars
  <2> SUFFICES ASSUME ExportsUncut' PROVE SceneInv'
    OBVIOUS
  <2>1. SceneInv
    BY <1>1 DEF wvars, ExportsUncut
  <2>2. Shown'
    BY <1>1, <2>1, SceneSame DEF wvars, SceneInv
  <2>3. Key(store') = Key(store) /\ UNCHANGED <<scene, calls>>
    BY <1>1 DEF wvars
  <2> QED
    BY <2>1, <2>2, <2>3, SceneStays
<1> SUFFICES ASSUME Next, ExportsUncut' PROVE SceneInv'
  BY <1>1
<1>2. Recorded
  BY DEF Next
<1>3. SceneInv
  BY <1>2, CutGrows DEF ExportsUncut
<1> QED
  BY <1>2, <1>3, OnSheetsScene, OnFilesScene, AnswersScene, DecidedScene DEF Next

LEMMA SceneInvInit ==
  ASSUME WorkspaceAssumption, Init
  PROVE  SceneInv
<1>1. TypeInv /\ ApartInv
  BY TypeInvInit, ApartInvInit
<1>2. store \in GoodStore /\ Apart(store.files)
  BY <1>1, StoreParts, FilesApart
<1>3. scene = {} /\ timer = None /\ calls = {} /\ \A i \in DOMAIN store.files : \A k \in DOMAIN store.files[i].tabs : store.files[i].tabs[k].content = {}
  BY DEF Init, File, Tab
<1>4. IsOpen(store) => Stored(store) = {}
  <2> SUFFICES ASSUME IsOpen(store) PROVE Stored(store) = {}
    OBVIOUS
  <2>1. PICK i, k : Shows(store, i, k)
    BY <1>2, OpenShows
  <2> QED
    BY <1>2, <1>3, <2>1, ShowsOpen DEF Shows
<1> QED
  BY <1>3, <1>4 DEF SceneInv, Shown

\* The canvas shows the sheet that is open, and a pending save is of that sheet,
\* when nobody exports a file that is not open and has strokes, and no session ends
\* under an export.
THEOREM WorkspaceScene ==
  ASSUME WorkspaceAssumption, Patient, ~Reuse, ~ExportsOthers
  PROVE  Spec => []SceneMatchesSheet
<1> DEFINE Inv == TypeInv /\ WaitInv /\ ApartInv /\ (ExportsUncut => SceneInv)
<1>1. Init => Inv
  BY TypeInvInit, ApartInvInit, SceneInvInit DEF Init, WaitInv
<1>2. Inv /\ [Next]_wvars => Inv'
  <2> SUFFICES ASSUME Inv, [Next]_wvars PROVE Inv'
    OBVIOUS
  <2>1. TypeInv' /\ WaitInv'
    BY TypeInvNext, WaitInvNext
  <2>2. ApartInv'
    BY <2>1, ApartInvNext
  <2> QED
    BY <2>1, <2>2, SceneInvNext
<1>3. Inv => SceneMatchesSheet
  BY DEF SceneInv, Shown, SceneMatchesSheet, ExportsUncut
<1> QED
  BY <1>1, <1>2, <1>3, PTL DEF Spec

-----------------------------------------------------------------------------
(* What is kept. *)

\* Nothing that is picked is lost.
LEMMA WithKept ==
  ASSUME NEW S, NEW s \in Seq(S), NEW id, NEW i \in DOMAIN s, s[i].id = id
  PROVE  \E k \in DOMAIN With(s, id) : With(s, id)[k] = s[i]
<1>1. \A j \in DOMAIN s : s[j].id = id => \E k \in DOMAIN With(s, id) : With(s, id)[k] = s[j]
  BY WithFacts, SMT
<1> QED
  BY <1>1

LEMMA PickKept ==
  ASSUME NEW S, NEW s \in Seq(S), NEW I \in SUBSET DOMAIN s, NEW i \in I
  PROVE  \E k \in DOMAIN Pick(s, I) : Pick(s, I)[k] = s[i]
<1>1. /\ \A k \in DOMAIN Pick(s, I) : Nth(I, k) \in I /\ Pick(s, I)[k] = s[Nth(I, k)]
      /\ \A j \in I : \E k \in DOMAIN Pick(s, I) : Nth(I, k) = j
  BY PickFacts, SMT
<1> QED
  BY <1>1

LEMMA FilesKept ==
  ASSUME NEW fs, NEW gs, NEW G,
         \A i \in DOMAIN fs : \A k \in DOMAIN fs[i].tabs :
           fs[i].tabs[k].content \subseteq Work(gs) \cup G
  PROVE  Work(fs) \subseteq Work(gs) \cup G
<1> SUFFICES ASSUME NEW x \in Work(fs) PROVE x \in Work(gs) \cup G
  OBVIOUS
<1>1. PICK i \in DOMAIN fs : x \in TabsWork(fs[i].tabs)
  BY DEF Work
<1>2. PICK k \in DOMAIN fs[i].tabs : x \in fs[i].tabs[k].content
  BY <1>1 DEF TabsWork
<1> QED
  BY <1>2

\* A sheet's content is part of its file's.
LEMMA SheetWork ==
  ASSUME NEW gs, NEW j \in DOMAIN gs, NEW l \in DOMAIN gs[j].tabs
  PROVE  gs[j].tabs[l].content \subseteq Work(gs)
<1> SUFFICES ASSUME NEW x \in gs[j].tabs[l].content PROVE x \in Work(gs)
  OBVIOUS
<1>1. x \in TabsWork(gs[j].tabs)
  BY DEF TabsWork
<1> QED
  BY <1>1 DEF Work

\* Every file is still there with its sheets, or was given up.
LEMMA SameKept ==
  ASSUME NEW fs, NEW gs, NEW G,
         \A i \in DOMAIN fs : (\E j \in DOMAIN gs : gs[j].tabs = fs[i].tabs) \/ TabsWork(fs[i].tabs) \subseteq G
  PROVE  Work(fs) \subseteq Work(gs) \cup G
<1> SUFFICES ASSUME NEW x \in Work(fs) PROVE x \in Work(gs) \cup G
  OBVIOUS
<1>1. PICK i \in DOMAIN fs : x \in TabsWork(fs[i].tabs)
  BY DEF Work
<1>2. CASE TabsWork(fs[i].tabs) \subseteq G
  BY <1>1, <1>2
<1>3. CASE \E j \in DOMAIN gs : gs[j].tabs = fs[i].tabs
  <2>1. PICK j \in DOMAIN gs : gs[j].tabs = fs[i].tabs
    BY <1>3
  <2>2. x \in TabsWork(gs[j].tabs)
    BY <1>1, <2>1
  <2> QED
    BY <2>2 DEF Work
<1> QED
  BY <1>2, <1>3

LEMMA NoWork == Work(<<>>) = {}
BY DEF Work

LEMMA JoinedWork ==
  ASSUME NEW fs \in Seq(GoodFile), NEW gs \in Seq(GoodFile)
  PROVE  Work(fs) \subseteq Work(fs \o gs) /\ Work(gs) \subseteq Work(fs \o gs)
<1> DEFINE all == fs \o gs
<1>1. \A i \in DOMAIN fs : i \in DOMAIN all /\ all[i] = fs[i]
  OBVIOUS
<1>2. \A i \in DOMAIN gs : i + Len(fs) \in DOMAIN all /\ all[i + Len(fs)] = gs[i]
  OBVIOUS
<1> HIDE DEF all
<1>3. Work(fs) \subseteq Work(all) \cup {}
  BY <1>1, SameKept
<1>4. Work(gs) \subseteq Work(all) \cup {}
  BY <1>2, SameKept
<1> QED
  BY <1>3, <1>4 DEF all

LEMMA JoinedAccount ==
  ASSUME NEW fs \in Seq(AccountFile), NEW gs \in Seq(AccountFile)
  PROVE  Work(fs) \subseteq Work(fs \o gs)
<1> DEFINE all == fs \o gs
<1>1. \A i \in DOMAIN fs : i \in DOMAIN all /\ all[i] = fs[i]
  OBVIOUS
<1> HIDE DEF all
<1>3. Work(fs) \subseteq Work(all) \cup {}
  BY <1>1, SameKept
<1> QED
  BY <1>3 DEF all

LEMMA WithoutKept ==
  ASSUME NEW S, NEW s \in Seq(S), NEW id
  PROVE  Work(s) \subseteq Work(Without(s, id)) \cup Work(With(s, id))
<1> DEFINE r == Without(s, id)
           w == With(s, id)
<1>1. \E f \in [DOMAIN r -> DOMAIN s] :
        /\ \A k \in DOMAIN r : r[k] = s[f[k]]
        /\ \A i \in DOMAIN s : s[i].id # id => \E k \in DOMAIN r : f[k] = i
  BY WithoutFacts, SMTT(30)
<1>2. \A i \in DOMAIN s : s[i].id = id => \E k \in DOMAIN w : w[k] = s[i]
  BY WithKept
<1> HIDE DEF r, w
<1>3. \A i \in DOMAIN s : s[i].id # id => \E k \in DOMAIN r : r[k] = s[i]
  BY <1>1
<1>4. ASSUME NEW i \in DOMAIN s, s[i].id = id PROVE TabsWork(s[i].tabs) \subseteq Work(w)
  <2>1. PICK k \in DOMAIN w : w[k] = s[i]
    BY <1>2, <1>4
  <2> QED
    BY <2>1 DEF Work
<1>5. Work(s) \subseteq Work(r) \cup Work(w)
  BY <1>3, <1>4, SameKept
<1> QED
  BY <1>5 DEF r, w

\* The files of an account, which a session leaves behind.
LEMMA LocalKept ==
  ASSUME NEW s \in Seq(GoodFile)
  PROVE  Work(s) \subseteq Work(Local(s)) \cup Work(Pick(s, {i \in DOMAIN s : s[i].cloud}))
<1> DEFINE r == Local(s)
           I == {i \in DOMAIN s : s[i].cloud}
           w == Pick(s, I)
<1>1. \E f \in [DOMAIN r -> DOMAIN s] :
        /\ \A k \in DOMAIN r : r[k] = s[f[k]]
        /\ \A i \in DOMAIN s : ~s[i].cloud => \E k \in DOMAIN r : f[k] = i
  BY LocalFacts
<1>2. I \in SUBSET DOMAIN s
  OBVIOUS
<1>3. \A i \in I : \E k \in DOMAIN w : w[k] = s[i]
  <2> HIDE DEF I
  <2> QED
    BY <1>2, PickKept
<1> HIDE DEF r, w
<1>4. \A i \in DOMAIN s : ~s[i].cloud => \E k \in DOMAIN r : r[k] = s[i]
  BY <1>1
<1>5. ASSUME NEW i \in DOMAIN s, s[i].cloud PROVE TabsWork(s[i].tabs) \subseteq Work(w)
  <2>1. PICK k \in DOMAIN w : w[k] = s[i]
    BY <1>3, <1>5
  <2> QED
    BY <2>1 DEF Work
<1>6. Work(s) \subseteq Work(r) \cup Work(w)
  BY <1>4, <1>5, SameKept
<1> QED
  BY <1>6 DEF r, w

LEMMA AllLocalKept ==
  ASSUME NEW s \in Seq(GoodFile), AllLocal(s)
  PROVE  Work(s) \subseteq Work(Local(s))
<1> DEFINE r == Local(s)
<1>1. \E f \in [DOMAIN r -> DOMAIN s] :
        /\ \A k \in DOMAIN r : r[k] = s[f[k]]
        /\ \A i \in DOMAIN s : ~s[i].cloud => \E k \in DOMAIN r : f[k] = i
  BY LocalFacts
<1> HIDE DEF r
<1>2. \A i \in DOMAIN s : \E k \in DOMAIN r : r[k] = s[i]
  BY <1>1 DEF AllLocal
<1>3. Work(s) \subseteq Work(r) \cup {}
  BY <1>2, SameKept
<1> QED
  BY <1>3 DEF r

-----------------------------------------------------------------------------
\* Only the open file changes.
LEMMA EditsKept ==
  ASSUME NEW w \in GoodStore, NEW v, Edits(w, v), NEW G,
         \A i \in DOMAIN w.files : w.files[i].id = w.active =>
           \A k \in DOMAIN w.files[i].tabs : w.files[i].tabs[k].content \subseteq TabsWork(v.files[i].tabs) \cup G
  PROVE  Work(w.files) \subseteq Work(v.files) \cup G
<1> DEFINE fs == w.files
           gs == v.files
<1>1. DOMAIN gs = DOMAIN fs /\ \A i \in DOMAIN fs : fs[i].id # w.active => gs[i] = fs[i]
  BY DEF Edits
<1>2. ASSUME NEW i \in DOMAIN fs, NEW k \in DOMAIN fs[i].tabs
      PROVE  fs[i].tabs[k].content \subseteq Work(gs) \cup G
  <2>1. CASE fs[i].id = w.active
    <3>1. fs[i].tabs[k].content \subseteq TabsWork(gs[i].tabs) \cup G
      BY <2>1
    <3> HIDE DEF fs, gs
    <3>2. TabsWork(gs[i].tabs) \subseteq Work(gs)
      BY <1>1 DEF Work
    <3> QED
      BY <3>1, <3>2
  <2>2. CASE fs[i].id # w.active
    <3>1. gs[i] = fs[i] /\ i \in DOMAIN gs
      BY <1>1, <2>2
    <3> HIDE DEF fs, gs
    <3>2. gs[i].tabs[k].content \subseteq Work(gs)
      BY <3>1, SheetWork
    <3> QED
      BY <3>1, <3>2
  <2> QED
    BY <2>1, <2>2
<1> HIDE DEF fs, gs
<1>3. Work(fs) \subseteq Work(gs) \cup G
  BY <1>2, FilesKept
<1> QED
  BY <1>3 DEF fs, gs

\* A save of the open sheet replaces what is stored of it.
LEMMA SavedKept ==
  ASSUME NEW w \in GoodStore, Apart(w.files), NEW x \in SUBSET (1..MaxStrokes), NEW v, v = SaveTabState(w, ActiveTab(w), x),
         NEW G, Stored(w) \subseteq x \cup G
  PROVE  Work(w.files) \subseteq Work(v.files) \cup G
<1> DEFINE a == ActiveTab(w)
<1>1. /\ Edits(w, v)
      /\ \A i \in DOMAIN w.files :
           w.files[i].id = w.active =>
             /\ DOMAIN v.files[i].tabs = DOMAIN w.files[i].tabs
             /\ \A k \in DOMAIN w.files[i].tabs :
                  v.files[i].tabs[k] = IF w.files[i].tabs[k].id = a THEN Tab(a, x) ELSE w.files[i].tabs[k]
  BY SaveTabStateFacts
<1>2. ASSUME NEW i \in DOMAIN w.files, w.files[i].id = w.active, NEW k \in DOMAIN w.files[i].tabs
      PROVE  w.files[i].tabs[k].content \subseteq TabsWork(v.files[i].tabs) \cup G
  <2>1. ActiveTab(w) = w.files[i].tab
    BY <1>2, OpenUnique DEF Apart
  <2>2. CASE w.files[i].tabs[k].id = a
    <3>1. Shows(w, i, k)
      BY <1>2, <2>1, <2>2 DEF Shows
    <3>2. Stored(w) = w.files[i].tabs[k].content
      BY <3>1, ShowsOpen
    <3>3. v.files[i].tabs[k].content = x
      BY <1>1, <1>2, <2>2 DEF Tab
    <3>4. x \subseteq TabsWork(v.files[i].tabs)
      BY <1>1, <1>2, <3>3 DEF TabsWork
    <3> QED
      BY <3>2, <3>4
  <2>3. CASE w.files[i].tabs[k].id # a
    <3>1. v.files[i].tabs[k] = w.files[i].tabs[k] /\ k \in DOMAIN v.files[i].tabs
      BY <1>1, <1>2, <2>3
    <3> QED
      BY <3>1 DEF TabsWork
  <2> QED
    BY <2>2, <2>3
<1> QED
  BY <1>1, <1>2, EditsKept

LEMMA ChosenKept ==
  ASSUME NEW w \in GoodStore, NEW id \in Nat, NEW v, v = SetActiveTab(w, id)
  PROVE  Work(w.files) \subseteq Work(v.files) /\ v.pending = w.pending
<1>1. Edits(w, v) /\ \A i \in DOMAIN w.files : w.files[i].id = w.active => v.files[i].tabs = w.files[i].tabs
  BY SetActiveTabFacts
<1>2. \A i \in DOMAIN w.files : i \in DOMAIN v.files /\ v.files[i].tabs = w.files[i].tabs
  BY <1>1 DEF Edits
<1>3. Work(w.files) \subseteq Work(v.files) \cup {}
  <2> DEFINE fs == w.files
             gs == v.files
  <2>1. \A i \in DOMAIN fs : i \in DOMAIN gs /\ gs[i].tabs = fs[i].tabs
    BY <1>2
  <2> HIDE DEF fs, gs
  <2>2. Work(fs) \subseteq Work(gs) \cup {}
    BY <2>1, SameKept
  <2> QED
    BY <2>2 DEF fs, gs
<1> QED
  BY <1>1, <1>3 DEF Edits

LEMMA AddedKept ==
  ASSUME WorkspaceAssumption, NEW w \in GoodStore, NEW id \in Nat, NEW v, v = AddTab(w, id),
         \A i \in DOMAIN w.files :
           w.files[i].id = w.active =>
             /\ Len(w.files[i].tabs) < MaxTabs
             /\ \A k \in DOMAIN w.files[i].tabs : w.files[i].tabs[k].id # id
  PROVE  Work(w.files) \subseteq Work(v.files) /\ v.pending = w.pending
<1>1. /\ Edits(w, v)
      /\ \A i \in DOMAIN w.files :
           w.files[i].id = w.active => v.files[i].tabs = Append(w.files[i].tabs, Tab(id, {}))
  BY AddTabFacts, SMTT(30)
<1>2. ASSUME NEW i \in DOMAIN w.files, w.files[i].id = w.active, NEW k \in DOMAIN w.files[i].tabs
      PROVE  w.files[i].tabs[k].content \subseteq TabsWork(v.files[i].tabs) \cup {}
  <2> DEFINE s == w.files[i].tabs
             t == Tab(id, {})
  <2>1. v.files[i].tabs = Append(s, t)
    BY <1>1, <1>2
  <2>2. s \in Seq(TabType)
    BY GoodStoreFacts, GoodFileFacts, GoodTabsFacts
  <2> HIDE DEF t, s
  <2>3. \A l \in DOMAIN s : l \in DOMAIN Append(s, t) /\ Append(s, t)[l] = s[l]
    BY <2>2
  <2>4. s[k].content \subseteq TabsWork(Append(s, t))
    BY <2>3, <1>2 DEF TabsWork, s
  <2> QED
    BY <2>1, <2>4 DEF s
<1>3. Work(w.files) \subseteq Work(v.files) \cup {}
  BY <1>1, <1>2, EditsKept
<1> QED
  BY <1>1, <1>3 DEF Edits

LEMMA RemovedKept ==
  ASSUME WorkspaceAssumption, NEW w \in GoodStore, Apart(w.files), NEW id, NEW v, v = RemoveTab(w, id)
  PROVE  Work(w.files) \subseteq Work(v.files) \cup TabsWork(With(TabsOf(w), id))
<1>1. /\ Edits(w, v)
      /\ \A i \in DOMAIN w.files :
           w.files[i].id = w.active => v.files[i] = w.files[i] \/ v.files[i].tabs = Without(w.files[i].tabs, id)
  BY RemoveTabFacts
<1> DEFINE G == TabsWork(With(TabsOf(w), id))
<1>2. ASSUME NEW i \in DOMAIN w.files, w.files[i].id = w.active, NEW k \in DOMAIN w.files[i].tabs
      PROVE  w.files[i].tabs[k].content \subseteq TabsWork(v.files[i].tabs) \cup G
  <2> DEFINE s == w.files[i].tabs
             r == Without(s, id)
             g == With(s, id)
  <2>1. TabsOf(w) = s
    BY <1>2, OpenUnique DEF Apart
  <2>2. s \in Seq(TabType)
    BY GoodStoreFacts, GoodFileFacts, GoodTabsFacts
  <2>3. v.files[i].tabs = s \/ v.files[i].tabs = r
    BY <1>1, <1>2
  <2>4. G = TabsWork(g) /\ k \in DOMAIN s
    BY <2>1
  <2> HIDE DEF s, G
  <2>5. \E f \in [DOMAIN r -> DOMAIN s] :
          /\ \A l \in DOMAIN r : r[l] = s[f[l]]
          /\ \A l \in DOMAIN s : s[l].id # id => \E m \in DOMAIN r : f[m] = l
    BY <2>2, WithoutFacts
  <2>6. \A l \in DOMAIN s : s[l].id = id => \E m \in DOMAIN g : g[m] = s[l]
    BY <2>2, WithKept
  <2> HIDE DEF r, g
  <2>7. s[k].content \subseteq TabsWork(s) \cap (TabsWork(r) \cup TabsWork(g))
    <3>1. s[k].content \subseteq TabsWork(s)
      BY <2>4 DEF TabsWork
    <3>2. CASE s[k].id = id
      <4>1. PICK m \in DOMAIN g : g[m] = s[k]
        BY <2>4, <2>6, <3>2
      <4>2. s[k].content \subseteq TabsWork(g)
        BY <4>1 DEF TabsWork
      <4> QED
        BY <3>1, <4>2
    <3>3. CASE s[k].id # id
      <4>1. PICK m \in DOMAIN r : r[m] = s[k]
        BY <2>4, <2>5, <3>3
      <4>2. s[k].content \subseteq TabsWork(r)
        BY <4>1 DEF TabsWork
      <4> QED
        BY <3>1, <4>2
    <3> QED
      BY <3>2, <3>3
  <2>8. s[k].content \subseteq TabsWork(v.files[i].tabs) \cup G
    BY <2>3, <2>4, <2>7
  <2> QED
    BY <2>8 DEF s
<1> HIDE DEF G
<1>3. Work(w.files) \subseteq Work(v.files) \cup G
  BY <1>1, <1>2, EditsKept
<1> QED
  BY <1>3 DEF G

LEMMA RenamedKept ==
  ASSUME NEW w \in GoodStore, NEW id, NEW name \in Nat, NEW v, v = Renamed(w, id, name)
  PROVE  Work(w.files) \subseteq Work(v.files) /\ v.pending = w.pending
<1>1. /\ v.pending = w.pending
      /\ DOMAIN v.files = DOMAIN w.files /\ \A i \in DOMAIN w.files : v.files[i].tabs = w.files[i].tabs
  BY RenamedFacts
<1> DEFINE fs == w.files
           gs == v.files
<1>2. \A i \in DOMAIN fs : i \in DOMAIN gs /\ gs[i].tabs = fs[i].tabs
  BY <1>1
<1> HIDE DEF fs, gs
<1>3. Work(fs) \subseteq Work(gs) \cup {}
  BY <1>2, SameKept
<1> QED
  BY <1>1, <1>3 DEF fs, gs

LEMMA MigratedKept ==
  ASSUME NEW w \in GoodStore, NEW up \in Seq(AccountFile), NEW v, v = Migrated(w, up)
  PROVE  Work(w.files) \subseteq Work(v.files) /\ v.pending = w.pending
<1>1. /\ v.pending = w.pending
      /\ DOMAIN v.files = DOMAIN w.files /\ \A i \in DOMAIN w.files : v.files[i].tabs = w.files[i].tabs
  BY MigratedFacts
<1> DEFINE fs == w.files
           gs == v.files
<1>2. \A i \in DOMAIN fs : i \in DOMAIN gs /\ gs[i].tabs = fs[i].tabs
  BY <1>1
<1> HIDE DEF fs, gs
<1>3. Work(fs) \subseteq Work(gs) \cup {}
  BY <1>2, SameKept
<1> QED
  BY <1>1, <1>3 DEF fs, gs

LEMMA CreatedKept ==
  ASSUME NEW w \in GoodStore, NEW f \in GoodFile, NEW v, v = Created(w, f)
  PROVE  Work(w.files) \subseteq Work(v.files) /\ v.pending = w.pending
<1>1. /\ v.pending = w.pending /\ v.files = Append(w.files, f)
      /\ \A i \in DOMAIN w.files : v.files[i] = w.files[i]
      /\ DOMAIN v.files = 1..(Len(w.files) + 1)
  BY CreatedFacts
<1>2. DOMAIN w.files = 1..Len(w.files) /\ Len(w.files) \in Nat
  BY GoodStoreFacts
<1>3. \A i \in DOMAIN w.files : i \in DOMAIN v.files /\ v.files[i].tabs = w.files[i].tabs
  BY <1>1, <1>2
<1> DEFINE fs == w.files
           gs == v.files
<1>4. \A i \in DOMAIN fs : i \in DOMAIN gs /\ gs[i].tabs = fs[i].tabs
  BY <1>3
<1> HIDE DEF fs, gs
<1>5. Work(fs) \subseteq Work(gs) \cup {}
  BY <1>4, SameKept
<1> QED
  BY <1>1, <1>5 DEF fs, gs

\* A new file may be replaced: there was nothing in it.
LEMMA NewFileKept ==
  ASSUME NEW w \in GoodStore, NEW f \in GoodFile, \A k \in DOMAIN f.tabs : f.tabs[k].content = {},
         \A i \in DOMAIN w.files : w.files[i].id # f.id,
         NEW tabs \in GoodTabs
  PROVE  LET v == LoadFromFile(Created(w, f), tabs)
         IN Work(w.files) \subseteq Work(v.files) /\ v.pending = w.pending
<1> DEFINE v == Created(w, f)
           u == LoadFromFile(v, tabs)
<1>1. /\ v \in GoodStore /\ v.active = f.id
      /\ \A i \in DOMAIN w.files : v.files[i] = w.files[i]
      /\ v.files[Len(w.files) + 1] = f
      /\ \A i \in DOMAIN v.files : i \in DOMAIN w.files \/ i = Len(w.files) + 1
  BY CreatedFacts
<1>2. Work(w.files) \subseteq Work(v.files) /\ v.pending = w.pending
  BY CreatedKept
<1> HIDE DEF v
<1>3. Edits(v, u)
  BY <1>1, LoadFromFileFacts
<1>4. ASSUME NEW i \in DOMAIN v.files, v.files[i].id = v.active, NEW k \in DOMAIN v.files[i].tabs
      PROVE  v.files[i].tabs[k].content \subseteq TabsWork(u.files[i].tabs) \cup {}
  <2>1. v.files[i] = f
    BY <1>1, <1>4
  <2> QED
    BY <1>4, <2>1
<1> HIDE DEF u
<1>5. Work(v.files) \subseteq Work(u.files) \cup {}
  BY <1>1, <1>3, <1>4, EditsKept
<1>6. Work(w.files) \subseteq Work(u.files) /\ u.pending = w.pending
  BY <1>2, <1>3, <1>5 DEF Edits
<1> QED
  BY <1>6 DEF u, v

LEMMA DeletedKept ==
  ASSUME TypeInv, NEW id, NEW v, v = Deleted(store, store.files, store.active, id)
  PROVE  Work(store.files) \subseteq Work(v.files) \cup Work(With(store.files, id)) /\ v.pending = store.pending
<1>0. store \in GoodStore /\ store.files \in Seq(GoodFile) /\ store.active \in Nat
  BY StoreParts
<1>1. v = store \/ (v.files = Without(store.files, id) /\ v.pending = store.pending)
  BY <1>0, DeletedFacts
<1>2. Work(store.files) \subseteq Work(Without(store.files, id)) \cup Work(With(store.files, id))
  BY <1>0, WithoutKept
<1> QED
  BY <1>1, <1>2

LEMMA ResetKept ==
  ASSUME WorkspaceAssumption, TypeInv, NEW v, v = ResetToGuestState(store)
  PROVE  Work(store.files) \subseteq Work(v.files) \cup Unsynced
<1>1. v.files = IF Local(store.files) = <<>> THEN <<EmptyFile(Untitled)>> ELSE Local(store.files)
  BY ResetFacts
<1> DEFINE cs == Pick(store.files, {i \in DOMAIN store.files : store.files[i].cloud})
<1>2. Work(store.files) \subseteq Work(Local(store.files)) \cup Work(cs)
  BY StoreParts, LocalKept
<1>3. Work(cs) \subseteq Unsynced
  BY DEF Unsynced
<1> HIDE DEF cs
<1>4. Work(Local(store.files)) \subseteq Work(v.files)
  BY <1>1, NoWork
<1> QED
  BY <1>2, <1>3, <1>4

LEMMA AfterKept ==
  ASSUME WorkspaceAssumption, TypeInv, NEW how
  PROVE  Work(store.files) \subseteq Work(After(how).files) \cup Taken(how)
<1>1. CASE how = "expired"
  BY <1>1, ResetKept DEF After, Taken
<1>2. CASE how # "expired"
  BY <1>2 DEF After
<1> QED
  BY <1>1, <1>2

-----------------------------------------------------------------------------
(* Steps. *)

\* What was stored and not given up is in the browser or in the account.
Kept == saved \ forsaken \subseteq Work(store.files) \cup Work(store.pending) \cup Work(cloud)

LEMMA KeptStep ==
  ASSUME Kept, forsaken \subseteq forsaken',
         saved' \subseteq saved \cup Work(store'.files) \cup Work(store'.pending),
         Work(store.files) \cup Work(store.pending) \cup Work(cloud)
           \subseteq Work(store'.files) \cup Work(store'.pending) \cup Work(cloud') \cup forsaken'
  PROVE  Kept'
<1>1. Work(store.files)' = Work(store'.files) /\ Work(store.pending)' = Work(store'.pending) /\ Work(cloud)' = Work(cloud')
  BY DEF Work, TabsWork
<1> QED
  BY <1>1 DEF Kept

LEMMA PutKept ==
  ASSUME Kept, NEW w, NEW given, Put(w, given),
         Work(store.files) \cup Work(store.pending) \subseteq Work(w.files) \cup Work(w.pending) \cup Work(cloud') \cup forsaken',
         Work(cloud) \subseteq Work(cloud') \cup forsaken'
  PROVE  Kept'
<1>1. /\ store' = w /\ forsaken \subseteq forsaken'
      /\ saved' = saved \cup Work(store'.files) \cup Work(store'.pending)
  BY DEF Put, SavedBy
<1> QED
  BY <1>1, KeptStep

\* The account and what is put aside stay.
LEMMA FilesPut ==
  ASSUME Kept, UNCHANGED cloud, NEW w, NEW given, Put(w, given), w.pending = store.pending,
         Work(store.files) \subseteq Work(w.files) \cup given
  PROVE  Kept'
<1>1. forsaken' = forsaken \cup given
  BY DEF Put
<1> QED
  BY <1>1, PutKept

LEMMA NothingPut ==
  ASSUME Kept, UNCHANGED <<cloud, saved>>, forsaken \subseteq forsaken',
         store'.files = store.files, store'.pending = store.pending
  PROVE  Kept'
BY KeptStep

\* A deletion takes what the user gave up, and a sign-in finds files of the
\* guest only, as long as no session has ended under a call.
KeptInv ==
  /\ Kept
  /\ \A c \in calls :
       /\ c.kind = "delete" => Work(With(cloud, c.id)) \cup Work(With(store.files, c.id)) \subseteq forsaken
       /\ c.kind = "load" => AllLocal(store.files)

LEMMA KeptAlone ==
  ASSUME Kept', \A c \in calls' : c.kind # "delete" /\ c.kind # "load"
  PROVE  KeptInv'
BY DEF KeptInv

\* What is stored of the open sheet is what an action about it finds.
LEMMA OpenContent ==
  ASSUME IsOpen(store)
  PROVE  Stored(store) = ContentOf(ActiveTab(store))
BY DEF Stored, ContentOf, TabsOf

LEMMA SheetSaved ==
  ASSUME WorkspaceAssumption, TypeInv, ApartInv, SceneInv, NEW u, u = SaveTabState(store, ActiveTab(store), scene)
  PROVE  Work(store.files) \subseteq Work(u.files) /\ u \in GoodStore /\ u.pending = store.pending
<1>1. store \in GoodStore /\ Apart(store.files) /\ scene \in SUBSET (1..MaxStrokes)
  BY StoreParts, FilesApart
<1>2. Stored(store) \subseteq scene \cup {}
  BY DEF SceneInv, Shown, Stored
<1>3. Work(store.files) \subseteq Work(u.files) \cup {}
  BY <1>1, <1>2, SavedKept
<1> QED
  BY <1>1, <1>3, SaveTabStateFacts DEF Edits

LEMMA SheetRemoved ==
  ASSUME WorkspaceAssumption, TypeInv, ApartInv, Kept, UNCHANGED cloud,
         NEW id, NEW given, Put(RemoveTab(store, id), given), ContentOf(id) \subseteq given
  PROVE  Kept'
<1>1. store \in GoodStore /\ Apart(store.files)
  BY StoreParts, FilesApart
<1> DEFINE w == RemoveTab(store, id)
<1>2. Work(store.files) \subseteq Work(w.files) \cup ContentOf(id)
  BY <1>1, RemovedKept DEF ContentOf
<1>3. w.pending = store.pending
  BY <1>1, RemoveTabFacts DEF Edits
<1>4. Put(w, given)
  OBVIOUS
<1> HIDE DEF w
<1> QED
  BY <1>2, <1>3, <1>4, FilesPut

LEMMA OnSheetsKept ==
  ASSUME WorkspaceAssumption, Patient, TypeInv, WaitInv, ApartInv, SceneInv, KeptInv, OnSheets
  PROVE  KeptInv'
<1>0. store \in GoodStore /\ Apart(store.files) /\ Kept /\ scene \in SUBSET (1..MaxStrokes)
  BY StoreParts, FilesApart DEF KeptInv
<1>a. \A c \in calls' : c.kind # "delete" /\ c.kind # "load"
  BY OnSheetsSlight, OnSheetsEdits DEF Slight, Renaming, Exporting
<1>b. UNCHANGED cloud /\ Edits(store, store')
  BY OnSheetsEdits
<1> SUFFICES Kept'
  BY <1>a, KeptAlone
<1>1. CASE Draw
  BY <1>0, <1>1, NothingPut DEF Draw
<1>2. CASE SaveTimer
  <2>1. /\ store' = SaveTabState(store, timer.tab, timer.content) /\ timer # None
        /\ forsaken' = forsaken /\ saved' = saved \cup Work(store'.files) \cup Work(store'.pending)
    BY <1>2 DEF SaveTimer, SavedBy
  <2>2. CASE IsOpen(store)
    <3>1. store' = SaveTabState(store, ActiveTab(store), scene)
      BY <2>1, <2>2 DEF SceneInv, Shown
    <3>2. Work(store.files) \subseteq Work(store'.files) /\ store'.pending = store.pending
      BY <3>1, SheetSaved
    <3> QED
      BY <1>0, <1>b, <2>1, <3>2, KeptStep
  <2>3. CASE ~IsOpen(store)
    <3>1. \A i \in DOMAIN store.files : store.files[i].id # store.active
      BY <1>0, <2>3, OpenFacts
    <3>2. Work(store.files) \subseteq Work(store'.files) \cup {}
      BY <1>0, <1>b, <3>1, EditsKept
    <3>3. store'.pending = store.pending
      BY <1>b DEF Edits
    <3> QED
      BY <1>0, <1>b, <2>1, <3>2, <3>3, KeptStep
  <2> QED
    BY <2>2, <2>3
<1>3. CASE \E id \in Sheets : TabClick(id)
  <2>1. PICK id \in Sheets : TabClick(id)
    BY <1>3
  <2> DEFINE u == SaveTabState(store, ActiveTab(store), scene)
             w == SetActiveTab(u, id)
  <2>2. Put(w, {}) /\ id \in Nat
    BY <2>1, SheetsAreNumbers DEF TabClick
  <2>3. Work(store.files) \subseteq Work(u.files) /\ u \in GoodStore /\ u.pending = store.pending
    BY SheetSaved
  <2> HIDE DEF u
  <2>4. Work(u.files) \subseteq Work(w.files) /\ w.pending = u.pending
    BY <2>2, <2>3, ChosenKept
  <2> HIDE DEF w
  <2> QED
    BY <1>0, <1>b, <2>2, <2>3, <2>4, FilesPut
<1>4. CASE \E id \in Sheets : KeyTab(id)
  <2>1. PICK id \in Sheets : KeyTab(id)
    BY <1>4
  <2> DEFINE w == SetActiveTab(store, id)
  <2>2. Put(w, {}) /\ id \in Nat
    BY <2>1, SheetsAreNumbers DEF KeyTab
  <2>4. Work(store.files) \subseteq Work(w.files) /\ w.pending = store.pending
    BY <1>0, <2>2, ChosenKept
  <2> HIDE DEF w
  <2> QED
    BY <1>0, <1>b, <2>2, <2>4, FilesPut
<1>5. CASE \E id \in Sheets : DeleteRequest(id)
  <2>1. PICK id \in Sheets : DeleteRequest(id)
    BY <1>5
  <2>2. CASE ContentOf(id) = {}
    BY <1>0, <1>b, <2>1, <2>2, SheetRemoved DEF DeleteRequest
  <2>3. CASE ContentOf(id) # {}
    BY <1>0, <1>b, <2>1, <2>3, NothingPut DEF DeleteRequest
  <2> QED
    BY <2>2, <2>3
<1>6. CASE KeyRemove
  <2> DEFINE id == ActiveTab(store)
             given == ContentOf(id) \cup scene
  <2>1. Put(RemoveTab(store, id), given) /\ ContentOf(id) \subseteq given
    BY <1>6 DEF KeyRemove
  <2> HIDE DEF id, given
  <2> QED
    BY <1>0, <1>b, <2>1, SheetRemoved
<1>7. CASE DeleteDecided
  <2>1. CASE Put(RemoveTab(store, dialog), ContentOf(dialog))
    BY <1>0, <1>b, <2>1, SheetRemoved
  <2>2. CASE UNCHANGED <<store, scene, timer, saved, forsaken>>
    BY <1>0, <1>b, <2>2, NothingPut
  <2> QED
    BY <1>7, <2>1, <2>2 DEF DeleteDecided
<1> QED
  BY <1>1, <1>2, <1>3, <1>4, <1>5, <1>6, <1>7 DEF OnSheets

LEMMA KeptParts ==
  ASSUME Kept',
         \A c \in calls' :
           /\ c.kind = "delete" => Work(With(cloud', c.id)) \cup Work(With(store'.files, c.id)) \subseteq forsaken'
           /\ c.kind = "load" => AllLocal(store'.files)
  PROVE  KeptInv'
<1>1. ASSUME NEW id PROVE Work(With(cloud, id))' = Work(With(cloud', id)) /\ Work(With(store.files, id))' = Work(With(store'.files, id))
  BY DEF Work, TabsWork, With, Pick, Nth
<1>2. AllLocal(store.files)' <=> AllLocal(store'.files)
  BY DEF AllLocal
<1> QED
  BY <1>1, <1>2 DEF KeptInv

\* The one file with an id.
LEMMA OneFileWork ==
  ASSUME NEW fs \in Seq(GoodFile), IdsApart(fs), NEW i \in DOMAIN fs
  PROVE  Work(With(fs, fs[i].id)) \subseteq TabsWork(fs[i].tabs)
<1> DEFINE id == fs[i].id
           s == With(fs, id)
<1>1. \A k \in DOMAIN s : \E j \in DOMAIN fs : fs[j].id = id /\ s[k] = fs[j]
  <2> HIDE DEF id
  <2> QED
    BY WithFacts, SMT
<1>2. \A k \in DOMAIN s : s[k] = fs[i]
  BY <1>1 DEF IdsApart
<1> HIDE DEF s
<1>3. \A k \in DOMAIN s : TabsWork(s[k].tabs) = TabsWork(fs[i].tabs)
  BY <1>2
<1> QED
  BY <1>3 DEF Work, s, id

LEMMA CreateFileKept ==
  ASSUME WorkspaceAssumption, TypeInv, Kept, calls = {}, UNCHANGED cloud,
         NEW name \in Nat, NEW tabs \in GoodTabs \cup {<<>>}, CreateFile(name, tabs)
  PROVE  KeptInv'
<1> DEFINE n == Chosen(name)
<1>0. n \in Nat
  BY ChosenFacts
<1>1. CASE auth
  <2> DEFINE c == Call("create", None, n, <<>>, tabs)
  <2>1. calls' = calls \cup {c} /\ UNCHANGED <<store, cloud, saved, forsaken>>
    BY <1>1 DEF CreateFile, Calls
  <2>2. c.kind = "create"
    BY DEF Call
  <2> HIDE DEF c
  <2>3. Kept'
    BY <2>1, NothingPut
  <2> QED
    BY <2>1, <2>2, <2>3, KeptAlone
<1>2. CASE ~auth
  <2> DEFINE f == EmptyFile(n)
             u == Created(store, f)
             v == IF tabs = <<>> THEN u ELSE LoadFromFile(u, tabs)
  <2>1. Put(v, {}) /\ UNCHANGED calls
    BY <1>2 DEF CreateFile
  <2> HIDE DEF n
  <2>2. f \in GoodFile /\ f.id = NewId /\ f.tabs = <<Tab(NewTab, {})>>
    BY <1>0, EmptyFileFacts
  <2>3. \A k \in DOMAIN f.tabs : f.tabs[k].content = {}
    BY <2>2 DEF Tab
  <2> HIDE DEF f
  <2>4. store \in GoodStore /\ \A i \in DOMAIN store.files : store.files[i].id # f.id
    BY <2>2, StoreParts, NewIds, InUse
  <2>5. Work(store.files) \subseteq Work(u.files) /\ u.pending = store.pending
    BY <2>2, <2>4, CreatedKept
  <2>6. Work(store.files) \subseteq Work(v.files) /\ v.pending = store.pending
    <3>1. CASE tabs = <<>>
      BY <2>5, <3>1
    <3>2. CASE tabs # <<>>
      <4>1. tabs \in GoodTabs /\ v = LoadFromFile(Created(store, f), tabs)
        BY <3>2
      <4> HIDE DEF v, u
      <4> QED
        BY <2>2, <2>3, <2>4, <4>1, NewFileKept
    <3> QED
      BY <3>1, <3>2
  <2> HIDE DEF v
  <2>7. Kept'
    BY <2>1, <2>6, FilesPut
  <2> QED
    BY <2>1, <2>7, KeptAlone
<1> QED
  BY <1>1, <1>2

LEMMA OnFilesKept ==
  ASSUME WorkspaceAssumption, Patient, ~Reuse, TypeInv, WaitInv, ApartInv, GuestInv, SceneInv, KeptInv, OnFiles,
         Recorded, cut' = {}
  PROVE  KeptInv'
<1>0. store \in GoodStore /\ Apart(store.files) /\ Kept /\ scene \in SUBSET (1..MaxStrokes)
  BY StoreParts, FilesApart DEF KeptInv
<1>a. ASSUME Kept', Quiet, UNCHANGED calls PROVE KeptInv'
  BY <1>a, KeptAlone DEF Quiet
<1>1. ASSUME NEW i \in DOMAIN store.files, NEW f, f = store.files[i],
             SwitchFile(f.id) \/ ExportFile(f.id) \/ DuplicateFile(f) \/ RenameFile(f) \/ DeleteFile(f)
      PROVE  KeptInv'
  <2>0. f \in GoodFile /\ f.id \in Nat
    BY <1>1, StoreParts, GoodFileFacts
  <2>a. UNCHANGED cloud
    BY <1>1 DEF SwitchFile, ExportFile, DuplicateFile, RenameFile, DeleteFile, AtRest
  <2>b. ASSUME NEW w, w = [store EXCEPT !.active = f.id], Put(w, {}) PROVE Kept'
    <3>1. w.files = store.files /\ w.pending = store.pending
      BY <1>0, <2>b DEF GoodStore
    <3> QED
      BY <1>0, <2>a, <2>b, <3>1, FilesPut
  <2>1. CASE SwitchFile(f.id)
    <3>1. Quiet /\ Put([store EXCEPT !.active = f.id], {}) /\ UNCHANGED calls
      BY <2>1, UnhurriedQuiet DEF SwitchFile, AtRest
    <3> QED
      BY <1>a, <2>b, <3>1
  <2>2. CASE ExportFile(f.id)
    <3>1. /\ Put([store EXCEPT !.active = f.id], {}) /\ \A c \in calls : Renaming(c)
          /\ \E c : calls' = calls \cup {c} /\ Exporting(c)
      <4> DEFINE c(id) == Call("export", id, Untitled, <<>>, <<>>)
      <4>1. /\ Put([store EXCEPT !.active = f.id], {}) /\ Clickable /\ Waited
            /\ \/ calls' = calls \cup {c(ActiveTab(store))}
               \/ calls' = calls \cup {c(None)}
        BY <2>2 DEF ExportFile, Calls
      <4>2. \A id : Exporting(c(id))
        BY DEF Call, Exporting
      <4> HIDE DEF c
      <4> QED
        BY <4>1, <4>2, WaitedFacts
    <3>2. Kept'
      BY <2>b, <3>1
    <3> QED
      BY <3>1, <3>2, KeptAlone DEF Renaming, Exporting
  <2>3. CASE DuplicateFile(f)
    <3> DEFINE tabs == [k \in DOMAIN f.tabs |-> Tab(Fresh(Len(f.tabs), UsedTabs)[k], f.tabs[k].content)]
               name == Chosen(Copy(f.name))
               g == File(NewId, name, FALSE, tabs)
               w == Created(store, g)
    <3>1. Quiet /\ Put(w, {}) /\ UNCHANGED calls
      BY <2>3, UnhurriedQuiet DEF DuplicateFile, AtRest
    <3>2. tabs \in GoodTabs
      BY <2>0, CopyFacts
    <3>3. name \in Nat /\ NewId \in Nat
      <4>1. Copy(f.name) \in Nat
        BY <2>0, GoodFileFacts DEF Copy
      <4> QED
        BY <4>1, ChosenFacts, NewIds
    <3> HIDE DEF tabs, name
    <3>4. g \in GoodFile
      BY <3>2, <3>3, FileGood
    <3> HIDE DEF g
    <3>5. Work(store.files) \subseteq Work(w.files) /\ w.pending = store.pending
      BY <1>0, <3>4, CreatedKept
    <3> HIDE DEF w
    <3> QED
      BY <1>0, <1>a, <2>a, <3>1, <3>5, FilesPut
  <2>4. CASE RenameFile(f)
    <3> DEFINE n == Chosen(Picked)
               c == Call("rename", f.id, n, <<>>, <<>>)
    <3>0. n \in Nat /\ Quiet
      BY <2>4, ChosenApart, UnhurriedQuiet DEF Picked, RenameFile
    <3>1. CASE auth /\ f.cloud
      <4>1. calls' = calls \cup {c} /\ UNCHANGED <<store, saved, forsaken>>
        BY <2>4, <3>1 DEF RenameFile, Calls
      <4>2. c.kind = "rename"
        BY DEF Call
      <4> HIDE DEF c, n
      <4>3. Kept'
        BY <1>0, <2>a, <4>1, NothingPut
      <4> QED
        BY <3>0, <4>1, <4>2, <4>3, KeptAlone DEF Quiet
    <3>2. CASE ~(auth /\ f.cloud)
      <4> DEFINE w == Renamed(store, f.id, n)
      <4>1. Put(w, {}) /\ UNCHANGED calls
        BY <2>4, <3>2 DEF RenameFile
      <4> HIDE DEF n
      <4>2. Work(store.files) \subseteq Work(w.files) /\ w.pending = store.pending
        BY <1>0, <3>0, RenamedKept
      <4> HIDE DEF w
      <4> QED
        BY <1>0, <1>a, <2>a, <3>0, <4>1, <4>2, FilesPut
    <3> QED
      BY <3>1, <3>2
  <2>5. CASE DeleteFile(f)
    <3> DEFINE c == Call("delete", f.id, f.name, store.files, <<>>)
               given == TabsWork(f.tabs) \cup Work(With(cloud, f.id)) \cup (IF f.id = store.active THEN scene ELSE {})
               w == Deleted(store, store.files, store.active, f.id)
    <3>0. Quiet
      BY <2>5, UnhurriedQuiet DEF DeleteFile
    <3>a. Work(With(store.files, f.id)) \cup Work(With(cloud, f.id)) \subseteq given
      <4>1. Work(With(store.files, f.id)) \subseteq TabsWork(f.tabs)
        BY <1>0, <1>1, StoreParts, OneFileWork DEF Apart
      <4> QED
        BY <4>1
    <3>1. CASE auth /\ f.cloud
      <4>1. calls' = calls \cup {c} /\ UNCHANGED <<store, saved>> /\ forsaken' = forsaken \cup given
        BY <2>5, <3>1 DEF DeleteFile, Calls
      <4> HIDE DEF given
      <4>2. c.kind = "delete" /\ c.id = f.id
        BY DEF Call
      <4> HIDE DEF c
      <4>3. Kept'
        BY <1>0, <2>a, <4>1, NothingPut
      <4>4. \A d \in calls' :
              /\ d.kind # "load"
              /\ Work(With(cloud', d.id)) \cup Work(With(store'.files, d.id)) \subseteq forsaken'
        BY <2>a, <3>0, <3>a, <4>1, <4>2 DEF Quiet
      <4> QED
        BY <4>3, <4>4, KeptParts
    <3>2. CASE ~(auth /\ f.cloud)
      <4>1. Put(w, given) /\ UNCHANGED calls
        BY <2>5, <3>2 DEF DeleteFile
      <4> HIDE DEF given
      <4>2. Work(store.files) \subseteq Work(w.files) \cup Work(With(store.files, f.id)) /\ w.pending = store.pending
        BY DeletedKept
      <4> HIDE DEF w
      <4>3. Work(store.files) \subseteq Work(w.files) \cup given
        BY <3>a, <4>2
      <4> QED
        BY <1>0, <1>a, <2>a, <3>0, <4>1, <4>2, <4>3, FilesPut
    <3> QED
      BY <3>1, <3>2
  <2> QED
    BY <1>1, <2>1, <2>2, <2>3, <2>4, <2>5
<1>2. CASE HandleAddTab \/ KeyAddTab
  <2>1. PICK u \in GoodStore :
          /\ Put(AddTab(u, NewTab), {}) /\ UNCHANGED <<calls, cloud>>
          /\ Work(store.files) \subseteq Work(u.files) /\ u.pending = store.pending
          /\ \A i \in DOMAIN u.files : u.files[i].id = u.active =>
               /\ Len(u.files[i].tabs) < MaxTabs
               /\ \A k \in DOMAIN u.files[i].tabs : u.files[i].tabs[k].id # NewTab
    <3>0. \A i \in DOMAIN store.files : store.files[i].id = store.active => Len(store.files[i].tabs) < MaxTabs
      BY <1>2 DEF HandleAddTab, KeyAddTab, RoomForSheet
    <3>1. CASE HandleAddTab
      <4> DEFINE u == SaveTabState(store, ActiveTab(store), scene)
      <4>1. /\ Edits(store, u)
            /\ \A i \in DOMAIN store.files :
                 store.files[i].id = store.active =>
                   /\ Len(u.files[i].tabs) = Len(store.files[i].tabs)
                   /\ DOMAIN u.files[i].tabs = DOMAIN store.files[i].tabs
                   /\ \A k \in DOMAIN store.files[i].tabs :
                        u.files[i].tabs[k] = IF store.files[i].tabs[k].id = ActiveTab(store) THEN Tab(ActiveTab(store), scene)
                                             ELSE store.files[i].tabs[k]
        BY <1>0, SaveTabStateFacts
      <4>2. Work(store.files) \subseteq Work(u.files) /\ u \in GoodStore /\ u.pending = store.pending
        BY SheetSaved
      <4>3. Put(AddTab(u, NewTab), {}) /\ UNCHANGED <<calls, cloud>>
        BY <3>1 DEF HandleAddTab, AtRest
      <4> HIDE DEF u
      <4>4. \A i \in DOMAIN u.files : u.files[i].id = u.active =>
              /\ Len(u.files[i].tabs) < MaxTabs
              /\ \A k \in DOMAIN u.files[i].tabs : u.files[i].tabs[k].id # NewTab
        BY <3>0, <4>1, NewTabIsNew, SMTT(40) DEF Edits, Tab
      <4> QED
        BY <4>2, <4>3, <4>4
    <3>2. CASE KeyAddTab
      BY <1>0, <3>0, <3>2, NewTabIsNew DEF KeyAddTab, AtRest
    <3> QED
      BY <1>2, <3>1, <3>2
  <2>2. \A c \in calls : c.kind = "rename"
    BY <1>2, WaitedFacts, UnhurriedQuiet DEF HandleAddTab, KeyAddTab, Quiet, Renaming
  <2> DEFINE w == AddTab(u, NewTab)
  <2>3. Work(u.files) \subseteq Work(w.files) /\ w.pending = u.pending
    BY <2>1, NewTabIsNew, AddedKept
  <2>4. Put(w, {})
    BY <2>1
  <2> HIDE DEF w
  <2>5. Kept'
    BY <1>0, <2>1, <2>3, <2>4, FilesPut
  <2> QED
    BY <2>1, <2>2, <2>5, KeptAlone
<1>4. CASE HandleCreateFile
  <2>1. Quiet /\ CreateFile(Len(store.files) + 1, <<>>)
    BY <1>4, UnhurriedQuiet DEF HandleCreateFile
  <2>2. Len(store.files) + 1 \in Nat
    BY StoreParts
  <2>3. UNCHANGED cloud
    BY <2>1 DEF CreateFile
  <2> QED
    BY <1>0, <2>1, <2>2, <2>3, CreateFileKept DEF Quiet
<1>5. CASE ImportFile
  <2>1. Quiet
    BY <1>5, UnhurriedQuiet DEF ImportFile
  <2>2. strokes' \in 1..MaxStrokes
    BY <1>5, NextStroke DEF ImportFile
  <2> DEFINE tabs == <<Tab(NewTab, {strokes'})>>
  <2>3. CreateFile(Imported, tabs)
    BY <1>5 DEF ImportFile
  <2>4. tabs \in GoodTabs
    BY <2>2, NewIds, TabGood, OneTabGood
  <2> HIDE DEF tabs
  <2>5. Imported \in Nat /\ UNCHANGED cloud
    BY <2>3 DEF Imported, CreateFile
  <2> QED
    BY <1>0, <2>1, <2>3, <2>4, <2>5, CreateFileKept DEF Quiet
<1>6. CASE ImportScene
  <2> DEFINE x == {strokes'}
  <2>1. /\ Quiet /\ UNCHANGED <<calls, cloud>> /\ store' = SaveTabState(store, ActiveTab(store), x)
        /\ saved' = saved \cup Work(store'.files) \cup Work(store'.pending)
        /\ forsaken' = forsaken \cup scene \cup ContentOf(ActiveTab(store)) /\ IsOpen(store)
    BY <1>6, UnhurriedQuiet DEF ImportScene, LoadNative, SavedBy
  <2>2. x \in SUBSET (1..MaxStrokes)
    BY <1>6, NextStroke DEF ImportScene
  <2> HIDE DEF x
  <2>3. Stored(store) \subseteq x \cup forsaken'
    BY <2>1, OpenContent
  <2>4. Work(store.files) \subseteq Work(store'.files) \cup forsaken'
    BY <1>0, <2>1, <2>2, <2>3, SavedKept
  <2>5. store'.pending = store.pending
    BY <1>0, <2>1, <2>2, SaveTabStateFacts DEF Edits
  <2>6. Kept'
    BY <1>0, <2>1, <2>4, <2>5, KeptStep
  <2> QED
    BY <1>a, <2>1, <2>6
<1>7. CASE Login
  <2> DEFINE c == Call("load", None, Untitled, Local(store.files), <<>>)
  <2>1. /\ Quiet /\ calls' = calls \cup {c} /\ UNCHANGED <<cloud, saved, forsaken>> /\ ~auth
        /\ store' = [store EXCEPT !.loading = TRUE, !.sync = "syncing"]
    BY <1>7, UnhurriedQuiet DEF Login, Calls
  <2>2. store'.files = store.files /\ store'.pending = store.pending
    BY <1>0, <2>1 DEF GoodStore
  <2>3. c.kind = "load"
    BY DEF Call
  <2> HIDE DEF c
  <2>4. Kept'
    BY <1>0, <2>1, <2>2, NothingPut
  <2>5. AllLocal(store'.files)
    BY <2>1, <2>2 DEF GuestInv
  <2> QED
    BY <2>1, <2>3, <2>4, <2>5, KeptParts DEF Quiet
<1>8. CASE SessionEnds
  <2> DEFINE w == ResetToGuestState(store)
             given == Unsynced \cup Work(store.pending)
  <2>1. UNCHANGED <<calls, cloud>> /\ Put(w, given) /\ auth /\ ~auth'
    BY <1>8 DEF SessionEnds
  <2>2. Work(store.files) \subseteq Work(w.files) \cup Unsynced
    BY ResetKept
  <2> HIDE DEF w
  <2>3. forsaken' = forsaken \cup given
    BY <2>1 DEF Put
  <2>4. Kept'
    BY <1>0, <2>1, <2>2, <2>3, PutKept
  <2>5. \A c \in calls' : c.kind = "rename"
    BY <2>1 DEF Recorded, Interrupted
  <2> QED
    BY <2>4, <2>5, KeptAlone
<1>9. CASE Reload
  <2>1. /\ calls' = {} /\ UNCHANGED <<cloud, saved>> /\ forsaken' = forsaken \cup Work(store.pending)
        /\ store' = [store EXCEPT !.pending = <<>>, !.loading = FALSE, !.sync = "idle"]
    BY <1>9 DEF Reload
  <2>2. store'.files = store.files
    BY <1>0, <2>1 DEF GoodStore
  <2>3. Kept'
    BY <1>0, <2>1, <2>2, KeptStep
  <2> QED
    BY <2>1, <2>3, KeptAlone
<1> QED
  BY <1>1, <1>2, <1>4, <1>5, <1>6, <1>7, <1>8, <1>9 DEF OnFiles

LEMMA DecidedKept ==
  ASSUME WorkspaceAssumption, Patient, TypeInv, WaitInv, KeptInv, MigrationDecided
  PROVE  KeptInv'
<1>0. store \in GoodStore /\ Kept /\ calls = {} /\ UNCHANGED cloud
  BY StoreParts DEF KeptInv, MigrationDecided, AsksAboutFiles, WaitInv
<1>1. ASSUME Put([store EXCEPT !.files = @ \o store.pending, !.pending = <<>>, !.sync = "syncing"], {}),
             Calls(Call("migrate", None, Untitled, store.pending, <<>>))
      PROVE  KeptInv'
  <2> DEFINE c == Call("migrate", None, Untitled, store.pending, <<>>)
             all == store.files \o store.pending
             w == [store EXCEPT !.files = all, !.pending = <<>>, !.sync = "syncing"]
  <2>1. Put(w, {}) /\ calls' = calls \cup {c}
    BY <1>1 DEF Calls
  <2>2. c.kind = "migrate"
    BY DEF Call
  <2> HIDE DEF c
  <2>3. Work(store.files) \subseteq Work(all) /\ Work(store.pending) \subseteq Work(all)
    BY StoreParts, JoinedWork
  <2> HIDE DEF all
  <2>4. w.files = all
    BY <1>0 DEF GoodStore
  <2> HIDE DEF w
  <2>5. Kept'
    BY <1>0, <2>1, <2>3, <2>4, PutKept
  <2> QED
    BY <1>0, <2>1, <2>2, <2>5, KeptAlone
<1>2. ASSUME Put([store EXCEPT !.pending = <<>>], Work(store.pending)), UNCHANGED calls
      PROVE  KeptInv'
  <2> DEFINE w == [store EXCEPT !.pending = <<>>]
             given == Work(store.pending)
  <2>1. Put(w, given) /\ forsaken' = forsaken \cup given
    BY <1>2 DEF Put
  <2>2. w.files = store.files
    BY <1>0 DEF GoodStore
  <2> HIDE DEF w
  <2>3. Kept'
    BY <1>0, <2>1, <2>2, PutKept
  <2> QED
    BY <1>0, <1>2, <2>3, KeptAlone
<1> QED
  BY <1>0, <1>1, <1>2 DEF MigrationDecided

-----------------------------------------------------------------------------
(* Answers: nothing is put aside when they come. *)

LEMMA AnswerPut ==
  ASSUME Kept, store.pending = <<>>, NEW w, NEW given, Put(w, given),
         Work(store.files) \subseteq Work(w.files) \cup Work(w.pending) \cup given,
         Work(cloud) \subseteq Work(cloud') \cup forsaken
  PROVE  Kept'
<1>1. forsaken' = forsaken \cup given
  BY DEF Put
<1>2. Work(store.pending) = {}
  BY NoWork
<1> QED
  BY <1>1, <1>2, PutKept

LEMMA CreateAnswerKept ==
  ASSUME WorkspaceAssumption, TypeInv, Kept, store.pending = <<>>, NEW c \in calls, NEW how, CreateAnswer(c, how)
  PROVE  Kept'
<1> DEFINE id == IF how = "expired" THEN Fresh(1, UsedIds \cup Ids(After(how).files))[1]
                 ELSE Fresh(2, UsedIds)[IF how = "lost" THEN 2 ELSE 1]
           one == <<Tab(Fresh(2, UsedTabs)[2], {})>>
           isCloud == how = "good"
           f == File(id, c.name, isCloud, one)
           u == After(how)
           w == Created(u, f)
           v == IF c.tabs = <<>> THEN w ELSE LoadFromFile(w, c.tabs)
<1>1. Put(v, Taken(how))
  BY DEF CreateAnswer
<1>2. id \in Nat /\ id \notin UsedIds /\ (how = "expired" => id \notin Ids(u.files)) /\ one \in GoodTabs
  BY MadeFacts
<1>3. \A k \in DOMAIN one : one[k].content = {}
  BY DEF Tab
<1> HIDE DEF id, one
<1>4. f \in GoodFile /\ f.id = id /\ f.tabs = one
  <2>1. c.name \in Nat /\ isCloud \in BOOLEAN
    BY CallParts
  <2> HIDE DEF isCloud
  <2> QED
    BY <1>2, <2>1, FileGood DEF File
<1> HIDE DEF f
<1>5. u \in GoodStore /\ \A i \in DOMAIN u.files : u.files[i].id # f.id
  <2>1. CASE how = "expired"
    BY <1>2, <1>4, <2>1, AfterFacts DEF Ids
  <2>2. CASE how # "expired"
    BY <1>2, <1>4, <2>2, AfterFacts, InUse DEF After
  <2> QED
    BY <2>1, <2>2
<1>6. Work(store.files) \subseteq Work(u.files) \cup Taken(how)
  BY AfterKept
<1> HIDE DEF u
<1>7. Work(u.files) \subseteq Work(v.files)
  <2>1. CASE c.tabs = <<>>
    BY <1>4, <1>5, <2>1, CreatedKept
  <2>2. CASE c.tabs # <<>>
    <3>1. c.tabs \in GoodTabs /\ v = LoadFromFile(Created(u, f), c.tabs)
      BY <2>2, CallParts
    <3> DEFINE tabs == c.tabs
    <3>2. tabs \in GoodTabs /\ v = LoadFromFile(Created(u, f), tabs)
      BY <3>1
    <3>3. \A k \in DOMAIN f.tabs : f.tabs[k].content = {}
      BY <1>3, <1>4
    <3> HIDE DEF tabs, v
    <3> QED
      BY <1>4, <1>5, <3>2, <3>3, NewFileKept
  <2> QED
    BY <2>1, <2>2
<1> HIDE DEF v
<1>8. Work(cloud) \subseteq Work(cloud')
  <2> DEFINE new == [id |-> NewId, name |-> c.name, tabs |-> <<>>]
  <2>1. cloud' = cloud \/ cloud' = Append(cloud, new)
    BY DEF CreateAnswer
  <2> HIDE DEF new
  <2>2. cloud \in Seq(AccountFile)
    BY CallParts
  <2>3. \A i \in DOMAIN cloud : i \in DOMAIN cloud' /\ cloud'[i] = cloud[i]
    BY <2>1, <2>2, SMTT(30)
  <2>4. Work(cloud) \subseteq Work(cloud') \cup {}
    BY <2>3, SameKept
  <2> QED
    BY <2>4
<1> QED
  BY <1>1, <1>6, <1>7, <1>8, AnswerPut

LEMMA RenameAnswerKept ==
  ASSUME WorkspaceAssumption, TypeInv, Kept, store.pending = <<>>, NEW c \in calls, NEW how, RenameAnswer(c, how)
  PROVE  Kept'
<1> DEFINE u == After(how)
           id == c.id
           n == c.name
           w == Renamed(u, id, n)
<1>1. Put(w, Taken(how))
  BY DEF RenameAnswer
<1>2. u \in GoodStore /\ n \in Nat
  BY AfterFacts, CallParts
<1>3. Work(store.files) \subseteq Work(u.files) \cup Taken(how)
  BY AfterKept
<1> HIDE DEF u
<1>4. Work(u.files) \subseteq Work(w.files)
  <2>1. w = Renamed(u, id, n)
    OBVIOUS
  <2> HIDE DEF w, id, n
  <2> QED
    BY <1>2, <2>1, RenamedKept
<1> HIDE DEF w
<1>5. Work(cloud) \subseteq Work(cloud')
  <2>1. cloud' = [i \in DOMAIN cloud |-> IF cloud[i].id = c.id /\ Done(c, how)
                                           THEN [cloud[i] EXCEPT !.name = c.name] ELSE cloud[i]]
    BY DEF RenameAnswer
  <2>2. \A i \in DOMAIN cloud : cloud[i] \in AccountFile
    <3>1. cloud \in Seq(AccountFile)
      BY CallParts
    <3> QED
      BY <3>1
  <2>3. \A a \in AccountFile : [a EXCEPT !.name = c.name].tabs = a.tabs
    BY DEF AccountFile
  <2>4. \A i \in DOMAIN cloud : i \in DOMAIN cloud' /\ cloud'[i].tabs = cloud[i].tabs
    BY <2>1, <2>2, <2>3
  <2>5. Work(cloud) \subseteq Work(cloud') \cup {}
    BY <2>4, SameKept
  <2> QED
    BY <2>5
<1> QED
  BY <1>1, <1>3, <1>4, <1>5, AnswerPut

\* No session has ended while a file is deleted.
LEMMA DeleteAnswerKept ==
  ASSUME WorkspaceAssumption, TypeInv, WaitInv, KeptInv, store.pending = <<>>,
         NEW c \in calls, NEW how, DeleteAnswer(c, how), Recorded, cut' = {}
  PROVE  Kept'
<1>1. c.kind = "delete" /\ how # "expired" /\ c.files = store.files /\ c.active = store.active
  <2>1. c.kind = "delete" /\ c \in calls /\ auth' = (auth /\ how # "expired") /\ how \in Outcomes
    BY DEF DeleteAnswer, Answered
  <2>2. cut = {}
    BY CutGrows
  <2>3. how # "expired"
    <3> SUFFICES ASSUME how = "expired" PROVE FALSE
      OBVIOUS
    <3>1. auth /\ ~auth'
      BY <2>1 DEF Outcomes
    <3>2. "delete" \in Interrupted
      BY <2>1 DEF Interrupted
    <3> QED
      BY <3>1, <3>2 DEF Recorded
  <2> QED
    BY <2>1, <2>2, <2>3 DEF WaitInv
<1>2. Kept /\ Work(With(cloud, c.id)) \cup Work(With(store.files, c.id)) \subseteq forsaken
  BY <1>1 DEF KeptInv
<1> DEFINE w == Deleted(store, store.files, store.active, c.id)
<1>3. Put(w, {}) /\ cloud' = (IF Done(c, how) THEN Without(cloud, c.id) ELSE cloud)
  BY <1>1 DEF DeleteAnswer, After, Taken
<1>4. Work(store.files) \subseteq Work(w.files) \cup Work(With(store.files, c.id))
  BY DeletedKept
<1> HIDE DEF w
<1>5. Work(cloud) \subseteq Work(cloud') \cup Work(With(cloud, c.id))
  <2>1. cloud \in Seq(AccountFile)
    BY CallParts
  <2>2. Work(cloud) \subseteq Work(Without(cloud, c.id)) \cup Work(With(cloud, c.id))
    BY <2>1, WithoutKept
  <2> QED
    BY <1>3, <2>2
<1>6. forsaken' = forsaken
  BY <1>3 DEF Put
<1>7. Work(store.pending) = {}
  BY NoWork
<1> QED
  BY <1>2, <1>3, <1>4, <1>5, <1>6, <1>7, PutKept

LEMMA LoadAnswerKept ==
  ASSUME WorkspaceAssumption, TypeInv, WaitInv, KeptInv, store.pending = <<>>, NEW c \in calls, NEW how, LoadAnswer(c, how),
         cut = {}
  PROVE  Kept'
<1>1. c.files = Local(store.files) /\ AllLocal(store.files) /\ UNCHANGED cloud /\ Kept
  BY DEF LoadAnswer, WaitInv, KeptInv
<1>2. CASE how = "good"
  <2>0. PICK bare : Put(Loaded(store, c.files, bare), {})
    BY <1>2 DEF LoadAnswer
  <2> DEFINE locals == c.files
             v == Loaded(store, locals, bare)
  <2>1. Put(v, {}) /\ locals = Local(store.files)
    BY <1>1, <2>0
  <2>2. locals \in Seq(GoodFile)
    BY CallParts
  <2> HIDE DEF locals
  <2>3. /\ cloud = <<>> /\ locals # <<>> => v.files = locals /\ v.pending = <<>>
        /\ cloud = <<>> /\ locals = <<>> => v.files = <<EmptyFile(Untitled)>> /\ v.pending = <<>>
        /\ cloud # <<>> => v.pending = locals
    <3>1. v = Loaded(store, locals, bare)
      OBVIOUS
    <3> HIDE DEF v
    <3>2. HasLoaded(v, locals, bare)
      BY <2>2, <3>1, LoadedFacts
    <3> QED
      BY <3>2 DEF HasLoaded
  <2> HIDE DEF v
  <2>4. Work(store.files) \subseteq Work(locals)
    BY <1>1, <2>1, StoreParts, AllLocalKept
  <2>5. Work(locals) \subseteq Work(v.files) \cup Work(v.pending)
    BY <2>3, NoWork
  <2> QED
    BY <1>1, <2>1, <2>4, <2>5, AnswerPut
<1>3. CASE how # "good"
  <2> DEFINE u == After(how)
             w == [u EXCEPT !.loading = FALSE, !.sync = "error"]
  <2>1. Put(w, Taken(how))
    BY <1>3 DEF LoadAnswer
  <2>2. u \in GoodStore
    BY AfterFacts
  <2>3. Work(store.files) \subseteq Work(u.files) \cup Taken(how)
    BY AfterKept
  <2> HIDE DEF u
  <2>4. w.files = u.files
    BY <2>2 DEF GoodStore
  <2> HIDE DEF w
  <2> QED
    BY <1>1, <2>1, <2>3, <2>4, AnswerPut
<1> QED
  BY <1>2, <1>3

LEMMA MigrateAnswerKept ==
  ASSUME WorkspaceAssumption, TypeInv, Kept, store.pending = <<>>, NEW c \in calls, NEW how, MigrateAnswer(c, how)
  PROVE  Kept'
<1>1. PICK up :
           /\ Uploaded(up)
           /\ cloud' = cloud \o up
           /\ Put(IF how = "good" THEN Migrated(store, up) ELSE After(how), Taken(how))
  BY MigrateAnswerFacts, Zenon
<1>2. up \in Seq(AccountFile) /\ cloud \in Seq(AccountFile)
  BY <1>1, CallParts DEF Uploaded
<1>3. Work(cloud) \subseteq Work(cloud')
  <2>1. Work(cloud) \subseteq Work(cloud \o up)
    BY <1>2, JoinedAccount
  <2> QED
    BY <1>1, <2>1
<1>4. CASE how = "good"
  <2> DEFINE w == Migrated(store, up)
  <2>1. Put(w, Taken(how))
    BY <1>1, <1>4
  <2>2. Work(store.files) \subseteq Work(w.files)
    BY <1>2, StoreParts, MigratedKept
  <2> HIDE DEF w
  <2> QED
    BY <1>3, <2>1, <2>2, AnswerPut
<1>5. CASE how # "good"
  <2> DEFINE u == After(how)
  <2>1. Put(u, Taken(how))
    BY <1>1, <1>5
  <2>2. Work(store.files) \subseteq Work(u.files) \cup Taken(how)
    BY AfterKept
  <2> HIDE DEF u
  <2> QED
    BY <1>3, <2>1, <2>2, AnswerPut
<1> QED
  BY <1>4, <1>5

\* What an export stores is what the canvas shows.
LEMMA ExportAnswerKept ==
  ASSUME WorkspaceAssumption, TypeInv, ApartInv, SceneInv, Kept, store.pending = <<>>, NEW c \in calls, ExportAnswer(c)
  PROVE  Kept'
<1> DEFINE w == SaveTabState(store, ActiveTab(store), scene)
<1>1. Put(w, {}) /\ UNCHANGED cloud
  <2>1. (IF <<c.active, c.id>> = Key(store) THEN scene ELSE {}) = scene
    BY DEF SceneInv, ExportAnswer, Exporting
  <2> QED
    BY <2>1 DEF ExportAnswer
<1>2. Work(store.files) \subseteq Work(w.files)
  BY SheetSaved
<1> HIDE DEF w
<1> QED
  BY <1>1, <1>2, AnswerPut

LEMMA AnswersKept ==
  ASSUME WorkspaceAssumption, Patient, TypeInv, WaitInv, ApartInv, SceneInv, KeptInv, Answers, Recorded, cut' = {}
  PROVE  KeptInv'
<1>1. PICK c \in calls :
          \/ ExportAnswer(c)
          \/ \E how \in {"good", "failed", "lost", "expired"} :
               \/ CreateAnswer(c, how) \/ RenameAnswer(c, how) \/ DeleteAnswer(c, how)
               \/ LoadAnswer(c, how) \/ MigrateAnswer(c, how)
  BY Zenon DEF Answers
<1>2. store.pending = <<>> /\ Kept /\ cut = {}
  BY AnsweredAlone, CutGrows DEF KeptInv
<1>a. \A d \in calls \ {c} : d.kind # "delete" /\ d.kind # "load"
  BY AnsweredAlone DEF Slight, Renaming, Exporting
<1>3. CASE ExportAnswer(c)
  <2>1. Kept'
    BY <1>2, <1>3, ExportAnswerKept
  <2> QED
    BY <1>a, <1>3, <2>1, KeptAlone DEF ExportAnswer
<1>4. ASSUME NEW how, CreateAnswer(c, how) \/ RenameAnswer(c, how) \/ DeleteAnswer(c, how) \/ MigrateAnswer(c, how)
      PROVE  KeptInv'
  <2>1. calls' = calls \ {c}
    BY <1>4 DEF CreateAnswer, RenameAnswer, DeleteAnswer, MigrateAnswer, Answered
  <2>2. Kept'
    BY <1>2, <1>4, CreateAnswerKept, RenameAnswerKept, DeleteAnswerKept, MigrateAnswerKept
  <2> QED
    BY <1>a, <2>1, <2>2, KeptAlone
<1>5. ASSUME NEW how, LoadAnswer(c, how) PROVE KeptInv'
  <2>1. \A d \in calls' : d.kind # "delete" /\ d.kind # "load"
    <3> DEFINE d == Call("migrate", None, Untitled, c.files, <<>>)
    <3>1. calls' \subseteq (calls \ {c}) \cup {d}
      BY <1>5 DEF LoadAnswer
    <3>2. d.kind = "migrate"
      BY DEF Call
    <3> HIDE DEF d
    <3> QED
      BY <1>a, <3>1, <3>2
  <2>2. Kept'
    BY <1>2, <1>5, LoadAnswerKept
  <2> QED
    BY <2>1, <2>2, KeptAlone
<1> QED
  BY <1>1, <1>3, <1>4, <1>5, Zenon

LEMMA KeptInvNext ==
  ASSUME WorkspaceAssumption, Patient, ~Reuse, TypeInv, WaitInv, FilesUncut => GuestInv, ApartInv,
         ExportsUncut => SceneInv, cut = {} => KeptInv, [Next]_wvars
  PROVE  (cut = {} => KeptInv)'
<1> SUFFICES ASSUME cut' = {} PROVE KeptInv'
  OBVIOUS
<1>1. CASE Next
  <2>1. Recorded
    BY <1>1 DEF Next
  <2>2. cut = {}
    BY <2>1, CutGrows
  <2>3. GuestInv /\ SceneInv /\ KeptInv
    BY <2>2 DEF FilesUncut, ExportsUncut
  <2> QED
    BY <1>1, <2>1, <2>3, OnSheetsKept, OnFilesKept, AnswersKept, DecidedKept DEF Next
<1>2. CASE UNCHANGED wvars
  <2>1. UNCHANGED <<store, cloud, calls, saved, forsaken, cut>>
    BY <1>2 DEF wvars
  <2>2. KeptInv /\ Kept
    BY <2>1 DEF KeptInv
  <2>3. Kept'
    BY <2>1, <2>2, NothingPut
  <2>4. \A c \in calls' :
           /\ c.kind = "delete" => Work(With(cloud', c.id)) \cup Work(With(store'.files, c.id)) \subseteq forsaken'
           /\ c.kind = "load" => AllLocal(store'.files)
    BY <2>1, <2>2 DEF KeptInv
  <2> QED
    BY <2>3, <2>4, KeptParts
<1> QED
  BY <1>1, <1>2

\* What has once been stored is in the browser or in the account until the user
\* gives it up or it is lost with the session or the page (see SessionEnds and
\* Reload), whatever fails meanwhile, as long as no session ends under a call, for
\* a user who waits for answers.
THEOREM WorkspaceKept ==
  ASSUME WorkspaceAssumption, Patient, ~Reuse, ~ExportsOthers
  PROVE  Spec => []KeptWorkStays
<1> DEFINE Inv == /\ TypeInv /\ WaitInv /\ (FilesUncut => GuestInv) /\ ApartInv
                  /\ (ExportsUncut => SceneInv) /\ (cut = {} => KeptInv)
<1>1. Init => Inv
  <2> SUFFICES ASSUME Init PROVE Inv
    OBVIOUS
  <2>1. calls = {} /\ dialog = None /\ store.pending = <<>> /\ saved = {}
    BY DEF Init
  <2>2. AllLocal(store.files)
    BY DEF Init, AllLocal, File
  <2>3. WaitInv /\ GuestInv /\ KeptInv
    BY <2>1, <2>2 DEF WaitInv, GuestInv, KeptInv, Kept
  <2> QED
    BY <2>3, TypeInvInit, ApartInvInit, SceneInvInit
<1>2. Inv /\ [Next]_wvars => Inv'
  <2> SUFFICES ASSUME Inv, [Next]_wvars PROVE Inv'
    OBVIOUS
  <2>1. TypeInv' /\ WaitInv' /\ (FilesUncut => GuestInv)'
    BY TypeInvNext, WaitInvNext, GuestInvNext
  <2>2. ApartInv'
    BY <2>1, ApartInvNext
  <2>3. (ExportsUncut => SceneInv)'
    BY <2>1, <2>2, SceneInvNext
  <2>4. (cut = {} => KeptInv)'
    BY KeptInvNext
  <2> QED
    BY <2>1, <2>2, <2>3, <2>4
<1>3. Inv => KeptWorkStays
  BY DEF KeptInv, Kept, KeptWorkStays
<1> QED
  BY <1>1, <1>2, <1>3, PTL DEF Spec

=============================================================================
