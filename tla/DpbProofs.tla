------------------------------ MODULE DpbProofs ------------------------------
(***************************************************************************)
(* What the decoded picture buffer keeps, for any size of the buffer, any  *)
(* number of references and any range of frame_num: how many references    *)
(* there are, which frame has which long term index, and in which order    *)
(* the short term frames lie across wraps of frame_num.                    *)
(***************************************************************************)
EXTENDS Dpb, FiniteSetTheorems, SequenceTheorems, TLAPS

(***************************************************************************)
(* Sequences of frame stores.                                              *)
(***************************************************************************)
LEMMA StoresOf ==
    ASSUME NEW f \in Seq(Stores)
    PROVE  /\ Len(f) \in Nat /\ DOMAIN f = 1..Len(f) /\ IsFiniteSet(DOMAIN f)
           /\ \A i \in 1..Len(f) :
                /\ f[i] \in Stores
                /\ f[i].frame_num \in Numbers /\ f[i].poc \in Pocs
                /\ f[i].ref \in BOOLEAN /\ f[i].lt \in BOOLEAN /\ f[i].out \in BOOLEAN
                /\ f[i].long_term_frame_idx \in Indices /\ f[i].long_term_pic_num \in Indices
<1>1. Len(f) \in Nat /\ DOMAIN f = 1..Len(f)
  BY LenProperties
<1>2. IsFiniteSet(1..Len(f))
  BY <1>1, FS_Interval
<1>3. \A i \in 1..Len(f) : f[i] \in Stores
  BY ElementOfSeq
<1>4. QED
  BY <1>1, <1>2, <1>3 DEF Stores

LEMMA MadeStores ==
    ASSUME NEW f \in Seq(Stores), NEW g \in [DOMAIN f -> Stores]
    PROVE  g \in Seq(Stores) /\ Len(g) = Len(f) /\ DOMAIN g = DOMAIN f
<1>1. Len(f) \in Nat /\ DOMAIN f = 1..Len(f)
  BY StoresOf
<1>2. g \in UNION {[1..n -> Stores] : n \in Nat}
  BY <1>1
<1>3. g \in Seq(Stores)
  BY <1>2, SeqDef, Zenon
<1>4. Len(g) \in Nat /\ DOMAIN g = 1..Len(g)
  BY <1>3, LenProperties
<1>5. DOMAIN g = 1..Len(f)
  BY <1>1
<1>6. Len(g) = Len(f)
  BY <1>1, <1>4, <1>5
<1>7. QED
  BY <1>1, <1>3, <1>5, <1>6

(* The sets of places the operators of Dpb compute are finite, and a frame *)
(* that is a reference is a short term or a long term one.                 *)
LEMMA PlacesFinite ==
    ASSUME NEW f \in Seq(Stores)
    PROVE  /\ IsFiniteSet(Short(f)) /\ IsFiniteSet(Long(f)) /\ IsFiniteSet(References(f))
           /\ IsFiniteSet(Waiting(f)) /\ IsFiniteSet(Unused(f))
           /\ Cardinality(Short(f)) \in Nat /\ Cardinality(Long(f)) \in Nat
           /\ Cardinality(References(f)) \in Nat /\ Cardinality(Waiting(f)) \in Nat
           /\ References(f) = Short(f) \cup Long(f) /\ Short(f) \cap Long(f) = {}
           /\ References(f) \subseteq 1..Len(f) /\ Waiting(f) \subseteq 1..Len(f)
           /\ Unused(f) \subseteq 1..Len(f)
           /\ Cardinality(References(f)) = Cardinality(Short(f)) + Cardinality(Long(f))
<1>1. Len(f) \in Nat /\ DOMAIN f = 1..Len(f) /\ IsFiniteSet(DOMAIN f)
  BY StoresOf
<1>2. /\ Short(f) \subseteq DOMAIN f /\ Long(f) \subseteq DOMAIN f /\ References(f) \subseteq DOMAIN f
      /\ Waiting(f) \subseteq DOMAIN f /\ Unused(f) \subseteq DOMAIN f
  BY DEF Short, Long, References, Waiting, Unused
<1>3. /\ IsFiniteSet(Short(f)) /\ IsFiniteSet(Long(f)) /\ IsFiniteSet(References(f))
      /\ IsFiniteSet(Waiting(f)) /\ IsFiniteSet(Unused(f))
  BY <1>1, <1>2, FS_Subset
<1>4. References(f) = Short(f) \cup Long(f) /\ Short(f) \cap Long(f) = {}
  BY DEF References, Short, Long
<1>5. /\ Cardinality(Short(f)) \in Nat /\ Cardinality(Long(f)) \in Nat
      /\ Cardinality(References(f)) \in Nat /\ Cardinality(Waiting(f)) \in Nat
  BY <1>3, FS_CardinalityType
<1>6. Cardinality(References(f)) = Cardinality(Short(f)) + Cardinality(Long(f))
  <2>1. Cardinality(Short(f) \cup Long(f)) = Cardinality(Short(f)) + Cardinality(Long(f)) - Cardinality({})
    BY <1>3, <1>4, FS_Union, ZenonT(60)
  <2>2. Cardinality({}) = 0
    BY FS_EmptySet
  <2>3. QED
    BY <1>4, <1>5, <2>1, <2>2
<1>7. QED
  BY <1>1, <1>2, <1>3, <1>4, <1>5, <1>6

(* Every nonempty set of numbers has a least one.                          *)
LEMMA LeastNumber ==
    ASSUME NEW S \in SUBSET Nat, S # {}
    PROVE  \E m \in S : \A j \in S : m <= j
<1> DEFINE T == {1..n : n \in S}
<1>1. IsWellFoundedOn(StrictSubsetOrdering(Nat), FiniteSubsetsOf(Nat))
  BY FS_StrictSubsetOrderingWellFounded
<1>2. T \subseteq FiniteSubsetsOf(Nat) /\ T # {}
  <2>1. \A n \in S : 1..n \in SUBSET Nat /\ IsFiniteSet(1..n)
    BY FS_Interval
  <2>2. QED
    BY <2>1 DEF FiniteSubsetsOf
<1>3. \E x \in T : \A y \in T : ~(<<y, x>> \in StrictSubsetOrdering(Nat))
  <2> HIDE DEF T
  <2> QED BY <1>1, <1>2, WFMin
<1>4. PICK m \in S : \A n \in S : ~(<<1..n, 1..m>> \in StrictSubsetOrdering(Nat))
  BY <1>3
<1>5. \A n \in S : m <= n
  <2> SUFFICES ASSUME NEW n \in S, ~(m <= n) PROVE FALSE
    OBVIOUS
  <2>1. 1..n \subseteq 1..m /\ m \in 1..m /\ m \notin 1..n
    OBVIOUS
  <2>2. <<1..n, 1..m>> \in (SUBSET Nat) \X (SUBSET Nat) /\ 1..n # 1..m
    BY <2>1
  <2>3. QED
    BY <1>4, <2>1, <2>2 DEF StrictSubsetOrdering
<1>6. QED
  BY <1>5

LEMMA FirstIsLeast ==
    ASSUME NEW S \in SUBSET Nat, S # {}
    PROVE  First(S) \in S /\ \A j \in S : First(S) <= j
<1>1. \E m \in S : \A j \in S : m <= j
  BY LeastNumber
<1>2. QED
  BY <1>1 DEF First

(* get_smallest_poc finds a frame that waits, and none waits before it.    *)
LEMMA SmallestIsLeast ==
    ASSUME NEW f \in Seq(Stores), Waiting(f) # {}
    PROVE  /\ Smallest(f) \in Waiting(f)
           /\ \A j \in Waiting(f) : f[Smallest(f)].poc <= f[j].poc
<1> DEFINE P == {f[i].poc : i \in Waiting(f)}
<1>1. P \in SUBSET Nat /\ P # {}
  <2>1. \A i \in Waiting(f) : f[i].poc \in Nat
    BY StoresOf, PlacesFinite, BoundsAssumption DEF Pocs
  <2>2. QED
    BY <2>1
<1>2. PICK m \in P : \A p \in P : m <= p
  <2> HIDE DEF P
  <2> QED BY <1>1, LeastNumber
<1>3. PICK i \in Waiting(f) : f[i].poc = m
  BY <1>2
<1>4. \A j \in Waiting(f) : f[i].poc <= f[j].poc
  BY <1>2, <1>3
<1>5. QED
  BY <1>4 DEF Smallest

(* A frame is taken out of the buffer: the others keep their order.        *)
Up(i, j) == IF j < i THEN j ELSE j + 1

LEMMA RemovedIs ==
    ASSUME NEW f \in Seq(Stores), NEW i \in 1..Len(f)
    PROVE  /\ Removed(f, i) \in Seq(Stores) /\ Len(Removed(f, i)) = Len(f) - 1
           /\ \A j \in 1..Len(f) - 1 : Removed(f, i)[j] = f[Up(i, j)] /\ Up(i, j) \in 1..Len(f) \ {i}
<1>1. Len(f) \in Nat /\ \A j \in 1..Len(f) : f[j] \in Stores
  BY StoresOf
<1> DEFINE a == SubSeq(f, 1, i - 1)
           b == SubSeq(f, i + 1, Len(f))
<1>2. a \in Seq(Stores) /\ Len(a) = i - 1 /\ \A j \in 1..i - 1 : a[j] = f[j]
  <2>1. \A j \in 1..i - 1 : f[j] \in Stores
    BY <1>1
  <2>2. /\ SubSeq(f, 1, i - 1) \in Seq(Stores)
        /\ Len(SubSeq(f, 1, i - 1)) = IF 1 <= i - 1 THEN (i - 1) - 1 + 1 ELSE 0
        /\ \A j \in 1..(i - 1) - 1 + 1 : SubSeq(f, 1, i - 1)[j] = f[1 + j - 1]
    BY <1>1, <2>1, SubSeqProperties
  <2>3. QED
    BY <1>1, <2>2
<1>3. b \in Seq(Stores) /\ Len(b) = Len(f) - i /\ \A j \in 1..Len(f) - i : b[j] = f[i + j]
  <2>1. \A j \in i + 1..Len(f) : f[j] \in Stores
    BY <1>1
  <2>2. /\ SubSeq(f, i + 1, Len(f)) \in Seq(Stores)
        /\ Len(SubSeq(f, i + 1, Len(f))) = IF i + 1 <= Len(f) THEN Len(f) - (i + 1) + 1 ELSE 0
        /\ \A j \in 1..Len(f) - (i + 1) + 1 : SubSeq(f, i + 1, Len(f))[j] = f[i + 1 + j - 1]
    BY <1>1, <2>1, SubSeqProperties
  <2>3. QED
    BY <1>1, <2>2
<1> HIDE DEF a, b
<1>4. /\ a \o b \in Seq(Stores) /\ Len(a \o b) = Len(a) + Len(b)
      /\ \A j \in 1..Len(a) + Len(b) : (a \o b)[j] = IF j <= Len(a) THEN a[j] ELSE b[j - Len(a)]
  BY <1>2, <1>3, ConcatProperties
<1>5. Removed(f, i) = a \o b
  BY DEF Removed, a, b
<1>6. ASSUME NEW j \in 1..Len(f) - 1
      PROVE  (a \o b)[j] = f[Up(i, j)] /\ Up(i, j) \in 1..Len(f) \ {i}
  <2>1. CASE j < i
    BY <1>1, <1>2, <1>3, <1>4, <2>1 DEF Up
  <2>2. CASE ~(j < i)
    <3>1. j - (i - 1) \in 1..Len(f) - i /\ i + (j - (i - 1)) = j + 1
      BY <1>1, <2>2
    <3>2. (a \o b)[j] = b[j - (i - 1)]
      BY <1>1, <1>2, <1>3, <1>4, <2>2
    <3>3. QED
      BY <1>1, <1>3, <2>2, <3>1, <3>2 DEF Up
  <2>3. QED
    BY <2>1, <2>2
<1>7. Len(a) + Len(b) = Len(f) - 1
  BY <1>1, <1>2, <1>3
<1>8. QED
  BY <1>4, <1>5, <1>6, <1>7

-----------------------------------------------------------------------------
(***************************************************************************)
(* What becomes of the frames when marks change: none comes, goes or       *)
(* moves, and none becomes a reference or a short term reference.          *)
(***************************************************************************)
Remarked(f, g) ==
    /\ g \in Seq(Stores) /\ Len(g) = Len(f)
    /\ \A i \in 1..Len(f) : /\ g[i].frame_num = f[i].frame_num
                            /\ g[i].poc = f[i].poc /\ g[i].out = f[i].out
    /\ References(g) \subseteq References(f) /\ Short(g) \subseteq Short(f)

LEMMA UnmarkedIs ==
    ASSUME fs \in Seq(Stores), NEW S
    PROVE  /\ Remarked(fs, Unmarked(S))
           /\ \A i \in 1..Len(fs) :
                 /\ Unmarked(S)[i].long_term_frame_idx = fs[i].long_term_frame_idx
                 /\ Unmarked(S)[i].long_term_pic_num = fs[i].long_term_pic_num
           /\ References(Unmarked(S)) = References(fs) \ S
           /\ Short(Unmarked(S)) = Short(fs) \ S
           /\ Long(Unmarked(S)) = Long(fs) \ S
<1> DEFINE u == Unmarked(S)
<1>1. DOMAIN fs = 1..Len(fs) /\ \A i \in 1..Len(fs) : fs[i] \in Stores
  BY StoresOf
<1>2. u = [i \in DOMAIN fs |-> IF i \in S THEN [fs[i] EXCEPT !.ref = FALSE] ELSE fs[i]]
  BY DEF Unmarked
<1>3. \A i \in DOMAIN fs : [fs[i] EXCEPT !.ref = FALSE] \in Stores
  BY <1>1 DEF Stores
<1>4. u \in [DOMAIN fs -> Stores]
  BY <1>1, <1>2, <1>3
<1>5. u \in Seq(Stores) /\ Len(u) = Len(fs) /\ DOMAIN u = 1..Len(fs)
  BY <1>1, <1>4, MadeStores, Zenon
<1>6. \A i \in 1..Len(fs) :
        /\ u[i].frame_num = fs[i].frame_num /\ u[i].poc = fs[i].poc /\ u[i].out = fs[i].out
        /\ u[i].lt = fs[i].lt /\ u[i].long_term_frame_idx = fs[i].long_term_frame_idx
        /\ u[i].long_term_pic_num = fs[i].long_term_pic_num
        /\ i \in S => u[i].ref = FALSE
        /\ i \notin S => u[i].ref = fs[i].ref
  BY ZenonT(60), <1>1, <1>2 DEF Stores
<1> HIDE DEF u
<1>7. References(u) = References(fs) \ S /\ Short(u) = Short(fs) \ S /\ Long(u) = Long(fs) \ S
  BY <1>1, <1>5, <1>6 DEF References, Short, Long
<1>8. QED
  BY <1>5, <1>6, <1>7 DEF Remarked, u

LEMMA UnmarkedLongIs ==
    ASSUME fs \in Seq(Stores), NEW S \in SUBSET Long(fs)
    PROVE  /\ Remarked(fs, UnmarkedLong(S))
           /\ \A i \in 1..Len(fs) :
                 /\ UnmarkedLong(S)[i].long_term_frame_idx = fs[i].long_term_frame_idx
                 /\ UnmarkedLong(S)[i].long_term_pic_num = fs[i].long_term_pic_num
                 /\ i \notin S => UnmarkedLong(S)[i] = fs[i]
           /\ References(UnmarkedLong(S)) = References(fs) \ S
           /\ Short(UnmarkedLong(S)) = Short(fs)
           /\ Long(UnmarkedLong(S)) = Long(fs) \ S
<1> DEFINE u == UnmarkedLong(S)
<1>1. DOMAIN fs = 1..Len(fs) /\ \A i \in 1..Len(fs) : fs[i] \in Stores
  BY StoresOf
<1>2. u = [i \in DOMAIN fs |-> IF i \in S THEN [fs[i] EXCEPT !.ref = FALSE, !.lt = FALSE] ELSE fs[i]]
  BY DEF UnmarkedLong
<1>3. \A i \in DOMAIN fs : [fs[i] EXCEPT !.ref = FALSE, !.lt = FALSE] \in Stores
  BY <1>1 DEF Stores
<1>4. u \in [DOMAIN fs -> Stores]
  BY <1>1, <1>2, <1>3
<1>5. u \in Seq(Stores) /\ Len(u) = Len(fs) /\ DOMAIN u = 1..Len(fs)
  BY <1>1, <1>4, MadeStores, Zenon
<1>6. \A i \in 1..Len(fs) :
        /\ u[i].frame_num = fs[i].frame_num /\ u[i].poc = fs[i].poc /\ u[i].out = fs[i].out
        /\ u[i].long_term_frame_idx = fs[i].long_term_frame_idx
        /\ u[i].long_term_pic_num = fs[i].long_term_pic_num
        /\ i \in S => u[i].ref = FALSE
        /\ i \notin S => u[i] = fs[i]
  BY ZenonT(60), <1>1, <1>2 DEF Stores
<1> HIDE DEF u
<1>7. References(u) = References(fs) \ S /\ Short(u) = Short(fs) /\ Long(u) = Long(fs) \ S
  BY <1>1, <1>5, <1>6 DEF References, Short, Long
<1>8. QED
  BY <1>5, <1>6, <1>7 DEF Remarked, u

-----------------------------------------------------------------------------
(***************************************************************************)
(* Frames that are no references come and go between those that are.       *)
(***************************************************************************)
SameReferences(f, g) ==
    \E u \in [1..Len(g) -> 1..Len(f)] :
        /\ \A j, k \in 1..Len(g) : j < k => u[j] < u[k]
        /\ \A j \in 1..Len(g) :
              /\ g[j].frame_num = f[u[j]].frame_num
              /\ g[j].long_term_frame_idx = f[u[j]].long_term_frame_idx
              /\ j \in Short(g) <=> u[j] \in Short(f)
              /\ j \in Long(g) <=> u[j] \in Long(f)
        /\ \A i \in References(f) : \E j \in 1..Len(g) : u[j] = i

(* They are as many, and they have the same numbers.                       *)
LEMMA SameReferencesKeep ==
    ASSUME NEW f \in Seq(Stores), NEW g \in Seq(Stores), SameReferences(f, g)
    PROVE  /\ Cardinality(Short(g)) = Cardinality(Short(f))
           /\ Cardinality(Long(g)) = Cardinality(Long(f))
           /\ Cardinality(References(g)) = Cardinality(References(f))
<1>1. PICK u \in [1..Len(g) -> 1..Len(f)] :
        /\ \A j, k \in 1..Len(g) : j < k => u[j] < u[k]
        /\ \A j \in 1..Len(g) : /\ j \in Short(g) <=> u[j] \in Short(f)
                                /\ j \in Long(g) <=> u[j] \in Long(f)
        /\ \A i \in References(f) : \E j \in 1..Len(g) : u[j] = i
  BY DEF SameReferences
<1>2. /\ Len(f) \in Nat /\ Len(g) \in Nat
      /\ Short(f) \subseteq References(f) /\ Long(f) \subseteq References(f)
      /\ Short(g) \subseteq 1..Len(g) /\ Long(g) \subseteq 1..Len(g)
      /\ IsFiniteSet(Short(g)) /\ IsFiniteSet(Long(g))
  BY StoresOf, PlacesFinite
<1>3. \A j, k \in 1..Len(g) : u[j] = u[k] => j = k
  <2> SUFFICES ASSUME NEW j \in 1..Len(g), NEW k \in 1..Len(g), u[j] = u[k], j # k PROVE FALSE
    OBVIOUS
  <2>1. j < k \/ k < j
    BY <1>2
  <2>2. u[j] \in Int /\ u[k] \in Int
    BY <1>2
  <2>3. QED
    BY <1>1, <2>1, <2>2
<1>4. ASSUME NEW S, NEW T, S \subseteq 1..Len(g), T \subseteq References(f), IsFiniteSet(S),
             \A j \in 1..Len(g) : j \in S <=> u[j] \in T
      PROVE  Cardinality(S) = Cardinality(T)
  <2> DEFINE v == [j \in S |-> u[j]]
  <2>1. v \in [S -> T]
    BY <1>1, <1>4
  <2>2. \A j, k \in S : v[j] = v[k] => j = k
    BY <1>3, <1>4
  <2>3. \A i \in T : \E j \in S : v[j] = i
    BY <1>1, <1>4
  <2>4. ExistsBijection(S, T)
    BY <2>1, <2>2, <2>3 DEF ExistsBijection, Bijection, Injection, Surjection, IsInjective
  <2>5. QED
    BY <1>4, <2>4, FS_Bijection
<1>5. Cardinality(Short(g)) = Cardinality(Short(f)) /\ Cardinality(Long(g)) = Cardinality(Long(f))
  <2>1. Cardinality(Short(g)) = Cardinality(Short(f))
    <3>1. \A j \in 1..Len(g) : j \in Short(g) <=> u[j] \in Short(f)
      BY <1>1
    <3>2. QED
      BY <1>2, <1>4, <3>1, Zenon
  <2>2. Cardinality(Long(g)) = Cardinality(Long(f))
    <3>1. \A j \in 1..Len(g) : j \in Long(g) <=> u[j] \in Long(f)
      BY <1>1
    <3>2. QED
      BY <1>2, <1>4, <3>1, Zenon
  <2>3. QED
    BY <2>1, <2>2
<1>6. QED
  BY <1>5, PlacesFinite

LEMMA RemovedSame ==
    ASSUME NEW f \in Seq(Stores), NEW i \in 1..Len(f), ~f[i].ref
    PROVE  SameReferences(f, Removed(f, i))
<1> DEFINE g == Removed(f, i)
           u == [j \in 1..Len(g) |-> Up(i, j)]
<1>1. /\ g \in Seq(Stores) /\ Len(g) = Len(f) - 1
      /\ \A j \in 1..Len(g) : g[j] = f[Up(i, j)] /\ Up(i, j) \in 1..Len(f) \ {i}
  BY RemovedIs
<1>2. Len(f) \in Nat /\ DOMAIN f = 1..Len(f) /\ DOMAIN g = 1..Len(g)
  BY <1>1, StoresOf
<1> HIDE DEF g
<1>3. u \in [1..Len(g) -> 1..Len(f)] /\ \A j \in 1..Len(g) : u[j] = Up(i, j)
  BY <1>1
<1>4. \A j, k \in 1..Len(g) : j < k => Up(i, j) < Up(i, k)
  BY <1>1, <1>2 DEF Up
<1>5. \A j \in 1..Len(g) : /\ j \in Short(g) <=> Up(i, j) \in Short(f)
                           /\ j \in Long(g) <=> Up(i, j) \in Long(f)
  BY <1>1, <1>2 DEF Short, Long
<1>6. ASSUME NEW k \in References(f) PROVE \E j \in 1..Len(g) : Up(i, j) = k
  <2>1. k \in 1..Len(f) /\ k # i
    BY <1>2 DEF References
  <2>2. CASE k < i
    <3>1. k \in 1..Len(g) /\ Up(i, k) = k
      BY <1>1, <1>2, <2>1, <2>2 DEF Up
    <3>2. QED
      BY <3>1
  <2>3. CASE ~(k < i)
    <3>1. k - 1 \in 1..Len(g) /\ Up(i, k - 1) = k
      BY <1>1, <1>2, <2>1, <2>3 DEF Up
    <3>2. QED
      BY <3>1
  <2>4. QED
    BY <2>2, <2>3
<1> HIDE DEF u
<1>7. /\ \A j, k \in 1..Len(g) : j < k => u[j] < u[k]
      /\ \A j \in 1..Len(g) :
            /\ g[j].frame_num = f[u[j]].frame_num
            /\ g[j].long_term_frame_idx = f[u[j]].long_term_frame_idx
            /\ j \in Short(g) <=> u[j] \in Short(f)
            /\ j \in Long(g) <=> u[j] \in Long(f)
      /\ \A k \in References(f) : \E j \in 1..Len(g) : u[j] = k
  <2>1. \A j, k \in 1..Len(g) : j < k => u[j] < u[k]
    BY <1>3, <1>4
  <2>2. \A j \in 1..Len(g) : g[j] = f[u[j]]
    BY <1>1, <1>3
  <2>3. \A j \in 1..Len(g) : (j \in Short(g) <=> u[j] \in Short(f)) /\ (j \in Long(g) <=> u[j] \in Long(f))
    BY <1>3, <1>5, Zenon
  <2>4. \A k \in References(f) : \E j \in 1..Len(g) : u[j] = k
    BY <1>3, <1>6
  <2>5. QED
    BY <2>1, <2>2, <2>3, <2>4
<1>8. SameReferences(f, g)
  BY <1>3, <1>7 DEF SameReferences
<1>9. QED
  BY <1>8 DEF g

LEMMA ChangedSame ==
    ASSUME NEW f \in Seq(Stores), NEW g \in Seq(Stores), Len(g) = Len(f),
           \A i \in 1..Len(f) :
              /\ g[i].frame_num = f[i].frame_num /\ g[i].long_term_frame_idx = f[i].long_term_frame_idx
              /\ g[i].ref = f[i].ref /\ g[i].lt = f[i].lt
    PROVE  SameReferences(f, g)
<1> DEFINE u == [j \in 1..Len(g) |-> j]
<1>1. Len(f) \in Nat /\ DOMAIN f = 1..Len(f) /\ DOMAIN g = 1..Len(f)
  BY StoresOf
<1>2. u \in [1..Len(g) -> 1..Len(f)] /\ \A j \in 1..Len(g) : u[j] = j
  OBVIOUS
<1>3. /\ \A j \in 1..Len(g) : (j \in Short(g) <=> j \in Short(f)) /\ (j \in Long(g) <=> j \in Long(f))
      /\ References(f) \subseteq 1..Len(g)
  BY <1>1 DEF Short, Long, References
<1> HIDE DEF u
<1>4. QED
  BY <1>2, <1>3 DEF SameReferences

(* Marking a frame as written.                                             *)
LEMMA OutIs ==
    ASSUME NEW f \in Seq(Stores), NEW i \in 1..Len(f)
    PROVE  LET g == [f EXCEPT ![i].out = TRUE] IN
           /\ g \in Seq(Stores) /\ Len(g) = Len(f) /\ SameReferences(f, g)
           /\ g[i].out = TRUE
           /\ \A j \in 1..Len(f) : /\ g[j].poc = f[j].poc /\ g[j].ref = f[j].ref
                                   /\ j # i => g[j] = f[j]
<1> DEFINE g == [f EXCEPT ![i].out = TRUE]
<1>1. Len(f) \in Nat /\ DOMAIN f = 1..Len(f) /\ \A j \in 1..Len(f) : f[j] \in Stores
  BY StoresOf
<1>2. g = [f EXCEPT ![i] = [f[i] EXCEPT !.out = TRUE]]
  BY <1>1
<1>3. [f[i] EXCEPT !.out = TRUE] \in Stores
  BY <1>1 DEF Stores
<1>4. /\ g \in Seq(Stores) /\ Len(g) = Len(f)
      /\ \A j \in 1..Len(f) : g[j] = IF j = i THEN [f[i] EXCEPT !.out = TRUE] ELSE f[j]
  BY <1>2, <1>3, ExceptSeq
<1> HIDE DEF g
<1>5. \A j \in 1..Len(f) :
         /\ g[j].frame_num = f[j].frame_num /\ g[j].long_term_frame_idx = f[j].long_term_frame_idx
         /\ g[j].ref = f[j].ref /\ g[j].lt = f[j].lt /\ g[j].poc = f[j].poc
         /\ j # i => g[j] = f[j]
  BY <1>1, <1>4 DEF Stores
<1>6. g[i].out = TRUE
  BY <1>1, <1>4 DEF Stores
<1>7. SameReferences(f, g)
  BY <1>4, <1>5, ChangedSame
<1>8. QED
  BY <1>4, <1>5, <1>6, <1>7 DEF g

-----------------------------------------------------------------------------
(***************************************************************************)
(* frame_num counts modulo MaxFrameNum.                                    *)
(***************************************************************************)
LEMMA Modulo ==
    ASSUME NEW x \in Int, -MaxFrameNum <= x, x < 2 * MaxFrameNum
    PROVE  /\ x % MaxFrameNum \in Numbers
           /\ x % MaxFrameNum = IF x < 0 THEN x + MaxFrameNum
                                ELSE IF x < MaxFrameNum THEN x ELSE x - MaxFrameNum
<1>1. MaxFrameNum \in Nat \ {0}
  BY FrameNumAssumption, SizeAssumption
<1>2. \A b \in Nat \ {0}, q \in Int : \A r \in 0..b - 1, a \in Int : a = b * q + r => a % b = r
  OBVIOUS
<1>3. CASE x < 0
  <2>1. x + MaxFrameNum \in 0..MaxFrameNum - 1 /\ x = MaxFrameNum * (-1) + (x + MaxFrameNum)
    BY <1>1, <1>3
  <2>2. QED
    BY <1>1, <1>2, <1>3, <2>1 DEF Numbers
<1>4. CASE 0 <= x /\ x < MaxFrameNum
  <2>1. x \in 0..MaxFrameNum - 1 /\ x = MaxFrameNum * 0 + x
    BY <1>1, <1>4
  <2>2. QED
    BY <1>1, <1>2, <1>4, <2>1 DEF Numbers
<1>5. CASE MaxFrameNum <= x
  <2>1. x - MaxFrameNum \in 0..MaxFrameNum - 1 /\ x = MaxFrameNum * 1 + (x - MaxFrameNum)
    BY <1>1, <1>5
  <2>2. QED
    BY <1>1, <1>2, <1>5, <2>1 DEF Numbers
<1>6. QED
  BY <1>1, <1>3, <1>4, <1>5

Succ(n) == IF n = MaxFrameNum - 1 THEN 0 ELSE n + 1
Pred(n) == IF n = 0 THEN MaxFrameNum - 1 ELSE n - 1

(* How long before b the number n was given.                               *)
Age(b, n) == IF n <= b THEN b - n ELSE b - n + MaxFrameNum

LEMMA AgesAre ==
    ASSUME NEW b \in Numbers, NEW n \in Numbers
    PROVE  /\ Succ(b) \in Numbers /\ Pred(b) \in Numbers /\ Age(b, n) \in Numbers
           /\ Pred(Succ(b)) = b /\ Succ(Pred(b)) = b /\ (b + 1) % MaxFrameNum = Succ(b)
           /\ Age(b, b) = 0 /\ (Age(b, n) = 0 <=> n = b)
           /\ Age(b, n) = MaxFrameNum - 1 <=> n = Succ(b)
           /\ Age(b, n) < MaxFrameNum - 1 => Age(Succ(b), n) = Age(b, n) + 1
           /\ n # b => Age(n, Succ(b)) = Age(n, b) - 1
<1>1. MaxFrameNum \in Nat \ {0, 1}
  BY FrameNumAssumption, SizeAssumption
<1>2. b + 1 \in Int /\ -MaxFrameNum <= b + 1 /\ b + 1 < 2 * MaxFrameNum
  BY <1>1 DEF Numbers
<1>3. (b + 1) % MaxFrameNum = Succ(b)
  BY <1>1, <1>2, Modulo DEF Numbers, Succ
<1>4. QED
  BY <1>1, <1>3 DEF Numbers, Succ, Pred, Age

(***************************************************************************)
(* What else holds between the steps that store a picture.                 *)
(***************************************************************************)
Storing == phase \in {"slide", "room"}

(* sliding_window_memory_management is called for what is stored.          *)
Slides == filler # None \/ ~(pic.adaptive \/ pic.idr)

PhaseOK ==
    /\ phase = "dead" \/ error = "none"
    /\ phase = "start" => fs = <<>>
    /\ filler # None => /\ phase \in {"gap", "slide", "room", "dead"}
                        /\ ~pic.idr /\ ~pic.mmco5 /\ ~pic.lt /\ (pic.intra => Intra)
    /\ phase \in {"gap", "decode"} => ~pic.mmco5 /\ (pic.lt => pic.idr) /\ (pic.intra => Intra \/ pic.idr)
    /\ phase = "gap" => ~pic.idr
    /\ phase = "mark" => pic.adaptive
    /\ phase = "flush" /\ pic.ref => pic.idr \/ pic.mmco5
    /\ pic.idr => pic.ref /\ ~pic.adaptive /\ pic.frame_num = 0 /\ pic.long_term_frame_idx = 0
    /\ pic.lt => pic.ref /\ Adaptive
    /\ pic.adaptive => pic.ref /\ Adaptive
    /\ pic.mmco5 => pic.adaptive

LEMMA PicFields ==
    ASSUME pic \in Pictures
    PROVE  /\ pic.frame_num \in Numbers /\ pic.poc \in Pocs /\ pic.ref \in BOOLEAN /\ pic.lt \in BOOLEAN
           /\ pic.long_term_frame_idx \in Indices /\ pic.idr \in BOOLEAN /\ pic.adaptive \in BOOLEAN
           /\ pic.intra \in BOOLEAN /\ pic.mmco5 \in BOOLEAN /\ pic.noOutput \in BOOLEAN
  BY DEF Pictures

LEMMA FsIs ==
    ASSUME TypeOK
    PROVE  /\ fs \in Seq(Stores) /\ Len(fs) \in Nat /\ Len(fs) <= size /\ size \in Nat
           /\ DOMAIN fs = 1..Len(fs) /\ \A i \in 1..Len(fs) : fs[i] \in Stores /\ fs[i].poc \in Pocs
           /\ Short(fs) \subseteq 1..Len(fs) /\ Long(fs) \subseteq 1..Len(fs)
<1>1. fs \in Seq(Stores) /\ Len(fs) <= size
  BY DEF TypeOK
<1>2. DOMAIN fs = 1..Len(fs) /\ Len(fs) \in Nat /\ \A i \in 1..Len(fs) : fs[i] \in Stores /\ fs[i].poc \in Pocs
  BY <1>1, StoresOf
<1>3. Short(fs) \subseteq 1..Len(fs) /\ Long(fs) \subseteq 1..Len(fs)
  BY <1>2 DEF Short, Long
<1>4. QED
  BY <1>1, <1>2, <1>3, SizeAssumption

(* What a step leaves of the picture in hand when it changes the marking   *)
(* of others.                                                              *)
SamePicture ==
    /\ pic'.frame_num = pic.frame_num /\ pic'.poc = pic.poc /\ pic'.ref = pic.ref
    /\ pic'.idr = pic.idr /\ pic'.adaptive = pic.adaptive /\ pic'.intra = pic.intra
    /\ pic'.noOutput = pic.noOutput

Kinds == kind.Adaptive \in BOOLEAN /\ kind.Gaps \in 0..MaxFrameNum - 2

LEMMA KindIs == ASSUME TypeOK PROVE Kinds
  BY StreamsAssumption DEF TypeOK, Kinds

(* The picture that comes next, and what it is.                            *)
Started(g, p, r, a, i) ==
    /\ a => r
    /\ g > 0 \/ (r /\ ~a) => Cardinality(Long(fs)) < num_ref_frames
    /\ Adaptive => \A j \in Short(fs), k \in 0..g : fs[j].frame_num # Number(k)
    /\ pic' = [NoPicture EXCEPT !.frame_num = Number(g), !.poc = p, !.ref = r, !.adaptive = a, !.intra = i]
    /\ decoded' = decoded \cup {p}
    /\ IF Number(g) \in {pre_frame_num, (pre_frame_num + 1) % MaxFrameNum} THEN Goto("decode")
       ELSE IF Gaps = 0 THEN Stop("loss") ELSE Goto("gap")

LEMMA StartPictureIs ==
    ASSUME StartPicture
    PROVE  \E g \in Skips, p \in NextPocs, r \in BOOLEAN, a \in {FALSE, Adaptive}, i \in {FALSE, Intra} :
              Started(g, p, r, a, i)
  BY Zenon DEF StartPicture, Started

LEMMA StartPictureBase == ASSUME TypeOK, PhaseOK, KeepsFlag, StartPicture PROVE TypeOK' /\ PhaseOK'
<1>0. PICK g \in Skips, p \in NextPocs, r \in BOOLEAN, a \in {FALSE, Adaptive}, i \in {FALSE, Intra} :
         Started(g, p, r, a, i)
  BY StartPictureIs, Zenon
<1>1. /\ a => r
      /\ pic' = [NoPicture EXCEPT !.frame_num = Number(g), !.poc = p, !.ref = r, !.adaptive = a, !.intra = i]
      /\ decoded' = decoded \cup {p}
      /\ IF Number(g) \in {pre_frame_num, (pre_frame_num + 1) % MaxFrameNum} THEN Goto("decode")
         ELSE IF Gaps = 0 THEN Stop("loss") ELSE Goto("gap")
  BY <1>0 DEF Started
<1>2. g \in 0..MaxFrameNum - 2 /\ a \in BOOLEAN /\ i \in BOOLEAN /\ p \in Pocs
  <2>1. Gaps \in 0..MaxFrameNum - 2 /\ Adaptive \in BOOLEAN /\ Intra \in BOOLEAN
    BY KindIs, FlagsAssumption DEF Kinds, Adaptive, Gaps
  <2>2. g \in 0..Gaps \/ g = 0
    BY DEF Skips
  <2>3. a \in BOOLEAN /\ i \in BOOLEAN
    BY <2>1
  <2>4. p \in Pocs
    BY DEF NextPocs
  <2>5. MaxFrameNum \in Nat /\ MaxFrameNum > 1
    BY FrameNumAssumption, SizeAssumption
  <2>6. QED
    BY <2>1, <2>2, <2>3, <2>4, <2>5
<1>3. Number(g) \in Numbers
  <2>1. pre_frame_num \in 0..MaxFrameNum - 1 /\ MaxFrameNum \in Nat
    BY FrameNumAssumption DEF TypeOK, Numbers
  <2>2. \A x \in {pre_frame_num, pre_frame_num + 1} :
           x + g \in Int /\ -MaxFrameNum <= x + g /\ x + g < 2 * MaxFrameNum
    BY <1>2, <2>1
  <2>3. QED
    BY <2>2, Modulo DEF Number
<1>4. pic' \in Pictures
  <2>1. 0 \in Indices
    BY BoundsAssumption DEF Indices
  <2>2. pic' = [frame_num |-> Number(g), poc |-> p, ref |-> r, lt |-> FALSE, long_term_frame_idx |-> 0,
                idr |-> FALSE, adaptive |-> a, intra |-> i, mmco5 |-> FALSE, noOutput |-> FALSE]
    BY <1>1 DEF NoPicture
  <2>3. QED
    BY <1>2, <1>3, <2>1, <2>2, Zenon DEF Pictures
<1>5. /\ pic'.ref = r /\ pic'.adaptive = a /\ pic'.intra = i /\ ~pic'.idr /\ ~pic'.lt /\ ~pic'.mmco5
  BY <1>1 DEF NoPicture
<1>6. decoded' \subseteq Pocs
  BY <1>1, <1>2 DEF TypeOK
<1>7. /\ phase' \in {"decode", "gap", "dead"} /\ error' \in {"none", "loss"}
      /\ phase' = "dead" \/ error' = "none"
  BY <1>1 DEF Goto, Stop, PhaseOK, StartPicture
<1>8. commands' \in 0..MaxCommands + num_ref_frames
  BY BoundsAssumption, SizeAssumption DEF StartPicture
<1>9. TypeOK'
  BY <1>4, <1>6, <1>7, <1>8 DEF TypeOK, StartPicture, KeepsFlag, dpb, Phases
<1>10. filler' = None /\ fs' = fs /\ phase' # "start" /\ kind' = kind
  BY <1>7 DEF StartPicture, PhaseOK, KeepsFlag, dpb
<1>11. PhaseOK'
  BY <1>1, <1>2, <1>5, <1>7, <1>10 DEF PhaseOK, Adaptive
<1>12. QED
  BY <1>9, <1>11

LEMMA StartIdrBase == ASSUME TypeOK, PhaseOK, StartIdr PROVE TypeOK' /\ PhaseOK'
<1>1. PICK p \in Pocs, l \in BOOLEAN, noOutput \in BOOLEAN :
        /\ l => Adaptive
        /\ pic' = [NoPicture EXCEPT !.poc = p, !.ref = TRUE, !.lt = l, !.idr = TRUE,
                                    !.intra = TRUE, !.noOutput = noOutput]
        /\ no_output_of_prior_pics_flag' = noOutput
  BY Zenon DEF StartIdr
<1>2. 0 \in Indices /\ 0 \in Numbers
  BY BoundsAssumption, FrameNumAssumption, SizeAssumption DEF Indices, Numbers
<1>3. pic' = [frame_num |-> 0, poc |-> p, ref |-> TRUE, lt |-> l, long_term_frame_idx |-> 0, idr |-> TRUE,
              adaptive |-> FALSE, intra |-> TRUE, mmco5 |-> FALSE, noOutput |-> noOutput]
  BY <1>1 DEF NoPicture
<1>4. pic' \in Pictures
  BY <1>2, <1>3, Zenon DEF Pictures
<1>5. commands' \in 0..MaxCommands + num_ref_frames
  BY BoundsAssumption, SizeAssumption DEF StartIdr
<1>6. no_output_of_prior_pics_flag' \in BOOLEAN /\ pre_frame_num' \in Numbers
  BY <1>1, <1>2 DEF StartIdr
<1>7. phase' = "decode" /\ error' = error /\ phase \in {"start", "idle"} /\ filler' = filler
  BY DEF StartIdr, Goto
<1>8. TypeOK'
  BY <1>4, <1>5, <1>6, <1>7 DEF TypeOK, StartIdr, dpb, stream, Phases
<1>9. PhaseOK'
  <2>1. pic'.lt => Adaptive'
    BY <1>1, <1>3 DEF StartIdr, Adaptive
  <2>2. QED
    BY <1>3, <1>7, <2>1 DEF PhaseOK
<1>10. QED
  BY <1>8, <1>9

LEMMA FillGapBase == ASSUME TypeOK, PhaseOK, KeepsFlag, FillGap PROVE TypeOK' /\ PhaseOK'
<1>1. (pre_frame_num + 1) % MaxFrameNum \in Numbers
  BY ZenonT(60), AgesAre DEF TypeOK
<1>2. /\ phase = "gap" /\ phase' \in {"decode", "slide"} /\ error' = error
      /\ filler' \in Numbers \cup {None}
      /\ phase' = "decode" => filler' = None
  BY <1>1 DEF FillGap, Goto
<1>3. UNCHANGED <<fs, last_output_poc, max_long_term_pic_idx, pre_frame_num, pic, commands, decoded, shown,
                  no_output_of_prior_pics_flag, kind>>
  BY DEF FillGap, dpb, stream, KeepsFlag
<1>4. TypeOK'
  BY <1>2, <1>3 DEF TypeOK, Phases
<1>5. PhaseOK'
  BY <1>2, <1>3 DEF PhaseOK, Adaptive
<1>6. QED
  BY <1>4, <1>5

LEMMA RenumberedIs ==
    ASSUME fs \in Seq(Stores)
    PROVE  /\ Renumbered \in Seq(Stores) /\ Len(Renumbered) = Len(fs)
           /\ \A i \in 1..Len(fs) : /\ Renumbered[i].poc = fs[i].poc /\ Renumbered[i].out = fs[i].out
                                    /\ Renumbered[i].ref = fs[i].ref
           /\ SameReferences(fs, Renumbered)
           /\ Long(Renumbered) = Long(fs) /\ Short(Renumbered) = Short(fs)
           /\ \A i \in 1..Len(fs) : Renumbered[i].frame_num = fs[i].frame_num
           /\ \A i \in Long(fs) : /\ Renumbered[i].long_term_frame_idx = fs[i].long_term_frame_idx
                                  /\ Renumbered[i].long_term_pic_num = fs[i].long_term_frame_idx
<1> DEFINE g == Renumbered
<1>1. DOMAIN fs = 1..Len(fs) /\ \A i \in 1..Len(fs) : fs[i] \in Stores
  BY StoresOf
<1>2. g = [i \in DOMAIN fs |->
             IF i \in Long(fs) THEN [fs[i] EXCEPT !.long_term_pic_num = fs[i].long_term_frame_idx] ELSE fs[i]]
  BY DEF Renumbered
<1>3. \A i \in DOMAIN fs : [fs[i] EXCEPT !.long_term_pic_num = fs[i].long_term_frame_idx] \in Stores
  BY <1>1 DEF Stores
<1>4. g \in [DOMAIN fs -> Stores]
  BY <1>1, <1>2, <1>3
<1>5. g \in Seq(Stores) /\ Len(g) = Len(fs) /\ DOMAIN g = 1..Len(fs)
  BY <1>1, <1>4, MadeStores, Zenon
<1>6. \A i \in 1..Len(fs) :
         /\ g[i].frame_num = fs[i].frame_num /\ g[i].long_term_frame_idx = fs[i].long_term_frame_idx
         /\ g[i].ref = fs[i].ref /\ g[i].lt = fs[i].lt /\ g[i].poc = fs[i].poc /\ g[i].out = fs[i].out
         /\ i \in Long(fs) => g[i].long_term_pic_num = fs[i].long_term_frame_idx
  BY <1>1, <1>2 DEF Stores
<1> HIDE DEF g
<1>7. SameReferences(fs, g)
  BY <1>5, <1>6, ChangedSame
<1>8. Long(g) = Long(fs) /\ Short(g) = Short(fs) /\ Long(fs) \subseteq 1..Len(fs)
  BY <1>1, <1>5, <1>6 DEF Long, Short
<1>9. QED
  BY <1>5, <1>6, <1>7, <1>8 DEF g

LEMMA DecodeBase == ASSUME TypeOK, PhaseOK, KeepsFlag, Decode PROVE TypeOK' /\ PhaseOK'
<1>1. fs' \in Seq(Stores) /\ Len(fs') = Len(fs)
  BY RenumberedIs DEF Decode, TypeOK
<1>2. /\ phase = "decode" /\ ~pic.idr /\ phase' \in {"mark", "slide"} /\ error' = error
      /\ phase' = "mark" => pic.adaptive
      /\ UNCHANGED <<last_output_poc, max_long_term_pic_idx, pic, filler, commands, decoded, shown,
                  no_output_of_prior_pics_flag, kind>>
      /\ pre_frame_num' = pic.frame_num
  BY DEF Decode, stream, KeepsFlag, Goto
<1>3. pre_frame_num' \in Numbers
  BY <1>2, PicFields DEF TypeOK
<1>4. TypeOK'
  BY <1>1, <1>2, <1>3 DEF TypeOK, Phases
<1>5. PhaseOK'
  BY <1>2 DEF PhaseOK, Adaptive
<1>6. QED
  BY <1>4, <1>5

(* An IDR picture is the first of its sequence.                            *)
LEMMA DiscardPicturesBase == ASSUME TypeOK, PhaseOK, KeepsFlag, DiscardPictures PROVE TypeOK' /\ PhaseOK'
<1>1. fs' \in Seq(Stores) /\ Len(fs') = 0 /\ size \in Nat
  BY SizeAssumption DEF DiscardPictures
<1>2. LongTermIdxOfIdr \in Indices \cup {None} /\ pic.poc \in Pocs
  <2>1. LongTermIdxOfIdr \in {0, None}
    BY DEF LongTermIdxOfIdr
  <2>2. 0 \in Indices
    BY BoundsAssumption DEF Indices
  <2>3. QED
    BY <2>1, <2>2, PicFields DEF TypeOK
<1>3. /\ phase' = "slide" /\ error' = error /\ phase = "decode" /\ pic.idr
      /\ UNCHANGED <<pre_frame_num, pic, filler, commands, no_output_of_prior_pics_flag, kind>>
      /\ last_output_poc' = None /\ max_long_term_pic_idx' = LongTermIdxOfIdr
      /\ decoded' = {pic.poc} /\ shown' = None
  BY DEF DiscardPictures, KeepsFlag, Goto
<1>4. TypeOK'
  <2>1. Len(fs') <= size /\ decoded' \subseteq Pocs /\ phase' \in Phases
    BY <1>1, <1>2, <1>3 DEF Phases
  <2>2. QED
    BY <1>1, <1>2, <1>3, <2>1 DEF TypeOK
<1>5. PhaseOK'
  BY <1>3 DEF PhaseOK, Adaptive
<1>6. QED
  BY <1>4, <1>5

(* flush_dpb begins: nothing is a reference any more.                      *)
LEMMA FlushBegins ==
    ASSUME TypeOK, fs' = Unmarked(DOMAIN fs)
    PROVE  fs' \in Seq(Stores) /\ Len(fs') = Len(fs) /\ References(fs') = {} /\ Remarked(fs, fs')
<1>1. fs \in Seq(Stores)
  BY DEF TypeOK
<1>2. Remarked(fs, Unmarked(DOMAIN fs)) /\ References(Unmarked(DOMAIN fs)) = References(fs) \ DOMAIN fs
  BY <1>1, UnmarkedIs
<1>3. References(fs) \subseteq DOMAIN fs
  BY DEF References
<1>4. QED
  BY <1>2, <1>3 DEF Remarked

LEMMA NoPictureIs == NoPicture \in Pictures
<1>1. 0 \in Indices /\ 0 \in Numbers /\ 0 \in Pocs
  BY BoundsAssumption, FrameNumAssumption, SizeAssumption DEF Indices, Numbers, Pocs
<1>2. QED
  BY <1>1, Zenon DEF NoPicture, Pictures

LEMMA FlushBase ==
    ASSUME TypeOK, PhaseOK, KeepsFlag, FlushForIdr \/ FlushAtEnd \/ activate_sps
    PROVE  TypeOK' /\ PhaseOK'
<1>1. 0 \in 0..MaxCommands + num_ref_frames
  BY BoundsAssumption, SizeAssumption
<1>2. CASE FlushForIdr
  <2>1. fs' \in Seq(Stores) /\ Len(fs') = Len(fs)
    BY <1>2, FlushBegins DEF FlushForIdr
  <2>2. /\ phase' = "flush" /\ error' = error /\ phase = "decode" /\ pic.idr
        /\ UNCHANGED <<last_output_poc, max_long_term_pic_idx, pre_frame_num, pic, filler, commands, decoded, shown,
                       no_output_of_prior_pics_flag, kind>>
    BY <1>2 DEF FlushForIdr, KeepsFlag, Goto, stream
  <2>3. TypeOK'
    BY <2>1, <2>2 DEF TypeOK, Phases
  <2>4. PhaseOK'
    BY <2>2 DEF PhaseOK, Adaptive
  <2>5. QED
    BY <2>3, <2>4
<1>3. CASE FlushAtEnd
  <2>1. fs' \in Seq(Stores) /\ Len(fs') = Len(fs)
    BY <1>3, FlushBegins DEF FlushAtEnd
  <2>2. /\ phase' = "flush" /\ error' = error /\ phase = "idle" /\ pic' = NoPicture /\ commands' = 0
        /\ UNCHANGED <<last_output_poc, max_long_term_pic_idx, pre_frame_num, filler, decoded, shown,
                       no_output_of_prior_pics_flag, kind>>
    BY <1>3 DEF FlushAtEnd, KeepsFlag, Goto, stream
  <2>3. TypeOK'
    BY <1>1, <2>1, <2>2, NoPictureIs DEF TypeOK, Phases
  <2>4. PhaseOK'
    BY <2>2 DEF PhaseOK, Adaptive, NoPicture
  <2>5. QED
    BY <2>3, <2>4
<1>4. CASE activate_sps /\ no_output_of_prior_pics_flag
  <2>1. /\ fs' = <<>> /\ last_output_poc' = None /\ decoded' = {} /\ shown' = None
        /\ phase' = "start" /\ error' = error /\ phase = "idle" /\ pic' = NoPicture /\ commands' = 0
        /\ UNCHANGED <<max_long_term_pic_idx, pre_frame_num, filler, no_output_of_prior_pics_flag, kind>>
    BY <1>4 DEF activate_sps, KeepsFlag, Goto
  <2>2. fs' \in Seq(Stores) /\ Len(fs') <= size
    BY <2>1, SizeAssumption
  <2>3. TypeOK'
    BY <1>1, <2>1, <2>2, NoPictureIs DEF TypeOK, Phases
  <2>4. PhaseOK'
    BY <2>1 DEF PhaseOK, Adaptive, NoPicture
  <2>5. QED
    BY <2>3, <2>4
<1>5. CASE activate_sps /\ ~no_output_of_prior_pics_flag
  <2>1. /\ fs' = Unmarked(DOMAIN fs)
        /\ phase' = "flush" /\ error' = error /\ phase = "idle" /\ pic' = NoPicture /\ commands' = 0
        /\ UNCHANGED <<last_output_poc, max_long_term_pic_idx, pre_frame_num, filler, decoded, shown,
                       no_output_of_prior_pics_flag, kind>>
    BY <1>5 DEF activate_sps, KeepsFlag, Goto, stream
  <2>2. fs' \in Seq(Stores) /\ Len(fs') = Len(fs)
    BY <2>1, FlushBegins
  <2>3. TypeOK'
    BY <1>1, <2>1, <2>2, NoPictureIs DEF TypeOK, Phases
  <2>4. PhaseOK'
    BY <2>1 DEF PhaseOK, Adaptive, NoPicture
  <2>5. QED
    BY <2>3, <2>4
<1>6. QED
  BY <1>2, <1>3, <1>4, <1>5

-----------------------------------------------------------------------------
(***************************************************************************)
(* Memory management commands: none adds a reference, and the picture in   *)
(* hand stays what it was but for its own marking.                         *)
(***************************************************************************)
MarkStep ==
    /\ phase = "mark" /\ phase' = "mark" /\ error' = error
    /\ Remarked(fs, fs') /\ SamePicture /\ pic' \in Pictures
    /\ pic'.mmco5 \in {pic.mmco5, TRUE}
    /\ max_long_term_pic_idx' \in Indices \cup {None}
    /\ commands' \in 0..MaxCommands + num_ref_frames
    /\ UNCHANGED <<last_output_poc, pre_frame_num, filler, decoded, shown>>

LEMMA Bounds ==
    /\ MaxCommands \in Nat /\ MaxPoc \in Nat /\ MaxLongTerm \in Nat /\ size \in Nat
    /\ num_ref_frames \in Nat \ {0} /\ num_ref_frames <= size
    /\ MaxFrameNum \in Nat /\ MaxFrameNum > num_ref_frames + 1 /\ Reorder \in Nat
  BY BoundsAssumption, SizeAssumption, FrameNumAssumption, ReorderAssumption

LEMMA CommandIs ==
    ASSUME TypeOK, NEW b, Command(b)
    PROVE  /\ phase = "mark" /\ phase' = "mark" /\ error' = error
           /\ commands' \in 0..MaxCommands + num_ref_frames
           /\ UNCHANGED <<last_output_poc, pre_frame_num, filler, decoded, shown>>
<1>1. commands \in 0..MaxCommands + num_ref_frames
  BY DEF TypeOK
<1>2. commands < MaxCommands + num_ref_frames \/ commands < MaxCommands
  BY DEF Command
<1>4. commands' = commands + 1
  BY DEF Command
<1>5. commands' \in 0..MaxCommands + num_ref_frames
  BY <1>1, <1>2, <1>4, Bounds
<1>6. QED
  BY <1>5 DEF Command, stream

LEMMA UnmarkShortIs ==
    ASSUME TypeOK, mm_unmark_short_term_for_reference
    PROVE  /\ MarkStep /\ UNCHANGED <<pic, max_long_term_pic_idx>>
           /\ \E i \in Short(fs) : fs' = Unmarked({i})
<1>1. PICK n \in {Wrap(fs[i].frame_num) : i \in Short(fs)} :
        /\ Command(TooMany)
        /\ fs' = Unmarked({First({i \in Short(fs) : Wrap(fs[i].frame_num) = n})})
        /\ UNCHANGED <<max_long_term_pic_idx, pic>>
  BY DEF mm_unmark_short_term_for_reference
<1>2. fs \in Seq(Stores)
  BY DEF TypeOK
<1> DEFINE S == {i \in Short(fs) : Wrap(fs[i].frame_num) = n}
<1>3. S # {} /\ S \in SUBSET Nat
  BY <1>2, StoresOf DEF Short
<1>4. First(S) \in S
  BY <1>3, FirstIsLeast
<1>5. Remarked(fs, fs')
  BY <1>1, <1>2, UnmarkedIs
<1>6. QED
  BY <1>1, <1>2, <1>4, <1>5, CommandIs DEF MarkStep, SamePicture, TypeOK

LEMMA UnmarkLongIs ==
    ASSUME TypeOK, NEW n \in Indices, mm_unmark_long_term_for_reference(n)
    PROVE  /\ MarkStep /\ UNCHANGED <<pic, max_long_term_pic_idx>>
           /\ fs' = UnmarkedLong({i \in Long(fs) : fs[i].long_term_pic_num = n})
<1>1. fs \in Seq(Stores)
  BY DEF TypeOK
<1>2. {i \in Long(fs) : fs[i].long_term_pic_num = n} \in SUBSET Long(fs)
  OBVIOUS
<1>3. Remarked(fs, fs')
  BY <1>1, <1>2, UnmarkedLongIs DEF mm_unmark_long_term_for_reference
<1>4. QED
  BY <1>1, <1>3, CommandIs DEF mm_unmark_long_term_for_reference, MarkStep, SamePicture, TypeOK

LEMMA UpdateMaxIs ==
    ASSUME TypeOK, mm_update_max_long_term_frame_idx
    PROVE  /\ MarkStep /\ UNCHANGED pic /\ ~pic.lt
           /\ fs' = UnmarkedLong({i \in Long(fs) : fs[i].long_term_frame_idx > max_long_term_pic_idx'})
<1>1. PICK max \in Indices \cup {None} :
        /\ Command(FALSE) /\ ~pic.lt /\ max_long_term_pic_idx' = max
        /\ fs' = UnmarkedLong({i \in Long(fs) : fs[i].long_term_frame_idx > max})
        /\ UNCHANGED pic
  BY DEF mm_update_max_long_term_frame_idx
<1>2. fs \in Seq(Stores) /\ {i \in Long(fs) : fs[i].long_term_frame_idx > max} \in SUBSET Long(fs)
  BY DEF TypeOK
<1>3. Remarked(fs, fs')
  BY <1>1, <1>2, UnmarkedLongIs
<1>4. QED
  BY <1>1, <1>3, CommandIs DEF MarkStep, SamePicture, TypeOK

LEMMA MarkCurrentIs ==
    ASSUME TypeOK, mm_mark_current_picture_long_term
    PROVE  /\ MarkStep /\ UNCHANGED max_long_term_pic_idx /\ ~pic.lt
           /\ pic'.long_term_frame_idx \in 0..max_long_term_pic_idx
           /\ fs' = UnmarkedLong(WithIndex(pic'.long_term_frame_idx))
           /\ pic'.lt = TRUE /\ pic'.mmco5 = pic.mmco5
<1>1. PICK idx \in 0..max_long_term_pic_idx :
        /\ Command(FALSE) /\ ~pic.lt /\ fs' = UnmarkedLong(WithIndex(idx))
        /\ pic' = [pic EXCEPT !.lt = TRUE, !.long_term_frame_idx = idx]
        /\ UNCHANGED max_long_term_pic_idx
  BY DEF mm_mark_current_picture_long_term
<1>2. fs \in Seq(Stores) /\ WithIndex(idx) \in SUBSET Long(fs)
  BY DEF TypeOK, WithIndex
<1>3. Remarked(fs, fs')
  BY <1>1, <1>2, UnmarkedLongIs
<1>4. idx \in Indices
  <2>1. max_long_term_pic_idx \in 0..MaxLongTerm \cup {-1}
    BY DEF TypeOK, Indices, None
  <2>2. QED
    BY <2>1, Bounds DEF Indices
<1>5. /\ pic' \in Pictures /\ SamePicture /\ pic'.mmco5 = pic.mmco5 /\ pic'.lt = TRUE
      /\ pic'.long_term_frame_idx = idx
  <2>1. pic \in Pictures
    BY DEF TypeOK
  <2>2. QED
    BY <1>1, <1>4, <2>1 DEF Pictures, SamePicture
<1>6. QED
  BY <1>1, <1>3, <1>5, CommandIs DEF MarkStep, TypeOK

(* Whatever had the index loses it before the frame gets it.               *)
LEMMA AssignIs ==
    ASSUME TypeOK, mm_assign_long_term_frame_idx
    PROVE  /\ MarkStep /\ UNCHANGED <<pic, max_long_term_pic_idx>> /\ ~pic.lt
           /\ References(fs') \subseteq References(fs)
           /\ \E m \in Short(fs), idx \in 0..max_long_term_pic_idx :
                 /\ Long(fs') = (Long(fs) \ WithIndex(idx)) \cup {m}
                 /\ fs'[m].long_term_frame_idx = idx /\ fs'[m].long_term_pic_num = idx
                 /\ \A i \in Long(fs) \ WithIndex(idx) : fs'[i] = fs[i]
<1>1. PICK n \in {Wrap(fs[i].frame_num) : i \in Short(fs)}, idx \in 0..max_long_term_pic_idx :
        LET marked == First({i \in Short(fs) : Wrap(fs[i].frame_num) = n})
        IN  /\ Command(FALSE) /\ ~pic.lt
            /\ fs' = [UnmarkedLong(WithIndex(idx)) EXCEPT
                        ![marked].lt = TRUE,
                        ![marked].long_term_frame_idx = idx,
                        ![marked].long_term_pic_num = idx]
            /\ UNCHANGED <<max_long_term_pic_idx, pic>>
  BY Zenon DEF mm_assign_long_term_frame_idx
<1> DEFINE S == {i \in Short(fs) : Wrap(fs[i].frame_num) = n}
           m == First(S)
           u == UnmarkedLong(WithIndex(idx))
<1>2. fs \in Seq(Stores) /\ DOMAIN fs = 1..Len(fs) /\ WithIndex(idx) \in SUBSET Long(fs)
  BY StoresOf DEF TypeOK, WithIndex
<1>3. S # {} /\ S \in SUBSET Nat
  BY <1>2, StoresOf DEF Short
<1>4. m \in Short(fs)
  <2>1. m \in S
    BY <1>3, FirstIsLeast
  <2>2. QED
    BY <2>1
<1>5. /\ u \in Seq(Stores) /\ Len(u) = Len(fs) /\ References(u) = References(fs) \ WithIndex(idx)
      /\ Short(u) = Short(fs) /\ Long(u) = Long(fs) \ WithIndex(idx)
      /\ \A i \in 1..Len(fs) : /\ u[i].frame_num = fs[i].frame_num /\ u[i].poc = fs[i].poc /\ u[i].out = fs[i].out
                               /\ i \notin WithIndex(idx) => u[i] = fs[i]
  BY <1>2, UnmarkedLongIs DEF Remarked
<1>6. idx \in Indices
  <2>1. max_long_term_pic_idx \in 0..MaxLongTerm \cup {-1}
    BY DEF TypeOK, Indices, None
  <2>2. QED
    BY <2>1, Bounds DEF Indices
<1>7. fs' = [u EXCEPT ![m].lt = TRUE, ![m].long_term_frame_idx = idx, ![m].long_term_pic_num = idx]
  BY <1>1
<1> HIDE DEF S, m, u
<1>8. m \in 1..Len(u) /\ DOMAIN u = 1..Len(u) /\ \A i \in 1..Len(u) : u[i] \in Stores
  BY <1>2, <1>4, <1>5, StoresOf DEF Short
<1> DEFINE e == [u[m] EXCEPT !.lt = TRUE, !.long_term_frame_idx = idx, !.long_term_pic_num = idx]
<1>9. /\ e \in Stores /\ e.lt = TRUE /\ e.long_term_frame_idx = idx /\ e.long_term_pic_num = idx
      /\ e.ref = u[m].ref /\ e.frame_num = u[m].frame_num /\ e.poc = u[m].poc /\ e.out = u[m].out
  BY <1>6, <1>8 DEF Stores
<1>10. fs' = [u EXCEPT ![m] = e]
  BY <1>7, <1>8
<1> HIDE DEF e
<1>11. /\ fs' \in Seq(Stores) /\ Len(fs') = Len(u) /\ DOMAIN fs' = 1..Len(u)
       /\ \A i \in 1..Len(u) : fs'[i] = IF i = m THEN e ELSE u[i]
  BY <1>5, <1>8, <1>9, <1>10, ExceptSeq, StoresOf
<1>12. u[m].ref /\ ~u[m].lt
  <2>1. m \in Short(u)
    BY <1>4, <1>5
  <2>2. QED
    BY <2>1 DEF Short
<1>13. Long(fs') = Long(u) \cup {m}
  BY <1>8, <1>9, <1>11, <1>12 DEF Long
<1>14. Short(fs') \subseteq Short(u) /\ References(fs') = References(u)
  BY <1>8, <1>9, <1>11, <1>12 DEF Short, References
<1>15. \A i \in 1..Len(fs) : /\ fs'[i].frame_num = fs[i].frame_num
                             /\ fs'[i].poc = fs[i].poc /\ fs'[i].out = fs[i].out
  BY <1>5, <1>9, <1>11
<1>16. Remarked(fs, fs')
  BY <1>5, <1>11, <1>14, <1>15 DEF Remarked
<1>17. MarkStep
  BY <1>1, <1>16, CommandIs DEF MarkStep, SamePicture, TypeOK
<1>18. \A i \in Long(fs) \ WithIndex(idx) : fs'[i] = fs[i]
  <2>1. m \notin Long(fs) /\ Long(fs) \subseteq 1..Len(fs)
    BY <1>2, <1>4 DEF Short, Long
  <2>2. QED
    BY <1>5, <1>11, <2>1
<1>19. /\ Long(fs') = (Long(fs) \ WithIndex(idx)) \cup {m}
       /\ fs'[m].long_term_frame_idx = idx /\ fs'[m].long_term_pic_num = idx
  BY <1>5, <1>8, <1>9, <1>11, <1>13
<1>20. UNCHANGED <<pic, max_long_term_pic_idx>> /\ ~pic.lt /\ References(fs') \subseteq References(fs)
  BY <1>1, <1>5, <1>14
<1>21. QED
  BY <1>4, <1>17, <1>18, <1>19, <1>20, Zenon

(* Command 5 leaves no reference.                                          *)
LEMMA UnmarkAllIs ==
    ASSUME TypeOK, mm_unmark_all
    PROVE  /\ MarkStep /\ ~pic.lt /\ pic'.lt = pic.lt /\ pic'.mmco5 = TRUE
           /\ max_long_term_pic_idx' = None /\ References(fs') = {}
<1>1. fs \in Seq(Stores) /\ DOMAIN fs = 1..Len(fs) /\ pic \in Pictures
      /\ \A i \in 1..Len(fs) : fs[i] \in Stores
  BY StoresOf DEF TypeOK
<1> DEFINE g == [i \in DOMAIN fs |-> IF i \in Short(fs) THEN Unmarked({i})[i] ELSE UnmarkedLong(Long(fs))[i]]
<1>2. /\ fs' = g /\ Command(FALSE) /\ ~pic.lt /\ ~pic.mmco5 /\ max_long_term_pic_idx' = None
      /\ pic' = [pic EXCEPT !.mmco5 = TRUE]
  BY DEF mm_unmark_all
<1>3. \A i \in 1..Len(fs) :
         g[i] = IF i \in Short(fs) THEN [fs[i] EXCEPT !.ref = FALSE]
                ELSE IF i \in Long(fs) THEN [fs[i] EXCEPT !.ref = FALSE, !.lt = FALSE] ELSE fs[i]
  BY <1>1 DEF Unmarked, UnmarkedLong
<1>4. \A i \in 1..Len(fs) : /\ [fs[i] EXCEPT !.ref = FALSE] \in Stores
                            /\ [fs[i] EXCEPT !.ref = FALSE, !.lt = FALSE] \in Stores
  BY <1>1 DEF Stores
<1>5. g \in [DOMAIN fs -> Stores]
  BY <1>1, <1>3, <1>4
<1>6. g \in Seq(Stores) /\ Len(g) = Len(fs) /\ DOMAIN g = 1..Len(fs)
  BY <1>1, <1>5, MadeStores, Zenon
<1>7. ASSUME NEW i \in 1..Len(fs)
      PROVE  g[i].frame_num = fs[i].frame_num /\ g[i].poc = fs[i].poc /\ g[i].out = fs[i].out /\ ~g[i].ref
  <2>1. fs[i] \in Stores
    BY <1>1
  <2>2. CASE i \in Short(fs)
    <3>1. g[i] = [fs[i] EXCEPT !.ref = FALSE]
      BY <1>3, <2>2
    <3>2. QED
      BY <2>1, <3>1 DEF Stores
  <2>3. CASE i \notin Short(fs) /\ i \in Long(fs)
    <3>1. g[i] = [fs[i] EXCEPT !.ref = FALSE, !.lt = FALSE]
      BY <1>3, <2>3
    <3>2. QED
      BY ZenonT(60), <2>1, <3>1 DEF Stores
  <2>4. CASE i \notin Short(fs) /\ i \notin Long(fs)
    <3>1. ~fs[i].ref /\ g[i] = fs[i]
      BY <1>1, <1>3, <2>4 DEF Short, Long
    <3>2. QED
      BY <3>1
  <2>5. QED
    BY <2>2, <2>3, <2>4
<1> HIDE DEF g
<1>8. References(g) = {} /\ Short(g) = {}
  BY <1>6, <1>7 DEF References, Short
<1>9. Remarked(fs, fs')
  BY <1>2, <1>6, <1>7, <1>8 DEF Remarked
<1>10. pic' \in Pictures /\ SamePicture /\ pic'.lt = pic.lt /\ pic'.mmco5 = TRUE
  BY <1>1, <1>2 DEF Pictures, SamePicture
<1>11. QED
  BY <1>2, <1>8, <1>9, <1>10, CommandIs DEF MarkStep

Marks == \/ mm_unmark_short_term_for_reference
         \/ \E n \in Indices : mm_unmark_long_term_for_reference(n)
         \/ mm_assign_long_term_frame_idx
         \/ mm_update_max_long_term_frame_idx
         \/ mm_unmark_all
         \/ mm_mark_current_picture_long_term

LEMMA MarksAre == ASSUME TypeOK, Marks PROVE MarkStep
  BY UnmarkShortIs, UnmarkLongIs, AssignIs, UpdateMaxIs, UnmarkAllIs, MarkCurrentIs DEF Marks

LEMMA MarksBase == ASSUME TypeOK, PhaseOK, KeepsFlag, Marks PROVE TypeOK' /\ PhaseOK'
<1>1. MarkStep
  BY MarksAre
<1>2. TypeOK'
  BY <1>1 DEF MarkStep, KeepsFlag, TypeOK, Remarked
<1>3. PhaseOK'
  BY <1>1 DEF MarkStep, KeepsFlag, PhaseOK, SamePicture, Adaptive
<1>4. QED
  BY <1>2, <1>3

LEMMA EndOfCommandsBase == ASSUME TypeOK, PhaseOK, KeepsFlag, EndOfCommands PROVE TypeOK' /\ PhaseOK'
<1>1. pic \in Pictures /\ 0 \in Numbers /\ 0 \in Pocs
  <2>1. 0 \in Numbers /\ 0 \in Pocs
    BY Bounds DEF Numbers, Pocs
  <2>2. QED
    BY <2>1 DEF TypeOK
<1>2. CASE pic.mmco5
  <2>1. /\ pic' = [pic EXCEPT !.frame_num = 0, !.poc = 0] /\ phase = "mark" /\ phase' = "flush" /\ error' = error
        /\ fs' = Unmarked(DOMAIN fs)
        /\ UNCHANGED <<last_output_poc, max_long_term_pic_idx, pre_frame_num, filler, commands, decoded, shown,
                       no_output_of_prior_pics_flag, kind>>
    BY <1>2 DEF EndOfCommands, Goto, KeepsFlag, stream
  <2>2. fs' \in Seq(Stores) /\ Len(fs') = Len(fs)
    BY <2>1, FlushBegins
  <2>3. /\ pic' \in Pictures /\ pic'.ref = pic.ref /\ pic'.idr = pic.idr /\ pic'.lt = pic.lt
        /\ pic'.adaptive = pic.adaptive /\ pic'.mmco5 = pic.mmco5 /\ pic'.frame_num = 0
        /\ pic'.long_term_frame_idx = pic.long_term_frame_idx
    BY <1>1, <2>1 DEF Pictures
  <2>4. TypeOK'
    BY <2>1, <2>2, <2>3 DEF TypeOK, Phases
  <2>5. PhaseOK'
    BY <1>2, <2>1, <2>3 DEF PhaseOK, Adaptive
  <2>6. QED
    BY <2>4, <2>5
<1>3. CASE ~pic.mmco5
  <2>1. /\ phase = "mark" /\ phase' = "slide" /\ error' = error
        /\ UNCHANGED <<fs, pic, last_output_poc, max_long_term_pic_idx, pre_frame_num, filler, commands, decoded, shown,
                       no_output_of_prior_pics_flag, kind>>
    BY <1>3 DEF EndOfCommands, Goto, KeepsFlag, stream
  <2>2. QED
    BY <2>1 DEF TypeOK, PhaseOK, Adaptive, Phases
<1>4. QED
  BY <1>2, <1>3

-----------------------------------------------------------------------------
(***************************************************************************)
(* output_one_frame_from_dpb either finds an error or writes the frame     *)
(* with the least order count.                                             *)
(***************************************************************************)
Written(i) ==
    /\ i \in Waiting(fs) /\ \A j \in Waiting(fs) : fs[i].poc <= fs[j].poc
    /\ shown' = fs[i].poc /\ last_output_poc' = fs[i].poc /\ last_output_poc < fs[i].poc
    /\ fs' = IF fs[i].ref THEN [fs EXCEPT ![i].out = TRUE] ELSE Removed(fs, i)
    /\ UNCHANGED <<max_long_term_pic_idx, error, phase>>

OutOfOrder(i) ==
    /\ i \in Waiting(fs) /\ \A j \in Waiting(fs) : fs[i].poc <= fs[j].poc
    /\ last_output_poc >= fs[i].poc /\ Stop("ascending")
    /\ shown' = fs[i].poc /\ fs' = [fs EXCEPT ![i].out = TRUE]
    /\ UNCHANGED <<last_output_poc, max_long_term_pic_idx>>

LEMMA OutputOneIs ==
    ASSUME TypeOK, OutputOne
    PROVE  \/ Waiting(fs) = {} /\ Stop("no frames") /\ UNCHANGED <<dpb, shown>>
           \/ \E i \in 1..Len(fs) : Written(i) \/ OutOfOrder(i)
<1>1. CASE Waiting(fs) = {}
  BY <1>1 DEF OutputOne
<1>2. CASE Waiting(fs) # {}
  <2> DEFINE i == Smallest(fs)
  <2>1. fs \in Seq(Stores)
    BY DEF TypeOK
  <2>2. i \in Waiting(fs) /\ (\A j \in Waiting(fs) : fs[i].poc <= fs[j].poc) /\ i \in 1..Len(fs)
    BY <1>2, <2>1, SmallestIsLeast, PlacesFinite
  <2>3. /\ shown' = fs[i].poc
        /\ IF last_output_poc >= fs[i].poc
           THEN /\ Stop("ascending") /\ UNCHANGED last_output_poc
                /\ fs' = [fs EXCEPT ![i].out = TRUE]
           ELSE /\ last_output_poc' = fs[i].poc /\ UNCHANGED <<error, phase>>
                /\ fs' = IF fs[i].ref THEN [fs EXCEPT ![i].out = TRUE] ELSE Removed(fs, i)
        /\ UNCHANGED max_long_term_pic_idx
    BY <1>2, Zenon DEF OutputOne
  <2> HIDE DEF i
  <2>4. fs[i].poc \in Int /\ last_output_poc \in Int
    <3>1. fs[i].poc \in 0..MaxPoc
      BY <2>1, <2>2, StoresOf DEF Pocs
    <3>2. last_output_poc \in 0..MaxPoc \/ last_output_poc = -1
      BY DEF TypeOK, Pocs, None
    <3>3. QED
      BY <3>1, <3>2, Bounds
  <2>5. CASE last_output_poc >= fs[i].poc
    BY <2>2, <2>3, <2>5 DEF OutOfOrder
  <2>6. CASE ~(last_output_poc >= fs[i].poc)
    <3>1. last_output_poc < fs[i].poc
      BY <2>4, <2>6
    <3>2. QED
      BY <2>2, <2>3, <2>6, <3>1 DEF Written
  <2>7. QED
    BY <2>5, <2>6
<1>3. QED
  BY <1>1, <1>2

LEMMA WrittenIs ==
    ASSUME TypeOK, NEW i \in 1..Len(fs), Written(i)
    PROVE  fs' \in Seq(Stores) /\ Len(fs') <= Len(fs) /\ SameReferences(fs, fs')
<1>1. fs \in Seq(Stores) /\ Len(fs) \in Nat
  BY FsIs
<1>2. CASE fs[i].ref
  <2>1. fs' = [fs EXCEPT ![i].out = TRUE]
    BY <1>2 DEF Written
  <2>2. fs' \in Seq(Stores) /\ Len(fs') = Len(fs) /\ SameReferences(fs, fs')
    BY <1>1, <2>1, OutIs
  <2>3. QED
    BY <1>1, <2>2
<1>3. CASE ~fs[i].ref
  BY <1>1, <1>3, RemovedIs, RemovedSame DEF Written
<1>4. QED
  BY <1>2, <1>3

(* Either way the frames keep their types.                                 *)
LEMMA OutputTypes ==
    ASSUME TypeOK, OutputOne
    PROVE  /\ fs' \in Seq(Stores) /\ Len(fs') <= Len(fs)
           /\ last_output_poc' \in Pocs \cup {None} /\ shown' \in Pocs \cup {None}
           /\ max_long_term_pic_idx' = max_long_term_pic_idx
           /\ \/ error' = error /\ phase' = phase
              \/ error' \in {"no frames", "ascending"} /\ phase' = "dead"
<1>1. fs \in Seq(Stores) /\ Len(fs) \in Nat /\ \A i \in 1..Len(fs) : fs[i].poc \in Pocs
  BY StoresOf DEF TypeOK
<1>2. CASE Waiting(fs) = {} /\ Stop("no frames") /\ UNCHANGED <<dpb, shown>>
  <2>1. fs' = fs /\ last_output_poc' = last_output_poc /\ shown' = shown
        /\ max_long_term_pic_idx' = max_long_term_pic_idx /\ error' = "no frames" /\ phase' = "dead"
    BY <1>2 DEF Stop, dpb
  <2>2. last_output_poc \in Pocs \cup {None} /\ shown \in Pocs \cup {None}
    BY DEF TypeOK
  <2>3. fs' \in Seq(Stores) /\ Len(fs') <= Len(fs)
    <3>1. Len(fs) <= Len(fs)
      BY <1>1
    <3>2. QED
      BY <1>1, <2>1, <3>1, Zenon
  <2>4. last_output_poc' \in Pocs \cup {None} /\ shown' \in Pocs \cup {None}
    BY <2>1, <2>2
  <2>5. QED
    BY <2>1, <2>3, <2>4
<1>3. ASSUME NEW i \in 1..Len(fs), Written(i)
      PROVE  /\ fs' \in Seq(Stores) /\ Len(fs') <= Len(fs)
             /\ last_output_poc' \in Pocs \cup {None} /\ shown' \in Pocs \cup {None}
             /\ max_long_term_pic_idx' = max_long_term_pic_idx /\ error' = error /\ phase' = phase
  BY <1>1, <1>3, WrittenIs DEF Written
<1>4. ASSUME NEW i \in 1..Len(fs), OutOfOrder(i)
      PROVE  /\ fs' \in Seq(Stores) /\ Len(fs') <= Len(fs)
             /\ last_output_poc' \in Pocs \cup {None} /\ shown' \in Pocs \cup {None}
             /\ max_long_term_pic_idx' = max_long_term_pic_idx
             /\ error' = "ascending" /\ phase' = "dead"
  <2>1. fs' \in Seq(Stores) /\ Len(fs') = Len(fs)
    BY <1>1, <1>4, OutIs DEF OutOfOrder
  <2>2. /\ last_output_poc' = last_output_poc /\ shown' = fs[i].poc
        /\ max_long_term_pic_idx' = max_long_term_pic_idx /\ error' = "ascending" /\ phase' = "dead"
    BY <1>4 DEF OutOfOrder, Stop
  <2>3. last_output_poc \in Pocs \cup {None}
    BY DEF TypeOK
  <2>4. QED
    BY <1>1, <2>1, <2>2, <2>3
<1>5. QED
  BY <1>2, <1>3, <1>4, OutputOneIs

LEMMA OutputBase ==
    ASSUME TypeOK, PhaseOK, KeepsFlag, FlushOutput \/ MakeRoom
    PROVE  TypeOK' /\ PhaseOK'
<1>1. /\ OutputOne /\ phase \in {"flush", "room"}
      /\ UNCHANGED <<pre_frame_num, pic, filler, commands, decoded, no_output_of_prior_pics_flag, kind>>
  BY DEF FlushOutput, MakeRoom, KeepsFlag
<1>2. Len(fs') <= size
  <2>1. Len(fs') <= Len(fs) /\ Len(fs') \in Nat
    BY <1>1, OutputTypes, LenProperties
  <2>2. QED
    BY <2>1, FsIs
<1>3. TypeOK'
  BY <1>1, <1>2, OutputTypes DEF TypeOK, Phases
<1>4. PhaseOK'
  BY <1>1, OutputTypes DEF PhaseOK, Adaptive
<1>5. QED
  BY <1>3, <1>4

(***************************************************************************)
(* The rest of flush_dpb.                                                  *)
(***************************************************************************)
LEMMA FlushUnusedIs ==
    ASSUME TypeOK, FlushUnused
    PROVE  /\ fs' \in Seq(Stores) /\ Len(fs') <= Len(fs) /\ SameReferences(fs, fs')
           /\ \E i \in Unused(fs) : fs' = Removed(fs, i)
<1>1. fs \in Seq(Stores) /\ Len(fs) \in Nat /\ Unused(fs) \subseteq 1..Len(fs)
  BY StoresOf, PlacesFinite DEF TypeOK
<1>2. First(Unused(fs)) \in Unused(fs)
  <2>1. Unused(fs) \in SUBSET Nat /\ Unused(fs) # {}
    BY <1>1 DEF FlushUnused
  <2>2. QED
    BY <2>1, FirstIsLeast
<1> DEFINE i == First(Unused(fs))
<1>3. i \in 1..Len(fs) /\ ~fs[i].ref
  BY <1>1, <1>2 DEF Unused
<1>4. fs' = Removed(fs, i)
  BY DEF FlushUnused
<1> HIDE DEF i
<1>5. fs' \in Seq(Stores) /\ Len(fs') = Len(fs) - 1 /\ SameReferences(fs, fs')
  BY <1>1, <1>3, <1>4, RemovedIs, RemovedSame
<1>6. i \in Unused(fs)
  BY <1>2 DEF i
<1>7. QED
  BY <1>1, <1>4, <1>5, <1>6

LEMMA FlushRestBase ==
    ASSUME TypeOK, PhaseOK, KeepsFlag, FlushUnused \/ FlushEnd
    PROVE  TypeOK' /\ PhaseOK'
<1>1. CASE FlushUnused
  <2>1. UNCHANGED <<last_output_poc, max_long_term_pic_idx, pre_frame_num, pic, filler, phase, commands,
                    error, decoded, shown, no_output_of_prior_pics_flag, kind>> /\ phase = "flush"
    BY <1>1 DEF FlushUnused, stream, KeepsFlag
  <2>2. Len(fs') <= size /\ fs' \in Seq(Stores)
    <3>1. fs' \in Seq(Stores) /\ Len(fs') <= Len(fs) /\ Len(fs') \in Nat
      BY <1>1, FlushUnusedIs, LenProperties
    <3>2. QED
      BY <3>1, FsIs
  <2>3. QED
    BY <2>1, <2>2 DEF TypeOK, PhaseOK, Adaptive
<1>2. CASE FlushEnd
  <2>1. /\ phase = "flush" /\ fs = <<>> /\ last_output_poc' = None /\ shown' = None
        /\ decoded' = IF pic.ref THEN {pic.poc} ELSE {}
        /\ max_long_term_pic_idx' = IF pic.idr THEN LongTermIdxOfIdr ELSE max_long_term_pic_idx
        /\ phase' \in {"slide", "start"} /\ error' = error
        /\ UNCHANGED <<fs, pre_frame_num, pic, filler, commands, no_output_of_prior_pics_flag, kind>>
    BY <1>2 DEF FlushEnd, Goto, KeepsFlag
  <2>2. LongTermIdxOfIdr \in Indices \cup {None}
    <3>1. LongTermIdxOfIdr \in {0, None} /\ 0 \in Indices
      BY Bounds DEF LongTermIdxOfIdr, Indices
    <3>2. QED
      BY <3>1
  <2>3. decoded' \subseteq Pocs /\ max_long_term_pic_idx' \in Indices \cup {None}
    BY <2>1, <2>2, PicFields DEF TypeOK
  <2>4. TypeOK'
    BY <2>1, <2>3 DEF TypeOK, Phases
  <2>5. PhaseOK'
    BY <2>1 DEF PhaseOK, Adaptive
  <2>6. QED
    BY <2>4, <2>5
<1>3. QED
  BY <1>1, <1>2

(***************************************************************************)
(* The sliding window, with the removal of one unused frame.               *)
(***************************************************************************)
Window == IF Current.ref /\ Slides THEN Slid ELSE fs

LEMMA SlidIs ==
    ASSUME TypeOK
    PROVE  \/ /\ Short(fs) # {} /\ Cardinality(Short(fs)) = num_ref_frames - Cardinality(Long(fs))
              /\ Slid = Unmarked({First(Short(fs))})
              /\ First(Short(fs)) \in Short(fs) /\ \A j \in Short(fs) : First(Short(fs)) <= j
           \/ /\ Short(fs) = {} \/ Cardinality(Short(fs)) # num_ref_frames - Cardinality(Long(fs))
              /\ Slid = fs
<1>1. Short(fs) \in SUBSET Nat
  BY FsIs
<1>2. QED
  BY <1>1, FirstIsLeast DEF Slid

LEMMA WindowIs ==
    ASSUME TypeOK
    PROVE  Window \in Seq(Stores) /\ Len(Window) = Len(fs) /\ Remarked(fs, Window)
<1>1. fs \in Seq(Stores) /\ Remarked(fs, fs)
  BY DEF TypeOK, Remarked
<1>2. Slid = fs \/ Slid = Unmarked({First(Short(fs))})
  BY DEF Slid
<1>3. Remarked(fs, Slid)
  BY <1>1, <1>2, UnmarkedIs
<1>4. QED
  BY <1>1, <1>3 DEF Window, Remarked

LEMMA SlideIs ==
    ASSUME TypeOK, SlideWindow
    PROVE  /\ fs' \in Seq(Stores) /\ Len(fs') <= Len(fs) /\ SameReferences(Window, fs')
           /\ \/ fs' = Window /\ (Len(Window) # size \/ Unused(Window) = {})
              \/ \E i \in Unused(Window) : fs' = Removed(Window, i) /\ Len(fs') < size
<1>1. Window \in Seq(Stores) /\ Len(Window) = Len(fs) /\ Len(fs) \in Nat /\ Len(fs) <= size
  BY WindowIs, StoresOf DEF TypeOK
<1>2. fs' = IF Len(Window) = size /\ Unused(Window) # {} THEN Removed(Window, First(Unused(Window))) ELSE Window
  BY DEF SlideWindow, Window, Slides
<1>3. CASE Len(Window) = size /\ Unused(Window) # {}
  <2> DEFINE i == First(Unused(Window))
  <2>1. Unused(Window) \subseteq 1..Len(Window)
    BY <1>1, PlacesFinite
  <2>2. i \in Unused(Window)
    <3>1. Unused(Window) \in SUBSET Nat
      BY <2>1
    <3>2. QED
      BY <1>3, <3>1, FirstIsLeast
  <2>3. i \in 1..Len(Window) /\ ~Window[i].ref
    BY <2>1, <2>2 DEF Unused
  <2>4. fs' = Removed(Window, i)
    BY <1>2, <1>3
  <2> HIDE DEF i
  <2>5. fs' \in Seq(Stores) /\ Len(fs') = Len(Window) - 1 /\ SameReferences(Window, fs')
    BY <1>1, <2>3, <2>4, RemovedIs, RemovedSame
  <2>6. Len(fs') < size /\ Len(fs') <= Len(fs)
    BY <1>1, <1>3, <2>5
  <2>7. QED
    BY <2>2, <2>4, <2>5, <2>6
<1>4. CASE ~(Len(Window) = size /\ Unused(Window) # {})
  <2>1. SameReferences(Window, Window)
    BY <1>1, ChangedSame
  <2>2. fs' = Window
    BY <1>2, <1>4
  <2>3. QED
    BY <1>1, <1>4, <2>1, <2>2
<1>5. QED
  BY <1>3, <1>4

LEMMA SlideBase == ASSUME TypeOK, PhaseOK, KeepsFlag, SlideWindow PROVE TypeOK' /\ PhaseOK'
<1>1. /\ phase = "slide" /\ phase' = "room" /\ error' = error
      /\ UNCHANGED <<last_output_poc, max_long_term_pic_idx, pre_frame_num, pic, filler, commands, decoded, shown,
                     no_output_of_prior_pics_flag, kind>>
  BY DEF SlideWindow, Goto, KeepsFlag, stream
<1>2. fs' \in Seq(Stores) /\ Len(fs') <= size
  <2>1. fs' \in Seq(Stores) /\ Len(fs') <= Len(fs) /\ Len(fs') \in Nat
    BY SlideIs, LenProperties
  <2>2. QED
    BY <2>1, FsIs
<1>3. QED
  BY <1>1, <1>2 DEF TypeOK, PhaseOK, Phases, Adaptive

(***************************************************************************)
(* The picture, or the frame of a gap, is stored or shown at once.         *)
(***************************************************************************)
LEMMA CurrentIs ==
    ASSUME TypeOK
    PROVE  /\ Current \in Stores
           /\ filler # None => /\ Current.frame_num = filler /\ Current.ref = TRUE /\ Current.lt = FALSE
                               /\ Current.out = TRUE
           /\ filler = None => /\ Current.frame_num = pic.frame_num /\ Current.ref = pic.ref /\ Current.lt = pic.lt
                               /\ Current.out = FALSE /\ Current.poc = pic.poc
                               /\ Current.long_term_frame_idx = pic.long_term_frame_idx
<1>1. pic \in Pictures /\ 0 \in Pocs /\ 0 \in Indices /\ filler \in Numbers \cup {None}
  <2>1. 0 \in Pocs /\ 0 \in Indices
    BY Bounds DEF Pocs, Indices
  <2>2. QED
    BY <2>1 DEF TypeOK
<1>2. CASE filler # None
  BY <1>1, <1>2 DEF Current, Stores
<1>3. CASE filler = None
  <2>1. Current \in Stores
    BY <1>1, <1>3, PicFields, Zenon DEF Current, Stores
  <2>2. QED
    BY <1>3, <2>1 DEF Current
<1>4. QED
  BY <1>2, <1>3

LEMMA StoredIs ==
    ASSUME TypeOK, Stored
    PROVE  /\ pre_frame_num' \in Numbers
           /\ filler # None => pre_frame_num' = filler /\ phase' = "gap"
           /\ filler = None => pre_frame_num' = (IF pic.mmco5 THEN 0 ELSE pre_frame_num) /\ phase' = "idle"
<1>1. 0 \in Numbers /\ pre_frame_num \in Numbers /\ filler \in Numbers \cup {None}
  <2>1. 0 \in Numbers
    BY Bounds DEF Numbers
  <2>2. QED
    BY <2>1 DEF TypeOK
<1>2. QED
  BY <1>1 DEF Stored

LEMMA DirectBase == ASSUME TypeOK, PhaseOK, KeepsFlag, direct_output PROVE TypeOK' /\ PhaseOK'
<1>1. /\ phase = "room" /\ Stored /\ shown' = Current.poc /\ error' = error
      /\ UNCHANGED <<fs, last_output_poc, max_long_term_pic_idx, pic, filler, commands, decoded,
                     no_output_of_prior_pics_flag, kind>>
  BY DEF direct_output, KeepsFlag, dpb
<1>2. shown' \in Pocs
  BY <1>1, CurrentIs DEF Stores
<1>3. \/ filler = None /\ phase' = "idle"
      \/ filler # None /\ phase' = "gap"
  BY <1>1, StoredIs
<1>4. TypeOK'
  BY <1>1, <1>2, <1>3, StoredIs DEF TypeOK, Phases
<1>5. PhaseOK'
  BY <1>1, <1>3 DEF PhaseOK, Adaptive
<1>6. QED
  BY <1>4, <1>5

LEMMA InsertBase == ASSUME TypeOK, PhaseOK, KeepsFlag, insert_picture_in_dpb PROVE TypeOK' /\ PhaseOK'
<1>1. /\ phase = "room" /\ Len(fs) # size
      /\ UNCHANGED <<last_output_poc, max_long_term_pic_idx, pic, filler, commands, decoded, shown,
                     no_output_of_prior_pics_flag, kind>>
  BY DEF insert_picture_in_dpb, KeepsFlag, stream, Full
<1>2. CASE Stop("duplicate") /\ UNCHANGED <<fs, pre_frame_num>>
  BY <1>1, <1>2 DEF Stop, TypeOK, PhaseOK, Phases, Adaptive
<1>3. CASE fs' = Append(fs, Current) /\ Stored /\ UNCHANGED error
  <2>1. fs' \in Seq(Stores) /\ Len(fs') = Len(fs) + 1
    BY ZenonT(60), <1>3, CurrentIs, AppendProperties DEF TypeOK
  <2>2. Len(fs') <= size
    BY <1>1, <2>1, FsIs
  <2>3. \/ filler = None /\ phase' = "idle"
        \/ filler # None /\ phase' = "gap"
    BY <1>3, StoredIs
  <2>4. TypeOK'
    BY <1>1, <1>3, <2>1, <2>2, <2>3, StoredIs DEF TypeOK, Phases
  <2>5. PhaseOK'
    BY <1>1, <1>3, <2>3 DEF PhaseOK, Adaptive
  <2>6. QED
    BY <2>4, <2>5
<1>4. QED
  BY <1>2, <1>3 DEF insert_picture_in_dpb

-----------------------------------------------------------------------------
Base == TypeOK /\ PhaseOK

LEMMA BaseInit == Init => Base
<1> SUFFICES ASSUME Init PROVE Base
  OBVIOUS
<1>1. 0 \in Numbers /\ commands \in 0..MaxCommands + num_ref_frames /\ fs \in Seq(Stores) /\ Len(fs) <= size
  BY Bounds DEF Init, Numbers
<1>2. TypeOK
  BY <1>1, NoPictureIs DEF Init, TypeOK, Phases
<1>3. PhaseOK
  BY DEF Init, PhaseOK, NoPicture, Adaptive
<1>4. QED
  BY <1>2, <1>3 DEF Base

LEMMA BaseStep == Base /\ [Next]_vars => Base'
<1> SUFFICES ASSUME TypeOK, PhaseOK, [Next]_vars PROVE TypeOK' /\ PhaseOK'
  BY DEF Base
<1>1. CASE KeepsFlag /\ StartPicture
  BY <1>1, StartPictureBase
<1>2. CASE StartIdr
  BY <1>2, StartIdrBase
<1>3. CASE KeepsFlag /\ FillGap
  BY <1>3, FillGapBase
<1>4. CASE KeepsFlag /\ Decode
  BY <1>4, DecodeBase
<1>5. CASE KeepsFlag /\ DiscardPictures
  BY <1>5, DiscardPicturesBase
<1>6. CASE KeepsFlag /\ (FlushForIdr \/ FlushAtEnd \/ activate_sps)
  BY <1>6, FlushBase
<1>7. CASE KeepsFlag /\ Marks
  BY <1>7, MarksBase
<1>8. CASE KeepsFlag /\ EndOfCommands
  BY <1>8, EndOfCommandsBase
<1>9. CASE KeepsFlag /\ (FlushOutput \/ MakeRoom)
  BY <1>9, OutputBase
<1>10. CASE KeepsFlag /\ (FlushUnused \/ FlushEnd)
  BY <1>10, FlushRestBase
<1>11. CASE KeepsFlag /\ SlideWindow
  BY <1>11, SlideBase
<1>12. CASE KeepsFlag /\ direct_output
  BY <1>12, DirectBase
<1>13. CASE KeepsFlag /\ insert_picture_in_dpb
  BY <1>13, InsertBase
<1>14. CASE UNCHANGED vars
  <2>1. UNCHANGED <<fs, last_output_poc, max_long_term_pic_idx, kind, pre_frame_num, no_output_of_prior_pics_flag,
                    pic, filler, phase, commands, error, decoded, shown>>
    BY <1>14 DEF vars, dpb, stream
  <2>2. TypeOK'
    BY <2>1 DEF TypeOK
  <2>3. PhaseOK'
    BY <2>1 DEF PhaseOK, Adaptive
  <2>4. QED
    BY <2>2, <2>3
<1>15. QED
  BY <1>1, <1>2, <1>3, <1>4, <1>5, <1>6, <1>7, <1>8, <1>9, <1>10, <1>11, <1>12, <1>13, <1>14
     DEF Next, Stream, Marking, Marks, Decoder

LEMMA BaseHolds == Spec => []Base
<1>1. QED
  BY BaseInit, BaseStep, PTL DEF Spec

(* The buffer holds no more frames than it has stores, and every field     *)
(* stays in its range, whatever the stream does.                           *)
THEOREM DpbTypeCorrect == Spec => []TypeOK
<1>1. Base => TypeOK
  BY DEF Base
<1>2. QED
  BY <1>1, BaseHolds, PTL

(* A step of a loop leaves the picture in hand and the references alone,   *)
(* or ends in an error.                                                    *)
LoopStep ==
    \/ phase' = "dead"
    \/ /\ phase' = phase /\ phase \in {"flush", "room"}
       /\ UNCHANGED <<pic, filler, max_long_term_pic_idx, pre_frame_num, decoded>>
       /\ fs' \in Seq(Stores) /\ SameReferences(fs, fs')

LEMMA LoopStepIs == ASSUME Base, FlushUnused \/ FlushOutput \/ MakeRoom PROVE LoopStep
<1>1. CASE FlushUnused
  BY <1>1, FlushUnusedIs DEF FlushUnused, Base, LoopStep, stream
<1>2. CASE FlushOutput \/ MakeRoom
  <2>1. OutputOne /\ phase \in {"flush", "room"} /\ UNCHANGED <<pic, filler, pre_frame_num, decoded>>
    BY <1>2 DEF FlushOutput, MakeRoom
  <2>2. CASE phase' = "dead"
    BY <2>2 DEF LoopStep
  <2>3. CASE phase' # "dead"
    <3>1. PICK i \in 1..Len(fs) : Written(i)
      BY <2>1, <2>3, OutputOneIs DEF OutOfOrder, Stop, Base
    <3>2. phase' = phase /\ UNCHANGED max_long_term_pic_idx
      BY <3>1 DEF Written
    <3>3. QED
      BY <2>1, <3>1, <3>2, WrittenIs DEF Base, LoopStep
  <2>4. QED
    BY <2>2, <2>3
<1>3. QED
  BY <1>1, <1>2

-----------------------------------------------------------------------------
(***************************************************************************)
(* How many references there are.  Where a frame is going to be stored as  *)
(* a reference, a short term frame can give way to it or there is room.    *)
(***************************************************************************)
LEMMA NoStores ==
    /\ Short(<<>>) = {} /\ Long(<<>>) = {} /\ References(<<>>) = {} /\ Waiting(<<>>) = {}
    /\ Cardinality(Short(<<>>)) = 0 /\ Cardinality(Long(<<>>)) = 0 /\ Cardinality(References(<<>>)) = 0
<1>1. DOMAIN <<>> = {}
  OBVIOUS
<1>2. Short(<<>>) = {} /\ Long(<<>>) = {} /\ References(<<>>) = {} /\ Waiting(<<>>) = {}
  BY <1>1 DEF Short, Long, References, Waiting
<1>3. QED
  BY <1>2, FS_EmptySet

LEMMA Fewer ==
    ASSUME NEW f \in Seq(Stores), NEW g, Remarked(f, g)
    PROVE  /\ Cardinality(References(g)) <= Cardinality(References(f))
           /\ Cardinality(References(f)) \in Nat /\ Cardinality(References(g)) \in Nat
  BY PlacesFinite, FS_Subset DEF Remarked

LEMMA AppendedIs ==
    ASSUME NEW f \in Seq(Stores), NEW e \in Stores, NEW g, g = Append(f, e)
    PROVE  /\ g \in Seq(Stores) /\ Len(g) = Len(f) + 1 /\ DOMAIN g = 1..Len(f) + 1
           /\ g[Len(f) + 1] = e /\ \A i \in 1..Len(f) : g[i] = f[i]
           /\ e.ref /\ e.lt => Long(g) = Long(f) \cup {Len(f) + 1}
           /\ ~(e.ref /\ e.lt) => Long(g) = Long(f)
           /\ e.ref /\ ~e.lt => Short(g) = Short(f) \cup {Len(f) + 1}
           /\ e.ref /\ ~e.lt => Cardinality(Short(g)) = Cardinality(Short(f)) + 1
           /\ ~(e.ref /\ ~e.lt) => Short(g) = Short(f)
           /\ e.ref => Cardinality(References(g)) = Cardinality(References(f)) + 1
           /\ ~e.ref => References(g) = References(f)
<1>1. Len(f) \in Nat /\ DOMAIN f = 1..Len(f)
  BY StoresOf
<1>2. g \in Seq(Stores) /\ Len(g) = Len(f) + 1 /\ g[Len(f) + 1] = e /\ \A i \in 1..Len(f) : g[i] = f[i]
  BY AppendProperties
<1>3. DOMAIN g = 1..Len(f) + 1
  BY <1>2, StoresOf
<1>4. e.ref \in BOOLEAN /\ e.lt \in BOOLEAN
  BY DEF Stores
<1>5. Short(g) = Short(f) \cup (IF e.ref /\ ~e.lt THEN {Len(f) + 1} ELSE {})
  BY <1>1, <1>2, <1>3 DEF Short
<1>6. Long(g) = Long(f) \cup (IF e.ref /\ e.lt THEN {Len(f) + 1} ELSE {})
  BY <1>1, <1>2, <1>3 DEF Long
<1>7. References(g) = References(f) \cup (IF e.ref THEN {Len(f) + 1} ELSE {})
  BY <1>1, <1>2, <1>3 DEF References
<1>8. Len(f) + 1 \notin Short(f) /\ Len(f) + 1 \notin References(f)
  BY <1>1 DEF Short, References
<1>9. /\ e.ref /\ ~e.lt => Cardinality(Short(g)) = Cardinality(Short(f)) + 1
      /\ ~(e.ref /\ ~e.lt) => Short(g) = Short(f)
  <2>1. Cardinality(Short(f) \cup {Len(f) + 1}) = Cardinality(Short(f)) + 1
    BY <1>8, PlacesFinite, FS_AddElement
  <2>2. QED
    BY <1>5, <2>1
<1>10. /\ e.ref => Cardinality(References(g)) = Cardinality(References(f)) + 1
       /\ ~e.ref => References(g) = References(f)
  <2>1. Cardinality(References(f) \cup {Len(f) + 1}) = Cardinality(References(f)) + 1
    BY <1>8, PlacesFinite, FS_AddElement
  <2>2. QED
    BY <1>7, <2>1
<1>11. QED
  BY <1>2, <1>3, <1>5, <1>6, <1>7, <1>9, <1>10

(* A frame that is going to be stored finds room beside the long term      *)
(* references.                                                             *)
RoomBesideLong == Cardinality(Long(fs)) < num_ref_frames
RoomForOne == Cardinality(References(fs)) < num_ref_frames

RefsOK ==
    /\ phase \notin {"flush", "dead"} => Cardinality(References(fs)) <= num_ref_frames
    /\ phase = "flush" => References(fs) = {}
    /\ phase = "gap" => RoomBesideLong
    /\ Storing /\ filler # None => RoomBesideLong
    /\ phase \in {"decode", "slide"} /\ pic.ref /\ Slides => RoomBesideLong
    /\ phase = "slide" /\ Current.ref /\ ~Slides => RoomForOne
    /\ phase = "room" /\ Current.ref => RoomForOne

LEMMA RefsStart == ASSUME Base, RefsOK, StartPicture PROVE RefsOK'
<1>0. PICK g \in Skips, p \in NextPocs, r \in BOOLEAN, a \in {FALSE, Adaptive}, i \in {FALSE, Intra} :
         Started(g, p, r, a, i)
  BY StartPictureIs, Zenon
<1>1. /\ g > 0 \/ (r /\ ~a) => Cardinality(Long(fs)) < num_ref_frames
      /\ pic' = [NoPicture EXCEPT !.frame_num = Number(g), !.poc = p, !.ref = r, !.adaptive = a, !.intra = i]
      /\ IF Number(g) \in {pre_frame_num, (pre_frame_num + 1) % MaxFrameNum} THEN Goto("decode")
         ELSE IF Gaps = 0 THEN Stop("loss") ELSE Goto("gap")
  BY <1>0 DEF Started
<1>2. pic'.ref = r /\ pic'.adaptive = a /\ ~pic'.idr /\ fs' = fs /\ filler' = filler /\ phase = "idle"
  BY <1>1 DEF StartPicture, NoPicture, dpb
<1>3. filler' = None
  BY <1>2 DEF Base, PhaseOK
<1>4. phase' = "gap" => g > 0
  <2> SUFFICES ASSUME phase' = "gap", ~(g > 0) PROVE FALSE
    OBVIOUS
  <2>1. g = 0
    <3>1. g \in 0..Gaps \/ g = 0
      BY DEF Skips
    <3>2. Gaps \in 0..MaxFrameNum - 2
      BY KindIs DEF Base, Kinds, Gaps
    <3>3. QED
      BY <3>1, <3>2, Bounds
  <2>2. pre_frame_num \in 0..MaxFrameNum - 1 /\ MaxFrameNum \in Nat /\ MaxFrameNum > 0
    <3>1. pre_frame_num \in 0..MaxFrameNum - 1
      BY DEF Base, TypeOK, Numbers
    <3>2. QED
      BY <3>1, Bounds
  <2>3. pre_frame_num % MaxFrameNum = pre_frame_num
    BY <2>2, Modulo
  <2>4. Number(g) \in {pre_frame_num, (pre_frame_num + 1) % MaxFrameNum}
    BY <2>1, <2>2, <2>3 DEF Number
  <2>5. QED
    BY <1>1, <2>4 DEF Goto
<1>5. phase' \in {"decode", "gap", "dead"}
  BY <1>1 DEF Goto, Stop
<1>6. Cardinality(References(fs')) <= num_ref_frames
  BY <1>2 DEF RefsOK
<1>7. phase' = "gap" => RoomBesideLong'
  BY <1>1, <1>2, <1>4 DEF RoomBesideLong
<1>8. phase' = "decode" /\ pic'.ref /\ Slides' => RoomBesideLong'
  BY <1>1, <1>2, <1>3 DEF RoomBesideLong, Slides
<1>9. QED
  BY <1>3, <1>5, <1>6, <1>7, <1>8 DEF RefsOK, Storing


(* The steps that leave the buffer with no references, or with none but    *)
(* some of those it had.                                                   *)
LEMMA RefsMark ==
    ASSUME Base, RefsOK, Marks \/ EndOfCommands
    PROVE  RefsOK'
<1>1. CASE Marks
  <2>1. MarkStep /\ fs \in Seq(Stores)
    BY <1>1, MarksAre DEF Base, TypeOK
  <2>2. Cardinality(References(fs')) <= Cardinality(References(fs)) /\ phase = "mark" /\ phase' = "mark"
        /\ Cardinality(References(fs)) \in Nat /\ Cardinality(References(fs')) \in Nat
    BY <2>1, Fewer DEF MarkStep
  <2>3. Cardinality(References(fs')) <= num_ref_frames
    BY <2>2, Bounds DEF RefsOK
  <2>4. QED
    BY <2>2, <2>3 DEF RefsOK, Storing
<1>2. CASE EndOfCommands /\ pic.mmco5
  <2>1. fs' = Unmarked(DOMAIN fs) /\ phase' = "flush"
    BY <1>2 DEF EndOfCommands, Goto
  <2>2. References(fs') = {}
    BY <2>1, FlushBegins DEF Base
  <2>3. QED
    BY <2>1, <2>2 DEF RefsOK, Storing
<1>3. CASE EndOfCommands /\ ~pic.mmco5
  <2>1. phase = "mark" /\ phase' = "slide" /\ UNCHANGED <<fs, pic, filler>>
        /\ ~(Cardinality(References(fs)) >= num_ref_frames)
    BY <1>3 DEF EndOfCommands, Goto, TooMany
  <2>2. filler = None /\ pic.adaptive /\ ~Slides'
    BY <2>1 DEF Base, PhaseOK, Slides
  <2>3. Cardinality(References(fs)) \in Nat
    BY PlacesFinite DEF Base, TypeOK
  <2>4. RoomForOne' /\ Cardinality(References(fs')) <= num_ref_frames
    BY <2>1, <2>3, Bounds DEF RoomForOne
  <2>5. QED
    BY <2>1, <2>2, <2>4 DEF RefsOK, Storing
<1>4. QED
  BY <1>1, <1>2, <1>3

LEMMA RefsFlush ==
    ASSUME Base, RefsOK, FlushForIdr \/ FlushAtEnd \/ activate_sps \/ DiscardPictures \/ FlushEnd
    PROVE  RefsOK'
<1>1. CASE fs' = Unmarked(DOMAIN fs) /\ phase' = "flush"
  <2>1. References(fs') = {}
    BY <1>1, FlushBegins DEF Base
  <2>2. QED
    BY <1>1, <2>1 DEF RefsOK, Storing
<1>2. CASE fs' = <<>> /\ phase' \in {"start", "slide"}
  <2>1. 0 <= num_ref_frames /\ 0 < num_ref_frames
    BY Bounds
  <2>2. Cardinality(References(fs')) <= num_ref_frames /\ RoomForOne' /\ RoomBesideLong'
    BY <1>2, <2>1, NoStores DEF RoomForOne, RoomBesideLong
  <2>3. QED
    BY <1>2, <2>2 DEF RefsOK, Storing
<1>3. QED
  BY <1>1, <1>2 DEF FlushForIdr, FlushAtEnd, activate_sps, DiscardPictures, FlushEnd, Goto

(* The frames that were no references go, or are written.                  *)
LEMMA RefsOutput ==
    ASSUME Base, RefsOK, FlushUnused \/ FlushOutput \/ MakeRoom
    PROVE  RefsOK'
<1>1. \/ phase' = "dead"
      \/ /\ phase' = phase /\ phase \in {"flush", "room"} /\ UNCHANGED <<pic, filler>>
         /\ fs' \in Seq(Stores) /\ SameReferences(fs, fs')
  BY LoopStepIs DEF LoopStep
<1>2. CASE phase' = "dead"
  BY <1>2 DEF RefsOK, Storing
<1>3. CASE phase' # "dead"
  <2>1. /\ Cardinality(Long(fs')) = Cardinality(Long(fs))
        /\ Cardinality(References(fs')) = Cardinality(References(fs))
        /\ IsFiniteSet(References(fs')) /\ IsFiniteSet(References(fs))
    BY <1>1, <1>3, SameReferencesKeep, PlacesFinite DEF Base, TypeOK
  <2>2. References(fs) = {} => References(fs') = {}
    BY <2>1, FS_EmptySet
  <2>3. Current' = Current /\ Slides' = Slides /\ Storing' = Storing
    BY <1>1, <1>3 DEF Current, Slides, Storing
  <2>4. RoomBesideLong' = RoomBesideLong /\ RoomForOne' = RoomForOne
    BY <2>1 DEF RoomBesideLong, RoomForOne
  <2>5. QED
    BY <1>1, <1>3, <2>1, <2>2, <2>3, <2>4 DEF RefsOK
<1>4. QED
  BY <1>2, <1>3


LEMMA RefsDecode ==
    ASSUME Base, RefsOK, StartIdr \/ FillGap \/ Decode
    PROVE  RefsOK'
<1>1. CASE StartIdr
  <2>1. fs' = fs /\ filler' = filler /\ phase' = "decode" /\ pic'.idr /\ phase \in {"start", "idle"}
    BY <1>1 DEF StartIdr, Goto, NoPicture, dpb
  <2>2. ~Slides'
    BY <2>1 DEF Slides, Base, PhaseOK
  <2>3. QED
    BY <2>1, <2>2 DEF RefsOK, Storing
<1>2. CASE FillGap
  <2>1. /\ UNCHANGED <<fs, pic>> /\ phase = "gap"
        /\ \/ filler' = None /\ phase' = "decode"
           \/ phase' = "slide" /\ filler' = (pre_frame_num + 1) % MaxFrameNum
    BY <1>2 DEF FillGap, Goto, dpb
  <2>2. (pre_frame_num + 1) % MaxFrameNum # None
    <3>1. pre_frame_num \in Numbers
      BY DEF Base, TypeOK
    <3>2. (pre_frame_num + 1) % MaxFrameNum \in Numbers
      BY <3>1, AgesAre
    <3>3. QED
      BY <3>2, Bounds DEF Numbers, None
  <2>3. QED
    BY <2>1, <2>2 DEF RefsOK, RoomBesideLong, Storing, Slides
<1>3. CASE Decode
  <2>1. /\ UNCHANGED <<pic, filler>> /\ phase = "decode" /\ filler = None
        /\ phase' = IF pic.adaptive THEN "mark" ELSE "slide"
    BY <1>3 DEF Decode, Goto, Base, PhaseOK
  <2>2. /\ Cardinality(References(fs')) = Cardinality(References(fs))
        /\ Cardinality(Long(fs')) = Cardinality(Long(fs))
    <3>1. fs' = fs \/ fs' = Renumbered
      BY <1>3 DEF Decode
    <3>2. QED
      BY <3>1, RenumberedIs, SameReferencesKeep DEF Base, TypeOK
  <2>3. phase' = "slide" => Slides'
    BY <1>3, <2>1 DEF Slides, Decode
  <2>4. QED
    BY <2>1, <2>2, <2>3 DEF RefsOK, Storing, RoomBesideLong, Slides
<1>4. QED
  BY <1>1, <1>2, <1>3

(* The sliding window makes room by unmarking one short term frame.        *)
LEMMA WindowMakesRoom ==
    ASSUME Base, RefsOK, phase = "slide"
    PROVE  /\ Cardinality(References(Window)) <= num_ref_frames
           /\ Cardinality(Long(Window)) <= Cardinality(Long(fs))
           /\ Current.ref => Cardinality(References(Window)) < num_ref_frames
<1>1. fs \in Seq(Stores)
  BY DEF Base, TypeOK
<1>2. /\ IsFiniteSet(References(fs)) /\ Cardinality(References(fs)) = Cardinality(Short(fs)) + Cardinality(Long(fs))
      /\ Cardinality(Short(fs)) \in Nat /\ Cardinality(Long(fs)) \in Nat /\ Cardinality(References(fs)) \in Nat
      /\ References(fs) = Short(fs) \cup Long(fs) /\ IsFiniteSet(Long(fs))
  BY <1>1, PlacesFinite
<1>3. Cardinality(References(fs)) <= num_ref_frames
  BY DEF RefsOK
<1>4. CASE ~(Current.ref /\ Slides)
  <2>1. Window = fs
    BY <1>4 DEF Window
  <2>2. Current.ref => Cardinality(References(fs)) < num_ref_frames
    BY <1>4 DEF RefsOK, RoomForOne
  <2>3. Cardinality(Long(fs)) <= Cardinality(Long(fs))
    BY <1>2
  <2>4. QED
    BY <1>3, <2>1, <2>2, <2>3, Zenon
<1>5. CASE Current.ref /\ Slides
  <2>1. Cardinality(Long(fs)) < num_ref_frames
    <3>1. CASE filler # None
      BY <3>1 DEF RefsOK, Storing, RoomBesideLong
    <3>2. CASE filler = None
      BY <1>5, <3>2, CurrentIs DEF RefsOK, RoomBesideLong, Base
    <3>3. QED
      BY <3>1, <3>2
  <2>2. Window = Slid
    BY <1>5 DEF Window
  <2>3. CASE Short(fs) # {} /\ Cardinality(Short(fs)) = num_ref_frames - Cardinality(Long(fs))
    <3>1. PICK i \in Short(fs) : Window = Unmarked({i})
      BY <2>2, <2>3, SlidIs DEF Base
    <3>2. References(Window) = References(fs) \ {i} /\ Long(Window) = Long(fs) \ {i}
      BY <1>1, <3>1, UnmarkedIs
    <3>3. Cardinality(References(Window)) = Cardinality(References(fs)) - 1
      BY <1>2, <3>2, FS_RemoveElement
    <3>4. Cardinality(Long(Window)) <= Cardinality(Long(fs))
      BY <1>2, <3>2, FS_Subset
    <3>5. QED
      BY <1>2, <1>3, <3>3, <3>4, Bounds
  <2>4. CASE Short(fs) = {} \/ Cardinality(Short(fs)) # num_ref_frames - Cardinality(Long(fs))
    <3>1. Window = fs
      BY <2>2, <2>4, SlidIs DEF Base
    <3>2. Short(fs) = {} => Cardinality(Short(fs)) = 0
      BY FS_EmptySet
    <3>3. QED
      BY <1>2, <1>3, <2>1, <2>4, <3>1, <3>2, Bounds
  <2>5. QED
    BY <2>3, <2>4
<1>6. QED
  BY <1>4, <1>5

LEMMA RefsSlide == ASSUME Base, RefsOK, SlideWindow PROVE RefsOK'
<1>1. phase = "slide" /\ phase' = "room" /\ UNCHANGED <<filler, pic>>
  BY DEF SlideWindow, Goto
<1>2. /\ Cardinality(References(fs')) = Cardinality(References(Window))
      /\ Cardinality(Long(fs')) = Cardinality(Long(Window))
  BY SlideIs, WindowIs, SameReferencesKeep DEF Base
<1>3. Current' = Current
  BY <1>1 DEF Current
<1>4. Current.ref => RoomForOne'
  BY <1>1, <1>2, WindowMakesRoom DEF RoomForOne
<1>5. Cardinality(References(fs')) <= num_ref_frames
  BY <1>1, <1>2, WindowMakesRoom
<1>6. filler # None => RoomBesideLong'
  <2>1. SUFFICES ASSUME filler # None PROVE RoomBesideLong'
    OBVIOUS
  <2>2. Cardinality(Long(fs)) < num_ref_frames
    BY <1>1, <2>1 DEF RefsOK, Storing, RoomBesideLong
  <2>3. Cardinality(Long(Window)) <= Cardinality(Long(fs))
    BY <1>1, WindowMakesRoom
  <2>4. Cardinality(Long(Window)) \in Nat /\ Cardinality(Long(fs)) \in Nat
    BY WindowIs, PlacesFinite DEF Base, TypeOK
  <2>5. QED
    BY <1>2, <2>2, <2>3, <2>4, Bounds DEF RoomBesideLong
<1>7. QED
  BY <1>1, <1>3, <1>4, <1>5, <1>6 DEF RefsOK, Storing

LEMMA RefsStore == ASSUME Base, RefsOK, direct_output \/ insert_picture_in_dpb PROVE RefsOK'
<1>1. phase = "room" /\ UNCHANGED <<filler, pic>>
  BY DEF direct_output, insert_picture_in_dpb
<1>2. fs \in Seq(Stores) /\ Cardinality(References(fs)) \in Nat /\ Cardinality(References(fs)) <= num_ref_frames
  BY <1>1, PlacesFinite DEF Base, TypeOK, RefsOK
<1>3. CASE phase' = "dead"
  BY <1>3 DEF RefsOK, Storing
<1>4. CASE Stored /\ fs' = fs
  <2>1. \/ filler = None /\ phase' = "idle"
        \/ filler # None /\ phase' = "gap"
    BY <1>4, StoredIs DEF Base
  <2>2. QED
    BY <1>1, <1>4, <2>1 DEF RefsOK, Storing, RoomBesideLong
<1>5. CASE Stored /\ fs' = Append(fs, Current)
  <2>1. \/ filler = None /\ phase' = "idle"
        \/ filler # None /\ phase' = "gap"
    BY <1>5, StoredIs DEF Base
  <2>2. Current \in Stores
    BY CurrentIs DEF Base
  <2>3. /\ Current.ref => Cardinality(References(fs')) = Cardinality(References(fs)) + 1
        /\ ~Current.ref => References(fs') = References(fs)
    BY <1>2, <1>5, <2>2, AppendedIs, ZenonT(60)
  <2>4. Cardinality(References(fs')) <= num_ref_frames
    <3>1. CASE Current.ref
      <4>1. Cardinality(References(fs)) < num_ref_frames
        BY <1>1, <3>1 DEF RefsOK, RoomForOne
      <4>2. QED
        BY <1>2, <2>3, <3>1, <4>1, Bounds
    <3>2. CASE ~Current.ref
      BY <1>2, <2>3, <3>2
    <3>3. QED
      BY <3>1, <3>2
  <2>5. filler # None => RoomBesideLong'
    <3>1. SUFFICES ASSUME filler # None PROVE RoomBesideLong'
      OBVIOUS
    <3>2. Long(fs') = Long(fs)
      <4>1. Current.lt = FALSE
        BY <3>1, CurrentIs DEF Base
      <4>2. QED
        <5>1. ~(Current.ref /\ Current.lt)
          BY <4>1
        <5>2. QED
          BY <1>2, <1>5, <2>2, <5>1, AppendedIs, ZenonT(60)
    <3>3. QED
      BY <1>1, <3>1, <3>2 DEF RefsOK, Storing, RoomBesideLong
  <2>6. QED
    BY <1>1, <2>1, <2>4, <2>5 DEF RefsOK, Storing
<1>6. QED
  BY <1>3, <1>4, <1>5 DEF direct_output, insert_picture_in_dpb, Stop, dpb

LEMMA RefsStep == Base /\ RefsOK /\ [Next]_vars => RefsOK'
<1> SUFFICES ASSUME Base, RefsOK, [Next]_vars PROVE RefsOK'
  OBVIOUS
<1>1. CASE StartPicture
  BY <1>1, RefsStart
<1>2. CASE StartIdr \/ FillGap \/ Decode
  BY <1>2, RefsDecode
<1>3. CASE FlushForIdr \/ FlushAtEnd \/ activate_sps \/ DiscardPictures \/ FlushEnd
  BY <1>3, RefsFlush
<1>4. CASE Marks \/ EndOfCommands
  BY <1>4, RefsMark
<1>5. CASE FlushUnused \/ FlushOutput \/ MakeRoom
  BY <1>5, RefsOutput
<1>6. CASE SlideWindow
  BY <1>6, RefsSlide
<1>7. CASE direct_output \/ insert_picture_in_dpb
  BY <1>7, RefsStore
<1>8. CASE UNCHANGED vars
  BY <1>8 DEF vars, dpb, RefsOK, Storing, Slides, Current, RoomBesideLong, RoomForOne
<1>9. QED
  BY <1>1, <1>2, <1>3, <1>4, <1>5, <1>6, <1>7, <1>8 DEF Next, Stream, Marking, Marks, Decoder

LEMMA RefsHolds == Spec => []RefsOK
<1>1. Init => RefsOK
  BY NoStores, Bounds DEF Init, RefsOK, Storing, NoPicture
<1>2. QED
  BY <1>1, RefsStep, BaseHolds, PTL DEF Spec

(* Between two pictures no more than num_ref_frames frames are references: *)
(* the sliding window, or the commands of the picture, made room before    *)
(* another one was stored.                                                 *)
THEOREM ReferencesBounded == Spec => []RefsBounded
<1>1. RefsOK => RefsBounded
  BY DEF RefsOK, RefsBounded
<1>2. QED
  BY <1>1, RefsHolds, PTL


-----------------------------------------------------------------------------
(***************************************************************************)
(* Long term indices: no two frames have the same, none is above the       *)
(* maximum, and the one the picture in hand was given is free.             *)
(***************************************************************************)
Distinct(f) == \A i, j \in Long(f) : f[i].long_term_frame_idx = f[j].long_term_frame_idx => i = j
Below(f, max) == \A i \in Long(f) : f[i].long_term_frame_idx <= max
Free(f, n) == \A i \in Long(f) : f[i].long_term_frame_idx # n

IndicesOK ==
    /\ phase # "dead" => Distinct(fs) /\ Below(fs, max_long_term_pic_idx)
    /\ pic.lt /\ phase \in {"mark", "slide", "room"} => Free(fs, pic.long_term_frame_idx)
    /\ pic.lt /\ phase \in {"mark", "slide", "room"} => pic.long_term_frame_idx <= max_long_term_pic_idx
    /\ pic.lt /\ phase = "flush" /\ ~pic.idr => pic.long_term_frame_idx <= max_long_term_pic_idx

(* With the lists of a P or a B slice made, LongTermPicNum is the index.   *)
RenumberedOK ==
    phase = "mark" /\ ~Intra => \A i \in Long(fs) : fs[i].long_term_pic_num = fs[i].long_term_frame_idx

LongOK == IndicesOK /\ RenumberedOK

LEMMA IndicesKept ==
    ASSUME NEW f, NEW g, Long(g) \subseteq Long(f),
           \A i \in Long(g) : g[i].long_term_frame_idx = f[i].long_term_frame_idx
    PROVE  /\ Distinct(f) => Distinct(g)
           /\ \A max : Below(f, max) => Below(g, max)
           /\ \A n : Free(f, n) => Free(g, n)
  BY DEF Distinct, Below, Free

LEMMA IndicesSame ==
    ASSUME NEW f \in Seq(Stores), NEW g \in Seq(Stores), SameReferences(f, g)
    PROVE  /\ Distinct(f) => Distinct(g)
           /\ \A max : Below(f, max) => Below(g, max)
           /\ \A n : Free(f, n) => Free(g, n)
<1>1. PICK u \in [1..Len(g) -> 1..Len(f)] :
        /\ \A j, k \in 1..Len(g) : j < k => u[j] < u[k]
        /\ \A j \in 1..Len(g) : /\ g[j].long_term_frame_idx = f[u[j]].long_term_frame_idx
                                /\ j \in Long(g) <=> u[j] \in Long(f)
  BY DEF SameReferences
<1>2. Long(g) \subseteq 1..Len(g) /\ Len(g) \in Nat /\ Len(f) \in Nat
  BY StoresOf, PlacesFinite
<1>3. \A j, k \in 1..Len(g) : u[j] = u[k] => j = k
  <2> SUFFICES ASSUME NEW j \in 1..Len(g), NEW k \in 1..Len(g), u[j] = u[k], j # k PROVE FALSE
    OBVIOUS
  <2>1. j < k \/ k < j
    BY <1>2
  <2>2. u[j] \in Int /\ u[k] \in Int
    BY <1>2
  <2>3. QED
    BY <1>1, <2>1, <2>2
<1>4. \A j \in Long(g) : /\ j \in 1..Len(g) /\ u[j] \in Long(f)
                         /\ g[j].long_term_frame_idx = f[u[j]].long_term_frame_idx
  BY <1>1, <1>2
<1>5. Distinct(f) => Distinct(g)
  BY <1>3, <1>4 DEF Distinct
<1>6. \A max : Below(f, max) => Below(g, max)
  BY <1>4 DEF Below
<1>7. \A n : Free(f, n) => Free(g, n)
  BY <1>4 DEF Free
<1>8. QED
  BY <1>5, <1>6, <1>7

LEMMA NoLong ==
    ASSUME NEW f, Long(f) = {} \/ References(f) = {} \/ f = <<>>
    PROVE  Distinct(f) /\ (\A max : Below(f, max)) /\ (\A n : Free(f, n)) /\ Long(f) = {}
<1>1. Long(f) = {}
  BY NoStores DEF Long, References
<1>2. QED
  BY <1>1 DEF Distinct, Below, Free

LEMMA LongStart == ASSUME Base, LongOK, StartPicture \/ StartIdr \/ FillGap PROVE LongOK'
<1>1. /\ fs' = fs /\ max_long_term_pic_idx' = max_long_term_pic_idx /\ phase # "dead"
      /\ phase' \in {"decode", "gap", "dead"} \/ (phase' = "slide" /\ ~pic'.lt)
  <2>1. CASE StartPicture
    <3>1. phase' \in {"decode", "gap", "dead"}
      BY <2>1, StartPictureIs DEF Started, Goto, Stop
    <3>2. QED
      BY <2>1, <3>1 DEF StartPicture, dpb
  <2>2. CASE StartIdr
    BY <2>2 DEF StartIdr, Goto, dpb
  <2>3. CASE FillGap
    BY <2>3 DEF FillGap, Goto, dpb, Base, PhaseOK
  <2>4. QED
    BY <2>1, <2>2, <2>3
<1>2. QED
  BY <1>1 DEF LongOK, IndicesOK, RenumberedOK

LEMMA LongDecode == ASSUME Base, LongOK, Decode PROVE LongOK'
<1>1. /\ phase = "decode" /\ ~pic.lt /\ UNCHANGED <<pic, max_long_term_pic_idx>> /\ phase' \in {"mark", "slide"}
      /\ pic.intra => Intra
  BY DEF Decode, Goto, Base, PhaseOK
<1>2. CASE fs' = fs /\ pic.intra
  BY <1>1, <1>2 DEF LongOK, IndicesOK, RenumberedOK
<1>3. CASE fs' = Renumbered
  <2>1. /\ Long(fs') = Long(fs)
        /\ \A i \in Long(fs) : /\ fs'[i].long_term_frame_idx = fs[i].long_term_frame_idx
                               /\ fs'[i].long_term_pic_num = fs[i].long_term_frame_idx
    BY <1>3, RenumberedIs DEF Base, TypeOK
  <2>2. Distinct(fs') /\ Below(fs', max_long_term_pic_idx)
    BY <1>1, <2>1, IndicesKept DEF LongOK, IndicesOK
  <2>3. QED
    BY <1>1, <2>1, <2>2 DEF LongOK, IndicesOK, RenumberedOK
<1>4. QED
  BY <1>2, <1>3 DEF Decode

LEMMA LongFlush ==
    ASSUME Base, LongOK, FlushForIdr \/ FlushAtEnd \/ activate_sps \/ DiscardPictures \/ FlushEnd
    PROVE  LongOK'
<1>1. References(fs') = {} \/ fs' = <<>>
  BY FlushBegins DEF FlushForIdr, FlushAtEnd, activate_sps, DiscardPictures, FlushEnd, Base
<1>2. Distinct(fs') /\ (\A max : Below(fs', max)) /\ (\A n : Free(fs', n)) /\ Long(fs') = {}
  BY <1>1, NoLong
<1>3. phase' # "mark"
  BY DEF FlushForIdr, FlushAtEnd, activate_sps, DiscardPictures, FlushEnd, Goto
<1>4. pic'.lt /\ (phase' \in {"slide", "room"} \/ (phase' = "flush" /\ ~pic'.idr)) =>
         pic'.long_term_frame_idx <= max_long_term_pic_idx'
  <2>1. CASE FlushForIdr \/ FlushAtEnd \/ activate_sps
    BY <2>1 DEF FlushForIdr, FlushAtEnd, activate_sps, Goto, NoPicture
  <2>2. CASE DiscardPictures
    <3>1. pic'.long_term_frame_idx = 0 /\ (pic'.lt => max_long_term_pic_idx' = 0)
      BY <2>2 DEF DiscardPictures, LongTermIdxOfIdr, Base, PhaseOK
    <3>2. QED
      BY <3>1
  <2>3. CASE FlushEnd
    <3>1. /\ pic' = pic /\ phase = "flush" /\ phase' \in {"slide", "start"}
          /\ max_long_term_pic_idx' = IF pic.idr THEN LongTermIdxOfIdr ELSE max_long_term_pic_idx
      BY <2>3 DEF FlushEnd, Goto
    <3>2. CASE pic.idr
      <4>1. pic'.long_term_frame_idx = 0 /\ (pic'.lt => max_long_term_pic_idx' = 0)
        BY <3>1, <3>2 DEF LongTermIdxOfIdr, Base, PhaseOK
      <4>2. QED
        BY <4>1
    <3>3. CASE ~pic.idr
      BY <3>1, <3>3 DEF LongOK, IndicesOK
    <3>4. QED
      BY <3>2, <3>3
  <2>4. QED
    BY <2>1, <2>2, <2>3
<1>5. QED
  BY <1>2, <1>3, <1>4 DEF LongOK, IndicesOK, RenumberedOK


(* A command takes indices away, or takes one away and gives it anew.      *)
LEMMA LongMark == ASSUME Base, LongOK, Marks PROVE LongOK'
<1> USE DEF LongOK
<1>0. /\ TypeOK /\ fs \in Seq(Stores) /\ Long(fs) \subseteq 1..Len(fs)
      /\ max_long_term_pic_idx \in Indices \cup {None}
      /\ \A i \in 1..Len(fs) : fs[i].long_term_frame_idx \in Indices
  BY FsIs, StoresOf DEF Base, TypeOK
<1>1. MarkStep /\ phase = "mark" /\ phase' = "mark" /\ Distinct(fs) /\ Below(fs, max_long_term_pic_idx)
  BY <1>0, MarksAre DEF MarkStep, IndicesOK
<1>2. ASSUME NEW S \in SUBSET Long(fs), fs' = UnmarkedLong(S)
      PROVE  /\ Long(fs') = Long(fs) \ S
             /\ \A i \in Long(fs') : fs'[i] = fs[i]
             /\ Distinct(fs') /\ Below(fs', max_long_term_pic_idx)
             /\ \A n : Free(fs, n) => Free(fs', n)
             /\ RenumberedOK'
  <2>1. Long(fs') = Long(fs) \ S /\ \A i \in Long(fs') : fs'[i] = fs[i]
    BY <1>0, <1>2, UnmarkedLongIs
  <2>2. /\ Distinct(fs') /\ Below(fs', max_long_term_pic_idx)
        /\ \A n : Free(fs, n) => Free(fs', n)
    BY <1>1, <2>1, IndicesKept
  <2>3. RenumberedOK'
    BY <1>1, <2>1 DEF RenumberedOK
  <2>4. QED
    BY <2>1, <2>2, <2>3
<1>3. CASE mm_unmark_short_term_for_reference
  <2>1. PICK i \in Short(fs) : fs' = Unmarked({i})
    BY <1>0, <1>3, UnmarkShortIs
  <2>2. UNCHANGED <<pic, max_long_term_pic_idx>>
    BY <1>0, <1>3, UnmarkShortIs
  <2>3. /\ Long(fs') \subseteq Long(fs)
        /\ \A j \in Long(fs') : /\ fs'[j].long_term_frame_idx = fs[j].long_term_frame_idx
                                /\ fs'[j].long_term_pic_num = fs[j].long_term_pic_num
    BY <1>0, <2>1, UnmarkedIs
  <2>4. /\ Distinct(fs') /\ Below(fs', max_long_term_pic_idx)
        /\ \A n : Free(fs, n) => Free(fs', n)
    BY <1>1, <2>3, IndicesKept
  <2>5. IndicesOK'
    BY <1>1, <2>2, <2>4 DEF IndicesOK
  <2>6. RenumberedOK'
    BY <1>1, <2>3 DEF RenumberedOK
  <2>7. QED
    BY <2>5, <2>6
<1>4. CASE \E n \in Indices : mm_unmark_long_term_for_reference(n)
  <2>1. PICK n \in Indices : mm_unmark_long_term_for_reference(n)
    BY <1>4
  <2>2. UNCHANGED <<pic, max_long_term_pic_idx>> /\ fs' = UnmarkedLong({i \in Long(fs) : fs[i].long_term_pic_num = n})
    BY <1>0, <2>1, UnmarkLongIs
  <2>3. {i \in Long(fs) : fs[i].long_term_pic_num = n} \in SUBSET Long(fs)
    OBVIOUS
  <2>4. /\ Distinct(fs') /\ Below(fs', max_long_term_pic_idx) /\ RenumberedOK'
        /\ \A m : Free(fs, m) => Free(fs', m)
    BY <1>2, <2>2, <2>3
  <2>5. QED
    BY <1>1, <2>2, <2>4 DEF IndicesOK
<1>5. CASE mm_assign_long_term_frame_idx
  <2>1. UNCHANGED <<pic, max_long_term_pic_idx>> /\ ~pic.lt
    BY <1>0, <1>5, AssignIs
  <2>2. PICK m \in Short(fs), idx \in 0..max_long_term_pic_idx :
           /\ Long(fs') = (Long(fs) \ WithIndex(idx)) \cup {m}
           /\ fs'[m].long_term_frame_idx = idx /\ fs'[m].long_term_pic_num = idx
           /\ \A i \in Long(fs) \ WithIndex(idx) : fs'[i] = fs[i]
    BY <1>0, <1>5, AssignIs
  <2>3. \A i \in Long(fs) \ WithIndex(idx) : fs'[i].long_term_frame_idx # idx
    BY <2>2 DEF WithIndex
  <2>4. Distinct(fs')
    BY <1>1, <2>2, <2>3 DEF Distinct
  <2>5. idx <= max_long_term_pic_idx
    BY <2>2
  <2>6. Below(fs', max_long_term_pic_idx)
    BY <1>1, <2>2, <2>5 DEF Below
  <2>7. RenumberedOK'
    BY <1>1, <2>2 DEF RenumberedOK
  <2>8. QED
    BY <1>1, <2>1, <2>4, <2>6, <2>7 DEF IndicesOK
<1>6. CASE mm_update_max_long_term_frame_idx
  <2> DEFINE max == max_long_term_pic_idx'
             S == {i \in Long(fs) : fs[i].long_term_frame_idx > max}
  <2>1. pic' = pic /\ ~pic.lt /\ fs' = UnmarkedLong(S) /\ max \in Indices \cup {None}
    BY <1>0, <1>1, <1>6, UpdateMaxIs DEF MarkStep
  <2>2. /\ Long(fs') = Long(fs) \ S /\ \A i \in Long(fs') : fs'[i] = fs[i]
        /\ Distinct(fs') /\ RenumberedOK'
    BY <1>2, <2>1
  <2>3. \A i \in Long(fs) \ S : fs[i].long_term_frame_idx <= max
    <3>1. max \in 0..MaxLongTerm \cup {-1} /\ \A i \in Long(fs) : fs[i].long_term_frame_idx \in 0..MaxLongTerm
      BY <1>0, <2>1 DEF Indices, None
    <3>2. QED
      BY <3>1, Bounds
  <2>4. Below(fs', max)
    BY <2>2, <2>3 DEF Below
  <2>5. QED
    BY <1>1, <2>1, <2>2, <2>4 DEF IndicesOK
<1>7. CASE mm_unmark_all
  <2>1. ~pic'.lt /\ References(fs') = {}
    BY <1>0, <1>7, UnmarkAllIs
  <2>2. Distinct(fs') /\ (\A max : Below(fs', max)) /\ Long(fs') = {}
    BY <2>1, NoLong
  <2>3. QED
    BY <1>1, <2>1, <2>2 DEF IndicesOK, RenumberedOK
<1>8. CASE mm_mark_current_picture_long_term
  <2> DEFINE n == pic'.long_term_frame_idx
  <2>1. UNCHANGED max_long_term_pic_idx /\ n \in 0..max_long_term_pic_idx /\ fs' = UnmarkedLong(WithIndex(n))
    BY <1>0, <1>8, MarkCurrentIs
  <2>2. WithIndex(n) \in SUBSET Long(fs)
    BY DEF WithIndex
  <2>3. /\ Long(fs') = Long(fs) \ WithIndex(n) /\ \A i \in Long(fs') : fs'[i] = fs[i]
        /\ Distinct(fs') /\ Below(fs', max_long_term_pic_idx) /\ RenumberedOK'
    BY <1>2, <2>1, <2>2
  <2>4. Free(fs', n)
    BY <2>3 DEF Free, WithIndex
  <2>5. n <= max_long_term_pic_idx
    BY <2>1
  <2>6. QED
    BY <1>1, <2>1, <2>3, <2>4, <2>5 DEF IndicesOK
<1>9. QED
  BY <1>3, <1>4, <1>5, <1>6, <1>7, <1>8 DEF Marks

LEMMA LongEndOfCommands == ASSUME Base, LongOK, EndOfCommands PROVE LongOK'
<1>1. /\ phase = "mark" /\ max_long_term_pic_idx' = max_long_term_pic_idx /\ pic \in Pictures
      /\ \/ pic' = [pic EXCEPT !.frame_num = 0, !.poc = 0] /\ fs' = Unmarked(DOMAIN fs) /\ phase' = "flush"
         \/ phase' = "slide" /\ UNCHANGED <<pic, fs>>
  BY DEF EndOfCommands, Goto, Base, TypeOK
<1>2. CASE phase' = "slide" /\ UNCHANGED <<pic, fs>>
  BY <1>1, <1>2 DEF LongOK, IndicesOK, RenumberedOK
<1>3. CASE pic' = [pic EXCEPT !.frame_num = 0, !.poc = 0] /\ fs' = Unmarked(DOMAIN fs) /\ phase' = "flush"
  <2>1. pic'.lt = pic.lt /\ pic'.idr = pic.idr /\ pic'.long_term_frame_idx = pic.long_term_frame_idx
    BY <1>1, <1>3 DEF Pictures
  <2>2. Distinct(fs') /\ \A max : Below(fs', max)
    BY <1>3, FlushBegins, NoLong DEF Base
  <2>3. QED
    BY <1>1, <1>3, <2>1, <2>2 DEF LongOK, IndicesOK, RenumberedOK
<1>4. QED
  BY <1>1, <1>2, <1>3


LEMMA LongLoop ==
    ASSUME Base, LongOK, FlushUnused \/ FlushOutput \/ MakeRoom
    PROVE  LongOK'
<1>1. CASE phase' = "dead"
  BY <1>1 DEF LongOK, IndicesOK, RenumberedOK
<1>2. CASE phase' # "dead"
  <2>1. /\ phase' = phase /\ phase \in {"flush", "room"} /\ UNCHANGED <<pic, max_long_term_pic_idx>>
        /\ fs' \in Seq(Stores) /\ SameReferences(fs, fs')
    BY <1>2, LoopStepIs DEF LoopStep
  <2>2. /\ Distinct(fs) => Distinct(fs')
        /\ \A max : Below(fs, max) => Below(fs', max)
        /\ \A n : Free(fs, n) => Free(fs', n)
    BY <2>1, IndicesSame DEF Base, TypeOK
  <2>3. QED
    BY <2>1, <2>2 DEF LongOK, IndicesOK, RenumberedOK
<1>3. QED
  BY <1>1, <1>2

LEMMA LongSlide == ASSUME Base, LongOK, SlideWindow PROVE LongOK'
<1>1. phase = "slide" /\ phase' = "room" /\ UNCHANGED <<pic, max_long_term_pic_idx>>
  BY DEF SlideWindow, Goto
<1>2. /\ Distinct(fs) => Distinct(Window)
      /\ \A max : Below(fs, max) => Below(Window, max)
      /\ \A n : Free(fs, n) => Free(Window, n)
  <2>1. Window = fs \/ Window = Unmarked({First(Short(fs))})
    BY DEF Window, Slid
  <2>2. /\ Long(Window) \subseteq Long(fs)
        /\ \A i \in Long(Window) : Window[i].long_term_frame_idx = fs[i].long_term_frame_idx
    <3>1. CASE Window = fs
      BY <3>1
    <3>2. CASE Window = Unmarked({First(Short(fs))})
      BY <3>2, FsIs, UnmarkedIs DEF Base
    <3>3. QED
      BY <2>1, <3>1, <3>2
  <2>3. QED
    BY <2>2, IndicesKept
<1>3. /\ Distinct(Window) => Distinct(fs')
      /\ \A max : Below(Window, max) => Below(fs', max)
      /\ \A n : Free(Window, n) => Free(fs', n)
  <2>1. Window \in Seq(Stores) /\ fs' \in Seq(Stores) /\ SameReferences(Window, fs')
    BY WindowIs, SlideIs DEF Base
  <2>2. QED
    BY <2>1, IndicesSame
<1>4. QED
  BY <1>1, <1>2, <1>3 DEF LongOK, IndicesOK, RenumberedOK

LEMMA LongStore == ASSUME Base, LongOK, direct_output \/ insert_picture_in_dpb PROVE LongOK'
<1>1. phase = "room" /\ UNCHANGED <<pic, max_long_term_pic_idx>>
  BY DEF direct_output, insert_picture_in_dpb, dpb
<1>2. CASE phase' = "dead"
  BY <1>2 DEF LongOK, IndicesOK, RenumberedOK
<1>3. CASE Stored /\ fs' = fs
  BY <1>1, <1>3, StoredIs DEF LongOK, IndicesOK, RenumberedOK, Base
<1>4. CASE Stored /\ fs' = Append(fs, Current)
  <2>1. phase' \in {"idle", "gap"}
    BY <1>4, StoredIs DEF Base
  <2>2. fs \in Seq(Stores) /\ Current \in Stores /\ Len(fs) \in Nat /\ Long(fs) \subseteq 1..Len(fs)
    BY FsIs, CurrentIs DEF Base
  <2>3. /\ Current.ref /\ Current.lt => Long(fs') = Long(fs) \cup {Len(fs) + 1}
        /\ ~(Current.ref /\ Current.lt) => Long(fs') = Long(fs)
        /\ fs'[Len(fs) + 1] = Current /\ \A i \in 1..Len(fs) : fs'[i] = fs[i]
    <3> DEFINE g == fs'
    <3>1. g = Append(fs, Current)
      BY <1>4
    <3> HIDE DEF g
    <3>2. /\ Current.ref /\ Current.lt => Long(g) = Long(fs) \cup {Len(fs) + 1}
          /\ ~(Current.ref /\ Current.lt) => Long(g) = Long(fs)
      BY ZenonT(60), <2>2, <3>1, AppendedIs
    <3>3. g[Len(fs) + 1] = Current /\ \A i \in 1..Len(fs) : g[i] = fs[i]
      BY <2>2, <3>1, AppendedIs
    <3>4. QED
      BY <3>2, <3>3, Zenon DEF g
  <2>4. Current.lt => /\ Free(fs, Current.long_term_frame_idx)
                      /\ Current.long_term_frame_idx <= max_long_term_pic_idx
    <3>1. SUFFICES ASSUME Current.lt PROVE /\ Free(fs, Current.long_term_frame_idx)
                                           /\ Current.long_term_frame_idx <= max_long_term_pic_idx
      OBVIOUS
    <3>2. pic.lt /\ Current.long_term_frame_idx = pic.long_term_frame_idx
      BY <3>1, CurrentIs DEF Base
    <3>3. QED
      BY <1>1, <3>2 DEF LongOK, IndicesOK
  <2>5. Distinct(fs) /\ Below(fs, max_long_term_pic_idx)
    BY <1>1 DEF LongOK, IndicesOK
  <2>6. \A i \in Long(fs') : i \in Long(fs) \/ (i = Len(fs) + 1 /\ Current.lt)
    BY <2>3
  <2>7. Distinct(fs')
    BY <2>2, <2>3, <2>4, <2>5, <2>6 DEF Distinct, Free
  <2>8. Below(fs', max_long_term_pic_idx)
    BY <2>2, <2>3, <2>4, <2>5, <2>6 DEF Below
  <2>9. QED
    BY <1>1, <2>1, <2>7, <2>8 DEF LongOK, IndicesOK, RenumberedOK
<1>5. QED
  BY <1>2, <1>3, <1>4 DEF direct_output, insert_picture_in_dpb, Stop, dpb

LEMMA LongStep == Base /\ LongOK /\ [Next]_vars => LongOK'
<1> SUFFICES ASSUME Base, LongOK, [Next]_vars PROVE LongOK'
  OBVIOUS
<1>1. CASE StartPicture \/ StartIdr \/ FillGap
  BY <1>1, LongStart
<1>2. CASE Decode
  BY <1>2, LongDecode
<1>3. CASE FlushForIdr \/ FlushAtEnd \/ activate_sps \/ DiscardPictures \/ FlushEnd
  BY <1>3, LongFlush
<1>4. CASE Marks
  BY <1>4, LongMark
<1>5. CASE EndOfCommands
  BY <1>5, LongEndOfCommands
<1>6. CASE FlushUnused \/ FlushOutput \/ MakeRoom
  BY <1>6, LongLoop
<1>7. CASE SlideWindow
  BY <1>7, LongSlide
<1>8. CASE direct_output \/ insert_picture_in_dpb
  BY <1>8, LongStore
<1>9. CASE UNCHANGED vars
  BY <1>9 DEF vars, dpb, LongOK, IndicesOK, RenumberedOK
<1>10. QED
  BY <1>1, <1>2, <1>3, <1>4, <1>5, <1>6, <1>7, <1>8, <1>9 DEF Next, Stream, Marking, Marks, Decoder

LEMMA LongHolds == Spec => []LongOK
<1>1. Init => LongOK
  BY NoLong DEF Init, LongOK, IndicesOK, RenumberedOK, NoPicture
<1>2. QED
  BY <1>1, LongStep, BaseHolds, PTL DEF Spec

(* Between two pictures no two long term frames share an index and none    *)
(* has one above the maximum: whatever had an index lost it before another *)
(* frame, or the picture in hand, was given it.                            *)
THEOREM IndicesAreDistinct == Spec => []LongTermIndices
<1>1. Base /\ LongOK => LongTermIndices
  BY DEF LongOK, IndicesOK, Distinct, Below, LongTermIndices
<1>2. QED
  BY <1>1, LongHolds, BaseHolds, PTL

(* In a stream without pictures of I slices only, the command that marks a *)
(* long term picture as unused frees the index it names and no other: the  *)
(* LongTermPicNum it compares with was renewed by the lists of the slice.  *)
THEOREM UnmarksTheNamed == ASSUME ~Intra PROVE Spec => MarksNamedFrame
<1>1. ASSUME Base, LongOK, NEW n \in Indices, mm_unmark_long_term_for_reference(n)
      PROVE  WithIndex(n)' = {} /\ \A m \in Indices \ {n} : WithIndex(m)' = WithIndex(m)
  <2>1. phase = "mark" /\ fs' = UnmarkedLong({i \in Long(fs) : fs[i].long_term_pic_num = n}) /\ fs \in Seq(Stores)
    BY <1>1, UnmarkLongIs DEF Base, MarkStep, TypeOK
  <2>2. {i \in Long(fs) : fs[i].long_term_pic_num = n} = WithIndex(n)
    BY <1>1, <2>1 DEF LongOK, RenumberedOK, WithIndex
  <2>3. WithIndex(n) \in SUBSET Long(fs) /\ fs' = UnmarkedLong(WithIndex(n))
    BY <2>1, <2>2, Zenon DEF WithIndex
  <2>4. /\ Long(fs') = Long(fs) \ WithIndex(n)
        /\ \A i \in 1..Len(fs) : fs'[i].long_term_frame_idx = fs[i].long_term_frame_idx
    <3> DEFINE S == WithIndex(n)
    <3>1. S \in SUBSET Long(fs) /\ fs' = UnmarkedLong(S)
      BY <2>3
    <3>2. fs \in Seq(Stores)
      BY <2>1
    <3> HIDE DEF S
    <3>3. Long(fs') = Long(fs) \ S /\ \A i \in 1..Len(fs) : fs'[i].long_term_frame_idx = fs[i].long_term_frame_idx
      BY <3>1, <3>2, UnmarkedLongIs
    <3>4. QED
      BY <3>3 DEF S
  <2>5. Long(fs) \subseteq 1..Len(fs)
    BY <1>1, FsIs DEF Base
  <2>6. QED
    BY <2>4, <2>5 DEF WithIndex
<1>2. ASSUME Base, LongOK
      PROVE  [\A n \in Indices : mm_unmark_long_term_for_reference(n) =>
                 /\ WithIndex(n)' = {}
                 /\ \A m \in Indices \ {n} : WithIndex(m)' = WithIndex(m)]_vars
  BY <1>1, <1>2, Zenon
<1>3. QED
  BY <1>2, LongHolds, BaseHolds, PTL DEF MarksNamedFrame


-----------------------------------------------------------------------------
(***************************************************************************)
(* The order of the short term frames.  The age of one is how many frame   *)
(* numbers were given after its own, counted from the last number of a     *)
(* reference; the ages fall from one end of the buffer to the other, and   *)
(* none is so high that the number could come again.                       *)
(***************************************************************************)
Ages(f, b) == {Age(b, f[i].frame_num) : i \in Short(f)}
InOrder(f, b) == \A i, j \in Short(f) : i < j => Age(b, f[j].frame_num) < Age(b, f[i].frame_num)
Within(f, b, d) == \A i \in Short(f) : Age(b, f[i].frame_num) + d < MaxFrameNum - 1
Consecutive(f, b) == Ages(f, b) = 0..Cardinality(Short(f)) - 1

(* The number before the one that is stored next.                          *)
Last == IF phase = "idle" THEN IF pic.ref THEN pre_frame_num ELSE Pred(pre_frame_num)
        ELSE IF phase = "gap" THEN pre_frame_num
        ELSE IF filler # None THEN Pred(filler) ELSE Pred(pic.frame_num)

Numbered == phase \in {"idle", "gap", "mark", "slide", "room"} \/ (phase = "decode" /\ ~pic.idr)

NumbersOK ==
    /\ phase = "idle" => pre_frame_num = pic.frame_num
    /\ phase \in {"mark", "slide", "room"} /\ filler = None /\ ~pic.mmco5 => pre_frame_num = pic.frame_num
    /\ pic.mmco5 /\ phase \in {"flush", "slide", "room"} => pic.frame_num = 0
    /\ phase \in {"decode", "flush"} /\ pic.idr => pre_frame_num = 0
    /\ filler # None /\ Storing => filler = Succ(pre_frame_num) /\ filler # pic.frame_num

InGap == phase = "gap" \/ (filler # None /\ Storing)

AgesOK ==
    Numbered =>
      /\ InOrder(fs, Last)
      /\ Adaptive /\ InGap => Within(fs, Last, Age(pic.frame_num, Succ(pre_frame_num)))
      /\ phase \in {"decode", "mark", "slide", "room"} => Within(fs, Last, 0)
      /\ phase = "idle" /\ ~pic.ref => Within(fs, Last, 0)
      /\ ~Adaptive => Consecutive(fs, Last)

LEMMA AgesType ==
    ASSUME NEW f \in Seq(Stores), NEW b \in Numbers
    PROVE  /\ Short(f) \subseteq 1..Len(f) /\ Len(f) \in Nat
           /\ \A i \in Short(f) : f[i].frame_num \in Numbers /\ Age(b, f[i].frame_num) \in 0..MaxFrameNum - 1
<1>1. Short(f) \subseteq 1..Len(f) /\ Len(f) \in Nat
  BY StoresOf, PlacesFinite
<1>2. \A i \in Short(f) : f[i].frame_num \in Numbers
  BY <1>1, StoresOf
<1>3. \A i \in Short(f) : Age(b, f[i].frame_num) \in Numbers
  BY <1>2, AgesAre
<1>4. QED
  BY <1>1, <1>2, <1>3 DEF Numbers

(* Frames lose their marks: the others stay in order.                      *)
LEMMA AgesKept ==
    ASSUME NEW f, NEW g, NEW b, Short(g) \subseteq Short(f),
           \A i \in Short(g) : g[i].frame_num = f[i].frame_num
    PROVE  /\ InOrder(f, b) => InOrder(g, b)
           /\ \A d : Within(f, b, d) => Within(g, b, d)
  BY DEF InOrder, Within

(* Frames that are no references come and go.                              *)
LEMMA AgesSame ==
    ASSUME NEW f \in Seq(Stores), NEW g \in Seq(Stores), SameReferences(f, g), NEW b
    PROVE  /\ InOrder(f, b) => InOrder(g, b)
           /\ \A d : Within(f, b, d) => Within(g, b, d)
           /\ Consecutive(f, b) => Consecutive(g, b)
<1>1. PICK u \in [1..Len(g) -> 1..Len(f)] :
        /\ \A j, k \in 1..Len(g) : j < k => u[j] < u[k]
        /\ \A j \in 1..Len(g) : /\ g[j].frame_num = f[u[j]].frame_num
                                /\ j \in Short(g) <=> u[j] \in Short(f)
        /\ \A i \in References(f) : \E j \in 1..Len(g) : u[j] = i
  BY DEF SameReferences
<1>2. Short(g) \subseteq 1..Len(g) /\ Short(f) \subseteq References(f)
  BY PlacesFinite
<1>3. \A j \in Short(g) : u[j] \in Short(f) /\ g[j].frame_num = f[u[j]].frame_num
  BY <1>1, <1>2
<1>4. \A j, k \in Short(g) : j < k => u[j] < u[k]
  BY <1>1, <1>2
<1>5. InOrder(f, b) => InOrder(g, b)
  BY <1>3, <1>4 DEF InOrder
<1>6. \A d : Within(f, b, d) => Within(g, b, d)
  BY <1>3 DEF Within
<1>7. \A i \in Short(f) : \E j \in Short(g) : g[j].frame_num = f[i].frame_num
  BY <1>1, <1>2
<1>8. Ages(f, b) = Ages(g, b)
  BY <1>3, <1>7 DEF Ages
<1>9. Cardinality(Short(f)) = Cardinality(Short(g))
  BY SameReferencesKeep
<1>10. QED
  BY <1>5, <1>6, <1>8, <1>9 DEF Consecutive

(* The next number is given: all get older by one.                         *)
LEMMA AgesGrow ==
    ASSUME NEW f \in Seq(Stores), NEW b \in Numbers, Within(f, b, 0)
    PROVE  /\ \A i \in Short(f) : Age(Succ(b), f[i].frame_num) = Age(b, f[i].frame_num) + 1
           /\ InOrder(f, b) => InOrder(f, Succ(b))
           /\ \A d \in Nat : Within(f, b, d + 1) => Within(f, Succ(b), d)
<1>1. \A i \in Short(f) : f[i].frame_num \in Numbers /\ Age(b, f[i].frame_num) \in 0..MaxFrameNum - 1
  BY AgesType
<1>2. \A i \in Short(f) : Age(Succ(b), f[i].frame_num) = Age(b, f[i].frame_num) + 1
  <2> TAKE i \in Short(f)
  <2>1. Age(b, f[i].frame_num) < MaxFrameNum - 1
    BY <1>1, Bounds DEF Within
  <2>2. QED
    BY <1>1, <2>1, AgesAre
<1>3. InOrder(f, b) => InOrder(f, Succ(b))
  BY <1>1, <1>2 DEF InOrder
<1>4. \A d \in Nat : Within(f, b, d + 1) => Within(f, Succ(b), d)
  BY <1>1, <1>2, Bounds DEF Within
<1>5. QED
  BY <1>2, <1>3, <1>4

LEMMA ShortAppended ==
    ASSUME NEW f \in Seq(Stores), NEW e \in Stores, NEW g, g = Append(f, e)
    PROVE  e.ref /\ ~e.lt => /\ Short(g) = Short(f) \cup {Len(f) + 1}
                             /\ Cardinality(Short(g)) = Cardinality(Short(f)) + 1
  BY ZenonT(60), AppendedIs

(* The frame with the next number is stored as a short term reference.     *)
LEMMA AgesAppend ==
    ASSUME NEW f \in Seq(Stores), NEW b \in Numbers, Within(f, b, 0), NEW e \in Stores,
           e.ref, ~e.lt, Age(Succ(b), e.frame_num) = 0, NEW g, g = Append(f, e)
    PROVE  /\ InOrder(f, b) => InOrder(g, Succ(b))
           /\ Consecutive(f, b) => Consecutive(g, Succ(b))
           /\ \A d \in Nat : Within(f, b, d + 1) /\ d < MaxFrameNum - 1 => Within(g, Succ(b), d)
<1>1. /\ \A i \in Short(f) : Age(Succ(b), f[i].frame_num) = Age(b, f[i].frame_num) + 1
      /\ InOrder(f, b) => InOrder(f, Succ(b))
      /\ \A d \in Nat : Within(f, b, d + 1) => Within(f, Succ(b), d)
  BY AgesGrow
<1>2. /\ Short(f) \subseteq 1..Len(f) /\ Len(f) \in Nat
      /\ \A i \in Short(f) : Age(b, f[i].frame_num) \in 0..MaxFrameNum - 1
  BY AgesType
<1>3. /\ g[Len(f) + 1] = e /\ \A i \in 1..Len(f) : g[i] = f[i]
      /\ Short(g) = Short(f) \cup {Len(f) + 1} /\ Cardinality(Short(g)) = Cardinality(Short(f)) + 1
  <2>1. g[Len(f) + 1] = e /\ \A i \in 1..Len(f) : g[i] = f[i]
    BY AppendedIs
  <2>2. Short(g) = Short(f) \cup {Len(f) + 1} /\ Cardinality(Short(g)) = Cardinality(Short(f)) + 1
    BY ShortAppended, Zenon
  <2>3. QED
    BY <2>1, <2>2
<1>4. Age(Succ(b), e.frame_num) = 0
  OBVIOUS
<1>5. \A i \in Short(g) : \/ i \in Short(f) /\ i < Len(f) + 1 /\ g[i] = f[i]
                          \/ i = Len(f) + 1 /\ g[i] = e
  BY <1>2, <1>3
<1>6. InOrder(f, b) => InOrder(g, Succ(b))
  <2> SUFFICES ASSUME InOrder(f, b), NEW i \in Short(g), NEW j \in Short(g), i < j
               PROVE  Age(Succ(b), g[j].frame_num) < Age(Succ(b), g[i].frame_num)
    BY DEF InOrder
  <2>1. i \in Short(f) /\ g[i] = f[i]
    BY <1>2, <1>5
  <2>2. CASE j \in Short(f) /\ g[j] = f[j]
    BY <1>1, <2>1, <2>2 DEF InOrder
  <2>3. CASE j = Len(f) + 1 /\ g[j] = e
    BY <1>1, <1>2, <1>4, <2>1, <2>3
  <2>4. QED
    BY <1>5, <2>2, <2>3
<1>7. Consecutive(f, b) => Consecutive(g, Succ(b))
  <2> DEFINE c == Cardinality(Short(f))
  <2>1. c \in Nat
    BY PlacesFinite
  <2> HIDE DEF c
  <2> SUFFICES ASSUME Ages(f, b) = 0..c - 1 PROVE Ages(g, Succ(b)) = 0..c
    BY <1>3, <2>1 DEF Consecutive, c
  <2>2. ASSUME NEW i \in Short(g) PROVE Age(Succ(b), g[i].frame_num) \in 0..c
    <3>1. CASE i \in Short(f) /\ g[i] = f[i]
      <4>1. Age(b, f[i].frame_num) \in 0..c - 1
        BY <3>1, Zenon DEF Ages
      <4>2. QED
        BY <1>1, <2>1, <3>1, <4>1
    <3>2. CASE g[i] = e
      BY <1>4, <2>1, <3>2
    <3>3. QED
      BY <1>5, <3>1, <3>2
  <2>3. ASSUME NEW a \in 0..c PROVE \E i \in Short(g) : Age(Succ(b), g[i].frame_num) = a
    <3>1. CASE a = 0
      BY <1>3, <1>4, <3>1
    <3>2. CASE a # 0
      <4>1. a - 1 \in 0..c - 1
        BY <2>1, <3>2
      <4>2. PICK i \in Short(f) : Age(b, f[i].frame_num) = a - 1
        BY <4>1, Zenon DEF Ages
      <4>3. Age(Succ(b), f[i].frame_num) = a
        BY <1>1, <2>1, <4>2
      <4>4. i \in Short(g) /\ g[i] = f[i]
        BY <1>2, <1>3
      <4>5. QED
        BY <4>3, <4>4
    <3>3. QED
      BY <3>1, <3>2
  <2>4. QED
    BY <2>2, <2>3 DEF Ages
<1>8. \A d \in Nat : Within(f, b, d + 1) /\ d < MaxFrameNum - 1 => Within(g, Succ(b), d)
  <2> SUFFICES ASSUME NEW d \in Nat, Within(f, b, d + 1), d < MaxFrameNum - 1, NEW i \in Short(g)
               PROVE  Age(Succ(b), g[i].frame_num) + d < MaxFrameNum - 1
    BY DEF Within
  <2>1. CASE i \in Short(f) /\ g[i] = f[i]
    BY <1>1, <2>1 DEF Within
  <2>2. CASE g[i] = e
    BY <1>4, <2>2, Bounds
  <2>3. QED
    BY <1>5, <2>1, <2>2
<1>9. QED
  BY <1>6, <1>7, <1>8


OrderOK == NumbersOK /\ AgesOK

LEMMA NumbersType ==
    ASSUME TypeOK
    PROVE  /\ pre_frame_num \in Numbers /\ pic.frame_num \in Numbers /\ Last \in Numbers
           /\ Numbers = 0..MaxFrameNum - 1 /\ MaxFrameNum \in Nat /\ MaxFrameNum > 2
<1>1. pre_frame_num \in Numbers /\ filler \in Numbers \cup {None}
  BY DEF TypeOK
<1>2. pic.frame_num \in Numbers
  BY PicFields DEF TypeOK
<1>3. /\ Pred(pre_frame_num) \in Numbers /\ Pred(pic.frame_num) \in Numbers
      /\ filler # None => Pred(filler) \in Numbers
  BY <1>1, <1>2, AgesAre
<1>4. Last \in Numbers
  BY <1>1, <1>3 DEF Last
<1>5. QED
  BY <1>1, <1>2, <1>4, Bounds DEF Numbers

(* The numbers a stream may give next, counted from the last reference.    *)
LEMMA NumberIs ==
    ASSUME TypeOK, NEW k \in 0..MaxFrameNum - 2, NEW b \in Numbers,
           b = IF pic.ref THEN pre_frame_num ELSE Pred(pre_frame_num)
    PROVE  /\ Number(k) \in Numbers /\ Age(Number(k), Succ(b)) = k
           /\ \A n \in Numbers : Age(b, n) + k = MaxFrameNum - 1 => Number(k) = n
<1>1. pre_frame_num \in 0..MaxFrameNum - 1 /\ b \in 0..MaxFrameNum - 1 /\ MaxFrameNum \in Nat /\ MaxFrameNum > 2
  BY NumbersType
<1> DEFINE x == IF pic.ref THEN pre_frame_num + 1 ELSE pre_frame_num
<1>2. x \in 0..MaxFrameNum /\ Succ(b) = IF x = MaxFrameNum THEN 0 ELSE x
  <2>1. CASE pic.ref
    BY <1>1, <2>1 DEF Succ
  <2>2. CASE ~pic.ref
    BY <1>1, <2>2 DEF Succ, Pred
  <2>3. QED
    BY <2>1, <2>2
<1>3. Number(k) = (x + k) % MaxFrameNum
  BY DEF Number
<1> HIDE DEF x
<1>4. x + k \in Int /\ -MaxFrameNum <= x + k /\ x + k < 2 * MaxFrameNum
  BY <1>1, <1>2
<1>5. /\ Number(k) \in Numbers
      /\ Number(k) = IF x + k < MaxFrameNum THEN x + k ELSE x + k - MaxFrameNum
  BY SMTT(40), <1>1, <1>2, <1>3, <1>4, Modulo
<1>6. Age(Number(k), Succ(b)) = k
  BY <1>1, <1>2, <1>5 DEF Age
<1>7. b = IF x = 0 THEN MaxFrameNum - 1 ELSE x - 1
  BY <1>1, <1>2 DEF Succ
<1>8. ASSUME NEW n \in 0..MaxFrameNum - 1, Age(b, n) + k = MaxFrameNum - 1 PROVE Number(k) = n
  BY <1>1, <1>2, <1>5, <1>7, <1>8 DEF Age
<1>9. QED
  BY <1>5, <1>6, <1>8 DEF Numbers

(* Without memory management commands the window keeps the ages below      *)
(* num_ref_frames.                                                         *)
LEMMA Young ==
    ASSUME Base, NEW b \in Numbers, Consecutive(fs, b), Cardinality(References(fs)) <= num_ref_frames
    PROVE  Within(fs, b, 0)
<1>1. fs \in Seq(Stores)
  BY DEF Base, TypeOK
<1>2. /\ Cardinality(Short(fs)) \in Nat /\ Cardinality(Long(fs)) \in Nat
      /\ Cardinality(References(fs)) = Cardinality(Short(fs)) + Cardinality(Long(fs))
  BY <1>1, PlacesFinite
<1>3. Cardinality(Short(fs)) < MaxFrameNum - 1
  BY <1>2, Bounds
<1>4. \A i \in Short(fs) : Age(b, fs[i].frame_num) \in 0..Cardinality(Short(fs)) - 1
  BY DEF Consecutive, Ages
<1>5. QED
  BY <1>2, <1>3, <1>4, Bounds DEF Within

LEMMA OrderStart ==
    ASSUME ~GapAfterNonRef, Base, RefsOK, OrderOK, KeepsFlag, StartPicture
    PROVE  OrderOK'
<1>0. PICK g \in Skips, p \in NextPocs, r \in BOOLEAN, a \in {FALSE, Adaptive}, i \in {FALSE, Intra} :
         Started(g, p, r, a, i)
  BY StartPictureIs, Zenon
<1>1. /\ Adaptive => \A j \in Short(fs), k \in 0..g : fs[j].frame_num # Number(k)
      /\ IF Number(g) \in {pre_frame_num, (pre_frame_num + 1) % MaxFrameNum} THEN Goto("decode")
         ELSE IF Gaps = 0 THEN Stop("loss") ELSE Goto("gap")
  BY <1>0 DEF Started
<1>2. /\ pic'.frame_num = Number(g) /\ ~pic'.idr /\ ~pic'.mmco5 /\ phase = "idle" /\ filler = None
      /\ fs' = fs /\ filler' = None /\ pre_frame_num' = pre_frame_num /\ Adaptive' = Adaptive
  BY <1>0 DEF Started, StartPicture, NoPicture, dpb, KeepsFlag, Adaptive, Base, PhaseOK
<1>3. phase' \in {"decode", "gap", "dead"}
  BY <1>1 DEF Goto, Stop
<1> DEFINE b == Last
<1>4. /\ b = (IF pic.ref THEN pre_frame_num ELSE Pred(pre_frame_num)) /\ b \in Numbers
      /\ pre_frame_num \in Numbers /\ MaxFrameNum \in Nat /\ MaxFrameNum > 2
  BY <1>2, NumbersType DEF Last, Base
<1> HIDE DEF b
<1>5. g \in 0..MaxFrameNum - 2 /\ (~pic.ref => g = 0)
  <2>1. Gaps \in 0..MaxFrameNum - 2
    BY KindIs DEF Base, Kinds, Gaps
  <2>2. g \in 0..Gaps \/ g = 0
    BY DEF Skips
  <2>3. ~pic.ref => g = 0
    BY DEF Skips
  <2>4. QED
    BY <1>4, <2>1, <2>2, <2>3
<1>6. /\ Number(g) \in Numbers /\ Age(Number(g), Succ(b)) = g
      /\ \A k \in 0..MaxFrameNum - 2, n \in Numbers : Age(b, n) + k = MaxFrameNum - 1 => Number(k) = n
  BY <1>4, <1>5, NumberIs DEF Base
<1>7. /\ InOrder(fs, b) /\ (~Adaptive => Consecutive(fs, b))
      /\ \A j \in Short(fs) : fs[j].frame_num \in Numbers /\ Age(b, fs[j].frame_num) \in 0..MaxFrameNum - 1
  <2>1. InOrder(fs, b) /\ (~Adaptive => Consecutive(fs, b))
    BY <1>2 DEF OrderOK, AgesOK, Numbered, b
  <2>2. QED
    BY <1>4, <2>1, AgesType DEF Base, TypeOK
<1>8. Adaptive => Within(fs, b, g)
  <2> SUFFICES ASSUME Adaptive, NEW j \in Short(fs), ~(Age(b, fs[j].frame_num) + g < MaxFrameNum - 1)
               PROVE  FALSE
    BY DEF Within
  <2> DEFINE k == MaxFrameNum - 1 - Age(b, fs[j].frame_num)
  <2>1. k \in 0..g /\ k \in 0..MaxFrameNum - 2 /\ Age(b, fs[j].frame_num) + k = MaxFrameNum - 1
    BY <1>4, <1>5, <1>7
  <2>2. Number(k) = fs[j].frame_num
    BY <1>6, <1>7, <2>1
  <2>3. QED
    BY <1>1, <2>1, <2>2
<1>9. CASE phase' = "decode"
  <2>1. g = 0
    <3>1. SUFFICES ASSUME pic.ref PROVE g = 0
      BY <1>5
    <3>2. Number(g) = pre_frame_num \/ Number(g) = Succ(pre_frame_num)
      BY <1>1, <1>4, <1>9, AgesAre DEF Goto, Stop
    <3>3. Succ(pre_frame_num) \in Numbers /\ Age(pre_frame_num, Succ(pre_frame_num)) = MaxFrameNum - 1
          /\ Age(Succ(pre_frame_num), Succ(pre_frame_num)) = 0
      BY <1>4, AgesAre
    <3>4. QED
      BY <1>4, <1>5, <1>6, <3>1, <3>2, <3>3
  <2>2. Number(g) = Succ(b) /\ Pred(Succ(b)) = b
    BY <1>4, <1>6, <2>1, AgesAre
  <2>3. Last' = b
    BY <1>2, <1>9, <2>2 DEF Last
  <2>4. Within(fs, b, 0)
    <3>1. Cardinality(References(fs)) <= num_ref_frames
      BY <1>2 DEF RefsOK
    <3>2. QED
      BY <1>4, <1>7, <1>8, <2>1, <3>1, Young
  <2>5. NumbersOK'
    BY <1>2, <1>9 DEF NumbersOK, Storing
  <2>6. AgesOK'
    BY <1>2, <1>7, <1>9, <2>3, <2>4 DEF AgesOK, Storing, InGap
  <2>7. QED
    BY <2>5, <2>6 DEF OrderOK
<1>10. CASE phase' = "gap"
  <2>1. pic.ref
    <3>1. SUFFICES ASSUME ~pic.ref PROVE FALSE
      OBVIOUS
    <3>2. g = 0 /\ Number(g) = Succ(b) /\ Succ(b) = pre_frame_num
      BY <1>4, <1>5, <1>6, <3>1, AgesAre
    <3>3. QED
      BY <1>1, <1>10, <3>2 DEF Goto
  <2>2. Last' = b /\ b = pre_frame_num
    BY <1>2, <1>4, <1>10, <2>1 DEF Last
  <2>3. Adaptive => Within(fs, b, Age(pic'.frame_num, Succ(pre_frame_num)))
    BY <1>2, <1>6, <1>8, <2>2
  <2>4. NumbersOK'
    BY <1>2, <1>10 DEF NumbersOK, Storing
  <2>5. AgesOK'
    BY <1>2, <1>7, <1>10, <2>2, <2>3 DEF AgesOK
  <2>6. QED
    BY <2>4, <2>5 DEF OrderOK
<1>11. CASE phase' = "dead"
  BY <1>2, <1>11 DEF OrderOK, NumbersOK, AgesOK, Numbered, Storing
<1>12. QED
  BY <1>3, <1>9, <1>10, <1>11


(* The next missing number is that of the next frame of the gap.           *)
LEMMA OrderFillGap == ASSUME Base, RefsOK, OrderOK, KeepsFlag, FillGap PROVE OrderOK'
<1>1. /\ phase = "gap" /\ fs' = fs /\ pic' = pic /\ pre_frame_num' = pre_frame_num /\ Adaptive' = Adaptive
      /\ ~pic.idr /\ ~pic.mmco5
  BY DEF FillGap, dpb, KeepsFlag, Adaptive, Base, PhaseOK
<1> DEFINE b == pre_frame_num
           n == pic.frame_num
<1>2. /\ b \in Numbers /\ n \in Numbers /\ Numbers = 0..MaxFrameNum - 1 /\ Succ(b) \in Numbers
      /\ (b + 1) % MaxFrameNum = Succ(b) /\ Pred(Succ(b)) = b /\ MaxFrameNum \in Nat /\ MaxFrameNum > 2
      /\ Age(n, Succ(b)) \in Numbers
  BY NumbersType, AgesAre DEF Base
<1>3. /\ InOrder(fs, b) /\ (Adaptive => Within(fs, b, Age(n, Succ(b)))) /\ (~Adaptive => Consecutive(fs, b))
  BY <1>1 DEF OrderOK, AgesOK, Numbered, InGap, Last
<1>4. Within(fs, b, 0)
  <2>1. CASE Adaptive
    <3>1. \A i \in Short(fs) : Age(b, fs[i].frame_num) \in 0..MaxFrameNum - 1
      BY <1>2, AgesType DEF Base, TypeOK
    <3>2. QED
      BY <1>2, <1>3, <2>1, <3>1 DEF Within
  <2>2. CASE ~Adaptive
    <3>1. Cardinality(References(fs)) <= num_ref_frames
      BY <1>1 DEF RefsOK
    <3>2. QED
      BY <1>2, <1>3, <2>2, <3>1, Young
  <2>3. QED
    BY <2>1, <2>2
<1>5. CASE n = Succ(b)
  <2>1. filler' = None /\ phase' = "decode"
    BY <1>2, <1>5 DEF FillGap, Goto
  <2>2. Last' = b
    BY <1>1, <1>2, <1>5, <2>1 DEF Last
  <2>3. NumbersOK'
    BY <1>1, <2>1 DEF NumbersOK, Storing
  <2>4. AgesOK'
    BY <1>1, <1>3, <1>4, <2>1, <2>2 DEF AgesOK, InGap, Storing
  <2>5. QED
    BY <2>3, <2>4 DEF OrderOK
<1>6. CASE n # Succ(b)
  <2>1. filler' = Succ(b) /\ phase' = "slide"
    BY <1>2, <1>6 DEF FillGap, Goto
  <2>2. filler' # None
    BY <1>2, <2>1 DEF None
  <2>3. Last' = b
    BY <1>1, <1>2, <2>1, <2>2 DEF Last
  <2>4. NumbersOK'
    BY <1>1, <1>6, <2>1, <2>2 DEF NumbersOK, Storing
  <2>5. AgesOK'
    BY <1>1, <1>3, <1>4, <2>1, <2>3 DEF AgesOK, InGap, Storing
  <2>6. QED
    BY <2>4, <2>5 DEF OrderOK
<1>7. QED
  BY <1>5, <1>6

LEMMA OrderStartIdr == ASSUME OrderOK, StartIdr PROVE OrderOK'
<1>1. phase' = "decode" /\ pic'.idr /\ pre_frame_num' = 0 /\ ~pic'.mmco5 /\ filler' = filler
  BY DEF StartIdr, Goto, NoPicture
<1>2. QED
  BY <1>1 DEF OrderOK, NumbersOK, AgesOK, Numbered, Storing

LEMMA OrderDecode == ASSUME Base, OrderOK, KeepsFlag, Decode PROVE OrderOK'
<1>1. /\ phase = "decode" /\ ~pic.idr /\ ~pic.mmco5 /\ UNCHANGED <<pic, filler>> /\ filler = None
      /\ phase' \in {"mark", "slide"} /\ pre_frame_num' = pic.frame_num /\ Adaptive' = Adaptive
  BY DEF Decode, Goto, KeepsFlag, Adaptive, Base, PhaseOK
<1>2. fs' \in Seq(Stores) /\ SameReferences(fs, fs')
  <2>1. fs \in Seq(Stores) /\ SameReferences(fs, fs)
    BY ChangedSame DEF Base, TypeOK
  <2>2. QED
    BY <2>1, RenumberedIs DEF Decode
<1>3. Last' = Last
  BY <1>1 DEF Last
<1>4. /\ InOrder(fs, Last) => InOrder(fs', Last)
      /\ Within(fs, Last, 0) => Within(fs', Last, 0)
      /\ Consecutive(fs, Last) => Consecutive(fs', Last)
  BY <1>2, AgesSame DEF Base, TypeOK
<1>5. NumbersOK'
  BY <1>1 DEF NumbersOK, Storing
<1>6. AgesOK'
  BY <1>1, <1>3, <1>4 DEF OrderOK, AgesOK, Numbered, InGap, Storing
<1>7. QED
  BY <1>5, <1>6 DEF OrderOK

LEMMA NoShort ==
    ASSUME NEW f, NEW b, f = <<>>
    PROVE  InOrder(f, b) /\ (\A d : Within(f, b, d)) /\ Consecutive(f, b)
<1>1. Short(f) = {} /\ Cardinality(Short(f)) = 0
  BY NoStores
<1>2. Ages(f, b) = {} /\ 0..0 - 1 = {}
  BY <1>1 DEF Ages
<1>3. QED
  BY <1>1, <1>2 DEF InOrder, Within, Consecutive

LEMMA OrderFlush ==
    ASSUME Base, OrderOK, KeepsFlag, FlushForIdr \/ FlushAtEnd \/ activate_sps \/ DiscardPictures \/ FlushEnd
    PROVE  OrderOK'
<1>1. CASE FlushForIdr
  <2>1. phase = "decode" /\ pic.idr /\ ~pic.mmco5 /\ phase' = "flush" /\ UNCHANGED <<pic, filler, pre_frame_num>>
    BY <1>1 DEF FlushForIdr, Goto, Base, PhaseOK
  <2>2. QED
    BY <2>1 DEF OrderOK, NumbersOK, AgesOK, Numbered, Storing
<1>2. CASE FlushAtEnd \/ activate_sps
  <2>1. phase' \in {"flush", "start"} /\ ~pic'.idr /\ ~pic'.mmco5
    BY <1>2 DEF FlushAtEnd, activate_sps, Goto, NoPicture
  <2>2. QED
    BY <2>1 DEF OrderOK, NumbersOK, AgesOK, Numbered, Storing
<1>3. CASE DiscardPictures \/ FlushEnd
  <2>1. /\ fs' = <<>> /\ phase' \in {"slide", "start"} /\ UNCHANGED <<pic, filler, pre_frame_num>> /\ filler = None
        /\ phase' = "slide" => pic.ref /\ (pic.idr \/ pic.mmco5)
        /\ phase \in {"decode", "flush"} /\ (phase = "flush" \/ pic.idr)
    BY <1>3 DEF DiscardPictures, FlushEnd, Goto, Base, PhaseOK
  <2>2. phase' = "slide" /\ ~pic.mmco5 => pre_frame_num = pic.frame_num
    BY <2>1 DEF OrderOK, NumbersOK, Base, PhaseOK
  <2>3. pic.mmco5 /\ phase' = "slide" => pic.frame_num = 0
    BY <2>1 DEF OrderOK, NumbersOK, Base, PhaseOK
  <2>4. NumbersOK'
    BY <2>1, <2>2, <2>3 DEF NumbersOK, Storing
  <2>5. AgesOK'
    BY <2>1, NoShort DEF AgesOK, Storing, InGap
  <2>6. QED
    BY <2>4, <2>5 DEF OrderOK
<1>4. QED
  BY <1>1, <1>2, <1>3

LEMMA OrderMark == ASSUME Base, OrderOK, KeepsFlag, Marks PROVE OrderOK'
<1>1. MarkStep
  BY MarksAre DEF Base
<1>2. /\ phase = "mark" /\ phase' = "mark" /\ filler = None /\ filler' = None /\ Adaptive /\ Adaptive'
      /\ pre_frame_num' = pre_frame_num /\ pic'.frame_num = pic.frame_num
      /\ ~pic'.mmco5 => ~pic.mmco5
  BY <1>1 DEF MarkStep, SamePicture, KeepsFlag, Adaptive, Base, PhaseOK
<1>3. Short(fs') \subseteq Short(fs) /\ \A i \in Short(fs') : fs'[i].frame_num = fs[i].frame_num
  <2>1. Short(fs) \subseteq 1..Len(fs)
    BY FsIs DEF Base
  <2>2. QED
    BY <1>1, <2>1 DEF MarkStep, Remarked
<1>4. Last' = Last
  BY <1>2 DEF Last
<1>5. InOrder(fs', Last) /\ Within(fs', Last, 0)
  BY <1>2, <1>3, AgesKept DEF OrderOK, AgesOK, Numbered
<1>6. NumbersOK'
  BY <1>2 DEF OrderOK, NumbersOK, Storing
<1>7. AgesOK'
  BY <1>2, <1>4, <1>5 DEF AgesOK, InGap, Storing
<1>8. QED
  BY <1>6, <1>7 DEF OrderOK

LEMMA OrderEndOfCommands == ASSUME Base, OrderOK, KeepsFlag, EndOfCommands PROVE OrderOK'
<1>1. /\ phase = "mark" /\ pre_frame_num' = pre_frame_num /\ filler' = filler /\ filler = None /\ Adaptive' = Adaptive
      /\ pic \in Pictures /\ ~pic.idr /\ Adaptive
      /\ \/ pic' = [pic EXCEPT !.frame_num = 0, !.poc = 0] /\ phase' = "flush"
         \/ phase' = "slide" /\ UNCHANGED <<pic, fs>> /\ ~pic.mmco5
  BY DEF EndOfCommands, Goto, Base, TypeOK, PhaseOK, KeepsFlag, Adaptive
<1>2. CASE phase' = "slide" /\ UNCHANGED <<pic, fs>> /\ ~pic.mmco5
  <2>1. Last' = Last
    BY <1>1, <1>2 DEF Last
  <2>2. QED
    BY <1>1, <1>2, <2>1 DEF OrderOK, NumbersOK, AgesOK, Numbered, Storing, InGap
<1>3. CASE pic' = [pic EXCEPT !.frame_num = 0, !.poc = 0] /\ phase' = "flush"
  <2>1. pic'.frame_num = 0 /\ ~pic'.idr
    BY <1>1, <1>3 DEF Pictures
  <2>2. QED
    BY <1>1, <1>3, <2>1 DEF OrderOK, NumbersOK, AgesOK, Numbered, Storing
<1>4. QED
  BY <1>1, <1>2, <1>3

LEMMA OrderLoop ==
    ASSUME Base, OrderOK, KeepsFlag, FlushUnused \/ FlushOutput \/ MakeRoom
    PROVE  OrderOK'
<1>1. CASE phase' = "dead"
  BY <1>1 DEF OrderOK, NumbersOK, AgesOK, Numbered, Storing
<1>2. CASE phase' # "dead"
  <2>1. /\ phase' = phase /\ phase \in {"flush", "room"} /\ UNCHANGED <<pic, filler, pre_frame_num>>
        /\ fs' \in Seq(Stores) /\ SameReferences(fs, fs') /\ Adaptive' = Adaptive
    BY <1>2, LoopStepIs DEF LoopStep, KeepsFlag, Adaptive
  <2>2. Last' = Last /\ InGap' = InGap /\ Storing' = Storing
    BY <2>1 DEF Last, InGap, Storing
  <2>3. /\ InOrder(fs, Last) => InOrder(fs', Last)
        /\ \A d : Within(fs, Last, d) => Within(fs', Last, d)
        /\ Consecutive(fs, Last) => Consecutive(fs', Last)
    BY <2>1, AgesSame DEF Base, TypeOK
  <2>4. NumbersOK'
    BY <2>1, <2>2 DEF OrderOK, NumbersOK
  <2>5. AgesOK'
    BY <2>1, <2>2, <2>3 DEF OrderOK, AgesOK, Numbered
  <2>6. QED
    BY <2>4, <2>5 DEF OrderOK
<1>3. QED
  BY <1>1, <1>2


(* The window takes the first short term frame, and that is the oldest.    *)
LEMMA WindowTakesOldest ==
    ASSUME Base, NEW b \in Numbers, InOrder(fs, b)
    PROVE  /\ InOrder(Window, b) /\ \A d : Within(fs, b, d) => Within(Window, b, d)
           /\ Consecutive(fs, b) => Consecutive(Window, b)
<1>1. fs \in Seq(Stores) /\ TypeOK
  BY DEF Base, TypeOK
<1>2. CASE Window = fs
  BY <1>2
<1>3. CASE Window # fs
  <2>1. PICK m \in Short(fs) : Window = Unmarked({m}) /\ \A j \in Short(fs) : m <= j
    BY <1>1, <1>3, SlidIs DEF Window
  <2>2. Short(Window) = Short(fs) \ {m}
    BY <1>1, <2>1, UnmarkedIs
  <2>3. \A i \in 1..Len(fs) : Window[i].frame_num = fs[i].frame_num
    BY <1>1, WindowIs DEF Remarked
  <2>4. /\ Short(fs) \subseteq 1..Len(fs) /\ Len(fs) \in Nat
        /\ \A i \in Short(fs) : Age(b, fs[i].frame_num) \in 0..MaxFrameNum - 1
    BY <1>1, AgesType
  <2>5. /\ InOrder(Window, b) /\ \A d : Within(fs, b, d) => Within(Window, b, d)
    BY <2>2, <2>3, <2>4, AgesKept
  <2>6. ASSUME Consecutive(fs, b) PROVE Consecutive(Window, b)
    <3> DEFINE c == Cardinality(Short(fs))
               A(i) == Age(b, fs[i].frame_num)
    <3>1. c \in Nat /\ Cardinality(Short(Window)) = c - 1
      BY <1>1, <2>1, <2>2, PlacesFinite, FS_RemoveElement
    <3>2. /\ \A i \in Short(fs) : A(i) \in 0..c - 1
          /\ \A k \in 0..c - 1 : \E i \in Short(fs) : A(i) = k
      BY <2>6, Zenon DEF Consecutive, Ages
    <3>3. \A j \in Short(fs) \ {m} : A(j) < A(m)
      <4>1. \A j \in Short(fs) \ {m} : m < j
        BY <2>1, <2>4
      <4>2. QED
        BY <4>1 DEF InOrder
    <3> HIDE DEF c, A
    <3>4. A(m) = c - 1
      <4>1. c > 0 /\ c - 1 \in 0..c - 1
        BY <2>1, <3>1, <3>2
      <4>2. PICK i \in Short(fs) : A(i) = c - 1
        BY <3>2, <4>1
      <4>3. QED
        BY <2>1, <3>1, <3>2, <3>3, <4>2
    <3>5. \A i \in Short(fs) \ {m} : A(i) \in 0..c - 1 - 1
      BY <2>1, <3>1, <3>2, <3>3, <3>4
    <3>6. \A k \in 0..c - 1 - 1 : \E i \in Short(fs) \ {m} : A(i) = k
      <4> TAKE k \in 0..c - 1 - 1
      <4>1. PICK i \in Short(fs) : A(i) = k
        BY <3>1, <3>2
      <4>2. QED
        BY <3>1, <3>4, <4>1
    <3>7. \A i \in Short(Window) : Age(b, Window[i].frame_num) = A(i)
      BY <2>2, <2>3, <2>4 DEF A
    <3>8. Ages(Window, b) = 0..c - 1 - 1
      BY <2>2, <3>5, <3>6, <3>7 DEF Ages
    <3>9. QED
      BY <3>1, <3>8 DEF Consecutive
  <2>7. QED
    BY <2>5, <2>6
<1>4. QED
  BY <1>2, <1>3

LEMMA OrderSlide == ASSUME Base, OrderOK, KeepsFlag, SlideWindow PROVE OrderOK'
<1>1. phase = "slide" /\ phase' = "room" /\ UNCHANGED <<pic, filler, pre_frame_num>> /\ Adaptive' = Adaptive
  BY DEF SlideWindow, Goto, KeepsFlag, Adaptive
<1>2. Last' = Last /\ InGap' = InGap /\ Storing' = Storing /\ Last \in Numbers
  BY <1>1, NumbersType DEF Last, InGap, Storing, Base
<1>3. /\ InOrder(fs, Last) /\ Within(fs, Last, 0)
      /\ Adaptive /\ InGap => Within(fs, Last, Age(pic.frame_num, Succ(pre_frame_num)))
      /\ ~Adaptive => Consecutive(fs, Last)
  BY <1>1 DEF OrderOK, AgesOK, Numbered
<1>4. /\ InOrder(Window, Last) /\ \A d : Within(fs, Last, d) => Within(Window, Last, d)
      /\ Consecutive(fs, Last) => Consecutive(Window, Last)
  BY <1>2, <1>3, WindowTakesOldest
<1>5. /\ InOrder(Window, Last) => InOrder(fs', Last)
      /\ \A d : Within(Window, Last, d) => Within(fs', Last, d)
      /\ Consecutive(Window, Last) => Consecutive(fs', Last)
  <2>1. Window \in Seq(Stores) /\ fs' \in Seq(Stores) /\ SameReferences(Window, fs')
    BY WindowIs, SlideIs DEF Base
  <2>2. QED
    BY <2>1, AgesSame
<1>6. NumbersOK'
  BY <1>1, <1>2 DEF OrderOK, NumbersOK
<1>7. AgesOK'
  BY <1>1, <1>2, <1>3, <1>4, <1>5 DEF AgesOK
<1>8. QED
  BY <1>6, <1>7 DEF OrderOK

(* The picture is stored under the number after the last, or is no         *)
(* reference at all.                                                       *)
LEMMA OrderStorePicture ==
    ASSUME Base, OrderOK, KeepsFlag, phase = "room", filler = None, filler' = filler, pic' = pic, Stored,
           (fs' = fs /\ ~pic.ref) \/ fs' = Append(fs, Current)
    PROVE  OrderOK'
<1>1. /\ phase' = "idle" /\ pre_frame_num' = (IF pic.mmco5 THEN 0 ELSE pre_frame_num)
      /\ Adaptive' = Adaptive
  BY StoredIs DEF KeepsFlag, Adaptive, Base
<1>2. pre_frame_num' = pic.frame_num
  BY <1>1 DEF OrderOK, NumbersOK, Storing
<1> DEFINE n == pic.frame_num
           b == Pred(n)
<1>3. n \in Numbers /\ b \in Numbers /\ Succ(b) = n /\ Age(n, n) = 0
  BY NumbersType, AgesAre DEF Base
<1>4. Last = b /\ Last' = (IF pic.ref THEN n ELSE b)
  BY <1>1, <1>2 DEF Last
<1> HIDE DEF n, b
<1>5. InOrder(fs, b) /\ Within(fs, b, 0) /\ (~Adaptive => Consecutive(fs, b))
  BY <1>4 DEF OrderOK, AgesOK, Numbered
<1>6. /\ Current \in Stores /\ Current.frame_num = n /\ Current.ref = pic.ref /\ Current.lt = pic.lt
      /\ fs \in Seq(Stores)
  BY CurrentIs DEF Base, TypeOK, n
<1>7. NumbersOK'
  BY <1>1, <1>2 DEF NumbersOK, Storing
<1>8. pic.lt => pic.ref /\ Adaptive
  BY DEF Base, PhaseOK
<1>9. CASE pic.ref /\ ~pic.lt
  <2>1. Age(Succ(b), Current.frame_num) = 0 /\ Current.ref /\ ~Current.lt /\ fs' = Append(fs, Current)
    BY <1>3, <1>6, <1>9
  <2>2. /\ InOrder(fs, b) => InOrder(fs', Succ(b))
        /\ Consecutive(fs, b) => Consecutive(fs', Succ(b))
    BY <1>3, <1>5, <1>6, <2>1, AgesAppend, Zenon
  <2>3. AgesOK'
    BY <1>1, <1>3, <1>4, <1>5, <1>9, <2>2 DEF AgesOK, InGap, Storing
  <2>4. QED
    BY <1>7, <2>3 DEF OrderOK
<1>10. CASE ~(pic.ref /\ ~pic.lt)
  <2>1. Short(fs') = Short(fs) /\ \A i \in Short(fs') : fs'[i].frame_num = fs[i].frame_num
    <3>1. CASE fs' = fs
      BY <3>1
    <3>2. CASE fs' = Append(fs, Current)
      <4>1. ~(Current.ref /\ ~Current.lt)
        BY <1>6, <1>10
      <4>2. Short(fs') = Short(fs)
        BY <1>6, <3>2, <4>1, AppendedIs, ZenonT(60)
      <4>3. \A i \in 1..Len(fs) : fs'[i] = fs[i]
        BY <1>6, <3>2, AppendProperties
      <4>4. Short(fs) \subseteq 1..Len(fs)
        BY FsIs DEF Base
      <4>5. QED
        BY <4>2, <4>3, <4>4
    <3>3. QED
      BY <3>1, <3>2
  <2>2. \A x : /\ InOrder(fs, x) => InOrder(fs', x)
               /\ Within(fs, x, 0) => Within(fs', x, 0)
               /\ Consecutive(fs, x) => Consecutive(fs', x)
    BY <2>1 DEF InOrder, Within, Consecutive, Ages
  <2>3. CASE pic.ref
    <3>1. pic.lt /\ Adaptive
      BY <1>8, <1>10, <2>3
    <3>2. InOrder(fs, n)
      BY <1>3, <1>5, <1>6, AgesGrow
    <3>3. AgesOK'
      BY <1>1, <1>4, <2>2, <2>3, <3>1, <3>2 DEF AgesOK, InGap, Storing
    <3>4. QED
      BY <1>7, <3>3 DEF OrderOK
  <2>4. CASE ~pic.ref
    <3>1. AgesOK'
      BY <1>1, <1>4, <1>5, <2>2, <2>4 DEF AgesOK, InGap, Storing
    <3>2. QED
      BY <1>7, <3>1 DEF OrderOK
  <2>5. QED
    BY <2>3, <2>4
<1>11. QED
  BY <1>9, <1>10


(* A frame of a gap is stored under the number after the last; the gap is  *)
(* shorter by it.                                                          *)
LEMMA OrderStoreFiller ==
    ASSUME Base, OrderOK, KeepsFlag, phase = "room", filler # None, filler' = filler, pic' = pic, Stored,
           fs' = Append(fs, Current)
    PROVE  OrderOK'
<1>1. phase' = "gap" /\ pre_frame_num' = filler /\ Adaptive' = Adaptive /\ filler \in Numbers
  BY StoredIs DEF KeepsFlag, Adaptive, Base, TypeOK
<1> DEFINE b == Pred(filler)
           n == pic.frame_num
           d == Age(n, Succ(filler))
<1>2. /\ b \in Numbers /\ Succ(b) = filler /\ Age(filler, filler) = 0 /\ pre_frame_num \in Numbers
      /\ filler = Succ(pre_frame_num) /\ filler # n
      /\ n \in Numbers
  BY <1>1, NumbersType, AgesAre DEF Base, OrderOK, NumbersOK, Storing
<1>3. d \in Numbers /\ d = Age(n, filler) - 1 /\ Age(n, filler) \in Numbers
  BY <1>1, <1>2, AgesAre
<1>4. Last = b /\ Last' = filler
  BY <1>1 DEF Last
<1>5. /\ InOrder(fs, b) /\ Within(fs, b, 0) /\ (~Adaptive => Consecutive(fs, b))
      /\ Adaptive => Within(fs, b, Age(n, filler))
  BY <1>2, <1>4 DEF OrderOK, AgesOK, Numbered, InGap, Storing
<1>6. /\ Current \in Stores /\ Current.frame_num = filler /\ Current.ref /\ ~Current.lt
      /\ fs \in Seq(Stores)
  BY CurrentIs DEF Base, TypeOK
<1> HIDE DEF b, d
<1>7. Age(Succ(b), Current.frame_num) = 0
  BY <1>2, <1>6
<1>8. /\ InOrder(fs, b) => InOrder(fs', Succ(b))
      /\ Consecutive(fs, b) => Consecutive(fs', Succ(b))
      /\ \A k \in Nat : Within(fs, b, k + 1) /\ k < MaxFrameNum - 1 => Within(fs', Succ(b), k)
  BY <1>2, <1>5, <1>6, <1>7, AgesAppend, Zenon
<1>9. d \in Nat /\ d + 1 = Age(n, filler) /\ d < MaxFrameNum - 1
  BY <1>3, Bounds DEF Numbers
<1>10. Adaptive => Within(fs', filler, d)
  BY <1>2, <1>5, <1>8, <1>9
<1>11. InOrder(fs', filler) /\ (~Adaptive => Consecutive(fs', filler))
  BY <1>2, <1>5, <1>8
<1>12. NumbersOK'
  BY <1>1 DEF NumbersOK, Storing
<1>13. AgesOK'
  BY <1>1, <1>4, <1>10, <1>11 DEF AgesOK, d
<1>14. QED
  BY <1>12, <1>13 DEF OrderOK

LEMMA OrderStore ==
    ASSUME Base, OrderOK, KeepsFlag, direct_output \/ insert_picture_in_dpb
    PROVE  OrderOK'
<1>1. CASE direct_output
  <2>1. /\ phase = "room" /\ ~Current.ref /\ fs' = fs /\ filler' = filler /\ pic' = pic /\ Stored
    BY <1>1 DEF direct_output, GoesFirst, dpb
  <2>2. filler = None /\ ~pic.ref
    BY <2>1, CurrentIs DEF Base
  <2>3. QED
    BY <2>1, <2>2, OrderStorePicture
<1>2. CASE insert_picture_in_dpb /\ phase' = "dead"
  BY <1>2 DEF OrderOK, NumbersOK, AgesOK, Numbered, Storing
<1>3. CASE insert_picture_in_dpb /\ phase' # "dead"
  <2>1. phase = "room" /\ filler' = filler /\ pic' = pic /\ Stored /\ fs' = Append(fs, Current)
    BY <1>3 DEF insert_picture_in_dpb, Stop
  <2>2. QED
    BY <2>1, OrderStorePicture, OrderStoreFiller
<1>4. QED
  BY <1>1, <1>2, <1>3


LEMMA OrderStep ==
    ASSUME ~GapAfterNonRef
    PROVE  Base /\ RefsOK /\ OrderOK /\ [Next]_vars => OrderOK'
<1> SUFFICES ASSUME Base, RefsOK, OrderOK, [Next]_vars PROVE OrderOK'
  OBVIOUS
<1>1. CASE KeepsFlag /\ StartPicture
  BY <1>1, OrderStart
<1>2. CASE StartIdr
  BY <1>2, OrderStartIdr
<1>3. CASE KeepsFlag /\ FillGap
  BY <1>3, OrderFillGap
<1>4. CASE KeepsFlag /\ Decode
  BY <1>4, OrderDecode
<1>5. CASE KeepsFlag /\ (FlushForIdr \/ FlushAtEnd \/ activate_sps \/ DiscardPictures \/ FlushEnd)
  BY <1>5, OrderFlush
<1>6. CASE KeepsFlag /\ Marks
  BY <1>6, OrderMark
<1>7. CASE KeepsFlag /\ EndOfCommands
  BY <1>7, OrderEndOfCommands
<1>8. CASE KeepsFlag /\ (FlushUnused \/ FlushOutput \/ MakeRoom)
  BY <1>8, OrderLoop
<1>9. CASE KeepsFlag /\ SlideWindow
  BY <1>9, OrderSlide
<1>10. CASE KeepsFlag /\ (direct_output \/ insert_picture_in_dpb)
  BY <1>10, OrderStore
<1>11. CASE UNCHANGED vars
  <2>1. UNCHANGED <<fs, kind, pre_frame_num, pic, filler, phase>>
    BY <1>11 DEF vars, dpb
  <2>2. Last' = Last /\ Storing' = Storing /\ Numbered' = Numbered /\ InGap' = InGap /\ Adaptive' = Adaptive
    BY <2>1 DEF Last, Storing, Numbered, InGap, Adaptive
  <2>3. NumbersOK'
    BY <2>1, <2>2 DEF OrderOK, NumbersOK
  <2>4. AgesOK'
    BY <2>1, <2>2 DEF OrderOK, AgesOK
  <2>5. QED
    BY <2>3, <2>4 DEF OrderOK
<1>12. QED
  BY <1>1, <1>2, <1>3, <1>4, <1>5, <1>6, <1>7, <1>8, <1>9, <1>10, <1>11
     DEF Next, Stream, Marking, Marks, Decoder

LEMMA OrderHolds == ASSUME ~GapAfterNonRef PROVE Spec => []OrderOK
<1>1. Init => OrderOK
  <2> SUFFICES ASSUME Init PROVE OrderOK
    OBVIOUS
  <2>1. phase = "start" /\ filler = None /\ ~pic.mmco5 /\ ~pic.idr
    BY DEF Init, NoPicture
  <2>2. QED
    BY <2>1 DEF OrderOK, NumbersOK, AgesOK, Numbered, Storing
<1>2. Base /\ RefsOK /\ OrderOK /\ [Next]_vars => OrderOK'
  BY OrderStep
<1>3. QED
  BY <1>1, <1>2, BaseHolds, RefsHolds, PTL DEF Spec

(* FrameNumWrap is the number of the picture less the age of the frame.    *)
LEMMA WrapIsAge ==
    ASSUME TypeOK, NEW n \in Numbers
    PROVE  Wrap(n) = pic.frame_num - Age(pic.frame_num, n)
  BY NumbersType DEF Wrap, Age

(* The sliding window takes the first short term frame in the buffer; that *)
(* is the one with the smallest FrameNumWrap, however often frame_num has  *)
(* wrapped and whatever has left the buffer in between.  Without commands  *)
(* the numbers of the short term frames are those up to the last one, the  *)
(* frames of gaps among them.                                              *)
THEOREM WindowInOrder == ASSUME ~GapAfterNonRef PROVE Spec => []WindowOrder
<1>1. Base /\ OrderOK => WindowOrder
  <2> SUFFICES ASSUME Base, OrderOK, phase = "idle" PROVE WindowOrder
    BY DEF WindowOrder
  <2> DEFINE n == pic.frame_num
             last == IF pic.ref THEN pre_frame_num ELSE pre_frame_num - 1
  <2>1. /\ n \in 0..MaxFrameNum - 1 /\ MaxFrameNum \in Nat /\ MaxFrameNum > 2 /\ pre_frame_num = n
        /\ n \in Numbers /\ Pred(n) \in Numbers /\ Succ(Pred(n)) = n
    BY NumbersType, AgesAre DEF Base, OrderOK, NumbersOK
  <2>2. Last = IF pic.ref THEN n ELSE Pred(n)
    BY <2>1 DEF Last
  <2>3. /\ Last \in Numbers /\ InOrder(fs, Last)
        /\ (~pic.ref => Within(fs, Last, 0)) /\ (~Adaptive => Consecutive(fs, Last))
    BY <2>1, <2>2 DEF OrderOK, AgesOK, Numbered
  <2>4. /\ Short(fs) \subseteq 1..Len(fs) /\ Len(fs) \in Nat /\ Cardinality(Short(fs)) \in Nat
        /\ \A i \in Short(fs) : /\ fs[i].frame_num \in Numbers
                                /\ Age(n, fs[i].frame_num) \in 0..MaxFrameNum - 1
                                /\ Age(Last, fs[i].frame_num) \in 0..MaxFrameNum - 1
    BY <2>1, <2>3, AgesType, PlacesFinite DEF Base, TypeOK
  <2>5. InOrder(fs, n)
    BY <2>1, <2>2, <2>3, AgesGrow DEF Base, TypeOK
  <2>6. \A i \in Short(fs) : Wrap(fs[i].frame_num) = n - Age(n, fs[i].frame_num)
    BY <2>4, WrapIsAge DEF Base
  <2>7. \A i, j \in Short(fs) : i < j => Wrap(fs[i].frame_num) < Wrap(fs[j].frame_num)
    <3> SUFFICES ASSUME NEW i \in Short(fs), NEW j \in Short(fs), i < j
                 PROVE  Wrap(fs[i].frame_num) < Wrap(fs[j].frame_num)
      OBVIOUS
    <3>1. Age(n, fs[j].frame_num) < Age(n, fs[i].frame_num)
      BY <2>5 DEF InOrder
    <3>2. QED
      BY <2>1, <2>4, <2>6, <3>1
  <2>8. ASSUME ~Adaptive
        PROVE  {fs[i].frame_num : i \in Short(fs)} = {(last - k) % MaxFrameNum : k \in 0..Cardinality(Short(fs)) - 1}
    <3>1. \A m \in Numbers, k \in 0..MaxFrameNum - 1 : Age(Last, m) = k <=> m = (last - k) % MaxFrameNum
      <4> TAKE m \in Numbers, k \in 0..MaxFrameNum - 1
      <4>1. last \in -1..MaxFrameNum - 1 /\ Last = (IF last < 0 THEN MaxFrameNum - 1 ELSE last)
        BY <2>1, <2>2 DEF Pred
      <4> HIDE DEF last
      <4>2. last - k \in Int /\ -MaxFrameNum <= last - k /\ last - k < 2 * MaxFrameNum
        BY <2>1, <4>1
      <4>3. (last - k) % MaxFrameNum = IF last - k < 0 THEN last - k + MaxFrameNum ELSE last - k
        BY <2>1, <4>1, <4>2, Modulo
      <4>4. m \in 0..MaxFrameNum - 1
        BY <2>1 DEF Numbers
      <4>5. QED
        BY <2>1, <4>1, <4>3, <4>4 DEF Age
    <3> DEFINE c == Cardinality(Short(fs))
    <3>2. /\ \A i \in Short(fs) : Age(Last, fs[i].frame_num) \in 0..c - 1
          /\ \A k \in 0..c - 1 : \E i \in Short(fs) : Age(Last, fs[i].frame_num) = k
      BY <2>3, <2>8, Zenon DEF Consecutive, Ages
    <3> HIDE DEF c
    <3>3. \A i \in Short(fs) : \E k \in 0..c - 1 : fs[i].frame_num = (last - k) % MaxFrameNum
      BY <2>4, <3>1, <3>2
    <3>4. \A k \in 0..c - 1 : \E i \in Short(fs) : fs[i].frame_num = (last - k) % MaxFrameNum
      BY <2>4, <3>1, <3>2
    <3> HIDE DEF last
    <3>5. QED
      BY <3>3, <3>4 DEF c
  <2>9. QED
    BY <2>7, <2>8 DEF WindowOrder
<1>2. QED
  BY <1>1, OrderHolds, BaseHolds, PTL



-----------------------------------------------------------------------------
(***************************************************************************)
(* The order of output.  The frames that wait have different order counts, *)
(* all above the last one shown; more than Reorder pictures at or above    *)
(* that one have been decoded, so that no later picture comes before it.   *)
(***************************************************************************)
Pending(f) == {f[i].poc : i \in Waiting(f)}
Apart(f) == \A i, j \in Waiting(f) : f[i].poc = f[j].poc => i = j

LEMMA PendingIs ==
    ASSUME NEW f \in Seq(Stores)
    PROVE  /\ Pending(f) \subseteq Pocs /\ Waiting(f) \subseteq 1..Len(f)
           /\ Apart(f) => Cardinality(Pending(f)) = Cardinality(Waiting(f))
<1>1. Waiting(f) \subseteq 1..Len(f) /\ IsFiniteSet(Waiting(f))
  BY PlacesFinite
<1>2. Pending(f) \subseteq Pocs
  BY <1>1, StoresOf DEF Pending
<1>3. ASSUME Apart(f) PROVE Cardinality(Pending(f)) = Cardinality(Waiting(f))
  <2> DEFINE W == Waiting(f)
             P == Pending(f)
             u == [i \in W |-> f[i].poc]
  <2>1. u \in [W -> P] /\ \A p \in P : \E i \in W : u[i] = p
    BY DEF Pending
  <2>2. \A i, j \in W : u[i] = u[j] => i = j
    BY <1>3 DEF Apart
  <2>3. ExistsBijection(W, P)
    BY <2>1, <2>2 DEF ExistsBijection, Bijection, Injection, Surjection, IsInjective
  <2>4. QED
    BY <1>1, <2>3, FS_Bijection
<1>4. QED
  BY <1>1, <1>2, <1>3

(* Marks change: the frames that wait are the same.                        *)
LEMMA PendingKept ==
    ASSUME NEW f \in Seq(Stores), NEW g \in Seq(Stores), Len(g) = Len(f),
           \A i \in 1..Len(f) : g[i].poc = f[i].poc /\ g[i].out = f[i].out
    PROVE  Waiting(g) = Waiting(f) /\ Pending(g) = Pending(f) /\ (Apart(f) => Apart(g))
<1>1. DOMAIN f = 1..Len(f) /\ DOMAIN g = 1..Len(f)
  BY StoresOf
<1>2. Waiting(g) = Waiting(f) /\ Waiting(f) \subseteq 1..Len(f)
  BY <1>1 DEF Waiting
<1>3. QED
  BY <1>2 DEF Pending, Apart

(* One leaves the buffer: the others are the same.                         *)
LEMMA PendingRemoved ==
    ASSUME NEW f \in Seq(Stores), NEW i \in 1..Len(f), Apart(f)
    PROVE  /\ Apart(Removed(f, i))
           /\ f[i].out => Pending(Removed(f, i)) = Pending(f)
           /\ ~f[i].out => Pending(Removed(f, i)) = Pending(f) \ {f[i].poc}
<1> DEFINE g == Removed(f, i)
<1>1. /\ g \in Seq(Stores) /\ Len(g) = Len(f) - 1
      /\ \A j \in 1..Len(f) - 1 : g[j] = f[Up(i, j)] /\ Up(i, j) \in 1..Len(f) \ {i}
  BY RemovedIs
<1> HIDE DEF g
<1>2. Len(f) \in Nat /\ DOMAIN f = 1..Len(f) /\ DOMAIN g = 1..Len(f) - 1
  BY <1>1, StoresOf
<1>3. \A j \in 1..Len(f) - 1 : j \in Waiting(g) <=> Up(i, j) \in Waiting(f)
  BY <1>1, <1>2 DEF Waiting
<1>4. Waiting(g) \subseteq 1..Len(f) - 1 /\ Waiting(f) \subseteq 1..Len(f)
  BY <1>2 DEF Waiting
<1>5. \A j \in Waiting(g) : Up(i, j) \in Waiting(f) \ {i} /\ g[j] = f[Up(i, j)]
  BY <1>1, <1>3, <1>4
<1>6. \A k \in Waiting(f) \ {i} : \E j \in Waiting(g) : g[j] = f[k]
  <2> TAKE k \in Waiting(f) \ {i}
  <2>1. k \in 1..Len(f) /\ k # i
    BY <1>4
  <2>2. CASE k < i
    <3>1. k \in 1..Len(f) - 1 /\ Up(i, k) = k
      BY <1>2, <2>1, <2>2 DEF Up
    <3>2. QED
      BY <1>1, <1>3, <3>1
  <2>3. CASE ~(k < i)
    <3>1. k - 1 \in 1..Len(f) - 1 /\ Up(i, k - 1) = k
      BY <1>2, <2>1, <2>3 DEF Up
    <3>2. QED
      BY <1>1, <1>3, <3>1
  <2>4. QED
    BY <2>2, <2>3
<1>7. Apart(g)
  <2> SUFFICES ASSUME NEW j \in Waiting(g), NEW k \in Waiting(g), g[j].poc = g[k].poc PROVE j = k
    BY DEF Apart
  <2>1. Up(i, j) = Up(i, k)
    BY <1>5 DEF Apart
  <2>2. QED
    BY <1>4, <2>1 DEF Up
<1>8. Pending(g) = {f[k].poc : k \in Waiting(f) \ {i}}
  <2>1. \A p : (\E j \in Waiting(g) : p = g[j].poc) <=> \E k \in Waiting(f) \ {i} : p = f[k].poc
    <3> TAKE p
    <3>1. ASSUME NEW j \in Waiting(g), p = g[j].poc PROVE \E k \in Waiting(f) \ {i} : p = f[k].poc
      BY <1>5, <3>1
    <3>2. ASSUME NEW k \in Waiting(f) \ {i}, p = f[k].poc PROVE \E j \in Waiting(g) : p = g[j].poc
      BY <1>6, <3>2
    <3>3. QED
      BY <3>1, <3>2
  <2>2. QED
    BY <2>1 DEF Pending
<1>9. f[i].out => i \notin Waiting(f)
  BY DEF Waiting
<1>10. ~f[i].out => i \in Waiting(f)
  BY <1>2 DEF Waiting
<1>11. f[i].out => Pending(g) = Pending(f)
  BY <1>8, <1>9 DEF Pending
<1>12. ~f[i].out => Pending(g) = Pending(f) \ {f[i].poc}
  BY <1>8, <1>10 DEF Pending, Apart
<1>13. QED
  BY <1>7, <1>11, <1>12 DEF g

(* The frame with the least order count is written.                        *)
LEMMA PendingWritten ==
    ASSUME TypeOK, Apart(fs), NEW i \in 1..Len(fs), Written(i)
    PROVE  /\ Pending(fs') = Pending(fs) \ {fs[i].poc} /\ Apart(fs')
           /\ fs[i].poc \in Pending(fs) /\ \A p \in Pending(fs) : fs[i].poc <= p
<1>1. fs \in Seq(Stores) /\ Len(fs) \in Nat /\ DOMAIN fs = 1..Len(fs)
  BY StoresOf DEF TypeOK
<1>2. i \in Waiting(fs) /\ ~fs[i].out /\ \A j \in Waiting(fs) : fs[i].poc <= fs[j].poc
  BY DEF Written, Waiting
<1>3. fs[i].poc \in Pending(fs) /\ \A p \in Pending(fs) : fs[i].poc <= p
  BY <1>2 DEF Pending
<1>4. CASE ~fs[i].ref
  <2>1. fs' = Removed(fs, i)
    BY <1>4 DEF Written
  <2>2. QED
    BY <1>1, <1>2, <1>3, <2>1, PendingRemoved
<1>5. CASE fs[i].ref
  <2> DEFINE g == [fs EXCEPT ![i].out = TRUE]
  <2>1. fs' = g
    BY <1>5 DEF Written
  <2>2. /\ g \in Seq(Stores) /\ Len(g) = Len(fs) /\ g[i].out = TRUE
        /\ \A j \in 1..Len(fs) : /\ g[j].poc = fs[j].poc
                                 /\ j # i => g[j] = fs[j]
    BY <1>1, OutIs
  <2> HIDE DEF g
  <2>3. DOMAIN g = 1..Len(fs)
    BY <2>2, StoresOf
  <2>4. Waiting(g) = Waiting(fs) \ {i} /\ Waiting(fs) \subseteq 1..Len(fs)
    BY <1>1, <2>2, <2>3 DEF Waiting
  <2>5. Apart(g)
    BY <2>2, <2>4 DEF Apart
  <2>6. Pending(g) = Pending(fs) \ {fs[i].poc}
    BY <1>2, <2>2, <2>4 DEF Pending, Apart
  <2>7. QED
    BY <1>3, <2>1, <2>5, <2>6
<1>6. QED
  BY <1>4, <1>5

LEMMA PendingAppended ==
    ASSUME NEW f \in Seq(Stores), NEW e \in Stores, NEW g, g = Append(f, e), Apart(f)
    PROVE  /\ e.out => Pending(g) = Pending(f) /\ Apart(g)
           /\ ~e.out => Pending(g) = Pending(f) \cup {e.poc}
           /\ ~e.out /\ e.poc \notin Pending(f) => Apart(g)
<1>1. /\ Len(f) \in Nat /\ DOMAIN f = 1..Len(f) /\ DOMAIN g = 1..Len(f) + 1
      /\ g[Len(f) + 1] = e /\ \A i \in 1..Len(f) : g[i] = f[i]
  BY StoresOf, AppendedIs
<1>2. Waiting(f) \subseteq 1..Len(f) /\ \A i \in Waiting(f) : g[i] = f[i]
  BY <1>1 DEF Waiting
<1>3. CASE e.out
  <2>1. Waiting(g) = Waiting(f)
    BY <1>1, <1>3 DEF Waiting
  <2>2. QED
    BY <1>2, <1>3, <2>1 DEF Pending, Apart
<1>4. CASE ~e.out
  <2>1. Waiting(g) = Waiting(f) \cup {Len(f) + 1}
    BY <1>1, <1>4 DEF Waiting
  <2>2. Pending(g) = Pending(f) \cup {e.poc}
    BY <1>1, <1>2, <2>1 DEF Pending
  <2>3. ASSUME e.poc \notin Pending(f) PROVE Apart(g)
    <3>1. \A i \in Waiting(f) : f[i].poc # e.poc
      BY <2>3 DEF Pending
    <3>2. QED
      BY <1>1, <1>2, <2>1, <3>1 DEF Apart
  <2>4. QED
    BY <1>4, <2>2, <2>3
<1>5. QED
  BY <1>3, <1>4

(* A buffer without an unused frame is full of references and of frames    *)
(* that wait.                                                              *)
LEMMA NothingUnused ==
    ASSUME NEW f \in Seq(Stores), Unused(f) = {}
    PROVE  Len(f) <= Cardinality(Waiting(f)) + Cardinality(References(f))
<1>1. Len(f) \in Nat /\ DOMAIN f = 1..Len(f)
  BY StoresOf
<1>2. 1..Len(f) = Waiting(f) \cup References(f)
  BY <1>1 DEF Unused, Waiting, References
<1>3. /\ Cardinality(Waiting(f) \cup References(f)) =
            Cardinality(Waiting(f)) + Cardinality(References(f)) - Cardinality(Waiting(f) \cap References(f))
      /\ Cardinality(Waiting(f)) \in Nat /\ Cardinality(References(f)) \in Nat
      /\ Cardinality(Waiting(f) \cap References(f)) \in Nat
  <2>1. IsFiniteSet(Waiting(f)) /\ IsFiniteSet(References(f)) /\ IsFiniteSet(Waiting(f) \cap References(f))
    BY PlacesFinite, FS_Intersection
  <2>2. QED
    BY <2>1, FS_Union, FS_CardinalityType, Zenon
<1>4. Cardinality(1..Len(f)) = Len(f)
  BY <1>1, FS_Interval
<1>5. Cardinality(Waiting(f) \cup References(f)) = Len(f)
  BY <1>2, <1>4
<1> DEFINE c == Cardinality(Waiting(f) \cap References(f))
<1>6. Len(f) = Cardinality(Waiting(f)) + Cardinality(References(f)) - c /\ c \in Nat
  BY <1>3, <1>5
<1> HIDE DEF c
<1>7. QED
  BY <1>1, <1>3, <1>6


Above(p) == {d \in decoded : d > p}
FromShown == {d \in decoded : d >= shown}

ShownOK == /\ Pending(fs) \subseteq decoded
           /\ shown # None => shown \in decoded /\ Cardinality(FromShown) > Reorder

(* The picture the decoder is busy with can still be shown in order.       *)
HasPicture == phase \in {"gap", "mark", "slide", "room"} \/ (phase = "decode" /\ ~pic.idr)

PictureOK == /\ pic.poc \in decoded /\ shown < pic.poc /\ pic.poc \notin Pending(fs)
             /\ Cardinality(Above(pic.poc)) <= Reorder

OutOK ==
    /\ error = "none" /\ phase # "dead"
    /\ Apart(fs) /\ last_output_poc <= shown /\ \A p \in Pending(fs) : shown < p
    /\ phase # "flush" => ShownOK
    /\ HasPicture => PictureOK
    /\ phase = "room" /\ Full => Unused(fs) = {}

(* What a viewer sees of the decoder, and what a step may change of it.    *)
Viewed == Pending(fs) \cup (IF InHand THEN {pic.poc} ELSE {})

ViewStep ==
    \/ UNCHANGED <<Viewed, shown>>
    \/ \E p \in Pocs : shown < p /\ p \notin Viewed /\ Viewed' = Viewed \cup {p} /\ shown' = shown
    \/ \E p \in Viewed : (\A q \in Viewed : p <= q) /\ shown' = p /\ Viewed' = Viewed \ {p}
    \/ /\ Viewed = {} \/ pic.noOutput
       /\ shown' = None /\ (Viewed' = {} \/ \E p \in Pocs : Viewed' = {p})

LEMMA RemarkedPending ==
    ASSUME NEW f \in Seq(Stores), NEW g, Remarked(f, g)
    PROVE  Pending(g) = Pending(f) /\ (Apart(f) => Apart(g)) /\ Waiting(g) = Waiting(f)
  BY PendingKept DEF Remarked

(* Steps that neither decode nor write a picture.                          *)
Quiet == StartIdr \/ FillGap \/ Decode \/ FlushForIdr \/ FlushAtEnd \/ Marks \/ EndOfCommands
            \/ FlushUnused \/ SlideWindow

LEMMA QuietIs ==
    ASSUME Base, Apart(fs), Quiet
    PROVE  /\ Pending(fs') = Pending(fs) /\ Apart(fs')
           /\ UNCHANGED <<error, last_output_poc, decoded, shown>>
           /\ phase' = "room" /\ Full' => Unused(fs') = {}
           /\ phase' # "dead" /\ (phase' # "flush" => phase # "flush")
<1>1. fs \in Seq(Stores) /\ TypeOK
  BY DEF Base, TypeOK
<1>2. CASE StartIdr \/ FillGap
  BY <1>2 DEF StartIdr, FillGap, Goto, dpb, stream
<1>3. CASE Decode
  <2>1. UNCHANGED <<error, last_output_poc, decoded, shown>> /\ phase' \in {"mark", "slide"} /\ phase = "decode"
    BY <1>3 DEF Decode, Goto, stream
  <2>2. fs' = fs \/ fs' = Renumbered
    BY <1>3 DEF Decode
  <2>3. Pending(fs') = Pending(fs) /\ Apart(fs')
    BY <1>1, <2>2, RenumberedIs, PendingKept
  <2>4. QED
    BY <2>1, <2>3
<1>4. CASE FlushForIdr \/ FlushAtEnd
  <2>1. /\ UNCHANGED <<error, last_output_poc, decoded, shown>> /\ phase' = "flush"
        /\ fs' = Unmarked(DOMAIN fs)
    BY <1>4 DEF FlushForIdr, FlushAtEnd, Goto, stream
  <2>2. QED
    BY <1>1, <2>1, FlushBegins, RemarkedPending
<1>5. CASE Marks
  BY <1>1, <1>5, MarksAre, RemarkedPending DEF MarkStep
<1>6. CASE EndOfCommands
  <2>1. /\ UNCHANGED <<error, last_output_poc, decoded, shown>> /\ phase' \in {"flush", "slide"} /\ phase = "mark"
        /\ fs' = Unmarked(DOMAIN fs) \/ fs' = fs
    BY <1>6 DEF EndOfCommands, Goto, stream
  <2>2. QED
    BY <1>1, <2>1, FlushBegins, RemarkedPending
<1>7. CASE FlushUnused
  <2>1. UNCHANGED <<error, last_output_poc, decoded, shown>> /\ phase' = "flush"
    BY <1>7 DEF FlushUnused, stream
  <2>2. PICK i \in Unused(fs) : fs' = Removed(fs, i)
    BY <1>1, <1>7, FlushUnusedIs
  <2>3. i \in 1..Len(fs) /\ fs[i].out
    BY <1>1, <2>2, PlacesFinite DEF Unused
  <2>4. QED
    BY <1>1, <2>1, <2>2, <2>3, PendingRemoved
<1>8. CASE SlideWindow
  <2>1. UNCHANGED <<error, last_output_poc, decoded, shown>> /\ phase' = "room" /\ phase = "slide"
    BY <1>8 DEF SlideWindow, Goto, stream
  <2>2. Window \in Seq(Stores) /\ Pending(Window) = Pending(fs) /\ Apart(Window)
    BY <1>1, WindowIs, RemarkedPending
  <2>3. CASE fs' = Window /\ (Len(Window) # size \/ Unused(Window) = {})
    BY <2>1, <2>2, <2>3 DEF Full
  <2>4. ASSUME NEW i \in Unused(Window), fs' = Removed(Window, i), Len(fs') < size
        PROVE  Pending(fs') = Pending(fs) /\ Apart(fs') /\ ~Full'
    <3>1. i \in 1..Len(Window) /\ Window[i].out
      BY <2>2, PlacesFinite DEF Unused
    <3>2. Pending(fs') = Pending(fs) /\ Apart(fs')
      BY <2>2, <2>4, <3>1, PendingRemoved
    <3>3. Len(fs') # size
      BY <2>4, Bounds
    <3>4. QED
      BY <3>2, <3>3 DEF Full
  <2>5. QED
    BY <1>1, <1>8, <2>1, <2>3, <2>4, SlideIs
<1>9. QED
  BY <1>2, <1>3, <1>4, <1>5, <1>6, <1>7, <1>8 DEF Quiet

LEMMA OutQuiet == ASSUME Base, OutOK, Quiet PROVE OutOK' /\ ViewStep
<1>1. /\ Pending(fs') = Pending(fs) /\ Apart(fs')
      /\ UNCHANGED <<error, last_output_poc, decoded, shown>>
      /\ phase' = "room" /\ Full' => Unused(fs') = {}
      /\ phase' # "dead" /\ (phase' # "flush" => phase # "flush")
  BY QuietIs DEF OutOK
<1>2. \/ ~HasPicture' /\ ~InHand'
      \/ HasPicture /\ pic'.poc = pic.poc
  <2>1. CASE StartIdr
    BY <2>1 DEF StartIdr, Goto, HasPicture, InHand
  <2>2. CASE FillGap \/ Decode
    BY <2>2 DEF FillGap, Decode, HasPicture
  <2>3. CASE FlushForIdr \/ FlushAtEnd \/ FlushUnused
    BY <2>3 DEF FlushForIdr, FlushAtEnd, FlushUnused, Goto, HasPicture, InHand
  <2>4. CASE Marks
    BY <2>4, MarksAre DEF Base, MarkStep, SamePicture, HasPicture
  <2>5. CASE EndOfCommands
    BY <2>5 DEF EndOfCommands, Goto, HasPicture, InHand
  <2>6. CASE SlideWindow
    BY <2>6 DEF SlideWindow, HasPicture
  <2>7. QED
    BY <2>1, <2>2, <2>3, <2>4, <2>5, <2>6 DEF Quiet
<1>3. ShownOK => ShownOK'
  BY <1>1 DEF ShownOK, FromShown
<1>4. HasPicture' => PictureOK'
  BY <1>1, <1>2 DEF OutOK, PictureOK, Above, HasPicture, InHand
<1>5. OutOK'
  BY <1>1, <1>3, <1>4 DEF OutOK
<1>6. CASE InHand' <=> InHand
  <2>1. InHand' => pic'.poc = pic.poc
    BY <1>2, <1>6
  <2>2. Viewed' = Viewed
    BY <1>1, <1>6, <2>1 DEF Viewed
  <2>3. QED
    BY <1>1, <1>5, <2>2 DEF ViewStep
<1>7. CASE InHand' /\ ~InHand
  <2>1. HasPicture /\ pic'.poc = pic.poc
    BY <1>2, <1>7
  <2>2. pic.poc \in Pocs /\ shown < pic.poc /\ pic.poc \notin Viewed
    BY <1>7, <2>1, PicFields DEF OutOK, PictureOK, Viewed, Base, TypeOK
  <2>3. Viewed' = Viewed \cup {pic.poc}
    BY <1>1, <1>7, <2>1 DEF Viewed
  <2>4. QED
    BY <1>1, <1>5, <2>2, <2>3 DEF ViewStep
<1>8. CASE ~InHand' /\ InHand
  <2>1. (phase \in {"slide", "room"} /\ phase' \notin {"slide", "room"}) \/ filler' # filler
    BY <1>8 DEF InHand
  <2>2. CASE SlideWindow
    BY <2>1, <2>2 DEF SlideWindow, Goto
  <2>3. CASE ~SlideWindow
    <3>1. phase \notin {"slide", "room"}
      BY <2>3, MarksAre DEF Quiet, StartIdr, FillGap, Decode, FlushForIdr, FlushAtEnd, EndOfCommands, FlushUnused,
                            MarkStep, Base
    <3>2. QED
      BY <1>8, <3>1 DEF InHand
  <2>4. QED
    BY <2>2, <2>3
<1>9. QED
  BY <1>5, <1>6, <1>7, <1>8


LEMMA NoPending ==
    ASSUME NEW f, f = <<>>
    PROVE  Pending(f) = {} /\ Apart(f)
  BY NoStores DEF Pending, Apart

LEMMA DecodedIs ==
    ASSUME TypeOK
    PROVE  /\ IsFiniteSet(decoded) /\ decoded \subseteq Pocs /\ Pocs \subseteq Nat
           /\ shown \in Nat \cup {-1} /\ last_output_poc \in Nat \cup {-1}
<1>1. Pocs \subseteq Nat /\ IsFiniteSet(Pocs)
  BY Bounds, FS_Interval DEF Pocs
<1>2. decoded \subseteq Pocs /\ shown \in Pocs \cup {-1} /\ last_output_poc \in Pocs \cup {-1}
  BY DEF TypeOK, None
<1>3. QED
  BY <1>1, <1>2, FS_Subset

(* The next picture may come before Reorder others, but not before those   *)
(* already shown.                                                          *)
LEMMA OutStart == ASSUME Base, OutOK, StartPicture PROVE OutOK' /\ ViewStep
<1>1. PICK g \in Skips, p \in NextPocs, r \in BOOLEAN, a \in {FALSE, Adaptive}, i \in {FALSE, Intra} :
         Started(g, p, r, a, i)
  BY StartPictureIs, Zenon
<1>2. /\ phase = "idle" /\ fs' = fs /\ UNCHANGED <<last_output_poc, shown>>
      /\ pic'.poc = p /\ decoded' = decoded \cup {p}
      /\ IF Number(g) \in {pre_frame_num, (pre_frame_num + 1) % MaxFrameNum} THEN Goto("decode")
         ELSE IF Gaps = 0 THEN Stop("loss") ELSE Goto("gap")
  BY <1>1 DEF Started, StartPicture, NoPicture, dpb
<1>3. UNCHANGED error /\ phase' \in {"decode", "gap"}
  <2>1. CASE Gaps = 0
    <3>1. g = 0
      BY <2>1 DEF Skips
    <3>2. pre_frame_num \in 0..MaxFrameNum - 1 /\ MaxFrameNum \in Nat
      BY NumbersType DEF Base
    <3>3. pre_frame_num % MaxFrameNum = pre_frame_num
      BY <3>2, Modulo
    <3>4. Number(g) \in {pre_frame_num, (pre_frame_num + 1) % MaxFrameNum}
      BY <3>1, <3>2, <3>3 DEF Number
    <3>5. QED
      BY <1>2, <3>4 DEF Goto
  <2>2. CASE Gaps # 0
    BY <1>2, <2>2 DEF Goto
  <2>3. QED
    BY <2>1, <2>2
<1>4. /\ p \in Pocs \ decoded /\ Cardinality({d \in decoded : d > p}) <= Reorder
      /\ IsFiniteSet(decoded) /\ decoded \subseteq Nat /\ p \in Nat /\ shown \in Nat \cup {-1}
  BY DecodedIs DEF NextPocs, Base
<1>5. ShownOK /\ Apart(fs) /\ \A q \in Pending(fs) : shown < q
  BY <1>2 DEF OutOK
<1>6. shown < p
  <2> SUFFICES ASSUME shown # None, ~(shown < p) PROVE FALSE
    BY <1>4 DEF None
  <2>1. shown \in decoded /\ shown # p /\ p < shown
    BY <1>4, <1>5 DEF ShownOK, None
  <2>2. FromShown \subseteq {d \in decoded : d > p}
    <3>1. shown \in Nat /\ \A d \in decoded : d \in Nat
      BY <1>4, <2>1
    <3>2. \A d \in decoded : d >= shown => d > p
      BY <1>4, <2>1, <3>1
    <3>3. QED
      BY <3>2 DEF FromShown
  <2>3. IsFiniteSet({d \in decoded : d > p})
    BY <1>4, FS_Subset
  <2>4. Cardinality(FromShown) <= Cardinality({d \in decoded : d > p}) /\ Cardinality(FromShown) \in Nat
        /\ Cardinality({d \in decoded : d > p}) \in Nat
    BY <2>2, <2>3, FS_Subset, FS_CardinalityType
  <2>5. QED
    BY <1>4, <1>5, <2>4, Bounds DEF ShownOK
<1>7. ShownOK'
  <2>1. FromShown \subseteq FromShown' /\ IsFiniteSet(FromShown')
    <3>1. IsFiniteSet(decoded \cup {p})
      BY <1>4, FS_AddElement
    <3>2. FromShown' = {d \in decoded \cup {p} : d >= shown}
      BY <1>2 DEF FromShown
    <3>3. QED
      BY <3>1, <3>2, FS_Subset DEF FromShown
  <2>2. Cardinality(FromShown) <= Cardinality(FromShown') /\ Cardinality(FromShown) \in Nat
        /\ Cardinality(FromShown') \in Nat
    BY <2>1, FS_Subset, FS_CardinalityType
  <2>3. shown # None => Cardinality(FromShown') > Reorder
    BY <1>5, <2>2, Bounds DEF ShownOK
  <2>4. QED
    BY <1>2, <1>5, <2>3 DEF ShownOK
<1>8. PictureOK'
  <2>1. {d \in decoded \cup {p} : d > p} = {d \in decoded : d > p}
    BY <1>4
  <2>2. Above(p)' = {d \in decoded : d > p}
    BY <1>2, <2>1 DEF Above
  <2>3. p \notin Pending(fs)
    BY <1>4, <1>5 DEF ShownOK
  <2>4. Cardinality(Above(pic.poc)') <= Reorder
    BY <1>2, <1>4, <2>1 DEF Above
  <2>5. QED
    BY <1>2, <1>6, <2>3, <2>4 DEF PictureOK
<1>9. OutOK'
  BY <1>2, <1>3, <1>5, <1>7, <1>8 DEF OutOK
<1>10. Viewed' = Viewed
  BY <1>2, <1>3 DEF Viewed, InHand
<1>11. QED
  BY <1>2, <1>9, <1>10 DEF ViewStep

(* A sequence ends: the buffer is empty.                                   *)
LEMMA OutRestart ==
    ASSUME Base, OutOK, DiscardPictures \/ FlushEnd
    PROVE  OutOK' /\ ViewStep
<1>1. /\ fs' = <<>> /\ last_output_poc' = None /\ shown' = None /\ UNCHANGED <<pic, error>> /\ filler' = None
      /\ \/ decoded' = {pic.poc} /\ phase' = "slide"
         \/ decoded' = {} /\ phase' = "start"
      /\ (DiscardPictures /\ pic.noOutput) \/ (fs = <<>> /\ phase = "flush")
  BY DEF DiscardPictures, FlushEnd, Goto, Base, PhaseOK
<1>2. Pending(fs') = {} /\ Apart(fs')
  BY <1>1, NoPending
<1>3. pic.poc \in Pocs /\ pic.poc \in Nat
  BY PicFields, DecodedIs DEF Base, TypeOK
<1>4. ShownOK'
  BY <1>1, <1>2 DEF ShownOK
<1>5. phase' = "slide" => PictureOK'
  <2> SUFFICES ASSUME phase' = "slide" PROVE PictureOK'
    OBVIOUS
  <2>1. decoded' = {pic.poc} /\ pic' = pic
    BY <1>1
  <2>2. {d \in {pic.poc} : d > pic.poc} = {} /\ Cardinality({}) = 0
    BY <1>3, FS_EmptySet
  <2>3. Cardinality(Above(pic.poc)') <= Reorder
    BY <2>1, <2>2, Bounds DEF Above
  <2>4. QED
    BY <1>1, <1>2, <1>3, <2>1, <2>3 DEF PictureOK, None
<1>6. OutOK'
  BY <1>1, <1>2, <1>4, <1>5 DEF OutOK, HasPicture, None
<1>7. Viewed' = {} \/ Viewed' = {pic.poc}
  BY <1>1, <1>2 DEF Viewed
<1>8. Viewed = {} \/ pic.noOutput
  BY <1>1, NoPending DEF Viewed, InHand
<1>9. QED
  BY <1>1, <1>3, <1>6, <1>7, <1>8 DEF ViewStep

LEMMA OutActivate ==
    ASSUME Base, OutOK, activate_sps
    PROVE  OutOK' /\ (~SpsAfterDiscard => ViewStep)
<1>1. /\ phase = "idle" /\ UNCHANGED error
      /\ \/ /\ fs' = <<>> /\ last_output_poc' = None /\ decoded' = {} /\ shown' = None /\ phase' = "start"
            /\ SpsAfterDiscard
         \/ fs' = Unmarked(DOMAIN fs) /\ UNCHANGED <<last_output_poc, decoded, shown>> /\ phase' = "flush"
  BY DEF activate_sps, Goto, stream
<1>2. CASE /\ fs' = <<>> /\ last_output_poc' = None /\ decoded' = {} /\ shown' = None /\ phase' = "start"
           /\ SpsAfterDiscard
  <2>1. Pending(fs') = {} /\ Apart(fs')
    BY <1>2, NoPending
  <2>2. QED
    BY <1>1, <1>2, <2>1 DEF OutOK, ShownOK, HasPicture, None
<1>3. CASE fs' = Unmarked(DOMAIN fs) /\ UNCHANGED <<last_output_poc, decoded, shown>> /\ phase' = "flush"
  <2>1. Pending(fs') = Pending(fs) /\ Apart(fs')
    BY <1>3, FlushBegins, RemarkedPending DEF Base, TypeOK, OutOK
  <2>2. Viewed' = Viewed
    BY <1>1, <1>3, <2>1 DEF Viewed, InHand
  <2>3. QED
    BY <1>1, <1>3, <2>1, <2>2 DEF OutOK, HasPicture, ViewStep
<1>4. QED
  BY <1>1, <1>2, <1>3


(* A full buffer in front of a picture that does not go first holds enough *)
(* frames that wait to be sure of the order of the first.                  *)
LEMMA EnoughWait ==
    ASSUME num_ref_frames + Reorder <= size, Base, RefsOK, OutOK, phase = "room", Full
    PROVE  /\ Cardinality(Pending(fs)) \in Nat /\ Cardinality(Pending(fs)) >= Reorder
           /\ Current.ref => Cardinality(Pending(fs)) > Reorder
<1>1. fs \in Seq(Stores) /\ Unused(fs) = {} /\ Apart(fs)
  BY DEF Base, TypeOK, OutOK
<1>2. /\ Cardinality(Waiting(fs)) \in Nat /\ Cardinality(References(fs)) \in Nat
      /\ Cardinality(Pending(fs)) = Cardinality(Waiting(fs))
  BY <1>1, PlacesFinite, PendingIs
<1>3. size <= Cardinality(Waiting(fs)) + Cardinality(References(fs))
  BY <1>1, NothingUnused DEF Full
<1>4. /\ Cardinality(References(fs)) <= num_ref_frames
      /\ Current.ref => Cardinality(References(fs)) < num_ref_frames
  BY DEF RefsOK, RoomForOne
<1>5. QED
  BY <1>2, <1>3, <1>4, Bounds

LEMMA SomeWait ==
    ASSUME Base, RefsOK, OutOK, FlushOutput \/ MakeRoom
    PROVE  Waiting(fs) # {}
<1>1. fs \in Seq(Stores) /\ DOMAIN fs = 1..Len(fs) /\ Len(fs) \in Nat
  BY FsIs DEF Base
<1>2. SUFFICES ASSUME Waiting(fs) = {} PROVE FALSE
  OBVIOUS
<1>3. Unused(fs) = {}
  BY DEF FlushOutput, MakeRoom, OutOK
<1>4. Len(fs) <= Cardinality(References(fs))
  <2>1. Len(fs) <= Cardinality({}) + Cardinality(References(fs)) /\ Cardinality(References(fs)) \in Nat
    BY <1>1, <1>2, <1>3, NothingUnused, PlacesFinite
  <2>2. QED
    BY <1>1, <2>1, FS_EmptySet
<1>5. CASE FlushOutput
  <2>1. References(fs) = {} /\ fs # <<>>
    BY <1>5 DEF FlushOutput, RefsOK
  <2>2. Len(fs) = 0
    BY <1>1, <1>4, <2>1, FS_EmptySet
  <2>3. QED
    BY <1>1, <2>1, <2>2, EmptySeq
<1>6. CASE MakeRoom
  <2>1. phase = "room" /\ Len(fs) = size /\ Current.ref
    BY <1>2, <1>6 DEF MakeRoom, Full, GoesFirst
  <2>2. Cardinality(References(fs)) < num_ref_frames /\ Cardinality(References(fs)) \in Nat
    BY <1>1, <2>1, PlacesFinite DEF RefsOK, RoomForOne
  <2>3. QED
    BY <1>4, <2>1, <2>2, Bounds
<1>7. QED
  BY <1>5, <1>6

LEMMA OutputWrites ==
    ASSUME Base, RefsOK, OutOK, FlushOutput \/ MakeRoom
    PROVE  /\ \E i \in 1..Len(fs) : Written(i)
           /\ UNCHANGED <<pic, filler, decoded>>
<1>1. OutputOne /\ UNCHANGED <<pic, filler, decoded>>
  BY DEF FlushOutput, MakeRoom
<1>2. ASSUME NEW i \in 1..Len(fs), OutOfOrder(i) PROVE FALSE
  <2>1. fs[i].poc \in Pending(fs) /\ last_output_poc >= fs[i].poc
    BY <1>2 DEF OutOfOrder, Pending
  <2>2. fs[i].poc \in Nat /\ last_output_poc <= shown /\ shown < fs[i].poc
        /\ shown \in Int /\ last_output_poc \in Int
    BY <2>1, FsIs, DecodedIs DEF Base, OutOK
  <2>3. QED
    BY <2>1, <2>2
<1>3. QED
  BY <1>1, <1>2, SomeWait, OutputOneIs DEF Base

(* The frame that is written comes before the picture in hand.             *)
LEMMA RoomKeepsOrder ==
    ASSUME num_ref_frames + Reorder <= size, Base, RefsOK, OutOK, MakeRoom,
           NEW b \in Pending(fs), \A p \in Pending(fs) : b <= p
    PROVE  b < pic.poc /\ Cardinality({d \in decoded : d >= b}) > Reorder
<1>1. phase = "room" /\ Full /\ ~GoesFirst /\ PictureOK /\ Pending(fs) \subseteq decoded
  BY DEF MakeRoom, OutOK, HasPicture, ShownOK
<1>2. /\ Cardinality(Pending(fs)) \in Nat /\ Cardinality(Pending(fs)) >= Reorder
      /\ Current.ref => Cardinality(Pending(fs)) > Reorder
  BY <1>1, EnoughWait
<1>3. /\ IsFiniteSet(decoded) /\ decoded \subseteq Nat /\ b \in Nat /\ pic.poc \in decoded /\ pic.poc \in Nat
      /\ pic.poc # b /\ pic.poc \notin Pending(fs) /\ Reorder \in Nat
  BY <1>1, DecodedIs, Bounds DEF Base, PictureOK
<1> DEFINE A == {d \in decoded : d >= b}
<1>4. IsFiniteSet(A) /\ Cardinality(A) \in Nat /\ Pending(fs) \subseteq A
  BY <1>1, <1>3, FS_Subset, FS_CardinalityType
<1>5. CASE Current.ref
  <2>1. b < pic.poc
    <3> SUFFICES ASSUME ~(b < pic.poc) PROVE FALSE
      OBVIOUS
    <3>1. Pending(fs) \subseteq Above(pic.poc)
      <4>1. \A p \in Pending(fs) : p \in decoded /\ p \in Nat /\ b <= p
        BY <1>1, <1>3
      <4>2. \A p \in Pending(fs) : p > pic.poc
        BY <1>3, <4>1
      <4>3. QED
        BY <4>1, <4>2 DEF Above
    <3>2. Cardinality(Pending(fs)) <= Cardinality(Above(pic.poc)) /\ Cardinality(Above(pic.poc)) \in Nat
      <4>1. IsFiniteSet(Above(pic.poc))
        BY <1>3, FS_Subset DEF Above
      <4>2. QED
        BY <3>1, <4>1, FS_Subset, FS_CardinalityType
    <3>3. QED
      BY <1>1, <1>2, <1>3, <1>5, <3>2 DEF PictureOK
  <2>2. Cardinality(Pending(fs)) <= Cardinality(A)
    BY <1>4, FS_Subset
  <2>3. QED
    BY <1>2, <1>3, <1>4, <1>5, <2>1, <2>2
<1>6. CASE ~Current.ref
  <2>1. PICK j \in Waiting(fs) : ~(Current.poc < fs[j].poc)
    BY <1>1, <1>6 DEF GoesFirst
  <2>2. Current.poc = pic.poc
    BY <1>6, CurrentIs DEF Base
  <2>3. fs[j].poc \in Pending(fs) /\ fs[j].poc \in Nat
    BY <1>1, <1>3 DEF Pending
  <2>4. b < pic.poc
    BY <1>3, <2>1, <2>2, <2>3
  <2>5. Pending(fs) \cup {pic.poc} \subseteq A
    BY <1>3, <1>4, <2>4
  <2>6. Cardinality(Pending(fs) \cup {pic.poc}) = Cardinality(Pending(fs)) + 1
    BY <1>3, <1>4, FS_Subset, FS_AddElement
  <2>7. Cardinality(Pending(fs) \cup {pic.poc}) <= Cardinality(A)
    BY <1>4, <2>5, FS_Subset
  <2>8. QED
    BY <1>2, <1>3, <1>4, <2>4, <2>6, <2>7
<1>7. QED
  BY <1>5, <1>6


(* Writing a frame leaves a later one to be written.                       *)
LEMMA OutOutput ==
    ASSUME num_ref_frames + Reorder <= size, Base, RefsOK, OutOK, FlushOutput \/ MakeRoom
    PROVE  OutOK' /\ ViewStep
<1>1. PICK i \in 1..Len(fs) : Written(i)
  BY OutputWrites
<1>2. /\ UNCHANGED <<pic, filler, decoded, error, phase>> /\ shown' = fs[i].poc /\ last_output_poc' = fs[i].poc
      /\ fs' = IF fs[i].ref THEN [fs EXCEPT ![i].out = TRUE] ELSE Removed(fs, i)
  BY <1>1, OutputWrites DEF Written
<1> DEFINE b == fs[i].poc
<1>3. /\ Pending(fs') = Pending(fs) \ {b} /\ Apart(fs')
      /\ b \in Pending(fs) /\ \A p \in Pending(fs) : b <= p
  BY <1>1, PendingWritten DEF Base, OutOK
<1>4. fs \in Seq(Stores) /\ Pending(fs) \subseteq Nat /\ b \in Nat
  <2>1. fs \in Seq(Stores)
    BY DEF Base, TypeOK
  <2>2. QED
    BY <1>3, <2>1, PendingIs, DecodedIs DEF Base
<1> HIDE DEF b
<1>5. \A p \in Pending(fs') : b < p
  BY <1>3, <1>4
<1>6. phase' # "room" \/ (Full' => Unused(fs') = {})
  <2> SUFFICES ASSUME phase = "room", Full' PROVE Unused(fs') = {}
    BY <1>2
  <2>1. Len(fs) = size /\ Unused(fs) = {} /\ Len(fs') = size
    BY DEF MakeRoom, FlushOutput, Full, OutOK
  <2>2. CASE ~fs[i].ref
    BY <1>2, <1>4, <2>1, <2>2, RemovedIs, Bounds
  <2>3. CASE fs[i].ref
    <3> DEFINE g == [fs EXCEPT ![i].out = TRUE]
    <3>1. /\ g \in Seq(Stores) /\ Len(g) = Len(fs)
          /\ \A j \in 1..Len(fs) : /\ g[j].poc = fs[j].poc /\ g[j].ref = fs[j].ref
                                   /\ j # i => g[j] = fs[j]
      BY <1>4, OutIs
    <3>2. fs' = g
      BY <1>2, <2>3
    <3> HIDE DEF g
    <3>3. DOMAIN g = 1..Len(fs) /\ DOMAIN fs = 1..Len(fs)
      BY <1>4, <3>1, StoresOf
    <3>4. Unused(g) = {}
      BY <2>1, <2>3, <3>1, <3>3 DEF Unused
    <3>5. QED
      BY <3>2, <3>4
  <2>4. QED
    BY <2>2, <2>3
<1>7. ASSUME MakeRoom PROVE ShownOK' /\ PictureOK' /\ b < pic.poc
  <2>1. b < pic.poc /\ Cardinality({d \in decoded : d >= b}) > Reorder
    BY <1>3, <1>7, RoomKeepsOrder
  <2>2. ShownOK /\ PictureOK
    BY <1>7 DEF MakeRoom, OutOK, HasPicture
  <2>3. ShownOK'
    BY <1>2, <1>3, <2>1, <2>2 DEF ShownOK, FromShown, b
  <2>4. PictureOK'
    BY <1>2, <1>3, <2>1, <2>2 DEF PictureOK, Above, b
  <2>5. QED
    BY <2>1, <2>3, <2>4
<1>8. FlushOutput => phase = "flush"
  BY DEF FlushOutput
<1>9. OutOK'
  <2>1. last_output_poc' <= shown'
    BY <1>2, <1>4 DEF b
  <2>2. \A p \in Pending(fs') : shown' < p
    BY <1>2, <1>5 DEF b
  <2>3. phase' # "flush" => ShownOK'
    BY <1>2, <1>7, <1>8
  <2>4. HasPicture' => PictureOK'
    BY <1>2, <1>7, <1>8 DEF HasPicture
  <2>5. QED
    BY <1>2, <1>3, <1>6, <2>1, <2>2, <2>3, <2>4 DEF OutOK
<1>10. InHand => pic.poc \notin Pending(fs) /\ b < pic.poc /\ b <= pic.poc
  <2> SUFFICES ASSUME InHand PROVE pic.poc \notin Pending(fs) /\ b < pic.poc /\ b <= pic.poc
    OBVIOUS
  <2>1. MakeRoom
    BY <1>8 DEF InHand
  <2>2. pic.poc \notin Pending(fs) /\ pic.poc \in Nat
    BY <2>1, PicFields, DecodedIs DEF MakeRoom, OutOK, HasPicture, PictureOK, Base, TypeOK
  <2>3. QED
    BY <1>4, <1>7, <2>1, <2>2
<1>11. InHand' = InHand
  BY <1>2 DEF InHand
<1>12. b \in Viewed /\ \A p \in Viewed : b <= p
  BY <1>3, <1>10 DEF Viewed
<1>13. Viewed' = Viewed \ {b}
  <2>1. InHand => pic.poc # b
    BY <1>3, <1>10
  <2>2. QED
    BY <1>2, <1>3, <1>11, <2>1 DEF Viewed
<1>14. ViewStep
  BY <1>2, <1>12, <1>13 DEF ViewStep, b
<1>15. QED
  BY <1>9, <1>14

(* A picture that goes first is shown at once.                             *)
LEMMA OutDirect ==
    ASSUME num_ref_frames + Reorder <= size, Base, RefsOK, OutOK, direct_output
    PROVE  OutOK' /\ ViewStep
<1>1. /\ phase = "room" /\ Full /\ GoesFirst /\ shown' = Current.poc /\ Stored
      /\ UNCHANGED <<fs, last_output_poc, pic, filler, error, decoded>>
  BY DEF direct_output, dpb
<1>2. filler = None /\ Current.poc = pic.poc /\ phase' = "idle"
  BY <1>1, CurrentIs, StoredIs DEF GoesFirst, Base
<1>3. /\ PictureOK /\ ShownOK /\ Apart(fs) /\ last_output_poc <= shown /\ error = "none"
  BY <1>1 DEF OutOK, HasPicture
<1>4. \A p \in Pending(fs) : pic.poc < p
  BY <1>1, <1>2 DEF GoesFirst, Pending
<1>5. /\ pic.poc \in Nat /\ shown \in Int /\ last_output_poc \in Int /\ pic.poc \in decoded /\ shown < pic.poc
      /\ pic.poc \notin Pending(fs) /\ Pending(fs) \subseteq Nat /\ Pending(fs) \subseteq decoded
      /\ IsFiniteSet(decoded)
  BY <1>3, DecodedIs DEF Base, PictureOK, ShownOK
<1> DEFINE A == {d \in decoded : d >= pic.poc}
<1>6. Cardinality(A) > Reorder
  <2>1. Cardinality(Pending(fs)) \in Nat /\ Cardinality(Pending(fs)) >= Reorder
    BY <1>1, EnoughWait
  <2>2. Pending(fs) \cup {pic.poc} \subseteq A /\ IsFiniteSet(A)
    BY <1>4, <1>5, FS_Subset
  <2>3. Cardinality(Pending(fs) \cup {pic.poc}) = Cardinality(Pending(fs)) + 1
    BY <1>5, FS_Subset, FS_AddElement
  <2>4. Cardinality(Pending(fs) \cup {pic.poc}) <= Cardinality(A) /\ Cardinality(A) \in Nat
    BY <2>2, FS_Subset, FS_CardinalityType
  <2>5. QED
    BY <2>1, <2>3, <2>4, Bounds
<1>7. ShownOK'
  BY <1>1, <1>2, <1>5, <1>6 DEF ShownOK, FromShown
<1>8. last_output_poc' <= shown'
  BY <1>1, <1>2, <1>3, <1>5
<1>9. OutOK'
  BY <1>1, <1>2, <1>3, <1>4, <1>7, <1>8 DEF OutOK, HasPicture
<1>10. Viewed = Pending(fs) \cup {pic.poc} /\ Viewed' = Pending(fs)
  BY <1>1, <1>2 DEF Viewed, InHand
<1>11. \A p \in Viewed : pic.poc <= p
  BY <1>4, <1>5, <1>10
<1>12. ViewStep
  BY <1>1, <1>2, <1>5, <1>10, <1>11 DEF ViewStep
<1>13. QED
  BY <1>9, <1>12

(* No reference has the number of the frame that is stored.                *)
LEMMA OutInsert ==
    ASSUME Base, OrderOK, OutOK, insert_picture_in_dpb
    PROVE  OutOK' /\ ViewStep
<1>1. /\ phase = "room" /\ UNCHANGED <<last_output_poc, pic, filler, decoded, shown>>
      /\ fs \in Seq(Stores) /\ Current \in Stores
  BY CurrentIs DEF insert_picture_in_dpb, stream, Base, TypeOK
<1>2. ASSUME NEW i \in Short(fs), fs[i].frame_num = Current.frame_num PROVE FALSE
  <2> DEFINE n == Current.frame_num
  <2>1. n \in Numbers /\ Pred(n) \in Numbers /\ Succ(Pred(n)) = n
    BY <1>1, AgesAre DEF Stores
  <2>2. Last = Pred(n)
    BY <1>1, CurrentIs DEF Last, Base
  <2>3. Age(Last, n) = MaxFrameNum - 1
    BY <2>1, <2>2, AgesAre
  <2>4. Age(Last, n) + 0 < MaxFrameNum - 1
    BY <1>1, <1>2 DEF OrderOK, AgesOK, Numbered, Within
  <2>5. QED
    BY <2>3, <2>4, Bounds
<1>3. fs' = Append(fs, Current) /\ Stored /\ UNCHANGED error
  BY <1>2 DEF insert_picture_in_dpb
<1>4. PictureOK /\ ShownOK /\ Apart(fs) /\ error = "none"
  BY <1>1 DEF OutOK, HasPicture
<1>5. CASE filler # None
  <2>1. Current.out = TRUE /\ phase' = "gap"
    BY <1>3, <1>5, CurrentIs, StoredIs DEF Base
  <2>2. Pending(fs') = Pending(fs) /\ Apart(fs')
    BY <1>1, <1>3, <1>4, <2>1, PendingAppended
  <2>3. ShownOK' /\ PictureOK'
    BY <1>1, <1>4, <2>2 DEF ShownOK, PictureOK, FromShown, Above
  <2>4. OutOK'
    BY <1>1, <1>3, <2>1, <2>2, <2>3 DEF OutOK
  <2>5. Viewed' = Viewed
    BY <1>1, <1>5, <2>2 DEF Viewed, InHand
  <2>6. QED
    BY <1>1, <2>4, <2>5 DEF ViewStep
<1>6. CASE filler = None
  <2>1. ~Current.out /\ Current.poc = pic.poc /\ phase' = "idle"
    BY <1>3, <1>6, CurrentIs, StoredIs DEF Base
  <2>2. Pending(fs') = Pending(fs) \cup {pic.poc} /\ Apart(fs')
    <3>1. Current.poc \notin Pending(fs)
      BY <1>4, <2>1 DEF PictureOK
    <3>2. Pending(fs') = Pending(fs) \cup {Current.poc} /\ Apart(fs')
      BY <1>1, <1>3, <1>4, <2>1, <3>1, PendingAppended, ZenonT(60)
    <3>3. QED
      BY <2>1, <3>2
  <2>3. ShownOK' /\ \A p \in Pending(fs') : shown' < p
    BY <1>1, <1>4, <2>2 DEF ShownOK, PictureOK, FromShown, OutOK
  <2>4. OutOK'
    BY <1>1, <1>3, <2>1, <2>2, <2>3 DEF OutOK, HasPicture
  <2>5. Viewed' = Viewed
    BY <1>1, <1>6, <2>1, <2>2 DEF Viewed, InHand
  <2>6. QED
    BY <1>1, <2>4, <2>5 DEF ViewStep
<1>7. QED
  BY <1>5, <1>6

LEMMA OutStep ==
    ASSUME num_ref_frames + Reorder <= size
    PROVE  /\ Base /\ RefsOK /\ OrderOK /\ OutOK /\ [Next]_vars => OutOK'
           /\ Base /\ RefsOK /\ OrderOK /\ OutOK /\ [Next]_vars /\ ~SpsAfterDiscard => ViewStep
<1> SUFFICES ASSUME Base, RefsOK, OrderOK, OutOK, [Next]_vars
             PROVE  OutOK' /\ (~SpsAfterDiscard => ViewStep)
  OBVIOUS
<1>1. CASE Quiet
  BY <1>1, OutQuiet
<1>2. CASE StartPicture
  BY <1>2, OutStart
<1>3. CASE DiscardPictures \/ FlushEnd
  BY <1>3, OutRestart
<1>4. CASE activate_sps
  BY <1>4, OutActivate
<1>5. CASE FlushOutput \/ MakeRoom
  BY <1>5, OutOutput
<1>6. CASE direct_output
  BY <1>6, OutDirect
<1>7. CASE insert_picture_in_dpb
  BY <1>7, OutInsert
<1>8. CASE UNCHANGED vars
  <2>1. UNCHANGED <<fs, last_output_poc, pic, filler, phase, error, decoded, shown>>
    BY <1>8 DEF vars, dpb, stream
  <2>2. Viewed' = Viewed
    BY <2>1 DEF Viewed, InHand
  <2>3. OutOK'
    BY <2>1 DEF OutOK, ShownOK, PictureOK, HasPicture, FromShown, Above, Full
  <2>4. QED
    BY <2>1, <2>2, <2>3 DEF ViewStep
<1>9. QED
  BY <1>1, <1>2, <1>3, <1>4, <1>5, <1>6, <1>7, <1>8 DEF Next, Stream, Marking, Marks, Decoder, Quiet

LEMMA OutStarts == Init => OutOK /\ Viewed = {}
<1> SUFFICES ASSUME Init PROVE OutOK /\ Viewed = {}
  OBVIOUS
<1>1. /\ fs = <<>> /\ phase = "start" /\ error = "none" /\ last_output_poc = -1 /\ shown = -1
  BY DEF Init, None
<1>2. Pending(fs) = {} /\ Apart(fs)
  BY <1>1, NoPending
<1>3. QED
  BY <1>1, <1>2 DEF OutOK, ShownOK, HasPicture, Viewed, InHand, None

LEMMA OutHolds ==
    ASSUME ~GapAfterNonRef, num_ref_frames + Reorder <= size
    PROVE  Spec => []OutOK
<1>1. Init => OutOK
  BY OutStarts
<1>2. Base /\ RefsOK /\ OrderOK /\ OutOK /\ [Next]_vars => OutOK'
  BY OutStep
<1>3. Spec => []OrderOK
  BY OrderHolds
<1>4. QED
  BY <1>1, <1>2, <1>3, BaseHolds, RefsHolds, PTL DEF Spec

(* A legal stream never makes the decoder call error(): for the frame      *)
(* number of a reference it has already, for a buffer in which nothing can *)
(* be output, for an order count that is not above the last one written.   *)
(* The buffer must hold the references and as many pictures besides as the *)
(* stream reorders, and no number is skipped after a picture that is no    *)
(* reference.                                                              *)
THEOREM LegalStreamsDecode ==
    ASSUME ~GapAfterNonRef, num_ref_frames + Reorder <= size
    PROVE  Spec => []NoError
<1>1. OutOK => NoError
  BY DEF OutOK, NoError
<1>2. Spec => []OutOK
  BY OutHolds
<1>3. QED
  BY <1>1, <1>2, PTL

(* The decoder implements PictureOrder: every picture of such a stream is  *)
(* written once, in ascending order of the order counts, all of a sequence *)
(* before the next, unless the next one begins with an IDR picture that    *)
(* lets them be dropped.  A parameter set that comes after an IDR picture  *)
(* with that flag must be left out.                                        *)
THEOREM ShowsInOrder ==
    ASSUME ~GapAfterNonRef, num_ref_frames + Reorder <= size, ~SpsAfterDiscard
    PROVE  Spec => ImplementsOrder
<1> DEFINE pending == {fs[i].poc : i \in Waiting(fs)} \cup (IF InHand THEN {pic.poc} ELSE {})
<1>1. pending = Viewed
  BY DEF Viewed, Pending
<1>2. Init => Order!Init
  <2>1. Init => shown = -1 /\ pic.noOutput = FALSE
    BY DEF Init, NoPicture, None
  <2>2. QED
    BY <1>1, <2>1, OutStarts DEF Order!Init
<1>3. Base /\ Base' /\ RefsOK /\ OrderOK /\ OutOK /\ [Next]_vars => [Order!Next]_Order!vars
  <2> SUFFICES ASSUME Base, Base', RefsOK, OrderOK, OutOK, [Next]_vars PROVE Order!Next
    OBVIOUS
  <2>1. ViewStep
    BY OutStep
  <2>2. pic'.noOutput \in BOOLEAN
    BY DEF Base, TypeOK, Pictures
  <2>3. pending' = Viewed'
    BY DEF Viewed, Pending
  <2> HIDE DEF pending
  <2>4. CASE UNCHANGED <<Viewed, shown>>
    BY <1>1, <2>2, <2>3, <2>4 DEF Order!Next, pending
  <2>5. CASE \E p \in Pocs : shown < p /\ p \notin Viewed /\ Viewed' = Viewed \cup {p} /\ shown' = shown
    BY <1>1, <2>2, <2>3, <2>5 DEF Order!Next, Order!Arrive, pending
  <2>6. CASE \E p \in Viewed : (\A q \in Viewed : p <= q) /\ shown' = p /\ Viewed' = Viewed \ {p}
    BY <1>1, <2>2, <2>3, <2>6 DEF Order!Next, Order!Show, pending
  <2>7. CASE /\ Viewed = {} \/ pic.noOutput
             /\ shown' = None /\ (Viewed' = {} \/ \E p \in Pocs : Viewed' = {p})
    BY <1>1, <2>2, <2>3, <2>7 DEF Order!Next, Order!Restart, pending, None
  <2>8. QED
    BY <2>1, <2>4, <2>5, <2>6, <2>7 DEF ViewStep
<1>4. Spec => []OrderOK /\ []OutOK
  BY OrderHolds, OutHolds
<1>5. QED
  BY <1>2, <1>3, <1>4, BaseHolds, RefsHolds, PTL DEF Spec, ImplementsOrder, Order!Spec
=============================================================================
