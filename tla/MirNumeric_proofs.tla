------------------------- MODULE MirNumeric_proofs -------------------------
(***************************************************************************)
(* Proofs about the numerical domain of mirchecker, for any paths, any     *)
(* operations and any values to start from that are numbered or proper:    *)
(* it numbers its paths soundly, its bounds stay integers, and what it     *)
(* says of one path does not depend on the numbers of the others.          *)
(***************************************************************************)
EXTENDS MirNumeric, ApronBox_proofs

-----------------------------------------------------------------------------
(***************************************************************************)
(* Places in an order.                                                     *)
(***************************************************************************)
LEMMA PositionsDiffer ==
  /\ \A v \in Paths : Position(v) \in Int
  /\ \A u, v \in Paths : Position(u) = Position(v) => u = v
<1>1. \A v \in Paths : Position(v) \in DOMAIN KeyOrder /\ KeyOrder[Position(v)] = v
  BY DEF Paths, ToSet, Position
<1> QED BY <1>1, MirNumericAssumption

(* Sorted keys have each key at its place.                                 *)
LEMMA KeysHavePlaces ==
  ASSUME NEW keys \in SUBSET Paths, IsFiniteSet(keys)
  PROVE  /\ Cardinality(keys) \in Nat
         /\ \A v \in keys : PlaceAmong(v, keys) \in 0 .. Cardinality(keys) - 1
         /\ \A u, v \in keys : PlaceAmong(u, keys) = PlaceAmong(v, keys) => u = v
         /\ \A k \in 0 .. Cardinality(keys) - 1 : \E v \in keys : PlaceAmong(v, keys) = k
<1> DEFINE f == [v \in keys |-> Position(v)]
<1>1. \A v \in keys : PlaceAmong(v, keys) = Cardinality(Below(v, keys, f))
  BY DEF PlaceAmong, Below
<1>2. (\A v \in keys : f[v] \in Int) /\ \A u, v \in keys : f[u] = f[v] => u = v
  BY PositionsDiffer
<1> HIDE DEF f
<1>3. /\ Cardinality(keys) \in Nat
      /\ \A v \in keys : Cardinality(Below(v, keys, f)) \in 0 .. Cardinality(keys) - 1
      /\ \A u, v \in keys : Cardinality(Below(u, keys, f)) = Cardinality(Below(v, keys, f)) => u = v
      /\ \A k \in 0 .. Cardinality(keys) - 1 : \E v \in keys : Cardinality(Below(v, keys, f)) = k
  BY <1>2, PlacesAreOneToOne
<1> QED BY <1>1, <1>3

LEMMA PathsAreFinite == IsFiniteSet(Paths)
<1> DEFINE n == Len(KeyOrder)
           f == [i \in 1 .. n |-> KeyOrder[i]]
<1>1. n \in Nat /\ DOMAIN KeyOrder = 1 .. n
  BY MirNumericAssumption
<1>2. f \in Surjection(1 .. n, Paths)
  BY <1>1 DEF Surjection, Paths, ToSet
<1> QED BY <1>1, <1>2, FS_Surjection, FS_Interval

-----------------------------------------------------------------------------
(***************************************************************************)
(* Numberings.                                                             *)
(***************************************************************************)
(* vm gives the members of D the numbers below their count, one to one.    *)
Numbers(vm, D) ==
  /\ DOMAIN vm = D /\ D \subseteq Paths /\ IsFiniteSet(D) /\ Cardinality(D) \in Nat
  /\ \A v \in D : vm[v] \in 0 .. Cardinality(D) - 1
  /\ \A u, v \in D : vm[u] = vm[v] => u = v
  /\ \A k \in 0 .. Cardinality(D) - 1 : \E v \in D : vm[v] = k

(* A value that is numbered, with paths that have a place in the order.    *)
Good(a) == IsNumbered(a) /\ DOMAIN a.var_map \subseteq Paths

LEMMA GoodIsNumbering ==
  ASSUME NEW a, Good(a)
  PROVE  /\ Numbers(a.var_map, DOMAIN a.var_map)
         /\ a.box.int = Cardinality(DOMAIN a.var_map) /\ a.box.real = 0
         /\ Dims(a.box) = 0 .. Cardinality(DOMAIN a.var_map) - 1
         /\ DOMAIN a.box.p = IF a.box.null THEN {} ELSE 0 .. Cardinality(DOMAIN a.var_map) - 1
<1> DEFINE D == DOMAIN a.var_map
           n == Cardinality(D)
           f == [v \in D |-> a.var_map[v]]
<1>1. IsFiniteSet(D) /\ n \in Nat
  BY PathsAreFinite, FS_Subset, FS_CardinalityType DEF Good
<1>2. {a.var_map[v] : v \in D} = 0 .. n - 1 /\ a.box.int = n /\ a.box.real = 0
  BY DEF Good, IsNumbered
<1>3. f \in Surjection(D, 0 .. n - 1)
  BY <1>2 DEF Surjection
<1>4. IsFiniteSet(0 .. n - 1) /\ Cardinality(0 .. n - 1) = n
  BY <1>1, FS_Interval
<1>5. f \in Injection(D, 0 .. n - 1)
  BY <1>1, <1>3, <1>4, FS_Surjection
<1>6. \A u, v \in D : a.var_map[u] = a.var_map[v] => u = v
  BY <1>5 DEF Injection, IsInjective
<1>7. \A k \in 0 .. n - 1 : \E v \in D : a.var_map[v] = k
  BY <1>2
<1>8. Dims(a.box) = 0 .. n - 1
  BY <1>1, <1>2 DEF Dims
<1> QED BY <1>1, <1>2, <1>6, <1>7, <1>8 DEF Numbers, Good, IsNumbered, IsBottom, BoxIsBottom

(* The other way round, for a value that is put together.                  *)
LEMMA NumberingIsGood ==
  ASSUME NEW vm, NEW D, Numbers(vm, D), NEW b,
         b.int = Cardinality(D), b.real = 0,
         DOMAIN b.p = IF b.null THEN {} ELSE 0 .. Cardinality(D) - 1
  PROVE  Good(Value(vm, b))
<1> DEFINE a == Value(vm, b)
<1>1. a.var_map = vm /\ a.box = b
  BY DEF Value
<1>2. DOMAIN vm = D /\ D \subseteq Paths /\ Cardinality(D) \in Nat
  BY DEF Numbers
<1>3. {vm[v] : v \in D} = 0 .. Cardinality(D) - 1
  BY DEF Numbers
<1>4. Dims(b) = 0 .. Cardinality(D) - 1
  BY <1>2 DEF Dims
<1> QED BY <1>1, <1>2, <1>3, <1>4 DEF Good, IsNumbered, IsBottom, BoxIsBottom

(* merge_var_map numbers the paths of both values one to one.              *)
LEMMA MergedNumbers ==
  ASSUME NEW l, NEW r, Good(l), Good(r)
  PROVE  Numbers(MergedVarMap(l, r), DOMAIN l.var_map \union DOMAIN r.var_map)
<1> DEFINE old == DOMAIN l.var_map
           new == DOMAIN r.var_map \ old
           D == old \union new
           vm == MergedVarMap(l, r)
           m == Cardinality(old)
           n == Cardinality(new)
<1>1. old \in SUBSET Paths /\ new \in SUBSET Paths /\ IsFiniteSet(old) /\ IsFiniteSet(new)
  BY PathsAreFinite, FS_Subset DEF Good
<1>2. /\ D = DOMAIN l.var_map \union DOMAIN r.var_map
      /\ DOMAIN vm = D /\ \A v \in D : vm[v] = IF v \in old THEN PlaceAmong(v, old) ELSE m + PlaceAmong(v, new)
  BY DEF MergedVarMap
<1> HIDE DEF vm, old, new
<1>3. /\ m \in Nat
      /\ \A v \in old : PlaceAmong(v, old) \in 0 .. m - 1
      /\ \A u, v \in old : PlaceAmong(u, old) = PlaceAmong(v, old) => u = v
      /\ \A k \in 0 .. m - 1 : \E v \in old : PlaceAmong(v, old) = k
  BY <1>1, KeysHavePlaces
<1>4. /\ n \in Nat
      /\ \A v \in new : PlaceAmong(v, new) \in 0 .. n - 1
      /\ \A u, v \in new : PlaceAmong(u, new) = PlaceAmong(v, new) => u = v
      /\ \A k \in 0 .. n - 1 : \E v \in new : PlaceAmong(v, new) = k
  BY <1>1, KeysHavePlaces
<1>5. old \intersect new = {}
  BY DEF new
<1>6. IsFiniteSet(D) /\ Cardinality(D) = m + n
  BY <1>1, <1>3, <1>4, <1>5, FS_Union, FS_EmptySet
<1> HIDE DEF m, n
<1>7. \A v \in D : vm[v] \in 0 .. m + n - 1
  BY <1>2, <1>3, <1>4
<1>8. ASSUME NEW u \in D, NEW v \in D, vm[u] = vm[v]
      PROVE  u = v
  <2>1. CASE u \in old /\ v \in old
    BY <2>1, <1>2, <1>3, <1>8
  <2>2. CASE u \notin old /\ v \notin old
    <3>1. vm[u] = m + PlaceAmong(u, new) /\ vm[v] = m + PlaceAmong(v, new)
      BY <1>2, <2>2
    <3>2. PlaceAmong(u, new) = PlaceAmong(v, new)
      BY <3>1, <1>3, <1>4, <1>8, <2>2
    <3> QED BY <3>2, <1>4, <2>2
  <2>3. CASE (u \in old) # (v \in old)
    BY <2>3, <1>2, <1>3, <1>4, <1>8
  <2> QED BY <2>1, <2>2, <2>3
<1>9. ASSUME NEW k \in 0 .. m + n - 1
      PROVE  \E v \in D : vm[v] = k
  <2>1. CASE k < m
    BY <2>1, <1>2, <1>3
  <2>2. CASE k >= m
    <3>1. PICK v \in new : PlaceAmong(v, new) = k - m
      BY <2>2, <1>3, <1>4
    <3> QED BY <3>1, <1>2, <1>3, <1>5
  <2> QED BY <2>1, <2>2, <1>3
<1>10. Numbers(vm, D)
  <2>1. D \subseteq Paths /\ Cardinality(D) \in Nat /\ 0 .. m + n - 1 = 0 .. Cardinality(D) - 1
    BY <1>1, <1>3, <1>4, <1>6
  <2> HIDE DEF D
  <2> QED BY <1>2, <1>6, <1>7, <1>8, <1>9, <2>1 DEF Numbers
<1> QED BY <1>2, <1>10 DEF vm

-----------------------------------------------------------------------------
(***************************************************************************)
(* Dimensions that are added and moved.                                    *)
(***************************************************************************)
(* w is b with n more dimensions, which come last and may have any value.  *)
IsWidened(w, b, n) ==
  /\ (w.null <=> b.null) /\ w.int = b.int + n /\ w.real = 0
  /\ DOMAIN w.p = IF b.null THEN {} ELSE 0 .. b.int + n - 1
  /\ ~b.null => \A d \in 0 .. b.int + n - 1 : w.p[d] = IF d < b.int THEN b.p[d] ELSE ItvTop

LEMMA Widened ==
  ASSUME NEW b, NEW N \in Nat, NEW n \in Nat, b.int = N, b.real = 0,
         DOMAIN b.p = IF b.null THEN {} ELSE 0 .. N - 1
  PROVE  IsWidened(AddDimensions(b, n), b, n)
<1> DEFINE w == AddDimensions(b, n)
<1>1. CASE n = 0
  <2>1. \A d \in 0 .. N - 1 : d < N
    OBVIOUS
  <2> QED BY <1>1, <2>1 DEF AddDimensions, IsWidened
<1>2. CASE n # 0 /\ b.null
  <2>1. Len([k \in 1 .. n |-> N]) = n
    OBVIOUS
  <2>2. w = BoxBottom(N + n, 0)
    BY <1>2, <2>1 DEF AddDimensions, BoxAddDimensions
  <2> QED BY <2>2, <1>2 DEF BoxBottom, IsWidened
<1>3. CASE n # 0 /\ ~b.null
  <2> DEFINE change == [k \in 1 .. n |-> N]
             moved == {<<i + Shift(change, i), i>> : i \in 0 .. N - 1}
  <2>1. Len(change) = n
    OBVIOUS
  <2>2. Dims(b) = 0 .. N - 1
    BY DEF Dims
  <2>3. ASSUME NEW i \in 0 .. N - 1
        PROVE  i + Shift(change, i) = i
    <3>1. {k \in DOMAIN change : change[k] <= i} = {}
      OBVIOUS
    <3>2. Shift(change, i) = Cardinality({})
      BY ONLY <3>1 DEF Shift
    <3>3. Cardinality({}) = 0
      BY FS_EmptySet
    <3> HIDE DEF change
    <3> QED BY <3>2, <3>3
  <2>4. moved = {<<i, i>> : i \in 0 .. N - 1}
    BY <2>3
  <2>5. w = Box(N + n, 0 + n - n,
                [d \in 0 .. (N + 0 + n - 1) |->
                   IF \E m \in moved : m[1] = d
                   THEN b.p[(CHOOSE m \in moved : m[1] = d)[2]] ELSE ItvTop])
    <3> HIDE DEF moved
    <3>1. w = BoxAddDimensions(b, change, n, FALSE)
      BY <1>3 DEF AddDimensions
    <3>2. moved = {<<i + Shift(change, i), i>> : i \in Dims(b)}
      BY <2>2 DEF moved
    <3> HIDE DEF change
    <3> QED BY <3>1, <3>2, <2>1, <1>3 DEF BoxAddDimensions
  <2> HIDE DEF moved, w, change
  <2>6. /\ w.null = FALSE /\ w.int = N + n /\ w.real = 0
        /\ DOMAIN w.p = 0 .. N + n - 1
        /\ \A d \in 0 .. N + n - 1 :
             w.p[d] = IF \E m \in moved : m[1] = d
                      THEN b.p[(CHOOSE m \in moved : m[1] = d)[2]] ELSE ItvTop
    BY <2>5 DEF Box
  <2>7. ASSUME NEW d \in 0 .. N + n - 1
        PROVE  w.p[d] = IF d < N THEN b.p[d] ELSE ItvTop
    <3>1. CASE d < N
      <4>1. <<d, d>> \in moved
        BY <2>4, <3>1
      <4>2. (CHOOSE m \in moved : m[1] = d) = <<d, d>>
        BY <4>1, <2>4
      <4> QED BY <2>6, <3>1, <4>1, <4>2
    <3>2. CASE ~(d < N)
      <4>1. ~ \E m \in moved : m[1] = d
        BY <2>4, <3>2
      <4> QED BY <2>6, <3>2, <4>1
    <3> QED BY <3>1, <3>2
  <2>8. IsWidened(w, b, n)
    BY <1>3, <2>6, <2>7 DEF IsWidened
  <2> QED BY <2>8 DEF w
<1> QED BY <1>1, <1>2, <1>3

(* The permutation takes the dimension of each path to its new one, and    *)
(* every other new dimension to one that was added.                        *)
LEMMA PlacementFollowsPaths ==
  ASSUME NEW a, Good(a), NEW D, NEW vm, Numbers(vm, D), DOMAIN a.var_map \subseteq D
  PROVE  LET N == Cardinality(DOMAIN a.var_map)
             all == 0 .. Cardinality(D) - 1
             perm == Placement(a, vm)
         IN /\ N <= Cardinality(D)
            /\ \A v \in DOMAIN a.var_map : perm[a.var_map[v]] = vm[v]
            /\ \A i \in all : i >= N => \A v \in DOMAIN a.var_map : perm[i] # vm[v]
            /\ \A v \in D \ DOMAIN a.var_map : \E i \in all : i >= N /\ perm[i] = vm[v]
            /\ perm \in Bijection(all, all)
<1> DEFINE K == DOMAIN a.var_map
           N == Cardinality(K)
           M == Cardinality(D)
           all == 0 .. M - 1
           perm == Placement(a, vm)
           taken == {a.var_map[v] : v \in K}
           given == {vm[v] : v \in K}
<1>1. Numbers(a.var_map, K)
  BY GoodIsNumbering
<1>2. /\ IsFiniteSet(D) /\ M \in Nat /\ N \in Nat /\ N <= M /\ DOMAIN vm = D
  BY <1>1, FS_Subset DEF Numbers
<1>3. taken = 0 .. N - 1
  BY <1>1 DEF Numbers
<1>4. given \subseteq all /\ taken \subseteq all
  BY <1>2, <1>3 DEF Numbers
<1>5. IsFiniteSet(given) /\ Cardinality(given) = N
  <2> DEFINE f == [v \in K |-> vm[v]]
  <2>1. f \in Surjection(K, given) /\ IsFiniteSet(K)
    BY <1>1 DEF Surjection, Numbers
  <2>2. f \in Injection(K, given)
    <3>1. \A u, v \in K : vm[u] = vm[v] => u = v
      BY DEF Numbers
    <3>2. f \in [K -> given]
      OBVIOUS
    <3> HIDE DEF given
    <3> QED BY <3>1, <3>2 DEF Injection, IsInjective
  <2> HIDE DEF f, K, given
  <2> QED BY <2>1, <2>2, FS_Surjection
<1>6. /\ IsFiniteSet(all) /\ Cardinality(all) = M
      /\ IsFiniteSet(taken) /\ Cardinality(taken) = N
  <2>1. ASSUME NEW n \in Nat
        PROVE  IsFiniteSet(0 .. n - 1) /\ Cardinality(0 .. n - 1) = n
    BY FS_Interval
  <2> HIDE DEF taken, N, M
  <2> QED BY <1>2, <1>3, <2>1
<1>7. /\ IsFiniteSet(all \ taken) /\ Cardinality(all \ taken) = M - N
      /\ IsFiniteSet(all \ given) /\ Cardinality(all \ given) = M - N
  <2> HIDE DEF all, taken, given
  <2>1. all \intersect taken = taken /\ all \intersect given = given
    BY <1>4
  <2>2. IsFiniteSet(all \ taken) /\ Cardinality(all \ taken) = Cardinality(all) - Cardinality(all \intersect taken)
    BY <1>6, FS_Difference
  <2>3. IsFiniteSet(all \ given) /\ Cardinality(all \ given) = Cardinality(all) - Cardinality(all \intersect given)
    BY <1>6, FS_Difference
  <2> QED BY <2>1, <2>2, <2>3, <1>5, <1>6
<1>8. \A i \in all : perm[i] = IF i \in taken THEN vm[CHOOSE v \in K : a.var_map[v] = i]
                               ELSE Nth(Rank(i, all \ taken), all \ given)
  BY <1>2 DEF Placement
<1>9. /\ \A i \in all \ taken : /\ Rank(i, all \ taken) \in 0 .. M - N - 1
                                /\ Nth(Rank(i, all \ taken), all \ taken) = i
      /\ \A k \in 0 .. M - N - 1 : Nth(k, all \ taken) \in all \ taken /\ Rank(Nth(k, all \ taken), all \ taken) = k
  <2>1. all \ taken \in SUBSET Int
    BY <1>2
  <2> HIDE DEF all, taken
  <2> QED BY <2>1, <1>7, RankAndNth
<1>10. /\ \A i \in all \ given : /\ Rank(i, all \ given) \in 0 .. M - N - 1
                                 /\ Nth(Rank(i, all \ given), all \ given) = i
       /\ \A k \in 0 .. M - N - 1 : Nth(k, all \ given) \in all \ given
  <2>1. all \ given \in SUBSET Int
    BY <1>2
  <2> HIDE DEF all, given
  <2> QED BY <2>1, <1>7, RankAndNth
<1>11. ASSUME NEW v \in K
       PROVE  perm[a.var_map[v]] = vm[v]
  <2>1. a.var_map[v] \in taken /\ a.var_map[v] \in all
    BY <1>4
  <2>2. (CHOOSE u \in K : a.var_map[u] = a.var_map[v]) = v
    BY <1>1 DEF Numbers
  <2> HIDE DEF perm
  <2> QED BY <2>1, <2>2, <1>8
<1>12. ASSUME NEW i \in all, i >= N
       PROVE  i \in all \ taken /\ perm[i] \in all \ given
  <2>1. i \in all \ taken
    BY <1>3, <1>12, <1>2
  <2> HIDE DEF perm, all, taken, given
  <2> QED BY <2>1, <1>8, <1>9, <1>10
<1>13. ASSUME NEW v \in D \ K
       PROVE  \E i \in all : i >= N /\ perm[i] = vm[v]
  <2>1. vm[v] \in all \ given
    BY <1>13, <1>2 DEF Numbers
  <2> DEFINE k == Rank(vm[v], all \ given)
             i == Nth(k, all \ taken)
  <2>2. k \in 0 .. M - N - 1 /\ Nth(k, all \ given) = vm[v]
    BY <2>1, <1>10
  <2>3. i \in all \ taken /\ Rank(i, all \ taken) = k
    BY <2>2, <1>9
  <2> HIDE DEF i, k, perm
  <2>4. i >= N
    BY <2>3, <1>3, <1>2
  <2> HIDE DEF all, taken, given
  <2>5. perm[i] = vm[v]
    BY <2>2, <2>3, <1>8
  <2> QED BY <2>3, <2>4, <2>5
<1>14. \A v \in K : vm[v] \in given
  OBVIOUS
<1>15. perm = [i \in all |-> perm[i]]
  BY <1>2 DEF Placement
<1>16. \A v \in K : a.var_map[v] \in all
  BY <1>4
<1> HIDE DEF perm, given, taken
<1>17. perm \in Bijection(all, all)
  <2>1. ASSUME NEW i \in all
        PROVE  perm[i] \in all
    <3>1. CASE i >= N
      BY <3>1, <1>12
    <3>2. CASE ~(i >= N)
      <4>1. i \in taken
        BY <3>2, <1>2, <1>3
      <4>2. PICK v \in K : a.var_map[v] = i
        BY <4>1 DEF taken
      <4> QED BY <4>2, <1>4, <1>11, <1>14
    <3> QED BY <3>1, <3>2
  <2>2. ASSUME NEW j \in all
        PROVE  \E i \in all : perm[i] = j
    <3>1. PICK v \in D : vm[v] = j
      BY DEF Numbers
    <3> QED BY <3>1, <1>11, <1>13, <1>16
  <2>3. perm \in Surjection(all, all)
    <3> HIDE DEF all
    <3> QED BY <2>1, <2>2, <1>15 DEF Surjection
  <2> HIDE DEF all
  <2>4. perm \in Injection(all, all)
    BY <2>3, <1>6, FS_Surjection
  <2> QED BY <2>3, <2>4 DEF Bijection
<1> QED BY <1>2, <1>11, <1>12, <1>13, <1>14, <1>17 DEF perm

(* m is the box of a, numbered by vm.                                      *)
IsPlaced(m, a, vm, D) ==
  /\ (m.null <=> a.box.null) /\ m.int = Cardinality(D) /\ m.real = 0
  /\ DOMAIN m.p = IF a.box.null THEN {} ELSE 0 .. Cardinality(D) - 1
  /\ ~a.box.null => \A v \in D : m.p[vm[v]] = ItvOf(a, v)

LEMMA MergedBoxIsPlaced ==
  ASSUME NEW a, Good(a), NEW D, NEW vm, Numbers(vm, D), DOMAIN a.var_map \subseteq D
  PROVE  IsPlaced(MergedBox(a, vm), a, vm, D)
<1> DEFINE K == DOMAIN a.var_map
           N == Cardinality(K)
           M == Cardinality(D)
           all == 0 .. M - 1
           perm == Placement(a, vm)
           w == AddDimensions(a.box, M - N)
           m == BoxPermute(w, perm)
<1>1. /\ N <= M
      /\ \A v \in K : perm[a.var_map[v]] = vm[v]
      /\ \A i \in all : i >= N => \A v \in K : perm[i] # vm[v]
      /\ \A v \in D \ K : \E i \in all : i >= N /\ perm[i] = vm[v]
  BY PlacementFollowsPaths
<1>2. /\ Numbers(a.var_map, K) /\ a.box.int = N /\ a.box.real = 0
      /\ DOMAIN a.box.p = IF a.box.null THEN {} ELSE 0 .. N - 1
  BY GoodIsNumbering
<1>3. N \in Nat /\ M \in Nat /\ M - N \in Nat /\ N + (M - N) = M
  BY <1>1, <1>2 DEF Numbers
<1> HIDE DEF perm
<1>4. MergedBox(a, vm) = m
  BY <1>2 DEF MergedBox, GetDims, Numbers, perm
<1>5. IsWidened(w, a.box, M - N)
  <2> HIDE DEF M, N
  <2> QED BY <1>2, <1>3, Widened
<1>6. /\ (w.null <=> a.box.null) /\ w.int = M /\ w.real = 0
      /\ DOMAIN w.p = IF a.box.null THEN {} ELSE all
      /\ ~a.box.null => \A d \in all : w.p[d] = IF d < N THEN a.box.p[d] ELSE ItvTop
  BY <1>2, <1>3, <1>5 DEF IsWidened
<1> HIDE DEF w
<1>7. CASE a.box.null
  <2>1. m = w
    BY <1>7, <1>6 DEF BoxPermute
  <2> QED BY <2>1, <1>4, <1>6, <1>7 DEF IsPlaced
<1>8. CASE ~a.box.null
  <2>1. Dims(w) = all
    BY <1>6, <1>3 DEF Dims
  <2>2. m = Box(M, 0, [d \in all |-> w.p[CHOOSE i \in all : perm[i] = d]])
    BY <2>1, <1>6, <1>8 DEF BoxPermute, With
  <2>3. /\ m.null = FALSE /\ m.int = M /\ m.real = 0 /\ DOMAIN m.p = all
        /\ \A d \in all : m.p[d] = w.p[CHOOSE i \in all : perm[i] = d]
    BY <2>2 DEF Box
  <2>4. ASSUME NEW v \in D
        PROVE  m.p[vm[v]] = ItvOf(a, v)
    <3>1. vm[v] \in all
      BY DEF Numbers
    <3> DEFINE i == CHOOSE j \in all : perm[j] = vm[v]
    <3>2. CASE v \in K
      <4>1. a.var_map[v] \in 0 .. N - 1 /\ a.var_map[v] \in all
        BY <1>2, <1>3, <3>2, <1>1 DEF Numbers
      <4>2. perm[a.var_map[v]] = vm[v]
        BY <1>1, <3>2
      <4>3. i \in all /\ perm[i] = vm[v]
        BY <4>1, <4>2
      <4>4. i < N
        BY <4>3, <1>1, <3>2, <1>3
      <4>5. PICK u \in K : a.var_map[u] = i
        BY <4>3, <4>4, <1>2, <1>3 DEF Numbers
      <4>6. perm[i] = vm[u]
        BY <4>5, <1>1
      <4>7. u = v
        <5>1. u \in D /\ vm[u] = vm[v]
          BY <4>3, <4>6
        <5> QED BY <5>1 DEF Numbers
      <4>8. i = a.var_map[v]
        BY <4>5, <4>7
      <4> HIDE DEF i
      <4>9. w.p[i] = a.box.p[i]
        BY <4>3, <4>4, <1>6, <1>8
      <4> QED BY <3>1, <3>2, <4>8, <4>9, <2>3 DEF ItvOf, HasPath, i
    <3>3. CASE v \notin K
      <4>1. i \in all /\ perm[i] = vm[v]
        BY <1>1, <3>3
      <4>2. ~(i < N)
        <5> SUFFICES ASSUME i < N PROVE FALSE
          OBVIOUS
        <5>1. PICK u \in K : a.var_map[u] = i
          BY <4>1, <1>2, <1>3 DEF Numbers
        <5>2. vm[u] = vm[v]
          BY <5>1, <4>1, <1>1
        <5>3. u = v
          BY <5>2 DEF Numbers
        <5> QED BY <5>3, <3>3
      <4> HIDE DEF i
      <4>3. w.p[i] = ItvTop
        BY <4>1, <4>2, <1>6, <1>8
      <4> QED BY <3>1, <3>3, <4>3, <2>3 DEF ItvOf, HasPath, i
    <3> QED BY <3>2, <3>3
  <2> QED BY <2>3, <2>4, <1>4, <1>8 DEF IsPlaced
<1> QED BY <1>7, <1>8

-----------------------------------------------------------------------------
(***************************************************************************)
(* Intervals with whole bounds.                                            *)
(***************************************************************************)
IsWholeItv(itv) ==
  itv = Itv(itv.inf, itv.sup) /\ IsWholeBound(itv.inf) /\ IsWholeBound(itv.sup)

LEMMA WholeCmp ==
  /\ \A m, n \in Int : /\ BoundCmp(IntBound(m), IntBound(n)) = SgnOf(m - n)
                       /\ IntBound(m) # PlusOo
                       /\ IntBound(m) = IntBound(n) => m = n
  /\ \A m \in Int : BoundCmp(IntBound(m), PlusOo) = -1 /\ BoundCmp(PlusOo, IntBound(m)) = 1
  /\ BoundCmp(PlusOo, PlusOo) = 0
<1>1. SgnOf(1) = 1
  BY DEF SgnOf
<1> QED BY <1>1 DEF BoundCmp, IntBound, PlusOo, Infty, IsInfty, BoundSgn

LEMMA WholeBoundCases ==
  ASSUME NEW b, IsWholeBound(b)
  PROVE  b = PlusOo \/ \E n \in Int : b = IntBound(n)
BY DEF IsWholeBound

(* Whole bounds are in a total order.                                      *)
LEMMA WholeOrder ==
  ASSUME NEW b, NEW c, IsWholeBound(b), IsWholeBound(c)
  PROVE  /\ BoundCmp(b, c) \in Int
         /\ BoundCmp(b, c) = 0 => b = c
         /\ BoundCmp(b, c) >= 0 <=> BoundCmp(c, b) <= 0
         /\ BoundCmp(b, b) = 0
<1>1. CASE b = PlusOo /\ c = PlusOo
  BY <1>1, WholeCmp
<1>2. ASSUME NEW n \in Int, b = PlusOo, c = IntBound(n)
      PROVE  /\ BoundCmp(b, c) \in Int /\ BoundCmp(b, c) # 0 /\ BoundCmp(b, b) = 0
             /\ BoundCmp(b, c) >= 0 <=> BoundCmp(c, b) <= 0
  <2>1. BoundCmp(b, c) = 1 /\ BoundCmp(c, b) = -1 /\ BoundCmp(b, b) = 0
    BY <1>2, WholeCmp
  <2> QED BY <2>1
<1>3. ASSUME NEW n \in Int, c = PlusOo, b = IntBound(n)
      PROVE  /\ BoundCmp(b, c) \in Int /\ BoundCmp(b, c) # 0 /\ BoundCmp(b, b) = 0
             /\ BoundCmp(b, c) >= 0 <=> BoundCmp(c, b) <= 0
  <2>1. BoundCmp(b, b) = SgnOf(n - n)
    BY <1>3, WholeCmp
  <2> QED BY <1>3, <2>1, WholeCmp DEF SgnOf
<1>4. ASSUME NEW m \in Int, NEW n \in Int, b = IntBound(m), c = IntBound(n)
      PROVE  /\ BoundCmp(b, c) \in Int
             /\ BoundCmp(b, c) = 0 => b = c
             /\ BoundCmp(b, c) >= 0 <=> BoundCmp(c, b) <= 0
             /\ BoundCmp(b, b) = 0
  <2>1. /\ BoundCmp(b, c) = SgnOf(m - n) /\ BoundCmp(c, b) = SgnOf(n - m)
        /\ BoundCmp(b, b) = SgnOf(m - m)
    BY <1>4, WholeCmp
  <2> QED BY <2>1, <1>4 DEF SgnOf
<1> QED BY <1>1, <1>2, <1>3, <1>4, WholeBoundCases

LEMMA WholeOrderTransitive ==
  ASSUME NEW b, NEW c, NEW d, IsWholeBound(b), IsWholeBound(c), IsWholeBound(d),
         BoundCmp(b, c) <= 0, BoundCmp(c, d) <= 0
  PROVE  BoundCmp(b, d) <= 0
<1>1. CASE d = PlusOo
  <2>1. BoundCmp(b, PlusOo) = 0 \/ BoundCmp(b, PlusOo) = -1
    <3>1. CASE b = PlusOo
      BY <3>1, WholeCmp
    <3>2. ASSUME NEW n \in Int, b = IntBound(n)
          PROVE  BoundCmp(b, PlusOo) = -1
      BY <3>2, WholeCmp
    <3> QED BY <3>1, <3>2, WholeBoundCases
  <2> QED BY <1>1, <2>1
<1>2. CASE d # PlusOo
  <2>1. PICK k \in Int : d = IntBound(k)
    BY <1>2, WholeBoundCases
  <2>2. c # PlusOo
    BY <2>1, WholeCmp
  <2>3. PICK n \in Int : c = IntBound(n)
    BY <2>2, WholeBoundCases
  <2>4. b # PlusOo
    BY <2>3, WholeCmp
  <2>5. PICK m \in Int : b = IntBound(m)
    BY <2>4, WholeBoundCases
  <2>6. SgnOf(m - n) <= 0 /\ SgnOf(n - k) <= 0 /\ BoundCmp(b, d) = SgnOf(m - k)
    BY <2>1, <2>3, <2>5, WholeCmp
  <2> QED BY <2>6 DEF SgnOf
<1> QED BY <1>1, <1>2

LEMMA WholeMax ==
  ASSUME NEW b, NEW c, IsWholeBound(b), IsWholeBound(c)
  PROVE  /\ IsWholeBound(BoundMax(b, c))
         /\ BoundMax(b, c) = BoundMax(c, b)
         /\ BoundCmp(b, BoundMax(b, c)) <= 0
         /\ BoundMax(b, PlusOo) = PlusOo
<1>1. /\ BoundCmp(b, c) \in Int /\ BoundCmp(c, b) \in Int
      /\ BoundCmp(b, c) = 0 => b = c
      /\ BoundCmp(b, c) >= 0 <=> BoundCmp(c, b) <= 0
      /\ BoundCmp(c, b) >= 0 <=> BoundCmp(b, c) <= 0
      /\ BoundCmp(b, b) = 0
  BY WholeOrder
<1>2. BoundMax(b, PlusOo) = PlusOo
  BY WholeBoundCases, WholeCmp DEF BoundMax
<1> QED BY <1>1, <1>2 DEF BoundMax

LEMMA WholeJoin ==
  ASSUME NEW a, NEW b, IsWholeItv(a), IsWholeItv(b)
  PROVE  /\ IsWholeItv(ItvJoin(a, b))
         /\ ItvJoin(a, b) = ItvJoin(b, a)
         /\ ItvJoin(a, ItvTop) = ItvTop
<1>1. /\ IsWholeBound(a.inf) /\ IsWholeBound(a.sup) /\ IsWholeBound(b.inf) /\ IsWholeBound(b.sup)
  BY DEF IsWholeItv
<1>2. ItvTop # ItvBottom /\ ItvTop.inf = PlusOo /\ ItvTop.sup = PlusOo
  <2>1. IntBound(-1) # PlusOo
    BY WholeCmp
  <2> QED BY <2>1 DEF ItvTop, ItvBottom, Itv
<1>3. ItvJoin(a, ItvTop) = ItvTop
  BY <1>1, <1>2, WholeMax DEF ItvJoin, ItvTop
<1>4. /\ IsWholeBound(BoundMax(a.inf, b.inf)) /\ IsWholeBound(BoundMax(a.sup, b.sup))
      /\ BoundMax(a.inf, b.inf) = BoundMax(b.inf, a.inf)
      /\ BoundMax(a.sup, b.sup) = BoundMax(b.sup, a.sup)
  BY <1>1, WholeMax
<1>5. IsWholeItv(Itv(BoundMax(a.inf, b.inf), BoundMax(a.sup, b.sup)))
  BY <1>4 DEF IsWholeItv, Itv
<1> QED BY <1>3, <1>4, <1>5 DEF ItvJoin

LEMMA WholeTop == IsWholeItv(ItvTop) /\ \A n \in Int : InItv(n, ItvTop)
<1>1. ItvTop.inf = PlusOo /\ ItvTop.sup = PlusOo /\ ItvTop = Itv(ItvTop.inf, ItvTop.sup)
  BY DEF ItvTop, Itv
<1>2. \A n \in Int : -n \in Int
  OBVIOUS
<1>3. -1 <= 0
  OBVIOUS
<1> QED BY <1>1, <1>2, <1>3, WholeCmp DEF IsWholeItv, IsWholeBound, InItv

LEMMA WholeInt == \A n \in Int : IsWholeBound(IntBound(n))
BY DEF IsWholeBound, IntBound

(* No number is in the empty interval.                                     *)
LEMMA BottomHoldsNothing == \A n \in Int : ~InItv(n, ItvBottom)
<1> SUFFICES ASSUME NEW n \in Int, InItv(n, ItvBottom) PROVE FALSE
  OBVIOUS
<1>1. /\ BoundCmp(IntBound(n), IntBound(-1)) = SgnOf(n - (-1))
      /\ BoundCmp(IntBound(-n), IntBound(-1)) = SgnOf((-n) - (-1))
  BY WholeCmp
<1>2. SgnOf(n - (-1)) <= 0 /\ SgnOf((-n) - (-1)) <= 0
  BY <1>1 DEF InItv, ItvBottom, Itv
<1> QED BY <1>2 DEF SgnOf

LEMMA JoinHoldsMore ==
  ASSUME NEW a, NEW b, IsWholeItv(a), IsWholeItv(b), NEW n \in Int, InItv(n, a)
  PROVE  InItv(n, ItvJoin(a, b))
<1>1. a # ItvBottom
  BY BottomHoldsNothing
<1>2. CASE b = ItvBottom
  BY <1>1, <1>2 DEF ItvJoin
<1>3. CASE b # ItvBottom
  <2> DEFINE inf == BoundMax(a.inf, b.inf)
             sup == BoundMax(a.sup, b.sup)
  <2>1. /\ IsWholeBound(a.inf) /\ IsWholeBound(a.sup) /\ IsWholeBound(b.inf) /\ IsWholeBound(b.sup)
    BY DEF IsWholeItv
  <2>2. /\ IsWholeBound(inf) /\ BoundCmp(a.inf, inf) <= 0
        /\ IsWholeBound(sup) /\ BoundCmp(a.sup, sup) <= 0
    BY <2>1, WholeMax
  <2>3. IsWholeBound(IntBound(n)) /\ IsWholeBound(IntBound(-n))
    BY WholeInt
  <2> HIDE DEF inf, sup
  <2>4. BoundCmp(IntBound(n), a.sup) <= 0 /\ BoundCmp(IntBound(-n), a.inf) <= 0
    BY DEF InItv
  <2>5. BoundCmp(IntBound(n), sup) <= 0 /\ BoundCmp(IntBound(-n), inf) <= 0
    BY <2>1, <2>2, <2>3, <2>4, WholeOrderTransitive
  <2>6. ItvJoin(a, b) = Itv(inf, sup)
    BY <1>1, <1>3 DEF ItvJoin, inf, sup
  <2> QED BY <2>5, <2>6 DEF InItv, Itv
<1> QED BY <1>2, <1>3

LEMMA LeqHoldsMore ==
  ASSUME NEW a, NEW b, IsWholeItv(a), IsWholeItv(b), ItvLeq(a, b), NEW n \in Int, InItv(n, a)
  PROVE  InItv(n, b)
<1>1. a # ItvBottom
  BY BottomHoldsNothing
<1>2. BoundCmp(a.sup, b.sup) <= 0 /\ BoundCmp(a.inf, b.inf) <= 0
  BY <1>1 DEF ItvLeq
<1>3. /\ IsWholeBound(a.inf) /\ IsWholeBound(a.sup) /\ IsWholeBound(b.inf) /\ IsWholeBound(b.sup)
      /\ IsWholeBound(IntBound(n)) /\ IsWholeBound(IntBound(-n))
  BY WholeInt DEF IsWholeItv
<1>4. BoundCmp(IntBound(n), a.sup) <= 0 /\ BoundCmp(IntBound(-n), a.inf) <= 0
  BY DEF InItv
<1>5. BoundCmp(IntBound(n), b.sup) <= 0 /\ BoundCmp(IntBound(-n), b.inf) <= 0
  BY <1>2, <1>3, <1>4, WholeOrderTransitive
<1> QED BY <1>5 DEF InItv

-----------------------------------------------------------------------------
(***************************************************************************)
(* Joins and comparisons.                                                  *)
(***************************************************************************)
LEMMA WholeItvOf ==
  ASSUME NEW a, Good(a), IsWhole(a), ~IsBottom(a), NEW v
  PROVE  IsWholeItv(ItvOf(a, v))
<1>1. CASE v \in DOMAIN a.var_map
  <2>1. a.var_map[v] \in DOMAIN a.box.p
    BY <1>1, GoodIsNumbering DEF Numbers, IsBottom, BoxIsBottom
  <2>2. ItvOf(a, v) = a.box.p[a.var_map[v]]
    BY <1>1 DEF ItvOf, HasPath
  <2> QED BY <2>1, <2>2 DEF IsWhole, IsWholeItv
<1>2. CASE v \notin DOMAIN a.var_map
  BY <1>2, WholeTop DEF ItvOf, HasPath
<1> QED BY <1>1, <1>2

LEMMA TopSaysNothing ==
  ASSUME NEW a, Good(a), IsWhole(a), IsTop(a), NEW v
  PROVE  ItvOf(a, v) = ItvTop
<1>1. CASE v \in DOMAIN a.var_map
  <2> DEFINE d == a.var_map[v]
             itv == a.box.p[d]
  <2>1. d \in Dims(a.box) /\ d \in DOMAIN a.box.p
    BY <1>1, GoodIsNumbering DEF Numbers, IsTop, BoxIsTop
  <2>2. itv = Itv(itv.inf, itv.sup) /\ IsWholeBound(itv.inf) /\ IsWholeBound(itv.sup)
    BY <2>1 DEF IsWhole
  <2>3. IsInfty(itv.inf) /\ IsInfty(itv.sup)
    BY <2>1 DEF IsTop, BoxIsTop, ItvIsTop
  <2> HIDE DEF itv
  <2>4. \A n \in Int : ~IsInfty(IntBound(n))
    BY DEF IsInfty, IntBound
  <2>5. itv.inf = PlusOo /\ itv.sup = PlusOo
    BY <2>2, <2>3, <2>4, WholeBoundCases
  <2> QED BY <1>1, <2>2, <2>5 DEF ItvOf, HasPath, ItvTop, itv
<1>2. CASE v \notin DOMAIN a.var_map
  BY <1>2 DEF ItvOf, HasPath
<1> QED BY <1>1, <1>2

(* j numbers the paths of both values, and says of each what both do.      *)
IsJoined(j, a, b, D) ==
  /\ j.var_map = MergedVarMap(a, b) /\ Numbers(MergedVarMap(a, b), D)
  /\ ~j.box.null /\ j.box.int = Cardinality(D) /\ j.box.real = 0
  /\ DOMAIN j.box.p = 0 .. Cardinality(D) - 1
  /\ \A v \in D : j.box.p[MergedVarMap(a, b)[v]] = ItvJoin(ItvOf(a, v), ItvOf(b, v))

LEMMA JoinByPaths ==
  ASSUME NEW a, NEW b, Good(a), Good(b), ~IsBottom(a), ~IsBottom(b), ~IsTop(a), ~IsTop(b)
  PROVE  IsJoined(Join(a, b), a, b, DOMAIN a.var_map \union DOMAIN b.var_map)
<1> DEFINE vm == MergedVarMap(a, b)
           D == DOMAIN a.var_map \union DOMAIN b.var_map
           l == MergedBox(a, vm)
           r == MergedBox(b, vm)
           all == 0 .. Cardinality(D) - 1
<1>1. Numbers(vm, D)
  BY MergedNumbers
<1>2. IsPlaced(l, a, vm, D) /\ IsPlaced(r, b, vm, D)
  <2> HIDE DEF vm
  <2>1. DOMAIN a.var_map \subseteq D /\ DOMAIN b.var_map \subseteq D
    OBVIOUS
  <2> HIDE DEF D
  <2> QED BY <1>1, <2>1, MergedBoxIsPlaced
<1>3. Merge(a, b).var_map = vm /\ Merge(a, b).left = l /\ Merge(a, b).right = r
  BY DEF Merge
<1> HIDE DEF vm, l, r, D
<1>4. /\ ~l.null /\ ~r.null /\ l.int = Cardinality(D) /\ l.real = 0
      /\ \A v \in D : l.p[vm[v]] = ItvOf(a, v) /\ r.p[vm[v]] = ItvOf(b, v)
  BY <1>2 DEF IsPlaced, IsBottom, BoxIsBottom
<1>5. Cardinality(D) \in Nat /\ \A v \in D : vm[v] \in all
  BY <1>1 DEF Numbers
<1>6. Dims(l) = all
  BY <1>4, <1>5 DEF Dims
<1> DEFINE j == BoxJoin(l, r)
<1>7. j = Box(Cardinality(D), 0, [d \in all |-> ItvJoin(l.p[d], r.p[d])])
  BY <1>4, <1>6 DEF BoxJoin, With
<1>8. /\ ~j.null /\ j.int = Cardinality(D) /\ j.real = 0 /\ DOMAIN j.p = all
      /\ \A d \in all : j.p[d] = ItvJoin(l.p[d], r.p[d])
  BY <1>7 DEF Box
<1> HIDE DEF j
<1>9. \A v \in D : j.p[vm[v]] = ItvJoin(ItvOf(a, v), ItvOf(b, v))
  BY <1>4, <1>5, <1>8
<1>10. Join(a, b) = Value(vm, j)
  BY <1>3 DEF Join, j
<1>11. Join(a, b).var_map = vm /\ Join(a, b).box = j
  BY <1>10 DEF Value
<1>12. IsJoined(Join(a, b), a, b, D)
  BY <1>1, <1>8, <1>9, <1>11 DEF IsJoined, vm
<1> QED BY <1>12 DEF D

(* The join says of a path what both values together say of it.            *)
LEMMA JoinOfPath ==
  ASSUME NEW a, NEW b, Good(a), Good(b), IsWhole(a), IsWhole(b), ~IsBottom(a), ~IsBottom(b), NEW v
  PROVE  ItvOf(Join(a, b), v) = ItvJoin(ItvOf(a, v), ItvOf(b, v))
<1>1. IsWholeItv(ItvOf(a, v)) /\ IsWholeItv(ItvOf(b, v))
  BY WholeItvOf
<1>2. CASE IsTop(b)
  <2>1. Join(a, b) = b
    BY <1>2 DEF Join
  <2> QED BY <1>1, <1>2, <2>1, TopSaysNothing, WholeJoin
<1>3. CASE ~IsTop(b) /\ IsTop(a)
  <2>1. Join(a, b) = a
    BY <1>3 DEF Join
  <2> QED BY <1>1, <1>3, <2>1, TopSaysNothing, WholeJoin, WholeTop
<1>4. CASE ~IsTop(b) /\ ~IsTop(a)
  <2> DEFINE D == DOMAIN a.var_map \union DOMAIN b.var_map
             vm == MergedVarMap(a, b)
             j == Join(a, b)
  <2>1. IsJoined(j, a, b, D)
    BY <1>4, JoinByPaths
  <2>2. /\ j.var_map = vm /\ DOMAIN vm = D
        /\ \A u \in D : j.box.p[vm[u]] = ItvJoin(ItvOf(a, u), ItvOf(b, u))
    BY <2>1 DEF IsJoined, Numbers
  <2> HIDE DEF j, vm
  <2>3. CASE v \in D
    BY <2>2, <2>3 DEF ItvOf, HasPath, j
  <2>4. CASE v \notin D
    <3>1. ItvOf(a, v) = ItvTop /\ ItvOf(b, v) = ItvTop /\ ItvOf(j, v) = ItvTop
      BY <2>2, <2>4 DEF ItvOf, HasPath
    <3> QED BY <3>1, WholeTop, WholeJoin DEF j
  <2> QED BY <2>3, <2>4
<1> QED BY <1>2, <1>3, <1>4

(* A comparison that answers yes is right, although the join is numbered   *)
(* anew and compared with b as it is.  If a number is in the interval of b *)
(* at dimension e, it is in that of the join at the dimension that the     *)
(* path of e has there, and by the comparison in that of b there too.  So  *)
(* the numbering maps the dimensions of b that hold the number one to one  *)
(* into themselves, and therefore onto themselves: with the new dimension  *)
(* of a path they contain its old one.                                     *)
LEMMA LeqIsInclusion ==
  ASSUME NEW a, NEW b, Good(a), Good(b), IsWhole(a), IsWhole(b), ~LeqRaises(a, b), Leq(a, b),
         ~IsBottom(a), NEW v, NEW n \in Int, InItv(n, ItvOf(a, v))
  PROVE  ~IsBottom(b) /\ InItv(n, ItvOf(b, v))
<1>1. ~IsBottom(b)
  BY DEF Leq
<1>2. CASE IsTop(b)
  BY <1>1, <1>2, TopSaysNothing, WholeTop
<1>3. CASE ~IsTop(b) /\ v \notin DOMAIN b.var_map
  BY <1>1, <1>3, WholeTop DEF ItvOf, HasPath
<1>4. CASE ~IsTop(b) /\ v \in DOMAIN b.var_map
  <2> DEFINE j == Join(a, b)
             K == DOMAIN b.var_map
             D == DOMAIN a.var_map \union K
             vm == MergedVarMap(a, b)
             N == Cardinality(K)
             p == b.box.p
  <2>1. ~IsTop(a) /\ GetDims(a) = GetDims(b) /\ BoxLeq(j.box, b.box)
    BY <1>1, <1>4 DEF Leq
  <2>2. Fit(j.box, b.box)
    BY <1>1, <1>4, <2>1 DEF LeqRaises
  <2>3. IsJoined(j, a, b, D)
    BY <1>1, <1>4, <2>1, JoinByPaths
  <2>4. Numbers(vm, D) /\ Numbers(b.var_map, K) /\ b.box.int = N /\ DOMAIN p = 0 .. N - 1
    BY <2>3, <1>1, GoodIsNumbering DEF IsJoined, IsBottom, BoxIsBottom
  <2>5. D = K
    <3>1. Cardinality(D) = N /\ IsFiniteSet(D)
      BY <2>2, <2>3, <2>4 DEF Fit, IsJoined, Numbers
    <3>2. K \in SUBSET D
      OBVIOUS
    <3> HIDE DEF D, K
    <3> QED BY <3>1, <3>2, FS_Subset DEF N
  <2>6. Dims(j.box) = 0 .. N - 1
    <3>1. j.box.int = Cardinality(D) /\ j.box.real = 0 /\ N \in Nat
      BY <2>3, <2>4 DEF IsJoined, Numbers
    <3>2. j.box.int = N
      <4> HIDE DEF D, j
      <4> QED BY <2>5, <3>1
    <3> HIDE DEF N, j
    <3> QED BY <3>1, <3>2 DEF Dims
  <2>7. \A d \in 0 .. N - 1 : ItvLeq(j.box.p[d], p[d])
    BY <2>1, <2>3, <2>6, <1>1 DEF BoxLeq, IsJoined, IsBottom, BoxIsBottom
  <2>8. \A u \in K : /\ j.box.p[vm[u]] = ItvJoin(ItvOf(a, u), ItvOf(b, u))
                     /\ vm[u] \in 0 .. N - 1 /\ b.var_map[u] \in 0 .. N - 1
                     /\ ItvOf(b, u) = p[b.var_map[u]]
    <3>1. \A u \in K : j.box.p[vm[u]] = ItvJoin(ItvOf(a, u), ItvOf(b, u))
      BY <2>3, <2>5 DEF IsJoined
    <3>2. \A u \in K : vm[u] \in 0 .. N - 1 /\ b.var_map[u] \in 0 .. N - 1
      BY <2>4, <2>5 DEF Numbers
    <3>3. \A u \in K : ItvOf(b, u) = p[b.var_map[u]]
      BY DEF ItvOf, HasPath
    <3> QED BY <3>1, <3>2, <3>3
  <2>9. \A u \in K : IsWholeItv(ItvOf(a, u)) /\ IsWholeItv(ItvOf(b, u))
    BY <1>1, WholeItvOf
  <2>10. \A d \in 0 .. N - 1 : IsWholeItv(p[d])
    BY <2>4 DEF IsWhole, IsWholeItv
  <2> HIDE DEF j, vm, p
  <2>11. ASSUME NEW u \in K, InItv(n, ItvOf(a, u)) \/ InItv(n, ItvOf(b, u))
         PROVE  InItv(n, p[vm[u]])
    <3> DEFINE itv == ItvJoin(ItvOf(a, u), ItvOf(b, u))
    <3>1. IsWholeItv(itv) /\ itv = ItvJoin(ItvOf(b, u), ItvOf(a, u))
      BY <2>9, WholeJoin
    <3>2. InItv(n, itv)
      BY <2>9, <2>11, <3>1, JoinHoldsMore
    <3>3. ItvLeq(itv, p[vm[u]]) /\ IsWholeItv(p[vm[u]])
      BY <2>7, <2>8, <2>10
    <3> HIDE DEF itv
    <3> QED BY <3>1, <3>2, <3>3, LeqHoldsMore
  <2> DEFINE U == {e \in 0 .. N - 1 : InItv(n, p[e])}
             Path(e) == CHOOSE u \in K : b.var_map[u] = e
             f == [e \in U |-> vm[Path(e)]]
  <2>12. \A e \in 0 .. N - 1 : Path(e) \in K /\ b.var_map[Path(e)] = e
    BY <2>4 DEF Numbers
  <2>13. IsFiniteSet(U)
    <3>1. N \in Nat /\ IsFiniteSet(0 .. N - 1)
      BY <2>4, FS_Interval DEF Numbers
    <3> QED BY <3>1, FS_Subset
  <2> HIDE DEF Path
  <2>14. f \in [U -> U]
    <3> SUFFICES ASSUME NEW e \in U PROVE vm[Path(e)] \in U
      OBVIOUS
    <3>1. Path(e) \in K /\ ItvOf(b, Path(e)) = p[e]
      BY <2>8, <2>12
    <3>2. InItv(n, p[vm[Path(e)]])
      BY <3>1, <2>11
    <3> QED BY <3>1, <3>2, <2>8
  <2>15. f \in Injection(U, U)
    <3>1. ASSUME NEW d \in U, NEW e \in U, f[d] = f[e]
          PROVE  d = e
      <4>1. vm[Path(d)] = vm[Path(e)] /\ Path(d) \in D /\ Path(e) \in D
        BY <3>1, <2>12
      <4>2. Path(d) = Path(e)
        BY <4>1, <2>4 DEF Numbers
      <4> QED BY <4>2, <2>12
    <3> HIDE DEF f, U
    <3> QED BY <2>14, <3>1 DEF Injection, IsInjective
  <2>16. f \in Surjection(U, U)
    <3> HIDE DEF f, U
    <3> QED BY <2>13, <2>15, FS_Injection
  <2>17. vm[v] \in U
    BY <1>4, <2>8, <2>11
  <2>18. PICK e \in U : vm[Path(e)] = vm[v]
    <3>1. PICK e \in U : f[e] = vm[v]
      <4> HIDE DEF f, U
      <4> QED BY <2>16, <2>17 DEF Surjection
    <3> QED BY <3>1
  <2>19. Path(e) = v
    <3>1. Path(e) \in D /\ v \in D
      BY <1>4, <2>12
    <3> HIDE DEF D
    <3> QED BY <3>1, <2>18, <2>4 DEF Numbers
  <2>20. b.var_map[v] \in U
    BY <2>12, <2>19
  <2> QED BY <1>1, <1>4, <2>8, <2>20
<1> QED BY <1>2, <1>3, <1>4

-----------------------------------------------------------------------------
(***************************************************************************)
(* Every operation keeps values numbered.                                  *)
(***************************************************************************)
(* Induction up to n, over a set.                                          *)
LEMMA BoundedInduction ==
  ASSUME NEW n \in Nat, NEW S, 0 \in S, \A i \in 0 .. n - 1 : i \in S => i + 1 \in S
  PROVE  0 .. n \subseteq S
<1> DEFINE T == {i \in 0 .. n : i \notin S}
<1> SUFFICES ASSUME T # {} PROVE FALSE
  OBVIOUS
<1>1. \E i \in T : \A j \in T : ~ (<<j, i>> \in OpToRel(<, Nat))
  <2>1. T \subseteq Nat
    OBVIOUS
  <2> HIDE DEF T
  <2> QED BY <2>1, WFMin, NatLessThanWellFounded
<1>2. PICK i \in T : \A j \in T : ~ (<<j, i>> \in OpToRel(<, Nat))
  BY <1>1
<1>3. i \in Nat /\ i # 0 /\ i <= n
  OBVIOUS
<1>4. i - 1 \in 0 .. n - 1 /\ i - 1 < i /\ (i - 1) + 1 = i
  BY <1>3
<1>5. <<i - 1, i>> \in OpToRel(<, Nat)
  BY <1>3, <1>4 DEF OpToRel
<1>6. i - 1 \notin T
  <2> HIDE DEF T
  <2> QED BY <1>2, <1>5
<1>7. i - 1 \in S
  <2>1. i - 1 \in 0 .. n
    BY <1>3, <1>4
  <2> QED BY <1>6, <2>1
<1> QED BY <1>2, <1>4, <1>7

(* Both values say the same of every path.                                 *)
SayTheSame(a, b) ==
  /\ IsBottom(a) <=> IsBottom(b)
  /\ ~IsBottom(a) => \A v : ItvOf(a, v) = ItvOf(b, v)

LEMMA AddDimensionsIsGood ==
  ASSUME NEW b, GoodBox(b), NEW n \in Nat
  PROVE  GoodBox(AddDimensions(b, n))
<1>1. CASE n = 0
  BY <1>1 DEF AddDimensions
<1>2. CASE n # 0
  <2> DEFINE change == [k \in 1 .. n |-> b.int]
  <2>1. b.int \in Nat /\ b.real \in Nat
    BY GoodIs
  <2>2. IsSequence(change) /\ Len(change) = n
    <3>1. DOMAIN change = 1 .. n
      OBVIOUS
    <3> HIDE DEF change
    <3> QED BY <3>1, SequenceIs
  <2>3. \A k \in 1 .. n : change[k] = b.int
    OBVIOUS
  <2>4. AddDimensions(b, n) = BoxAddDimensions(b, change, n, FALSE)
    BY <1>2 DEF AddDimensions
  <2> HIDE DEF change
  <2>5. /\ \A k \in DOMAIN change : change[k] \in 0 .. (b.int + b.real)
        /\ \A k \in 1 .. n : change[k] <= b.int
        /\ n \in 0 .. Len(change)
    BY <2>1, <2>2, <2>3 DEF IsSequence
  <2>6. GoodBox(BoxAddDimensions(b, change, n, FALSE))
    BY <2>2, <2>5, AddIsGood
  <2> QED BY <2>4, <2>6
<1> QED BY <1>1, <1>2

(* b knows the paths of a, and its box is proper if that of a is.          *)
Grows(b, a) ==
  DOMAIN a.var_map \subseteq DOMAIN b.var_map /\ (GoodBox(a.box) => GoodBox(b.box))

(* A path that is new gets the next dimension.                             *)
LEMMA InsertIsGood ==
  ASSUME NEW a, Good(a), NEW v \in Paths
  PROVE  /\ Good(Insert(a, v)) /\ SayTheSame(Insert(a, v), a) /\ Grows(Insert(a, v), a)
         /\ v \in DOMAIN Insert(a, v).var_map
<1>1. CASE HasPath(a, v)
  BY <1>1 DEF Insert, HasPath, SayTheSame, Grows
<1>2. CASE ~HasPath(a, v)
  <2> DEFINE K == DOMAIN a.var_map
             N == Cardinality(K)
             vm == [u \in K \union {v} |-> IF HasPath(a, u) THEN a.var_map[u] ELSE N]
             w == AddDimensions(a.box, 1)
             D == K \union {v}
  <2>1. /\ Numbers(a.var_map, K) /\ a.box.int = N /\ a.box.real = 0
        /\ DOMAIN a.box.p = IF a.box.null THEN {} ELSE 0 .. N - 1
    BY GoodIsNumbering
  <2>2. v \notin K
    BY <1>2 DEF HasPath
  <2>3. IsFiniteSet(D) /\ Cardinality(D) = N + 1 /\ N \in Nat
    BY <2>1, <2>2, FS_AddElement DEF Numbers
  <2>4. DOMAIN vm = D /\ vm[v] = N /\ \A u \in K : vm[u] = a.var_map[u]
    BY <2>2 DEF HasPath
  <2> HIDE DEF vm
  <2>5. Numbers(vm, D)
    <3>1. D \subseteq Paths /\ Cardinality(D) \in Nat /\ 0 .. Cardinality(D) - 1 = 0 .. N
      BY <2>1, <2>3 DEF Numbers
    <3>2. \A u \in K : vm[u] \in 0 .. N - 1
      BY <2>1, <2>4 DEF Numbers
    <3>3. \A u \in D : vm[u] \in 0 .. N
      BY <2>3, <2>4, <3>2
    <3>4. \A t, u \in D : vm[t] = vm[u] => t = u
      <4> SUFFICES ASSUME NEW t \in D, NEW u \in D, vm[t] = vm[u] PROVE t = u
        OBVIOUS
      <4>1. CASE t \in K /\ u \in K
        BY <4>1, <2>1, <2>4 DEF Numbers
      <4>2. CASE t = v /\ u \in K
        BY <4>2, <2>3, <2>4, <3>2
      <4>3. CASE t \in K /\ u = v
        BY <4>3, <2>3, <2>4, <3>2
      <4> QED BY <4>1, <4>2, <4>3
    <3>5. \A k \in 0 .. N : \E u \in D : vm[u] = k
      <4> SUFFICES ASSUME NEW k \in 0 .. N PROVE \E u \in D : vm[u] = k
        OBVIOUS
      <4>1. CASE k = N
        BY <4>1, <2>4
      <4>2. CASE k # N
        <5>1. k \in 0 .. N - 1
          BY <4>2, <2>3
        <5>2. PICK u \in K : a.var_map[u] = k
          BY <5>1, <2>1 DEF Numbers
        <5> QED BY <5>2, <2>4
      <4> QED BY <4>1, <4>2
    <3> HIDE DEF D
    <3> QED BY <2>3, <2>4, <3>1, <3>3, <3>4, <3>5 DEF Numbers
  <2>6. IsWidened(w, a.box, 1)
    <3> HIDE DEF N
    <3> QED BY <2>1, <2>3, Widened
  <2>7. /\ (w.null <=> a.box.null) /\ w.int = Cardinality(D) /\ w.real = 0
        /\ DOMAIN w.p = IF w.null THEN {} ELSE 0 .. Cardinality(D) - 1
    BY <2>1, <2>3, <2>6 DEF IsWidened
  <2>8. Insert(a, v) = Value(vm, w)
    BY <1>2 DEF Insert, vm
  <2> HIDE DEF w, D
  <2>9. Good(Insert(a, v))
    BY <2>5, <2>7, <2>8, NumberingIsGood
  <2>10. Insert(a, v).var_map = vm /\ Insert(a, v).box = w
    BY <2>8 DEF Value
  <2>11. v \in DOMAIN vm
    BY <2>4 DEF D
  <2>12. ASSUME ~a.box.null, NEW u
         PROVE  ItvOf(Insert(a, v), u) = ItvOf(a, u)
    <3>1. \A d \in 0 .. N : w.p[d] = IF d < N THEN a.box.p[d] ELSE ItvTop
      BY <2>1, <2>3, <2>6, <2>12 DEF IsWidened
    <3>2. CASE u \in K
      <4>1. vm[u] = a.var_map[u] /\ vm[u] \in 0 .. N - 1
        BY <2>1, <2>4, <3>2 DEF Numbers
      <4>2. vm[u] \in 0 .. N /\ vm[u] < N
        BY <4>1, <2>3
      <4>3. w.p[vm[u]] = a.box.p[a.var_map[u]]
        BY <3>1, <4>1, <4>2
      <4> QED BY <2>4, <2>10, <3>2, <4>3 DEF ItvOf, HasPath, D
    <3>3. CASE u = v
      <4>1. w.p[vm[v]] = ItvTop
        BY <2>3, <2>4, <3>1
      <4> QED BY <2>2, <2>10, <2>11, <3>3, <4>1 DEF ItvOf, HasPath
    <3>4. CASE u \notin K /\ u # v
      BY <2>4, <2>10, <3>4 DEF ItvOf, HasPath, D
    <3> QED BY <3>2, <3>3, <3>4
  <2>13. SayTheSame(Insert(a, v), a)
    BY <2>7, <2>10, <2>12 DEF SayTheSame, IsBottom, BoxIsBottom
  <2>14. Grows(Insert(a, v), a)
    <3>1. GoodBox(a.box) => GoodBox(w)
      BY AddDimensionsIsGood DEF w
    <3>2. DOMAIN a.var_map \subseteq DOMAIN vm
      BY <2>4 DEF D
    <3> QED BY <3>1, <3>2, <2>10 DEF Grows
  <2> QED BY <2>9, <2>10, <2>11, <2>13, <2>14
<1> QED BY <1>1, <1>2

IsNames(names) == IsSequence(names) /\ \A k \in DOMAIN names : names[k] \in Paths

LEMMA InsertAllIsGood ==
  ASSUME NEW a, Good(a), NEW names, IsNames(names)
  PROVE  /\ Good(InsertAll(a, names)) /\ SayTheSame(InsertAll(a, names), a) /\ Grows(InsertAll(a, names), a)
         /\ \A k \in DOMAIN names : names[k] \in DOMAIN InsertAll(a, names).var_map
<1> DEFINE n == Len(names)
<1>0. n \in Nat /\ DOMAIN names = 1 .. n /\ \A k \in 1 .. n : names[k] \in Paths
  BY DEF IsNames, IsSequence
<1> DEFINE Step(s, k) == Insert(s, names[k])
           F(g) == [k \in 0 .. n |-> IF k = 0 THEN a ELSE Insert(g[k - 1], names[k])]
           known == CHOOSE g : g = F(g)
           P(m, g) == g = [k \in 0 .. m |-> g[k]] /\ g[0] = a /\ \A k \in 1 .. m : g[k] = Step(g[k - 1], k)
           S == {m \in 0 .. n : \E g : P(m, g)}
<1>1. \A g : \A k \in 1 .. n : F(g)[k] = Step(g[k - 1], k)
  OBVIOUS
<1>2. \A g : F(g)[0] = a /\ F(g) = [k \in 0 .. n |-> F(g)[k]]
  BY <1>0
<1> HIDE DEF Step, F
<1>3. 0 \in S
  <2> DEFINE g == [k \in 0 .. 0 |-> a]
  <2>1. P(0, g)
    OBVIOUS
  <2> HIDE DEF P
  <2> QED BY <1>0, <2>1
<1>4. ASSUME NEW m \in 0 .. n - 1, m \in S
      PROVE  m + 1 \in S
  <2>1. PICK g : P(m, g)
    BY <1>4
  <2> DEFINE h == [k \in 0 .. m + 1 |-> IF k = m + 1 THEN Step(g[m], m + 1) ELSE g[k]]
  <2>2. m \in Nat /\ m + 1 \in 0 .. n
    BY <1>0
  <2>3. h[0] = a /\ h = [k \in 0 .. m + 1 |-> h[k]]
    BY <2>1, <2>2
  <2>4. ASSUME NEW k \in 1 .. m + 1
        PROVE  h[k] = Step(h[k - 1], k)
    <3>1. k \in 0 .. m + 1 /\ k - 1 \in 0 .. m /\ k - 1 \in 0 .. m + 1 /\ k - 1 # m + 1
      BY <2>2
    <3>2. h[k - 1] = g[k - 1]
      BY <3>1
    <3>3. CASE k = m + 1
      BY <3>1, <3>2, <3>3, <2>2
    <3>4. CASE k # m + 1
      <4>1. k \in 1 .. m /\ h[k] = g[k]
        BY <3>1, <3>4, <2>2
      <4> HIDE DEF h
      <4> QED BY <2>1, <3>2, <4>1
    <3> QED BY <3>3, <3>4
  <2>5. P(m + 1, h)
    BY <2>3, <2>4
  <2> HIDE DEF P
  <2> QED BY <2>2, <2>5
<1>5. known = F(known)
  <2>1. n \in S
    <3> HIDE DEF S
    <3>1. 0 .. n \subseteq S
      BY <1>0, <1>3, <1>4, BoundedInduction
    <3> QED BY <1>0, <3>1
  <2>2. PICK g : P(n, g)
    BY <2>1
  <2>3. \A k \in 0 .. n : g[k] = F(g)[k]
    <3> SUFFICES ASSUME NEW k \in 0 .. n PROVE g[k] = F(g)[k]
      OBVIOUS
    <3>1. k = 0 \/ k \in 1 .. n
      BY <1>0
    <3> QED BY <2>2, <3>1, <1>1, <1>2
  <2>4. g = F(g)
    <3>1. g = [k \in 0 .. n |-> g[k]] /\ F(g) = [k \in 0 .. n |-> F(g)[k]]
      BY <2>2, <1>2
    <3> QED BY <2>3, <3>1
  <2> QED BY <2>4
<1> HIDE DEF known
<1>6. known[0] = a /\ \A k \in 1 .. n : known[k] = Step(known[k - 1], k)
  BY <1>1, <1>2, <1>5
<1> DEFINE Kept(k) == Good(known[k]) /\ SayTheSame(known[k], a) /\ Grows(known[k], a)
           Named(k) == \A j \in 1 .. k : names[j] \in DOMAIN known[k].var_map
           T == {k \in 0 .. n : Kept(k) /\ Named(k)}
<1>7. 0 \in T
  BY <1>0, <1>6 DEF SayTheSame, Grows
<1>8. ASSUME NEW k \in 0 .. n - 1, k \in T
      PROVE  k + 1 \in T
  <2>1. k + 1 \in 1 .. n /\ k + 1 \in 0 .. n /\ (k + 1) - 1 = k /\ Kept(k) /\ Named(k)
    BY <1>0, <1>8
  <2>2. known[k + 1] = Step(known[k], k + 1)
    BY <1>6, <2>1
  <2>3. known[k + 1] = Insert(known[k], names[k + 1])
    BY <2>2 DEF Step
  <2>4. names[k + 1] \in Paths
    BY <1>0, <2>1
  <2>5. /\ Good(known[k + 1]) /\ SayTheSame(known[k + 1], known[k]) /\ Grows(known[k + 1], known[k])
        /\ names[k + 1] \in DOMAIN known[k + 1].var_map
    BY <2>1, <2>3, <2>4, InsertIsGood
  <2>6. Kept(k + 1)
    BY <2>1, <2>5 DEF SayTheSame, Grows
  <2>7. Named(k + 1)
    <3> SUFFICES ASSUME NEW j \in 1 .. k + 1 PROVE names[j] \in DOMAIN known[k + 1].var_map
      OBVIOUS
    <3>1. CASE j = k + 1
      BY <3>1, <2>5
    <3>2. CASE j # k + 1
      <4>1. j \in 1 .. k
        BY <3>2, <1>0
      <4> QED BY <4>1, <2>1, <2>5 DEF Grows
    <3> QED BY <3>1, <3>2
  <2> HIDE DEF Kept, Named
  <2> QED BY <2>1, <2>6, <2>7
<1>9. Kept(n) /\ Named(n)
  <2> HIDE DEF T
  <2>1. 0 .. n \subseteq T
    BY <1>0, <1>7, <1>8, BoundedInduction
  <2>2. n \in T
    BY <1>0, <2>1
  <2> HIDE DEF Kept, Named
  <2> QED BY <2>2 DEF T
<1>10. InsertAll(a, names) = known[n]
  BY DEF InsertAll, known, F
<1> QED BY <1>0, <1>9, <1>10

LEMMA SortedKeysAreNames ==
  ASSUME NEW keys \in SUBSET Paths
  PROVE  /\ IsNames(SortedKeys(keys))
         /\ \A v \in keys : \E k \in DOMAIN SortedKeys(keys) : SortedKeys(keys)[k] = v
         /\ \A k \in DOMAIN SortedKeys(keys) : SortedKeys(keys)[k] \in keys
<1> DEFINE n == Cardinality(keys)
           key(k) == CHOOSE v \in keys : PlaceAmong(v, keys) = k - 1
<1>1. /\ n \in Nat
      /\ \A k \in 0 .. n - 1 : \E v \in keys : PlaceAmong(v, keys) = k
      /\ \A v \in keys : PlaceAmong(v, keys) \in 0 .. n - 1
      /\ \A u, v \in keys : PlaceAmong(u, keys) = PlaceAmong(v, keys) => u = v
  BY PathsAreFinite, FS_Subset, KeysHavePlaces
<1>2. \A k \in 1 .. n : key(k) \in keys /\ key(k) \in Paths
  <2> SUFFICES ASSUME NEW k \in 1 .. n PROVE key(k) \in keys /\ key(k) \in Paths
    OBVIOUS
  <2>1. k - 1 \in 0 .. n - 1
    BY <1>1
  <2>2. \E v \in keys : PlaceAmong(v, keys) = k - 1
    BY <1>1, <2>1
  <2> QED BY <2>2
<1>3. ASSUME NEW v \in keys
      PROVE  \E k \in 1 .. n : key(k) = v
  <2> DEFINE k == PlaceAmong(v, keys) + 1
  <2>1. PlaceAmong(v, keys) \in 0 .. n - 1
    BY <1>1
  <2>2. k \in 1 .. n /\ k - 1 = PlaceAmong(v, keys)
    BY <1>1, <2>1
  <2>3. key(k) = v
    BY <1>1, <2>2
  <2> QED BY <2>2, <2>3
<1> HIDE DEF n, key
<1>4. SortedKeys(keys) = [k \in 1 .. n |-> key(k)]
  BY DEF SortedKeys, n, key
<1>5. IsSequence(SortedKeys(keys)) /\ DOMAIN SortedKeys(keys) = 1 .. n
  BY <1>1, <1>4, SequenceIs
<1>6. \A k \in 1 .. n : SortedKeys(keys)[k] = key(k)
  BY <1>4
<1>7. IsNames(SortedKeys(keys))
  BY <1>2, <1>5, <1>6 DEF IsNames
<1> QED BY <1>2, <1>3, <1>5, <1>6, <1>7

(* An expression, or a system, is about paths.                             *)
OverPaths(expr) ==
  IsSequence(expr) /\ \A i \in DOMAIN expr : expr[i].op = "DIM" => expr[i].dim \in Paths
SystemOverPaths(conds) ==
  IsSequence(conds) /\ \A i \in DOMAIN conds : DOMAIN conds[i].linear.terms \subseteq Paths

LEMMA AboutPaths ==
  /\ \A expr : IsTexpr(expr, Paths) => OverPaths(expr)
  /\ \A conds : IsSystem(conds) => SystemOverPaths(conds)
<1>1. ASSUME NEW expr, IsTexpr(expr, Paths)
      PROVE  OverPaths(expr)
  BY <1>1 DEF IsTexpr, IsNode, OverPaths
<1>2. ASSUME NEW conds, IsSystem(conds)
      PROVE  SystemOverPaths(conds)
  BY <1>2 DEF IsSystem, IsLinear, SystemOverPaths
<1> QED BY <1>1, <1>2

LEMMA MentionedAreNames ==
  ASSUME NEW expr, OverPaths(expr)
  PROVE  /\ IsNames(Mentioned(expr))
         /\ \A i \in DOMAIN expr : expr[i].op = "DIM" => \E k \in DOMAIN Mentioned(expr) : Mentioned(expr)[k] = expr[i].dim
<1> DEFINE at == {i \in DOMAIN expr : expr[i].op = "DIM"}
           n == Cardinality(at)
           name(k) == expr[Nth(k - 1, at)].dim
<1>1. at \in SUBSET Int /\ IsFiniteSet(at) /\ \A i \in at : expr[i].dim \in Paths
  <2>1. at \in SUBSET (1 .. Len(expr)) /\ Len(expr) \in Nat
    <3>1. DOMAIN expr = 1 .. Len(expr) /\ Len(expr) \in Nat
      BY DEF OverPaths, IsSequence
    <3>2. at \subseteq DOMAIN expr
      BY ONLY DEF at
    <3> HIDE DEF at
    <3> QED BY ONLY <3>1, <3>2
  <2>2. IsFiniteSet(1 .. Len(expr))
    BY <2>1, FS_Interval
  <2>3. \A i \in at : expr[i].dim \in Paths
    BY DEF OverPaths
  <2> HIDE DEF at
  <2>4. IsFiniteSet(at)
    BY <2>1, <2>2, FS_Subset
  <2>5. 1 .. Len(expr) \subseteq Int
    BY <2>1
  <2> QED BY <2>1, <2>3, <2>4, <2>5
<1> HIDE DEF at
<1>2. /\ n \in Nat /\ \A k \in 0 .. n - 1 : Nth(k, at) \in at
      /\ \A i \in at : Rank(i, at) \in 0 .. n - 1 /\ Nth(Rank(i, at), at) = i
  BY <1>1, RankAndNth
<1>3. \A k \in 1 .. n : name(k) \in Paths
  <2> SUFFICES ASSUME NEW k \in 1 .. n PROVE name(k) \in Paths
    OBVIOUS
  <2>1. k - 1 \in 0 .. n - 1
    BY <1>2
  <2> QED BY <1>1, <1>2, <2>1
<1>4. ASSUME NEW i \in at
      PROVE  \E k \in 1 .. n : name(k) = expr[i].dim
  <2> DEFINE k == Rank(i, at) + 1
  <2>1. k \in 1 .. n /\ k - 1 = Rank(i, at)
    BY <1>2
  <2>2. Nth(k - 1, at) = i
    BY <2>1, <1>2
  <2> QED BY <2>1, <2>2
<1>5. Mentioned(expr) = [k \in 1 .. n |-> name(k)]
  BY DEF Mentioned, at
<1> HIDE DEF n, name
<1>6. IsSequence(Mentioned(expr)) /\ DOMAIN Mentioned(expr) = 1 .. n
  BY <1>2, <1>5, SequenceIs
<1>7. \A i \in DOMAIN expr : expr[i].op = "DIM" => i \in at
  BY DEF at
<1> QED BY <1>3, <1>4, <1>5, <1>6, <1>7 DEF IsNames

(* A box of n dimensions, all of them integer.                             *)
HasDims(b, n) ==
  b.int = n /\ b.real = 0 /\ DOMAIN b.p = IF b.null THEN {} ELSE 0 .. n - 1

LEMMA GoodMeans ==
  ASSUME NEW a, Good(a)
  PROVE  /\ Numbers(a.var_map, DOMAIN a.var_map)
         /\ HasDims(a.box, Cardinality(DOMAIN a.var_map))
BY GoodIsNumbering DEF HasDims

LEMMA GoodIsMade ==
  ASSUME NEW vm, NEW D, Numbers(vm, D), NEW b, HasDims(b, Cardinality(D))
  PROVE  Good(Value(vm, b)) /\ (IsBottom(Value(vm, b)) <=> b.null)
<1>1. Good(Value(vm, b))
  BY NumberingIsGood DEF HasDims
<1> QED BY <1>1 DEF Value, IsBottom, BoxIsBottom

LEMMA GoodBoxes ==
  ASSUME NEW n \in Nat, NEW b, HasDims(b, n)
  PROVE  /\ Dims(b) = 0 .. n - 1
         /\ \A p : DOMAIN p = 0 .. n - 1 => HasDims(With(b, p), n) /\ ~With(b, p).null
         /\ HasDims(SetBottom(b), n)
<1>1. Dims(b) = 0 .. n - 1
  BY DEF HasDims, Dims
<1>2. ASSUME NEW p, DOMAIN p = 0 .. n - 1
      PROVE  HasDims(With(b, p), n) /\ ~With(b, p).null
  BY <1>2 DEF HasDims, With, Box
<1>3. HasDims(SetBottom(b), n)
  BY DEF HasDims, SetBottom, BoxBottom
<1> QED BY <1>1, <1>2, <1>3

-----------------------------------------------------------------------------
(* Assignments.                                                            *)
LEMMA BoxAssignIsGood ==
  ASSUME NEW n \in Nat, NEW b, HasDims(b, n), ~b.null, NEW dims, Len(dims) = 1, NEW exprs,
         NEW r, r = BoxAssignTexpr(b, dims, exprs)
  PROVE  HasDims(r, n) /\ ~r.null /\ \A c \in 0 .. n - 1 : c # dims[1] => r.p[c] = b.p[c]
<1> DEFINE q == [b.p EXCEPT ![dims[1]] = EvalTexpr(exprs[1], b.p)]
           F(g) == [k \in 0 .. Len(dims) |->
                      IF k = 0 THEN b.p
                      ELSE [g[k - 1] EXCEPT ![dims[k]] = EvalTexpr(exprs[k], b.p)]]
           step == CHOOSE g : g = F(g)
<1>1. DOMAIN q = 0 .. n - 1 /\ \A c \in 0 .. n - 1 : c # dims[1] => q[c] = b.p[c]
  BY DEF HasDims
<1>2. step = F(step)
  <2> DEFINE g == [k \in 0 .. 1 |-> IF k = 0 THEN b.p ELSE q]
  <2>1. ASSUME NEW k \in 0 .. 1
        PROVE  g[k] = IF k = 0 THEN b.p
                      ELSE [g[k - 1] EXCEPT ![dims[k]] = EvalTexpr(exprs[k], b.p)]
    <3>1. k = 0 \/ k = 1
      OBVIOUS
    <3> QED BY <3>1
  <2>2. g = F(g)
    <3>1. F(g) = [k \in 0 .. 1 |->
                    IF k = 0 THEN b.p
                    ELSE [g[k - 1] EXCEPT ![dims[k]] = EvalTexpr(exprs[k], b.p)]]
      OBVIOUS
    <3> QED BY <2>1, <3>1
  <2> QED BY <2>2
<1> HIDE DEF step
<1>3. step[0] = b.p /\ step[1] = q
  <2>1. step[0] = b.p
    BY <1>2
  <2>2. step[1] = [step[0] EXCEPT ![dims[1]] = EvalTexpr(exprs[1], b.p)]
    BY <1>2
  <2> QED BY <2>1, <2>2
<1>4. BoxAssignTexpr(b, dims, exprs) = With(b, step[1])
  BY DEF BoxAssignTexpr, step
<1> HIDE DEF q
<1>5. BoxAssignTexpr(b, dims, exprs).p = q
  BY <1>3, <1>4 DEF With, Box
<1> QED BY <1>1, <1>3, <1>4, <1>5, GoodBoxes

(* Other paths keep what is known of them.                                 *)
OthersSay(b, a, out) == ~IsBottom(a) => \A v : v \notin out => ItvOf(b, v) = ItvOf(a, v)

LEMMA AssignIsNumbered ==
  ASSUME NEW a, Good(a), NEW x \in Paths, NEW expr, OverPaths(expr)
  PROVE  /\ Good(Assign(a, x, expr)) /\ (IsBottom(Assign(a, x, expr)) <=> IsBottom(a))
         /\ OthersSay(Assign(a, x, expr), a, {x})
<1>1. CASE IsBottom(a)
  BY <1>1 DEF Assign, OthersSay
<1>2. CASE ~IsBottom(a)
  <2> DEFINE all == InsertAll(a, Mentioned(expr))
             known == Insert(all, x)
             vm == known.var_map
             D == DOMAIN vm
             b == BoxAssignTexpr(known.box, <<vm[x]>>, <<OnDims(expr, vm)>>)
  <2>1. Good(all) /\ SayTheSame(all, a)
    BY MentionedAreNames, InsertAllIsGood
  <2> HIDE DEF all
  <2>2. /\ Good(known) /\ ~IsBottom(known) /\ x \in DOMAIN known.var_map
        /\ \A v : ItvOf(known, v) = ItvOf(a, v)
    BY <1>2, <2>1, InsertIsGood DEF SayTheSame
  <2> HIDE DEF known
  <2>3. Numbers(vm, D) /\ HasDims(known.box, Cardinality(D)) /\ ~known.box.null
    BY <2>2, GoodMeans DEF IsBottom, BoxIsBottom
  <2>4. Cardinality(D) \in Nat
    BY <2>3 DEF Numbers
  <2>5. /\ HasDims(b, Cardinality(D)) /\ ~b.null
        /\ \A c \in 0 .. Cardinality(D) - 1 : c # vm[x] => b.p[c] = known.box.p[c]
    <3> DEFINE w == known.box
               dims == <<vm[x]>>
               exprs == <<OnDims(expr, vm)>>
               n == Cardinality(D)
    <3>1. n \in Nat /\ HasDims(w, n) /\ ~w.null /\ b = BoxAssignTexpr(w, dims, exprs)
      BY <2>3, <2>4
    <3>2. Len(dims) = 1 /\ dims[1] = vm[x]
      OBVIOUS
    <3> HIDE DEF b, dims, exprs, n, w
    <3>3. HasDims(b, n) /\ ~b.null /\ \A c \in 0 .. n - 1 : c # dims[1] => b.p[c] = w.p[c]
      BY <3>1, <3>2, BoxAssignIsGood
    <3> QED BY <3>2, <3>3 DEF n, w
  <2>6. Assign(a, x, expr) = Value(vm, b)
    BY <1>2 DEF Assign, Known, known, all
  <2> HIDE DEF b
  <2>7. ASSUME NEW v, v # x
        PROVE  ItvOf(Value(vm, b), v) = ItvOf(a, v)
    <3>1. Value(vm, b).var_map = vm /\ Value(vm, b).box = b
      BY DEF Value
    <3>2. CASE v \in D
      <4>1. vm[v] \in 0 .. Cardinality(D) - 1 /\ vm[v] # vm[x]
        BY <2>2, <2>3, <2>7, <3>2 DEF Numbers
      <4>2. b.p[vm[v]] = known.box.p[vm[v]]
        BY <2>5, <4>1
      <4> QED BY <2>2, <3>1, <3>2, <4>2 DEF ItvOf, HasPath
    <3>3. CASE v \notin D
      BY <2>2, <3>1, <3>3 DEF ItvOf, HasPath
    <3> QED BY <3>2, <3>3
  <2> HIDE DEF vm, D
  <2>8. OthersSay(Assign(a, x, expr), a, {x})
    BY <2>6, <2>7 DEF OthersSay
  <2> QED BY <1>2, <2>3, <2>5, <2>6, <2>8, GoodIsMade
<1> QED BY <1>1, <1>2

-----------------------------------------------------------------------------
(* Paths that are forgotten.                                               *)
LEMMA RenumberedNumbers ==
  ASSUME NEW vm, NEW K, Numbers(vm, K), NEW var \in K
  PROVE  /\ Numbers(Renumbered(vm, var), K \ {var})
         /\ Cardinality(K \ {var}) = Cardinality(K) - 1
<1> DEFINE left == K \ {var}
<1>1. /\ IsFiniteSet(left) /\ Cardinality(left) = Cardinality(K) - 1
  BY FS_RemoveElement DEF Numbers
<1>2. (\A v \in left : vm[v] \in Int) /\ \A u, v \in left : vm[u] = vm[v] => u = v
  BY DEF Numbers
<1>3. /\ DOMAIN Renumbered(vm, var) = left
      /\ \A v \in left : Renumbered(vm, var)[v] = Cardinality(Below(v, left, vm))
  BY DEF Renumbered, Below, Numbers
<1>4. left \subseteq Paths
  BY DEF Numbers
<1>5. /\ Cardinality(left) \in Nat
      /\ \A v \in left : Cardinality(Below(v, left, vm)) \in 0 .. Cardinality(left) - 1
      /\ \A u, v \in left : Cardinality(Below(u, left, vm)) = Cardinality(Below(v, left, vm)) => u = v
      /\ \A k \in 0 .. Cardinality(left) - 1 : \E v \in left : Cardinality(Below(v, left, vm)) = k
  <2> HIDE DEF left
  <2> QED BY <1>1, <1>2, PlacesAreOneToOne
<1> HIDE DEF left
<1>6. Numbers(Renumbered(vm, var), left)
  BY <1>1, <1>3, <1>4, <1>5 DEF Numbers
<1> QED BY <1>1, <1>6 DEF left

LEMMA RemoveHasDims ==
  ASSUME NEW n \in Nat, NEW b, HasDims(b, n), ~b.null, NEW d \in 0 .. n - 1
  PROVE  LET r == BoxRemoveDimensions(b, <<d>>, 1)
             stay == (0 .. n - 1) \ {d}
         IN /\ HasDims(r, n - 1) /\ ~r.null
            /\ \A c \in stay : r.p[Rank(c, stay)] = b.p[c]
<1> DEFINE stay == Dims(b) \ ToSet(<<d>>)
           p == [e \in 0 .. (Cardinality(stay) - 1) |-> b.p[Nth(e, stay)]]
<1>1. Len(<<d>>) = 1 /\ ToSet(<<d>>) = {d}
  BY DEF ToSet
<1>2. Dims(b) = 0 .. n - 1
  BY GoodBoxes
<1>3. Cardinality(stay) = n - 1
  <2>1. IsFiniteSet(0 .. n - 1) /\ Cardinality(0 .. n - 1) = n
    BY FS_Interval
  <2>2. stay = (0 .. n - 1) \ {d}
    BY <1>1, <1>2
  <2> QED BY <2>1, <2>2, FS_RemoveElement
<1>4. BoxRemoveDimensions(b, <<d>>, 1) = Box(b.int - 1, b.real - (Len(<<d>>) - 1), p)
  BY DEF BoxRemoveDimensions
<1>5. BoxRemoveDimensions(b, <<d>>, 1) = Box(n - 1, 0, p)
  BY <1>1, <1>4 DEF HasDims
<1>6. DOMAIN p = 0 .. (n - 1) - 1
  BY <1>3
<1>7. stay = (0 .. n - 1) \ {d} /\ stay \in SUBSET Int /\ IsFiniteSet(stay)
  <2>1. stay = (0 .. n - 1) \ {d}
    BY <1>1, <1>2
  <2>2. IsFiniteSet(0 .. n - 1)
    BY FS_Interval
  <2>3. IsFiniteSet((0 .. n - 1) \ {d})
    BY <2>2, FS_Subset
  <2>4. (0 .. n - 1) \ {d} \in SUBSET Int
    OBVIOUS
  <2> HIDE DEF stay
  <2> QED BY <2>1, <2>3, <2>4
<1>8. ASSUME NEW c \in stay
      PROVE  p[Rank(c, stay)] = b.p[c]
  <2> HIDE DEF stay
  <2>1. Rank(c, stay) \in 0 .. Cardinality(stay) - 1 /\ Nth(Rank(c, stay), stay) = c
    BY <1>7, RankAndNth
  <2> QED BY <2>1
<1> DEFINE r == BoxRemoveDimensions(b, <<d>>, 1)
<1> HIDE DEF p, stay
<1>9. ~r.null /\ r.int = n - 1 /\ r.real = 0 /\ r.p = p
  BY <1>5 DEF Box
<1> HIDE DEF r
<1>10. HasDims(r, n - 1) /\ \A c \in stay : r.p[Rank(c, stay)] = b.p[c]
  BY <1>6, <1>8, <1>9 DEF HasDims
<1>11. stay = (0 .. n - 1) \ {d}
  BY <1>7
<1> QED BY <1>9, <1>10, <1>11 DEF r

(* The place of a path among those that are left is that of its dimension. *)
LEMMA RenumberedPlace ==
  ASSUME NEW vm, NEW K, Numbers(vm, K), NEW var \in K, NEW v \in K, v # var,
         NEW stay, stay = (0 .. Cardinality(K) - 1) \ {vm[var]}
  PROVE  vm[v] \in stay /\ Renumbered(vm, var)[v] = Rank(vm[v], stay)
<1> DEFINE left == K \ {var}
           U == {u \in left : vm[u] < vm[v]}
           R == {j \in stay : j < vm[v]}
           f == [u \in U |-> vm[u]]
<1>1. \A u \in left : vm[u] \in stay
  BY DEF Numbers
<1>2. \A j \in stay : \E u \in left : vm[u] = j
  BY DEF Numbers
<1>3. f \in Surjection(U, R)
  <2>1. f \in [U -> R]
    BY <1>1
  <2>2. \A j \in R : \E u \in U : f[u] = j
    BY <1>2
  <2> HIDE DEF f, U, R
  <2> QED BY <2>1, <2>2 DEF Surjection
<1>4. f \in Injection(U, R)
  <2>1. f \in [U -> R]
    BY <1>1
  <2>2. \A s, t \in U : f[s] = f[t] => s = t
    BY DEF Numbers
  <2> HIDE DEF f, U, R
  <2> QED BY <2>1, <2>2 DEF Injection, IsInjective
<1>5. IsFiniteSet(U)
  BY FS_Subset DEF Numbers
<1>6. Cardinality(U) = Cardinality(R)
  <2> HIDE DEF f, U, R
  <2> QED BY <1>3, <1>4, <1>5, FS_Surjection
<1>7. Renumbered(vm, var)[v] = Cardinality(U)
  BY DEF Renumbered, Numbers
<1>8. Rank(vm[v], stay) = Cardinality(R)
  BY DEF Rank
<1> HIDE DEF U, R
<1> QED BY <1>1, <1>6, <1>7, <1>8

LEMMA ForgetIsNumbered ==
  ASSUME NEW a, Good(a), NEW var
  PROVE  /\ Good(Forget(a, var))
         /\ ~IsBottom(a) => ~IsBottom(Forget(a, var))
         /\ OthersSay(Forget(a, var), a, {var})
<1>1. CASE ~HasPath(a, var)
  BY <1>1 DEF Forget, OthersSay
<1>2. CASE HasPath(a, var)
  <2> DEFINE vm == a.var_map
             K == DOMAIN vm
             dim == vm[var]
             left == K \ {var}
             f == BoxForget(a.box, {dim}, FALSE)
             r == BoxRemoveDimensions(f, <<dim>>, 1)
  <2>1. Numbers(vm, K) /\ HasDims(a.box, Cardinality(K))
    BY GoodMeans
  <2>2. var \in K
    BY <1>2 DEF HasPath
  <2>3. Cardinality(K) \in Nat /\ dim \in 0 .. Cardinality(K) - 1
    BY <2>1, <2>2 DEF Numbers
  <2>4. Numbers(Renumbered(vm, var), left) /\ Cardinality(left) = Cardinality(K) - 1
    <3> HIDE DEF vm, K
    <3> QED BY <2>1, <2>2, RenumberedNumbers
  <2>5. Forget(a, var) = Value(Renumbered(vm, var), r)
    BY <1>2 DEF Forget
  <2> HIDE DEF vm, K
  <2> DEFINE stay == (0 .. Cardinality(K) - 1) \ {dim}
  <2>6. /\ HasDims(r, Cardinality(left)) /\ (r.null <=> a.box.null)
        /\ ~a.box.null => \A c \in stay : r.p[Rank(c, stay)] = a.box.p[c]
    <3>1. CASE a.box.null
      <4>1. f = a.box
        BY <3>1 DEF BoxForget
      <4>2. r = BoxBottom(Cardinality(K) - 1, 0 - (Len(<<dim>>) - 1))
        BY <3>1, <4>1, <2>1 DEF BoxRemoveDimensions, HasDims
      <4> HIDE DEF r, left, dim
      <4>3. Len(<<dim>>) = 1
        OBVIOUS
      <4>4. r = BoxBottom(Cardinality(left), 0)
        BY <4>2, <4>3, <2>4
      <4> HIDE DEF r
      <4> QED BY <3>1, <4>4 DEF HasDims, BoxBottom
    <3>2. CASE ~a.box.null
      <4>1. /\ HasDims(f, Cardinality(K)) /\ ~f.null
            /\ \A d \in 0 .. Cardinality(K) - 1 : d # dim => f.p[d] = a.box.p[d]
        <5> DEFINE q == [d \in Dims(a.box) |-> IF d \notin {dim} THEN a.box.p[d]
                                               ELSE IF FALSE THEN ItvInt(0) ELSE ItvTop]
        <5>1. f = With(a.box, q)
          BY <3>2 DEF BoxForget
        <5>2. /\ DOMAIN q = 0 .. Cardinality(K) - 1
              /\ \A d \in 0 .. Cardinality(K) - 1 : d # dim => q[d] = a.box.p[d]
          BY <2>1, <2>3, GoodBoxes
        <5> HIDE DEF q, f
        <5>3. f.p = q
          BY <5>1 DEF With, Box
        <5> QED BY <5>1, <5>2, <5>3, <2>1, <2>3, GoodBoxes
      <4> HIDE DEF f, dim
      <4>2. /\ HasDims(r, Cardinality(K) - 1) /\ ~r.null
            /\ \A c \in stay : r.p[Rank(c, stay)] = f.p[c]
        BY <4>1, <2>3, RemoveHasDims
      <4>3. \A c \in stay : f.p[c] = a.box.p[c]
        BY <4>1
      <4> HIDE DEF r, stay, left
      <4> QED BY <4>2, <4>3, <3>2, <2>4
    <3> QED BY <3>1, <3>2
  <2>7. ASSUME ~a.box.null, NEW v, v # var
        PROVE  ItvOf(Forget(a, var), v) = ItvOf(a, v)
    <3>1. Forget(a, var).var_map = Renumbered(vm, var) /\ Forget(a, var).box = r
      BY <2>5 DEF Value
    <3>2. DOMAIN Renumbered(vm, var) = left
      BY <2>4 DEF Numbers
    <3> HIDE DEF r
    <3>3. CASE v \in K
      <4>1. vm[v] \in stay /\ Renumbered(vm, var)[v] = Rank(vm[v], stay)
        <5> HIDE DEF K
        <5>1. stay = (0 .. Cardinality(K) - 1) \ {vm[var]}
          OBVIOUS
        <5> HIDE DEF stay
        <5> QED BY <2>1, <2>2, <2>7, <3>3, <5>1, RenumberedPlace
      <4>2. r.p[Renumbered(vm, var)[v]] = a.box.p[vm[v]]
        <5> HIDE DEF stay, K
        <5> QED BY <2>6, <2>7, <4>1
      <4>3. v \in left
        BY <2>7, <3>3
      <4> HIDE DEF left
      <4> QED BY <3>1, <3>2, <3>3, <4>2, <4>3 DEF ItvOf, HasPath, vm, K
    <3>4. CASE v \notin K
      BY <3>1, <3>2, <3>4 DEF ItvOf, HasPath, vm, K
    <3> QED BY <3>3, <3>4
  <2>8. OthersSay(Forget(a, var), a, {var})
    BY <2>7 DEF OthersSay, IsBottom, BoxIsBottom
  <2> HIDE DEF r, left
  <2> QED BY <2>4, <2>5, <2>6, <2>8, GoodIsMade DEF IsBottom, BoxIsBottom
<1> QED BY <1>1, <1>2

LEMMA RenameIsGood ==
  ASSUME NEW a, Good(a), NEW old \in Paths, NEW new \in Paths
  PROVE  Good(Rename(a, old, new)) /\ OthersSay(Rename(a, old, new), a, {old, new})
<1> DEFINE b == Assign(a, new, <<Dim(old)>>)
<1>1. OverPaths(<<Dim(old)>>)
  BY DEF OverPaths, IsSequence, Dim
<1>2. Good(b) /\ (IsBottom(b) <=> IsBottom(a)) /\ OthersSay(b, a, {new})
  BY <1>1, AssignIsNumbered
<1>3. Rename(a, old, new) = Forget(b, old)
  BY DEF Rename
<1> HIDE DEF b
<1>4. Good(Forget(b, old)) /\ OthersSay(Forget(b, old), b, {old})
  BY <1>2, ForgetIsNumbered
<1>5. OthersSay(Forget(b, old), a, {old, new})
  BY <1>2, <1>4 DEF OthersSay
<1> QED BY <1>3, <1>4, <1>5

-----------------------------------------------------------------------------
(* Constraints.                                                            *)
(* The paths of all constraints get a dimension.                           *)
AllKnown(a, conds) ==
  LET known[k \in 0 .. Len(conds)] ==
        IF k = 0 THEN a
        ELSE InsertAll(known[k - 1], SortedKeys(DOMAIN conds[k].linear.terms))
  IN known[Len(conds)]

LEMMA AllKnownIsGood ==
  ASSUME NEW a, Good(a), NEW conds, SystemOverPaths(conds)
  PROVE  /\ Good(AllKnown(a, conds)) /\ SayTheSame(AllKnown(a, conds), a) /\ Grows(AllKnown(a, conds), a)
         /\ \A k \in DOMAIN conds : DOMAIN conds[k].linear.terms \subseteq DOMAIN AllKnown(a, conds).var_map
<1> DEFINE n == Len(conds)
           Names(k) == SortedKeys(DOMAIN conds[k].linear.terms)
           Terms(k) == DOMAIN conds[k].linear.terms
<1>0. /\ n \in Nat /\ DOMAIN conds = 1 .. n
      /\ \A k \in 1 .. n : IsNames(Names(k)) /\ \A v \in Terms(k) : \E i \in DOMAIN Names(k) : Names(k)[i] = v
  <2>1. n \in Nat /\ DOMAIN conds = 1 .. n /\ \A k \in 1 .. n : Terms(k) \in SUBSET Paths
    BY DEF SystemOverPaths, IsSequence
  <2> QED BY <2>1, SortedKeysAreNames
<1> DEFINE Step(s, k) == InsertAll(s, Names(k))
           F(g) == [k \in 0 .. n |-> IF k = 0 THEN a ELSE InsertAll(g[k - 1], Names(k))]
           known == CHOOSE g : g = F(g)
           P(m, g) == g = [k \in 0 .. m |-> g[k]] /\ g[0] = a /\ \A k \in 1 .. m : g[k] = Step(g[k - 1], k)
           S == {m \in 0 .. n : \E g : P(m, g)}
<1>1. \A g : \A k \in 1 .. n : F(g)[k] = Step(g[k - 1], k)
  OBVIOUS
<1>2. \A g : F(g)[0] = a /\ F(g) = [k \in 0 .. n |-> F(g)[k]]
  BY <1>0
<1> HIDE DEF Step, F
<1>3. 0 \in S
  <2> DEFINE g == [k \in 0 .. 0 |-> a]
  <2>1. P(0, g)
    OBVIOUS
  <2> HIDE DEF P
  <2> QED BY <1>0, <2>1
<1>4. ASSUME NEW m \in 0 .. n - 1, m \in S
      PROVE  m + 1 \in S
  <2>1. PICK g : P(m, g)
    BY <1>4
  <2> DEFINE h == [k \in 0 .. m + 1 |-> IF k = m + 1 THEN Step(g[m], m + 1) ELSE g[k]]
  <2>2. m \in Nat /\ m + 1 \in 0 .. n
    BY <1>0
  <2>3. h[0] = a /\ h = [k \in 0 .. m + 1 |-> h[k]]
    BY <2>1, <2>2
  <2>4. ASSUME NEW k \in 1 .. m + 1
        PROVE  h[k] = Step(h[k - 1], k)
    <3>1. k \in 0 .. m + 1 /\ k - 1 \in 0 .. m /\ k - 1 \in 0 .. m + 1 /\ k - 1 # m + 1
      BY <2>2
    <3>2. h[k - 1] = g[k - 1]
      BY <3>1
    <3>3. CASE k = m + 1
      BY <3>1, <3>2, <3>3, <2>2
    <3>4. CASE k # m + 1
      <4>1. k \in 1 .. m /\ h[k] = g[k]
        BY <3>1, <3>4, <2>2
      <4> HIDE DEF h
      <4> QED BY <2>1, <3>2, <4>1
    <3> QED BY <3>3, <3>4
  <2>5. P(m + 1, h)
    BY <2>3, <2>4
  <2> HIDE DEF P
  <2> QED BY <2>2, <2>5
<1>5. known = F(known)
  <2>1. n \in S
    <3> HIDE DEF S
    <3>1. 0 .. n \subseteq S
      BY <1>0, <1>3, <1>4, BoundedInduction
    <3> QED BY <1>0, <3>1
  <2>2. PICK g : P(n, g)
    BY <2>1
  <2>3. \A k \in 0 .. n : g[k] = F(g)[k]
    <3> SUFFICES ASSUME NEW k \in 0 .. n PROVE g[k] = F(g)[k]
      OBVIOUS
    <3>1. k = 0 \/ k \in 1 .. n
      BY <1>0
    <3> QED BY <2>2, <3>1, <1>1, <1>2
  <2>4. g = F(g)
    <3>1. g = [k \in 0 .. n |-> g[k]] /\ F(g) = [k \in 0 .. n |-> F(g)[k]]
      BY <2>2, <1>2
    <3> QED BY <2>3, <3>1
  <2> QED BY <2>4
<1> HIDE DEF known
<1>6. known[0] = a /\ \A k \in 1 .. n : known[k] = Step(known[k - 1], k)
  BY <1>1, <1>2, <1>5
<1> DEFINE Kept(k) == Good(known[k]) /\ SayTheSame(known[k], a) /\ Grows(known[k], a)
           Named(k) == \A j \in 1 .. k : Terms(j) \subseteq DOMAIN known[k].var_map
           T == {k \in 0 .. n : Kept(k) /\ Named(k)}
<1>7. 0 \in T
  BY <1>0, <1>6 DEF SayTheSame, Grows
<1>8. ASSUME NEW k \in 0 .. n - 1, k \in T
      PROVE  k + 1 \in T
  <2>1. k + 1 \in 1 .. n /\ k + 1 \in 0 .. n /\ (k + 1) - 1 = k /\ Kept(k) /\ Named(k)
    BY <1>0, <1>8
  <2>2. known[k + 1] = Step(known[k], k + 1)
    BY <1>6, <2>1
  <2>3. known[k + 1] = InsertAll(known[k], Names(k + 1))
    BY <2>2 DEF Step
  <2>4. /\ IsNames(Names(k + 1))
        /\ \A v \in Terms(k + 1) : \E i \in DOMAIN Names(k + 1) : Names(k + 1)[i] = v
    BY <1>0, <2>1
  <2> HIDE DEF Names, Terms
  <2>5. /\ Good(known[k + 1]) /\ SayTheSame(known[k + 1], known[k]) /\ Grows(known[k + 1], known[k])
        /\ \A i \in DOMAIN Names(k + 1) : Names(k + 1)[i] \in DOMAIN known[k + 1].var_map
    BY <2>1, <2>3, <2>4, InsertAllIsGood
  <2>6. Kept(k + 1)
    BY <2>1, <2>5 DEF SayTheSame, Grows
  <2>7. Named(k + 1)
    <3> SUFFICES ASSUME NEW j \in 1 .. k + 1 PROVE Terms(j) \subseteq DOMAIN known[k + 1].var_map
      OBVIOUS
    <3>1. CASE j = k + 1
      BY <3>1, <2>4, <2>5
    <3>2. CASE j # k + 1
      <4>1. j \in 1 .. k
        BY <3>2, <1>0
      <4> QED BY <4>1, <2>1, <2>5 DEF Grows
    <3> QED BY <3>1, <3>2
  <2> HIDE DEF Kept, Named
  <2> QED BY <2>1, <2>6, <2>7
<1>9. Kept(n) /\ Named(n)
  <2> HIDE DEF T
  <2>1. 0 .. n \subseteq T
    BY <1>0, <1>7, <1>8, BoundedInduction
  <2>2. n \in T
    BY <1>0, <2>1
  <2> HIDE DEF Kept, Named
  <2> QED BY <2>2 DEF T
<1>10. AllKnown(a, conds) = known[n]
  BY DEF AllKnown, known, F
<1> QED BY <1>0, <1>9, <1>10

LEMMA BottomIsGood == Good(Bottom) /\ IsBottom(Bottom)
<1> DEFINE b == BoxBottom(0, 0)
<1>1. Cardinality({}) = 0 /\ IsFiniteSet({})
  BY FS_EmptySet
<1>2. Numbers(<< >>, {})
  <2>1. DOMAIN << >> = {} /\ 0 .. 0 - 1 = {}
    OBVIOUS
  <2> QED BY <1>1, <2>1 DEF Numbers
<1>3. HasDims(b, Cardinality({})) /\ b.null
  <2>1. DOMAIN << >> = {}
    OBVIOUS
  <2> QED BY <1>1, <2>1 DEF HasDims, BoxBottom
<1> HIDE DEF b
<1> QED BY <1>2, <1>3, GoodIsMade DEF Bottom, b

LEMMA MeetTconsHasDims ==
  ASSUME NEW n \in Nat, NEW b, HasDims(b, n), NEW tcons
  PROVE  HasDims(BoxMeetTcons(b, tcons), n)
<1>1. CASE b.null
  BY <1>1 DEF BoxMeetTcons
<1>2. CASE ~b.null
  <2> DEFINE cons == LinearizeArray(tcons, b.p, b.int)
             reduced == ReduceArray([i \in DOMAIN cons |-> ReduceInteger(cons[i], b.int)])
             boxized == Boxize(reduced, b.p, b.int)
             q == [d \in Dims(b) |-> boxized.p[d]]
             r == BoxMeetTcons(b, tcons)
  <2>1. r = SetBottom(b) \/ r = With(b, q)
    <3>1. r = BoxMeetLincons(b, cons)
      BY <1>2 DEF BoxMeetTcons
    <3> HIDE DEF r, cons
    <3> QED BY <1>2, <3>1 DEF BoxMeetLincons
  <2>2. DOMAIN q = 0 .. n - 1
    BY GoodBoxes
  <2> HIDE DEF q, r
  <2>3. HasDims(r, n)
    BY <2>1, <2>2, GoodBoxes
  <2> QED BY <2>3 DEF r
<1> QED BY <1>1, <1>2

LEMMA AddConstraintsIsGood ==
  ASSUME NEW a, Good(a), NEW conds, SystemOverPaths(conds)
  PROVE  Good(AddConstraints(a, conds))
<1> DEFINE all == AllKnown(a, conds)
           D == DOMAIN all.var_map
           onDims == [i \in DOMAIN conds |->
                        LET c == ToTcons(conds[i])
                        IN [typ |-> c.typ, expr |-> OnDims(c.expr, all.var_map)]]
           b == BoxMeetTcons(all.box, onDims)
<1>1. \/ AddConstraints(a, conds) = a
      \/ AddConstraints(a, conds) = Bottom
      \/ AddConstraints(a, conds) = Value(all.var_map, b)
  BY DEF AddConstraints, AllKnown
<1>2. Good(all)
  BY AllKnownIsGood
<1> HIDE DEF all, onDims
<1>3. Numbers(all.var_map, D) /\ HasDims(all.box, Cardinality(D))
  BY <1>2, GoodMeans
<1>4. HasDims(b, Cardinality(D))
  BY <1>3, MeetTconsHasDims DEF Numbers
<1> HIDE DEF b, D
<1>5. Good(Value(all.var_map, b))
  BY <1>3, <1>4, GoodIsMade
<1> QED BY <1>1, <1>5, BottomIsGood

(* The bounds of an interval mention its path only.                        *)
LEMMA BoundsAreSystem ==
  ASSUME NEW v \in Paths, NEW i
  PROVE  SystemOverPaths(Bounds(v, i))
<1> DEFINE LessEq(cst, n) == [kind |-> "LessEq", linear |-> Linear(cst, [u \in {v} |-> n])]
           c == LessEq(-i.inf[1], -1)
           d == LessEq(-i.sup[1], 1)
           low == IF IsInfty(i.inf) THEN << >> ELSE <<c>>
           high == IF IsInfty(i.sup) THEN << >> ELSE <<d>>
<1>1. DOMAIN c.linear.terms = {v} /\ DOMAIN d.linear.terms = {v}
  BY DEF Linear
<1>2. Bounds(v, i) = low \o high
  BY DEF Bounds
<1> HIDE DEF c, d
<1>3. << >> \in Seq({c, d}) /\ <<c>> \in Seq({c, d}) /\ <<d>> \in Seq({c, d})
  OBVIOUS
<1>4. low \in Seq({c, d}) /\ high \in Seq({c, d})
  BY <1>3, Zenon
<1> HIDE DEF low, high
<1>5. Bounds(v, i) \in Seq({c, d})
  BY <1>2, <1>4
<1> QED BY <1>1, <1>5 DEF SystemOverPaths, IsSequence

LEMMA AssignBitsIsGood ==
  ASSUME NEW a, Good(a), NEW x \in Paths, NEW expr
  PROVE  Good(AssignBits(a, x, expr))
<1>1. CASE IsBottom(a)
  BY <1>1 DEF AssignBits
<1>2. CASE ~IsBottom(a)
  <2> DEFINE i == BitOp(expr[3].op, OperandOf(a, expr[1]), OperandOf(a, expr[2]))
  <2>1. AssignBits(a, x, expr) = AddConstraints(Forget(a, x), Bounds(x, i))
    BY <1>2 DEF AssignBits, SetInterval
  <2> HIDE DEF i
  <2>2. Good(Forget(a, x)) /\ SystemOverPaths(Bounds(x, i))
    BY ForgetIsNumbered, BoundsAreSystem
  <2> QED BY <2>1, <2>2, AddConstraintsIsGood
<1> QED BY <1>1, <1>2

-----------------------------------------------------------------------------
(* Two values, merged.                                                     *)
LEMMA MergeIsGood ==
  ASSUME NEW a, NEW b, Good(a), Good(b)
  PROVE  LET m == Merge(a, b)
             n == Cardinality(DOMAIN a.var_map \union DOMAIN b.var_map)
         IN /\ Numbers(m.var_map, DOMAIN a.var_map \union DOMAIN b.var_map)
            /\ HasDims(m.left, n) /\ HasDims(m.right, n) /\ n \in Nat
<1> DEFINE vm == MergedVarMap(a, b)
           D == DOMAIN a.var_map \union DOMAIN b.var_map
           l == MergedBox(a, vm)
           r == MergedBox(b, vm)
<1>1. Numbers(vm, D)
  BY MergedNumbers
<1>2. Merge(a, b).var_map = vm /\ Merge(a, b).left = l /\ Merge(a, b).right = r
  BY DEF Merge
<1> HIDE DEF vm
<1>3. DOMAIN a.var_map \subseteq D /\ DOMAIN b.var_map \subseteq D
  OBVIOUS
<1> HIDE DEF D
<1>4. IsPlaced(l, a, vm, D) /\ IsPlaced(r, b, vm, D)
  BY <1>1, <1>3, MergedBoxIsPlaced
<1>5. HasDims(l, Cardinality(D)) /\ HasDims(r, Cardinality(D))
  BY <1>4 DEF IsPlaced, HasDims
<1> HIDE DEF l, r
<1> QED BY <1>1, <1>2, <1>5 DEF D, Numbers

LEMMA BoxLatticeIsGood ==
  ASSUME NEW n \in Nat, NEW l, NEW r, HasDims(l, n), HasDims(r, n)
  PROVE  HasDims(BoxJoin(l, r), n) /\ HasDims(BoxMeet(l, r), n) /\ HasDims(BoxWidening(l, r), n)
<1> DEFINE join == [d \in Dims(l) |-> ItvJoin(l.p[d], r.p[d])]
           meet == [d \in Dims(l) |-> ItvMeet(l.p[d], r.p[d])]
           widening == [d \in Dims(l) |-> ItvWidening(l.p[d], r.p[d])]
<1>1. BoxJoin(l, r) = l \/ BoxJoin(l, r) = r \/ BoxJoin(l, r) = With(l, join)
  BY DEF BoxJoin
<1>2. BoxMeet(l, r) = SetBottom(l) \/ BoxMeet(l, r) = With(l, meet)
  BY DEF BoxMeet
<1>3. BoxWidening(l, r) = r \/ BoxWidening(l, r) = With(l, widening)
  BY DEF BoxWidening
<1>4. DOMAIN join = 0 .. n - 1 /\ DOMAIN meet = 0 .. n - 1 /\ DOMAIN widening = 0 .. n - 1
  BY GoodBoxes
<1> HIDE DEF join, meet, widening
<1>5. /\ HasDims(With(l, join), n) /\ HasDims(With(l, meet), n) /\ HasDims(With(l, widening), n)
      /\ HasDims(SetBottom(l), n)
  BY <1>4, GoodBoxes
<1> QED BY <1>1, <1>2, <1>3, <1>5

LEMMA LatticeIsGood ==
  ASSUME NEW a, NEW b, Good(a), Good(b)
  PROVE  Good(Join(a, b)) /\ Good(Meet(a, b)) /\ Good(Narrowing(a, b)) /\ Good(Widening(a, b))
<1> DEFINE m == Merge(a, b)
           D == DOMAIN a.var_map \union DOMAIN b.var_map
           n == Cardinality(D)
<1>1. Numbers(m.var_map, D) /\ HasDims(m.left, n) /\ HasDims(m.right, n) /\ n \in Nat
  BY MergeIsGood
<1> HIDE DEF m, D
<1>2. /\ HasDims(BoxJoin(m.left, m.right), n) /\ HasDims(BoxMeet(m.left, m.right), n)
      /\ HasDims(BoxWidening(m.left, m.right), n)
  <2> HIDE DEF n
  <2> QED BY <1>1, BoxLatticeIsGood
<1>3. /\ Good(Value(m.var_map, BoxJoin(m.left, m.right)))
      /\ Good(Value(m.var_map, BoxMeet(m.left, m.right)))
      /\ Good(Value(m.var_map, BoxWidening(m.left, m.right)))
  BY <1>1, <1>2, GoodIsMade
<1>4. Good(Join(a, b))
  BY <1>3 DEF Join, m
<1>5. Good(Meet(a, b))
  BY <1>3, BottomIsGood DEF Meet, m
<1>6. Good(Widening(a, b))
  BY <1>3 DEF Widening, m
<1> QED BY <1>4, <1>5, <1>6 DEF Narrowing

-----------------------------------------------------------------------------
(***************************************************************************)
(* Runs.                                                                   *)
(***************************************************************************)
BothGood == Good(state) /\ Good(saved)

LEMMA ResultIsGood ==
  ASSUME BothGood, NEW op \in Ops, Valid(op)
  PROVE  Good(Result(op))
<1> DEFINE path == CHOOSE v \in op.dims : TRUE
<1>1. Good(state) /\ Good(saved)
  BY DEF BothGood
<1>2. CASE op.do = "assign"
  <2>1. op.bits \in BOOLEAN /\ Target(op) \in Paths /\ (~op.bits => OverPaths(op.exprs[1]))
    BY <1>2, OpsAssumption, AboutPaths
  <2>2. Result(op) = IF op.bits THEN AssignBits(state, Target(op), op.exprs[1])
                     ELSE Assign(state, Target(op), op.exprs[1])
    BY <1>2 DEF Result
  <2>3. /\ Good(AssignBits(state, Target(op), op.exprs[1]))
        /\ ~op.bits => Good(Assign(state, Target(op), op.exprs[1]))
    BY <1>1, <2>1, AssignBitsIsGood, AssignIsNumbered
  <2>4. CASE op.bits
    BY <2>2, <2>3, <2>4
  <2>5. CASE ~op.bits
    BY <2>2, <2>3, <2>5
  <2> QED BY <2>4, <2>5
<1>3. CASE op.do = "meet_tcons"
  <2>1. SystemOverPaths(op.conds)
    BY <1>3, OpsAssumption, AboutPaths
  <2>2. Result(op) = AddConstraints(state, op.conds)
    BY <1>3 DEF Result
  <2> QED BY <1>1, <2>1, <2>2, AddConstraintsIsGood
<1>4. CASE op.do = "forget"
  <2>1. Result(op) = Forget(state, path)
    BY <1>4 DEF Result
  <2> QED BY <1>1, <2>1, ForgetIsNumbered
<1>5. CASE op.do = "rename"
  <2>1. op.dims # {} /\ op.dims \subseteq Paths /\ Target(op) \in Paths
    BY <1>5, OpsAssumption
  <2>2. path \in Paths
    BY <2>1
  <2>3. Result(op) = Rename(state, path, Target(op))
    BY <1>5 DEF Result
  <2> QED BY <1>1, <2>1, <2>2, <2>3, RenameIsGood
<1>6. CASE op.do \in {"join", "meet", "narrowing", "widening"}
  <2>1. \/ Result(op) = Join(state, saved) \/ Result(op) = Meet(state, saved)
        \/ Result(op) = Narrowing(state, saved) \/ Result(op) = Widening(state, saved)
    BY <1>6 DEF Result
  <2> QED BY <1>1, <2>1, LatticeIsGood
<1> QED BY <1>2, <1>3, <1>4, <1>5, <1>6, OpsAssumption

LEMMA GoodIsNumbered == BothGood => Numbered
BY DEF BothGood, Good, Numbered

LEMMA StepKeepsGood == BothGood /\ [Next]_vars => BothGood'
<1> SUFFICES ASSUME BothGood, [Next]_vars PROVE BothGood'
  OBVIOUS
<1>1. ASSUME NEW op \in Ops, Call(op)
      PROVE  BothGood'
  BY <1>1, ResultIsGood DEF Call, BothGood
<1>2. CASE Save
  BY <1>2 DEF Save, BothGood
<1>3. CASE UNCHANGED vars
  BY <1>3 DEF vars, BothGood
<1> QED BY <1>1, <1>2, <1>3 DEF Next

(* Whatever operations are called, both values number their paths without  *)
(* gaps and without sharing, and their boxes have exactly these            *)
(* dimensions: what get_var_dim_insert and merge_var_map take for granted. *)
THEOREM ValuesAreNumbered ==
  ASSUME NEW States, NEW Copies, \A a \in States \union Copies : Good(a)
  PROVE  Init(States, Copies) /\ [][Next]_vars => []Numbered
<1>1. Init(States, Copies) => BothGood
  BY DEF Init, BothGood
<1> QED BY <1>1, StepKeepsGood, GoodIsNumbered, PTL

LEMMA NumberedIsSound == BothGood /\ Whole => LatticeOK
<1> SUFFICES ASSUME BothGood, Whole PROVE LatticeOK
  OBVIOUS
<1>1. Good(state) /\ Good(saved) /\ IsWhole(state) /\ IsWhole(saved)
  BY DEF BothGood, Whole
<1>2. ASSUME NEW a, NEW b, Good(a), Good(b), IsWhole(a), IsWhole(b), ~LeqRaises(a, b), Leq(a, b)
      PROVE  Points(a) \subseteq Points(b)
  <2> SUFFICES ASSUME NEW pt \in Points(a) PROVE pt \in Points(b)
    OBVIOUS
  <2>1. pt \in [Paths -> Window] /\ ~IsBottom(a) /\ \A v \in Paths : InItv(pt[v], ItvOf(a, v))
    BY DEF Points
  <2>2. ASSUME NEW v \in Paths
        PROVE  ~IsBottom(b) /\ InItv(pt[v], ItvOf(b, v))
    <3>1. pt[v] \in Int /\ InItv(pt[v], ItvOf(a, v))
      BY <2>1, MirNumericAssumption
    <3> QED BY <1>2, <2>1, <3>1, LeqIsInclusion
  <2>3. ~IsBottom(b)
    BY <1>2, <2>1 DEF Leq
  <2> QED BY <2>1, <2>2, <2>3 DEF Points
<1>3. LeqIsSound
  BY <1>1, <1>2 DEF LeqIsSound
<1>4. JoinIsHull
  <2> SUFFICES ASSUME ~IsBottom(state), ~IsBottom(saved), NEW v \in Paths
               PROVE  LET hull == ItvJoin(ItvOf(state, v), ItvOf(saved, v))
                      IN ItvOf(Join(state, saved), v) = hull /\ ItvOf(Join(saved, state), v) = hull
    BY DEF JoinIsHull
  <2>1. /\ ItvOf(Join(state, saved), v) = ItvJoin(ItvOf(state, v), ItvOf(saved, v))
        /\ ItvOf(Join(saved, state), v) = ItvJoin(ItvOf(saved, v), ItvOf(state, v))
    BY <1>1, JoinOfPath
  <2>2. ItvJoin(ItvOf(state, v), ItvOf(saved, v)) = ItvJoin(ItvOf(saved, v), ItvOf(state, v))
    BY <1>1, WholeItvOf, WholeJoin
  <2> QED BY <2>1, <2>2
<1> QED BY <1>3, <1>4, GoodIsNumbered DEF LatticeOK

-----------------------------------------------------------------------------
(***************************************************************************)
(* Whole bounds. A value is proper when its box is one the library can     *)
(* have: every operation on proper values gives a proper value.            *)
(***************************************************************************)
(* A value with a proper box.                                              *)
ProperValue(a) == Good(a) /\ GoodBox(a.box)

LEMMA ProperIsWhole ==
  ASSUME NEW a, ProperValue(a)
  PROVE  IsWhole(a)
<1> SUFFICES ASSUME NEW d \in DOMAIN a.box.p
             PROVE  LET itv == a.box.p[d]
                    IN itv = Itv(itv.inf, itv.sup) /\ IsWholeBound(itv.inf) /\ IsWholeBound(itv.sup)
  BY DEF IsWhole
<1>1. GoodBox(a.box) /\ a.box.real = 0 /\ ~a.box.null /\ DOMAIN a.box.p = Dims(a.box)
  BY DEF ProperValue, Good, IsNumbered, IsBottom, BoxIsBottom
<1>2. d \in 0 .. a.box.int - 1 /\ d \in Dims(a.box)
  BY <1>1, GoodIs DEF Dims
<1>3. Proper(a.box.p[d]) /\ IntegerItv(a.box.p[d])
  BY <1>1, <1>2, GoodDim, GoodIs
<1>4. ASSUME NEW b, IsBound(b), Integral(b)
      PROVE  IsWholeBound(b)
  BY <1>4, SMT DEF IsBound, IsFrac, Integral, IsWholeBound, IntBound, IsInfty, PlusOo, Infty
<1> QED BY <1>3, <1>4 DEF Proper, IsItv, IntegerItv

(* The dimensions of an expression, once its paths have one.               *)
LEMMA OnDimsIs ==
  ASSUME NEW expr, NEW uses, IsTexpr(expr, uses), NEW vm, NEW dims,
         \A i \in DOMAIN expr : expr[i].op = "DIM" => vm[expr[i].dim] \in dims
  PROVE  /\ IsTexpr(OnDims(expr, vm), dims)
         /\ DOMAIN OnDims(expr, vm) = DOMAIN expr /\ Len(OnDims(expr, vm)) = Len(expr)
         /\ \A i \in DOMAIN expr : expr[i].op # "DIM" => OnDims(expr, vm)[i] = expr[i]
         /\ \A i \in DOMAIN expr : OnDims(expr, vm)[i].op = expr[i].op
<1> DEFINE e == OnDims(expr, vm)
<1>1. /\ Len(expr) \in Nat /\ DOMAIN expr = 1 .. Len(expr) /\ Len(expr) > 0
      /\ \A i \in 1 .. Len(expr) : IsNode(expr[i], i, uses)
  BY DEF IsTexpr, IsSequence
<1>2. DOMAIN e = 1 .. Len(expr) /\ \A i \in 1 .. Len(expr) : e[i] = IF expr[i].op = "DIM" THEN Dim(vm[expr[i].dim]) ELSE expr[i]
  BY <1>1 DEF OnDims
<1> HIDE DEF e
<1>3. IsSequence(e) /\ Len(e) = Len(expr)
  BY <1>1, <1>2, SequenceIs
<1>4. ASSUME NEW i \in 1 .. Len(expr)
      PROVE  IsNode(e[i], i, dims) /\ e[i].op = expr[i].op
  <2>1. CASE expr[i].op = "DIM"
    <3>1. e[i] = Dim(vm[expr[i].dim]) /\ vm[expr[i].dim] \in dims
      BY <1>1, <1>2, <2>1
    <3> QED BY <3>1, <2>1 DEF Dim, IsNode
  <2>2. CASE expr[i].op # "DIM"
    BY <1>1, <1>2, <2>2 DEF IsNode
  <2> QED BY <2>1, <2>2
<1> QED BY <1>1, <1>2, <1>3, <1>4 DEF IsTexpr, e

(* Without real dimensions every node has an integer interval.             *)
LEMMA AllNodesAreWhole ==
  ASSUME NEW int \in Nat, NEW expr, IsTexpr(expr, 0 .. int - 1)
  PROVE  \A i \in DOMAIN expr : WholeNodes(expr, int)[i]
<1> DEFINE n == Len(expr)
           whole == WholeNodes(expr, int)
           S == {i \in 1 .. n : whole[i]}
<1>1. /\ n \in Nat /\ DOMAIN expr = 1 .. n
      /\ \A i \in 1 .. n :
           /\ i \in Nat /\ IsNode(expr[i], i, 0 .. int - 1)
           /\ IsLeaf(expr[i]) \/ (IsOperator(expr[i]) /\ expr[i].a \in 1 .. i - 1 /\ expr[i].b \in 1 .. i - 1)
  BY Nodes
<1>2. \A i \in 1 .. n : whole[i] = NodeWhole(expr[i], int, whole[expr[i].a], whole[expr[i].b])
  BY WholeNodesIs
<1> HIDE DEF whole, n
<1>3. ASSUME NEW i \in 1 .. n, \A j \in 1 .. i - 1 : j \in S
      PROVE  i \in S
  <2>1. CASE IsLeaf(expr[i])
    <3>1. expr[i].op = "DIM" => expr[i].dim < int
      BY <1>1 DEF IsNode
    <3> QED BY <1>2, <2>1, <3>1 DEF NodeWhole, IsLeaf
  <2>2. CASE ~IsLeaf(expr[i])
    <3>1. expr[i].a \in S /\ expr[i].b \in S
      BY <1>1, <1>3, <2>2
    <3> QED BY <1>2, <2>2, <3>1 DEF NodeWhole, IsLeaf
  <2> QED BY <2>1, <2>2
<1>4. 1 .. n \subseteq S
  <2> HIDE DEF S
  <2> QED BY <1>1, <1>3, InCourse
<1> QED BY <1>1, <1>4 DEF whole

LEMMA KnownIsGood ==
  ASSUME NEW a, Good(a), NEW x \in Paths, NEW expr, OverPaths(expr)
  PROVE  LET known == Known(a, x, expr)
         IN /\ Good(known) /\ SayTheSame(known, a) /\ (GoodBox(a.box) => GoodBox(known.box))
            /\ x \in DOMAIN known.var_map
            /\ \A i \in DOMAIN expr : expr[i].op = "DIM" => expr[i].dim \in DOMAIN known.var_map
<1> DEFINE names == Mentioned(expr)
           all == InsertAll(a, names)
           known == Insert(all, x)
<1>1. /\ IsNames(names)
      /\ \A i \in DOMAIN expr : expr[i].op = "DIM" => \E k \in DOMAIN names : names[k] = expr[i].dim
  BY MentionedAreNames
<1> HIDE DEF names
<1>2. /\ Good(all) /\ SayTheSame(all, a) /\ Grows(all, a)
      /\ \A k \in DOMAIN names : names[k] \in DOMAIN all.var_map
  BY <1>1, InsertAllIsGood
<1> HIDE DEF all
<1>3. Good(known) /\ SayTheSame(known, all) /\ Grows(known, all) /\ x \in DOMAIN known.var_map
  BY <1>2, InsertIsGood
<1>4. Known(a, x, expr) = known
  BY DEF Known, known, all, names
<1> HIDE DEF known
<1>5. SayTheSame(known, a) /\ Grows(known, a)
  BY <1>2, <1>3 DEF SayTheSame, Grows
<1>6. \A k \in DOMAIN names : names[k] \in DOMAIN known.var_map
  BY <1>2, <1>3 DEF Grows
<1>7. \A i \in DOMAIN expr : expr[i].op = "DIM" => expr[i].dim \in DOMAIN known.var_map
  BY <1>1, <1>6
<1> QED BY <1>3, <1>4, <1>5, <1>7 DEF Grows

(* An assignment keeps boxes proper, if no divisor is negative.            *)
LEMMA AssignIsProper ==
  ASSUME NEW a, ProperValue(a), NEW x \in Paths, NEW expr, IsTexpr(expr, Paths),
         DividesByPositive(Known(a, x, expr), expr)
  PROVE  ProperValue(Assign(a, x, expr))
<1>1. Good(a) /\ GoodBox(a.box) /\ OverPaths(expr)
  BY AboutPaths DEF ProperValue
<1>2. Good(Assign(a, x, expr))
  BY <1>1, AssignIsNumbered
<1>3. CASE IsBottom(a)
  BY <1>3 DEF Assign
<1>4. CASE ~IsBottom(a)
  <2> DEFINE known == Known(a, x, expr)
             vm == known.var_map
             w == known.box
             n == Cardinality(DOMAIN vm)
             e == OnDims(expr, vm)
             dims == <<vm[x]>>
             exprs == <<e>>
             b == BoxAssignTexpr(w, dims, exprs)
  <2>1. /\ Good(known) /\ SayTheSame(known, a) /\ GoodBox(w) /\ x \in DOMAIN vm
        /\ \A i \in DOMAIN expr : expr[i].op = "DIM" => expr[i].dim \in DOMAIN vm
    BY <1>1, KnownIsGood
  <2>2. DividesByPositive(known, expr)
    OBVIOUS
  <2>3. Assign(a, x, expr) = Value(vm, b)
    BY <1>4 DEF Assign
  <2> HIDE DEF known
  <2>4. ~w.null /\ ~IsBottom(known)
    BY <2>1, <1>4 DEF SayTheSame, IsBottom, BoxIsBottom
  <2>5. /\ Numbers(vm, DOMAIN vm) /\ w.int = n /\ w.real = 0 /\ Dims(w) = 0 .. n - 1 /\ n \in Nat
    BY <2>1, GoodIsNumbering DEF Numbers
  <2>6. \A v \in DOMAIN vm : vm[v] \in 0 .. n - 1
    BY <2>5 DEF Numbers
  <2>7. /\ IsTexpr(e, 0 .. n - 1)
        /\ DOMAIN e = DOMAIN expr /\ Len(e) = Len(expr)
        /\ \A i \in DOMAIN expr : expr[i].op # "DIM" => e[i] = expr[i]
        /\ \A i \in DOMAIN expr : e[i].op = expr[i].op
    <3>1. \A i \in DOMAIN expr : expr[i].op = "DIM" => vm[expr[i].dim] \in 0 .. n - 1
      BY <2>1, <2>6
    <3> HIDE DEF n, vm
    <3> QED BY <3>1, OnDimsIs
  <2>8. DividesUp(e, w.p)
    <3>1. \A i \in DOMAIN expr : expr[i].op = "DIV" => BoundSgn(EvalNodes(e, w.p)[expr[i].b].sup) >= 0
      BY <2>2, <2>4 DEF DividesByPositive
    <3> HIDE DEF e
    <3> QED BY <3>1, <2>7 DEF DividesUp
  <2> HIDE DEF e
  <2>9. \A i \in DOMAIN e : WholeNodes(e, n)[i]
    <3> HIDE DEF n
    <3> QED BY <2>5, <2>7, AllNodesAreWhole
  <2>10. FitsDim(e, vm[x], w.p, n)
    <3>1. /\ Len(e) \in DOMAIN e
          /\ \A i \in DOMAIN e : e[i].op = "MOD" => e[i].a \in DOMAIN e /\ e[i].b \in DOMAIN e
      <4>1. /\ Len(e) \in Nat /\ DOMAIN e = 1 .. Len(e) /\ Len(e) \in 1 .. Len(e)
            /\ \A i \in 1 .. Len(e) :
                 /\ i \in Nat
                 /\ IsLeaf(e[i]) \/ (IsOperator(e[i]) /\ e[i].a \in 1 .. i - 1 /\ e[i].b \in 1 .. i - 1)
        <5> HIDE DEF n
        <5> QED BY <2>7, Nodes
      <4> QED BY <4>1 DEF IsLeaf
    <3> HIDE DEF n
    <3> QED BY <3>1, <2>8, <2>9 DEF FitsDim
  <2>11. /\ ProperEnv(w.p, 0 .. n - 1)
         /\ \A d \in 0 .. n - 1 : d < n => IntegerItv(w.p[d])
    <3>1. ProperEnv(w.p, Dims(w)) /\ \A d \in Dims(w) : d < w.int => IntegerItv(w.p[d])
      BY <2>1, <2>4, GoodIs, GoodDim
    <3> HIDE DEF n, w
    <3> QED BY <3>1, <2>5
  <2>12. Proper(EvalTexpr(e, w.p)) /\ IntegerItv(EvalTexpr(e, w.p))
    <3>1. 0 .. n - 1 \in SUBSET Nat /\ vm[x] < n
      BY <2>1, <2>5, <2>6
    <3> HIDE DEF n, w, vm
    <3> QED BY <2>5, <2>7, <2>10, <2>11, <3>1, EvalIsProper DEF Proper
  <2>13. GoodBox(b)
    <3>1. IsSequence(dims) /\ DOMAIN dims = {1} /\ dims[1] = vm[x] /\ exprs[1] = e
      BY DEF IsSequence
    <3>2. vm[x] \in Dims(w)
      BY <2>1, <2>5, <2>6
    <3>3. \A k \in DOMAIN dims :
             /\ dims[k] \in Dims(w) /\ Proper(EvalTexpr(exprs[k], w.p))
             /\ dims[k] < w.int => IntegerItv(EvalTexpr(exprs[k], w.p))
      BY <3>1, <3>2, <2>12
    <3> HIDE DEF w, dims, exprs
    <3> QED BY <2>1, <3>1, <3>3, AssignIsGood
  <2> HIDE DEF b, vm
  <2>14. Assign(a, x, expr).box = b
    BY <2>3 DEF Value
  <2> QED BY <1>2, <2>13, <2>14 DEF ProperValue
<1> QED BY <1>1, <1>2, <1>3, <1>4 DEF ProperValue

(* A path that is forgotten.                                               *)
LEMMA ForgetIsProper ==
  ASSUME NEW a, ProperValue(a), NEW var
  PROVE  ProperValue(Forget(a, var))
<1>1. Good(a) /\ GoodBox(a.box)
  BY DEF ProperValue
<1>2. Good(Forget(a, var))
  BY <1>1, ForgetIsNumbered
<1>3. CASE ~HasPath(a, var)
  BY <1>1, <1>3 DEF Forget, ProperValue
<1>4. CASE HasPath(a, var)
  <2> DEFINE dim == a.var_map[var]
             n == Cardinality(DOMAIN a.var_map)
             f == BoxForget(a.box, {dim}, FALSE)
             change == <<dim>>
             r == BoxRemoveDimensions(f, change, 1)
  <2>1. GoodBox(f) /\ Fit(f, a.box)
    BY <1>1, ForgetIsGood
  <2>2. a.box.int = n /\ a.box.real = 0 /\ n \in Nat /\ dim \in 0 .. n - 1
    BY <1>1, <1>4, GoodIsNumbering DEF Numbers, HasPath
  <2>3. Forget(a, var).box = r
    BY <1>4 DEF Forget, Value
  <2> HIDE DEF f, dim, n
  <2>4. f.int = n /\ Dims(f) = 0 .. n - 1
    BY <2>1, <2>2, FitIs DEF Dims
  <2>5. Distinct(change) /\ ToSet(change) = {dim}
    <3>1. IsSequence(change) /\ DOMAIN change = {1} /\ change[1] = dim
      BY DEF IsSequence
    <3> HIDE DEF change
    <3> QED BY <3>1 DEF Distinct, IsInjective, ToSet
  <2>6. Cardinality(ToSet(change) \intersect (0 .. f.int - 1)) = 1
    <3>1. ToSet(change) \intersect (0 .. f.int - 1) = {dim}
      BY <2>2, <2>4, <2>5
    <3> HIDE DEF change
    <3> QED BY <3>1, FS_Singleton
  <2> HIDE DEF change
  <2>7. GoodBox(r)
    BY <2>1, <2>2, <2>4, <2>5, <2>6, RemoveIsGood
  <2> QED BY <1>2, <2>3, <2>7 DEF ProperValue
<1> QED BY <1>3, <1>4

(* Conditions: a linear constraint becomes a sum of products.              *)
LEMMA RenameIsProper ==
  ASSUME NEW a, ProperValue(a), NEW old \in Paths, NEW new \in Paths
  PROVE  ProperValue(Rename(a, old, new))
<1> DEFINE expr == <<Dim(old)>>
<1>1. DOMAIN expr = {1} /\ IsSequence(expr) /\ Len(expr) = 1 /\ expr[1] = Dim(old)
  BY DEF IsSequence
<1> HIDE DEF expr
<1>2. \A i \in DOMAIN expr : expr[i].op = "DIM" /\ expr[i].dim = old
  BY <1>1 DEF Dim
<1>3. IsTexpr(expr, Paths)
  BY <1>1, <1>2 DEF IsTexpr, IsNode
<1>4. \A a2 : DividesByPositive(a2, expr)
  BY <1>2 DEF DividesByPositive
<1>5. ProperValue(Assign(a, new, expr))
  BY <1>3, <1>4, AssignIsProper
<1> QED BY <1>5, ForgetIsProper DEF Rename, expr

(* The expression of a constraint is one of integers, about its paths, and *)
(* does not divide.                                                        *)
IsSum(t, uses) == IsTexpr(t, uses) /\ \A i \in DOMAIN t : t[i].op # "DIV"

LEMMA CstIsNode ==
  ASSUME NEW n \in Int
  PROVE  Cst(n, n).op = "CST" /\ \A i, uses : IsNode(Cst(n, n), i, uses)
<1>1. Cst(n, n) = [op |-> "CST", itv |-> ItvInt(n), ints |-> n .. n]
  BY DEF Cst, ItvInt
<1>2. Proper(ItvInt(n)) /\ IntegerItv(ItvInt(n))
  BY ItvIntIsInteger
<1>3. InItv(n, ItvInt(n))
  BY DEF InItv, ItvInt, Itv, IntBound, BoundCmp, IsInfty, SgnOf
<1>4. n .. n \subseteq Int /\ \A k \in n .. n : k = n
  OBVIOUS
<1> QED BY <1>1, <1>2, <1>3, <1>4 DEF IsNode, Proper

LEMMA PlusIsSum ==
  ASSUME NEW uses, NEW t, IsSum(t, uses), NEW c \in Int, NEW v \in uses, NEW four,
         four = <<Cst(c, c), Dim(v), Node("MUL", Len(t) + 1, Len(t) + 2, "INT", "NEAREST"),
                  Node("ADD", Len(t), Len(t) + 3, "INT", "NEAREST")>>
  PROVE  IsSum(t \o four, uses)
<1> DEFINE n == Len(t)
           s == t \o four
<1>1. /\ n \in Nat /\ n > 0 /\ DOMAIN t = 1 .. n
      /\ \A i \in 1 .. n : IsNode(t[i], i, uses) /\ t[i].op # "DIV"
  BY DEF IsSum, IsTexpr, IsSequence
<1>2. Len(four) = 4 /\ four[1] = Cst(c, c) /\ four[2] = Dim(v)
      /\ four[3] = Node("MUL", n + 1, n + 2, "INT", "NEAREST") /\ four[4] = Node("ADD", n, n + 3, "INT", "NEAREST")
  OBVIOUS
<1> HIDE DEF n
<1>3. s = [i \in 1 .. n + 4 |-> IF i <= n THEN t[i] ELSE four[i - n]]
  BY <1>1, <1>2 DEF n
<1> HIDE DEF s
<1>4. DOMAIN s = 1 .. n + 4 /\ IsSequence(s) /\ Len(s) = n + 4
  BY <1>1, <1>3, SequenceIs
<1>5. ASSUME NEW i \in 1 .. n + 4
      PROVE  IsNode(s[i], i, uses) /\ s[i].op # "DIV"
  <2>1. s[i] = IF i <= n THEN t[i] ELSE four[i - n]
    BY <1>3
  <2>2. CASE i <= n
    BY <1>1, <2>1, <2>2
  <2>3. CASE i = n + 1
    <3>1. s[i] = Cst(c, c)
      BY <1>1, <1>2, <2>1, <2>3
    <3> QED BY <3>1, CstIsNode
  <2>4. CASE i = n + 2
    <3>1. s[i] = Dim(v)
      BY <1>1, <1>2, <2>1, <2>4
    <3> QED BY <3>1 DEF Dim, IsNode
  <2>5. CASE i = n + 3
    <3>1. s[i] = Node("MUL", n + 1, n + 2, "INT", "NEAREST")
      BY <1>1, <1>2, <2>1, <2>5
    <3>2. n + 1 \in 1 .. i - 1 /\ n + 2 \in 1 .. i - 1
      BY <1>1, <2>5
    <3> QED BY <3>1, <3>2 DEF Node, IsNode, Operators, Unary, Binary, Directions
  <2>6. CASE i = n + 4
    <3>1. s[i] = Node("ADD", n, n + 3, "INT", "NEAREST")
      BY <1>1, <1>2, <2>1, <2>6
    <3>2. n \in 1 .. i - 1 /\ n + 3 \in 1 .. i - 1
      BY <1>1, <2>6
    <3> QED BY <3>1, <3>2 DEF Node, IsNode, Operators, Unary, Binary, Directions
  <2> QED BY <1>1, <2>2, <2>3, <2>4, <2>5, <2>6
<1>6. n + 4 > 0 /\ \A i \in DOMAIN s : IsNode(s[i], i, uses) /\ s[i].op # "DIV"
  BY <1>1, <1>4, <1>5
<1>7. IsSum(s, uses)
  BY <1>4, <1>6 DEF IsSum, IsTexpr
<1> QED BY <1>7 DEF s

LEMMA ToTexprIsSum ==
  ASSUME NEW e, IsLinear(e)
  PROVE  IsSum(ToTexpr(e), DOMAIN e.terms)
<1> DEFINE uses == DOMAIN e.terms
           keys == SortedKeys(uses)
           n == Len(keys)
           Four(t, v) == <<Cst(e.terms[v], e.terms[v]), Dim(v),
                           Node("MUL", Len(t) + 1, Len(t) + 2, "INT", "NEAREST"),
                           Node("ADD", Len(t), Len(t) + 3, "INT", "NEAREST")>>
           Plus(t, v) == t \o Four(t, v)
           F(g) == [k \in 0 .. n |-> IF k = 0 THEN <<Cst(e.cst, e.cst)>> ELSE Plus(g[k - 1], keys[k])]
           sum == CHOOSE g : g = F(g)
           a == <<Cst(e.cst, e.cst)>>
           P(m, g) == g = [k \in 0 .. m |-> g[k]] /\ g[0] = a /\ \A k \in 1 .. m : g[k] = Plus(g[k - 1], keys[k])
           S == {m \in 0 .. n : \E g : P(m, g)}
<1>1. /\ n \in Nat /\ \A k \in 1 .. n : keys[k] \in uses
      /\ \A v \in uses : e.terms[v] \in Int
      /\ e.cst \in Int
  <2>1. uses \in SUBSET Paths
    BY DEF IsLinear
  <2>2. IsNames(keys) /\ \A k \in DOMAIN keys : keys[k] \in uses
    BY <2>1, SortedKeysAreNames
  <2> HIDE DEF keys
  <2> QED BY <2>2 DEF IsNames, IsSequence, IsLinear
<1>2. ASSUME NEW t, IsSum(t, uses), NEW v \in uses
      PROVE  IsSum(Plus(t, v), uses)
  <2>1. e.terms[v] \in Int
    BY <1>1
  <2> DEFINE four == Four(t, v)
  <2>2. four = Four(t, v)
    OBVIOUS
  <2> HIDE DEF four
  <2>3. IsSum(t \o four, uses)
    <3> HIDE DEF uses
    <3> QED BY <1>2, <2>1, <2>2, PlusIsSum
  <2> QED BY <2>2, <2>3
<1>3. IsSum(a, uses)
  <2>1. DOMAIN a = {1} /\ IsSequence(a) /\ Len(a) = 1 /\ a[1] = Cst(e.cst, e.cst)
    BY DEF IsSequence
  <2> HIDE DEF a
  <2> QED BY <1>1, <2>1, CstIsNode DEF IsSum, IsTexpr
<1> HIDE DEF Four, Plus, uses, keys
<1>4. \A g : F(g)[0] = a /\ F(g) = [k \in 0 .. n |-> F(g)[k]]
  BY <1>1
<1>5. \A g : \A k \in 1 .. n : F(g)[k] = Plus(g[k - 1], keys[k])
  <2>1. \A k \in 1 .. n : k \in 0 .. n /\ k # 0
    BY <1>1
  <2> QED BY <2>1
<1> HIDE DEF F, a, n
<1>6. 0 \in S
  <2> DEFINE g == [k \in 0 .. 0 |-> a]
  <2>1. P(0, g)
    OBVIOUS
  <2> HIDE DEF P
  <2> QED BY <1>1, <2>1
<1>7. ASSUME NEW m \in 0 .. n - 1, m \in S
      PROVE  m + 1 \in S
  <2>1. PICK g : P(m, g)
    BY <1>7
  <2> DEFINE h == [k \in 0 .. m + 1 |-> IF k = m + 1 THEN Plus(g[m], keys[m + 1]) ELSE g[k]]
  <2>2. m \in Nat /\ m + 1 \in 0 .. n
    BY <1>1
  <2>3. h[0] = a /\ h = [k \in 0 .. m + 1 |-> h[k]]
    BY <2>1, <2>2
  <2>4. ASSUME NEW k \in 1 .. m + 1
        PROVE  h[k] = Plus(h[k - 1], keys[k])
    <3>1. k \in 0 .. m + 1 /\ k - 1 \in 0 .. m /\ k - 1 \in 0 .. m + 1 /\ k - 1 # m + 1
      BY <2>2
    <3>2. h[k - 1] = g[k - 1]
      BY <3>1
    <3>3. CASE k = m + 1
      BY <3>1, <3>2, <3>3, <2>2
    <3>4. CASE k # m + 1
      <4>1. k \in 1 .. m /\ h[k] = g[k]
        BY <3>1, <3>4, <2>2
      <4> HIDE DEF h
      <4> QED BY <2>1, <3>2, <4>1
    <3> QED BY <3>3, <3>4
  <2>5. P(m + 1, h)
    BY <2>3, <2>4
  <2> HIDE DEF P
  <2> QED BY <2>2, <2>5
<1>8. sum = F(sum)
  <2>1. n \in S
    <3> HIDE DEF S
    <3>1. 0 .. n \subseteq S
      BY <1>1, <1>6, <1>7, BoundedInduction
    <3> QED BY <1>1, <3>1
  <2>2. PICK g : P(n, g)
    BY <2>1
  <2>3. \A k \in 0 .. n : g[k] = F(g)[k]
    <3> SUFFICES ASSUME NEW k \in 0 .. n PROVE g[k] = F(g)[k]
      OBVIOUS
    <3>1. k = 0 \/ k \in 1 .. n
      BY <1>1
    <3> QED BY <2>2, <3>1, <1>4, <1>5
  <2>4. g = F(g)
    <3>1. g = [k \in 0 .. n |-> g[k]] /\ F(g) = [k \in 0 .. n |-> F(g)[k]]
      BY <2>2, <1>4
    <3> QED BY <2>3, <3>1
  <2> QED BY <2>4
<1> HIDE DEF sum
<1>9. sum[0] = a /\ \A k \in 1 .. n : sum[k] = Plus(sum[k - 1], keys[k])
  BY <1>4, <1>5, <1>8
<1> DEFINE T == {k \in 0 .. n : IsSum(sum[k], uses)}
<1>10. 0 \in T
  BY <1>1, <1>3, <1>9
<1>11. ASSUME NEW k \in 0 .. n - 1, k \in T
       PROVE  k + 1 \in T
  <2>1. k + 1 \in 1 .. n /\ k + 1 \in 0 .. n /\ (k + 1) - 1 = k /\ IsSum(sum[k], uses) /\ keys[k + 1] \in uses
    BY <1>1, <1>11
  <2>2. sum[k + 1] = Plus(sum[k], keys[k + 1])
    BY <1>9, <2>1
  <2> QED BY <2>1, <2>2, <1>2
<1>12. n \in T
  <2> HIDE DEF T
  <2>1. 0 .. n \subseteq T
    BY <1>1, <1>10, <1>11, BoundedInduction
  <2> QED BY <1>1, <2>1
<1>13. ToTexpr(e) = sum[n]
  BY DEF ToTexpr, sum, F, a, Plus, Four, uses, keys, n
<1> QED BY <1>12, <1>13 DEF uses

LEMMA ToTconsIs ==
  ASSUME NEW c, c.kind \in {"Equality", "Inequality", "LessEq", "LessThan"}, IsLinear(c.linear)
  PROVE  ToTcons(c).typ \in Types /\ IsSum(ToTcons(c).expr, DOMAIN c.linear.terms)
<1> DEFINE e == c.linear
           neg == LinearNeg(e)
<1>1. neg.cst = -e.cst /\ DOMAIN neg.terms = DOMAIN e.terms /\ \A v \in DOMAIN e.terms : neg.terms[v] = -e.terms[v]
  BY DEF LinearNeg, Linear
<1>2. IsLinear(neg)
  <2>1. e.cst \in Int /\ \A v \in DOMAIN e.terms : e.terms[v] \in Int
    BY DEF IsLinear
  <2>2. -e.cst \in Int /\ \A v \in DOMAIN e.terms : -e.terms[v] \in Int
    BY <2>1
  <2> HIDE DEF neg
  <2> QED BY <1>1, <2>2 DEF IsLinear
<1>3. IsSum(ToTexpr(e), DOMAIN e.terms) /\ IsSum(ToTexpr(neg), DOMAIN e.terms)
  BY <1>1, <1>2, ToTexprIsSum
<1>4. \/ ToTcons(c) = [typ |-> "EQ", expr |-> ToTexpr(e)]
      \/ ToTcons(c) = [typ |-> "DISEQ", expr |-> ToTexpr(e)]
      \/ ToTcons(c) = [typ |-> "SUPEQ", expr |-> ToTexpr(neg)]
      \/ ToTcons(c) = [typ |-> "SUP", expr |-> ToTexpr(neg)]
  BY DEF ToTcons
<1> HIDE DEF neg, e
<1>5. IsSum(ToTcons(c).expr, DOMAIN e.terms) /\ ToTcons(c).typ \in Types
  BY <1>3, <1>4 DEF Types
<1> QED BY <1>5 DEF e

LEMMA BottomIsProper == ProperValue(Bottom)
<1>1. Bottom.box = BoxBottom(0, 0)
  BY DEF Bottom, Value
<1>2. GoodBox(BoxBottom(0, 0))
  BY GoodEmpty
<1> QED BY <1>1, <1>2, BottomIsGood DEF ProperValue

(* A system of constraints keeps boxes proper.                             *)
LEMMA AddConstraintsIsProper ==
  ASSUME NEW a, ProperValue(a), NEW conds, IsSystem(conds)
  PROVE  ProperValue(AddConstraints(a, conds))
<1> DEFINE all == AllKnown(a, conds)
           vm == all.var_map
           w == all.box
           n == Cardinality(DOMAIN vm)
           onDims == [i \in DOMAIN conds |->
                        LET c == ToTcons(conds[i])
                        IN [typ |-> c.typ, expr |-> OnDims(c.expr, vm)]]
           b == BoxMeetTcons(w, onDims)
<1>1. Good(a) /\ GoodBox(a.box) /\ SystemOverPaths(conds)
  BY AboutPaths DEF ProperValue
<1>2. \/ AddConstraints(a, conds) = a
      \/ AddConstraints(a, conds) = Bottom
      \/ AddConstraints(a, conds) = Value(vm, b)
  BY DEF AddConstraints, AllKnown
<1>3. /\ Good(all) /\ GoodBox(w)
      /\ \A k \in DOMAIN conds : DOMAIN conds[k].linear.terms \subseteq DOMAIN vm
  BY <1>1, AllKnownIsGood DEF Grows
<1> HIDE DEF all
<1>4. /\ Numbers(vm, DOMAIN vm) /\ Dims(w) = 0 .. n - 1
  BY <1>3, GoodIsNumbering
<1>5. \A v \in DOMAIN vm : vm[v] \in Dims(w)
  BY <1>4 DEF Numbers
<1>6. IsSequence(onDims) /\ DOMAIN onDims = DOMAIN conds
  <2>1. Len(conds) \in Nat /\ DOMAIN conds = 1 .. Len(conds)
    BY DEF IsSystem, IsSequence
  <2>2. DOMAIN onDims = DOMAIN conds
    OBVIOUS
  <2> HIDE DEF onDims
  <2> QED BY <2>1, <2>2, SequenceIs
<1>7. ASSUME NEW k \in DOMAIN onDims
      PROVE  IsTcons(onDims[k], Dims(w))
  <2> DEFINE c == ToTcons(conds[k])
             terms == DOMAIN conds[k].linear.terms
  <2>1. c.typ \in Types /\ IsSum(c.expr, terms)
    BY <1>6, <1>7, ToTconsIs DEF IsSystem
  <2>2. onDims[k].typ = c.typ /\ onDims[k].expr = OnDims(c.expr, vm)
    BY <1>7
  <2>3. \A v \in terms : vm[v] \in Dims(w)
    BY <1>3, <1>5, <1>6, <1>7
  <2> DEFINE e == c.expr
             dims == Dims(w)
  <2> HIDE DEF c, terms, vm, onDims
  <2>4. \A i \in DOMAIN e : e[i].op = "DIM" => vm[e[i].dim] \in dims
    <3>1. \A i \in DOMAIN e : IsNode(e[i], i, terms)
      BY <2>1 DEF IsSum, IsTexpr
    <3>2. \A i \in DOMAIN e : e[i].op = "DIM" => e[i].dim \in terms
      BY <3>1 DEF IsNode
    <3> QED BY <2>3, <3>2
  <2> HIDE DEF dims
  <2>5. IsTexpr(e, terms) /\ \A i \in DOMAIN e : e[i].op # "DIV"
    BY <2>1 DEF IsSum
  <2> HIDE DEF e
  <2>6. /\ IsTexpr(OnDims(e, vm), dims)
        /\ DOMAIN OnDims(e, vm) = DOMAIN e
        /\ \A i \in DOMAIN e : OnDims(e, vm)[i].op = e[i].op
    BY <2>4, <2>5, OnDimsIs
  <2>7. onDims[k].expr = OnDims(e, vm)
    BY <2>2 DEF e
  <2>8. \A i \in DOMAIN OnDims(e, vm) : OnDims(e, vm)[i].op # "DIV"
    BY <2>5, <2>6
  <2> QED BY <2>1, <2>2, <2>6, <2>7, <2>8 DEF IsTcons, dims
<1>8. GoodBox(b)
  <2> HIDE DEF onDims, w
  <2> QED BY <1>3, <1>6, <1>7, MeetTconsIsGood
<1>9. Value(vm, b).box = b
  BY DEF Value
<1>10. Good(AddConstraints(a, conds))
  BY <1>1, AddConstraintsIsGood
<1> HIDE DEF b, vm
<1> QED BY <1>2, <1>8, <1>9, <1>10, BottomIsProper DEF ProperValue

-----------------------------------------------------------------------------
(* Bit operations: the ends of the interval are integers.                  *)
LEMMA BitIs ==
  ASSUME NEW op \in {"AND", "OR", "XOR"}, NEW a, NEW b
  PROVE  Bit(op, a, b) \in Int
BY DEF Bit

LEMMA SomeIntegers ==
  ASSUME NEW n \in Nat, NEW a \in Int, NEW st \in [1 .. n -> [Int -> Int]]
  PROVE  \E g \in [0 .. n -> Int] : g[0] = a /\ \A k \in 1 .. n : g[k] = st[k][g[k - 1]]
<1>1. \E g : g \in [0 .. n -> Int] /\ Steps(g, a, st, n)
  <2> DEFINE R == Int
  <2>1. a \in R /\ st \in [1 .. n -> [R -> R]]
    OBVIOUS
  <2> HIDE DEF R
  <2>2. \E g : g \in [0 .. n -> R] /\ Steps(g, a, st, n)
    BY <2>1, SomeSequence
  <2> QED BY <2>2 DEF R
<1> QED BY <1>1 DEF Steps

LEMMA LastIsInteger ==
  ASSUME NEW n \in Nat, NEW g, g[0] \in Int, \A k \in 1 .. n : g[k - 1] \in Int => g[k] \in Int
  PROVE  g[n] \in Int
<1> DEFINE T == {k \in 0 .. n : g[k] \in Int}
<1>1. 0 \in T
  OBVIOUS
<1>2. ASSUME NEW k \in 0 .. n - 1, k \in T
      PROVE  k + 1 \in T
  <2>1. k + 1 \in 1 .. n /\ k + 1 \in 0 .. n /\ (k + 1) - 1 = k /\ g[k] \in Int
    BY <1>2
  <2>2. g[k + 1] \in Int
    BY <2>1
  <2> QED BY <2>1, <2>2
<1> HIDE DEF T
<1>3. 0 .. n \subseteq T
  BY <1>1, <1>2, BoundedInduction
<1> QED BY <1>3 DEF T

LEMMA BitwiseIsInteger ==
  ASSUME NEW op \in {"AND", "OR", "XOR"}, NEW m \in Int, NEW n \in Int
  PROVE  Bitwise(op, m, n) \in Int
<1> DEFINE AbsOf(k) == IF k < 0 THEN -k ELSE k
           Sign(k) == IF k < 0 THEN 1 ELSE 0
           width == AbsOf(m) + AbsOf(n)
           At(k, i) == (k \div 2^i) % 2
           a == -Bit(op, Sign(m), Sign(n))
           B(k) == Bit(op, At(m, width - k), At(n, width - k))
           F(g) == [k \in 0 .. width |-> IF k = 0 THEN a ELSE 2 * g[k - 1] + B(k)]
           bits == CHOOSE g : g = F(g)
           st == [k \in 1 .. width |-> [x \in Int |-> 2 * x + B(k)]]
<1>1. width \in Nat
  OBVIOUS
<1>2. a \in Int /\ \A k : B(k) \in Int
  <2> HIDE DEF width, At, Sign
  <2>1. Bit(op, Sign(m), Sign(n)) \in Int
    BY BitIs
  <2> QED BY <2>1, BitIs
<1> HIDE DEF width, a, B
<1>3. st \in [1 .. width -> [Int -> Int]]
  BY <1>2
<1>4. \A k \in 1 .. width : \A x \in Int : st[k][x] = 2 * x + B(k)
  OBVIOUS
<1>5. \A g : F(g)[0] = a /\ F(g) = [k \in 0 .. width |-> F(g)[k]]
  BY <1>1
<1>6. \A g : \A k \in 1 .. width : F(g)[k] = 2 * g[k - 1] + B(k)
  <2>1. \A k \in 1 .. width : k \in 0 .. width /\ k # 0
    BY <1>1
  <2> QED BY <2>1
<1> HIDE DEF st, F
<1>7. \E g : g = F(g)
  <2>1. PICK g \in [0 .. width -> Int] : g[0] = a /\ \A k \in 1 .. width : g[k] = st[k][g[k - 1]]
    BY <1>1, <1>2, <1>3, SomeIntegers
  <2>2. \A k \in 1 .. width : g[k] = F(g)[k]
    <3> SUFFICES ASSUME NEW k \in 1 .. width PROVE g[k] = F(g)[k]
      OBVIOUS
    <3>1. g[k - 1] \in Int
      BY <1>1, <2>1
    <3> QED BY <2>1, <3>1, <1>4, <1>6
  <2>3. \A k \in 0 .. width : k = 0 \/ k \in 1 .. width
    BY <1>1
  <2>4. \A k \in 0 .. width : g[k] = F(g)[k]
    BY <2>1, <2>2, <2>3, <1>5
  <2>5. g = [k \in 0 .. width |-> g[k]] /\ F(g) = [k \in 0 .. width |-> F(g)[k]]
    BY <2>1, <1>5
  <2>6. g = F(g)
    BY <2>4, <2>5
  <2> QED BY <2>6
<1>8. bits = F(bits)
  BY <1>7
<1> HIDE DEF bits
<1>9. bits[0] \in Int /\ \A k \in 1 .. width : bits[k - 1] \in Int => bits[k] \in Int
  BY <1>2, <1>5, <1>6, <1>8
<1>10. bits[width] \in Int
  BY <1>1, <1>9, LastIsInteger
<1>11. Bitwise(op, m, n) = bits[width]
  BY DEF Bitwise, bits, F, a, B, width
<1> QED BY <1>10, <1>11

LEMMA ShiftLeftIsInteger ==
  ASSUME NEW m \in Int, NEW n \in Nat
  PROVE  ShiftLeft(m, n) \in Int
<1> DEFINE F(g) == [k \in 0 .. n |-> IF k = 0 THEN m ELSE 2 * g[k - 1]]
           shifted == CHOOSE g : g = F(g)
           st == [k \in 1 .. n |-> [x \in Int |-> 2 * x]]
<1>1. st \in [1 .. n -> [Int -> Int]] /\ \A k \in 1 .. n : \A x \in Int : st[k][x] = 2 * x
  OBVIOUS
<1>2. \A g : F(g)[0] = m /\ F(g) = [k \in 0 .. n |-> F(g)[k]]
  OBVIOUS
<1>3. \A g : \A k \in 1 .. n : F(g)[k] = 2 * g[k - 1]
  <2>1. \A k \in 1 .. n : k \in 0 .. n /\ k # 0
    OBVIOUS
  <2> QED BY <2>1
<1> HIDE DEF st, F
<1>4. \E g : g = F(g)
  <2>1. PICK g \in [0 .. n -> Int] : g[0] = m /\ \A k \in 1 .. n : g[k] = st[k][g[k - 1]]
    BY <1>1, SomeIntegers
  <2>2. \A k \in 1 .. n : g[k] = F(g)[k]
    <3> SUFFICES ASSUME NEW k \in 1 .. n PROVE g[k] = F(g)[k]
      OBVIOUS
    <3>1. g[k - 1] \in Int
      BY <2>1
    <3> QED BY <2>1, <3>1, <1>1, <1>3
  <2>3. \A k \in 0 .. n : k = 0 \/ k \in 1 .. n
    OBVIOUS
  <2>4. \A k \in 0 .. n : g[k] = F(g)[k]
    BY <2>1, <2>2, <2>3, <1>2
  <2>5. g = [k \in 0 .. n |-> g[k]] /\ F(g) = [k \in 0 .. n |-> F(g)[k]]
    BY <2>1, <1>2
  <2>6. g = F(g)
    BY <2>4, <2>5
  <2> QED BY <2>6
<1>5. shifted = F(shifted)
  BY <1>4
<1> HIDE DEF shifted
<1>6. shifted[0] \in Int /\ \A k \in 1 .. n : shifted[k - 1] \in Int => shifted[k] \in Int
  BY <1>2, <1>3, <1>5
<1>7. shifted[n] \in Int
  BY <1>6, LastIsInteger
<1>8. ShiftLeft(m, n) = shifted[n]
  BY DEF ShiftLeft, shifted, F
<1> QED BY <1>7, <1>8

LEMMA ShiftRightIsInteger ==
  ASSUME NEW m \in Int, NEW n \in Nat
  PROVE  ShiftRight(m, n) \in Int
<1> DEFINE F(g) == [k \in 0 .. n |-> IF k = 0 THEN m ELSE g[k - 1] \div 2]
           shifted == CHOOSE g : g = F(g)
           st == [k \in 1 .. n |-> [x \in Int |-> x \div 2]]
<1>1. st \in [1 .. n -> [Int -> Int]] /\ \A k \in 1 .. n : \A x \in Int : st[k][x] = x \div 2
  OBVIOUS
<1>2. \A g : F(g)[0] = m /\ F(g) = [k \in 0 .. n |-> F(g)[k]]
  OBVIOUS
<1>3. \A g : \A k \in 1 .. n : F(g)[k] = g[k - 1] \div 2
  <2>1. \A k \in 1 .. n : k \in 0 .. n /\ k # 0
    OBVIOUS
  <2> QED BY <2>1
<1> HIDE DEF st, F
<1>4. \E g : g = F(g)
  <2>1. PICK g \in [0 .. n -> Int] : g[0] = m /\ \A k \in 1 .. n : g[k] = st[k][g[k - 1]]
    BY <1>1, SomeIntegers
  <2>2. \A k \in 1 .. n : g[k] = F(g)[k]
    <3> SUFFICES ASSUME NEW k \in 1 .. n PROVE g[k] = F(g)[k]
      OBVIOUS
    <3>1. g[k - 1] \in Int
      BY <2>1
    <3> QED BY <2>1, <3>1, <1>1, <1>3
  <2>3. \A k \in 0 .. n : k = 0 \/ k \in 1 .. n
    OBVIOUS
  <2>4. \A k \in 0 .. n : g[k] = F(g)[k]
    BY <2>1, <2>2, <2>3, <1>2
  <2>5. g = [k \in 0 .. n |-> g[k]] /\ F(g) = [k \in 0 .. n |-> F(g)[k]]
    BY <2>1, <1>2
  <2>6. g = F(g)
    BY <2>4, <2>5
  <2> QED BY <2>6
<1>5. shifted = F(shifted)
  BY <1>4
<1> HIDE DEF shifted
<1>6. shifted[0] \in Int /\ \A k \in 1 .. n : shifted[k - 1] \in Int => shifted[k] \in Int
  BY <1>2, <1>3, <1>5
<1>7. shifted[n] \in Int
  BY <1>6, LastIsInteger
<1>8. ShiftRight(m, n) = shifted[n]
  BY DEF ShiftRight, shifted, F
<1> QED BY <1>7, <1>8

(* The bounds of an interval have integer numerators.                      *)
HasNumbers(i) == i.inf[1] \in Int /\ i.sup[1] \in Int

LEMMA BoundHasNumber ==
  ASSUME NEW b, IsBound(b)
  PROVE  b[1] \in Int /\ BoundFloor(b)[1] \in Int /\ BoundCeil(b)[1] \in Int
<1>1. CASE b = PlusOo
  BY <1>1 DEF PlusOo, Infty, BoundFloor, BoundCeil, BoundNeg, IsInfty
<1>2. CASE IsFrac(b)
  <2>1. b[1] \in Int /\ b[2] \in Int /\ b[2] > 0
    BY <1>2 DEF IsFrac
  <2>2. b[1] \div b[2] \in Int /\ (-b[1]) \div b[2] \in Int
    BY <2>1
  <2>3. BoundFloor(b) = <<b[1] \div b[2], 1>>
    BY <2>1 DEF BoundFloor, IsInfty, IntBound
  <2>4. BoundCeil(b) = <<-((-b[1]) \div b[2]), 1>>
    BY <2>1 DEF BoundCeil, BoundFloor, BoundNeg, IsInfty, IntBound
  <2> QED BY <2>1, <2>2, <2>3, <2>4
<1> QED BY <1>1, <1>2 DEF IsBound

LEMMA SomeNumbers ==
  /\ HasNumbers(ItvTop) /\ HasNumbers(IntervalBottom)
  /\ \A n \in Int : HasNumbers(ItvInt(n))
  /\ \A i : IsItv(i) => HasNumbers(i) /\ HasNumbers(ItvFloor(i))
<1>1. HasNumbers(ItvTop) /\ HasNumbers(IntervalBottom)
  BY DEF HasNumbers, ItvTop, IntervalBottom, Itv, PlusOo, Infty
<1>2. \A n \in Int : HasNumbers(ItvInt(n))
  BY DEF HasNumbers, ItvInt, Itv, IntBound
<1>3. ASSUME NEW i, IsItv(i)
      PROVE  HasNumbers(i) /\ HasNumbers(ItvFloor(i))
  <2>1. IsBound(i.inf) /\ IsBound(i.sup)
    BY <1>3 DEF IsItv
  <2>2. ItvFloor(i).inf = BoundCeil(i.inf) /\ ItvFloor(i).sup = BoundFloor(i.sup)
    BY DEF ItvFloor, Itv
  <2> QED BY <2>1, <2>2, BoundHasNumber DEF HasNumbers
<1> QED BY <1>1, <1>2, <1>3

LEMMA OperandHasNumbers ==
  ASSUME NEW a, ProperValue(a), NEW n, IsNode(n, 1, Paths)
  PROVE  HasNumbers(OperandOf(a, n))
<1>1. Good(a) /\ GoodBox(a.box)
  BY DEF ProperValue
<1>2. CASE n.op = "DIM"
  <2> DEFINE v == n.dim
             itv == BoundDimension(a.box, a.var_map[v])
  <2>1. OperandOf(a, n) \in {IntervalBottom, ItvTop} \/ (~IsBottom(a) /\ HasPath(a, v) /\ OperandOf(a, n) = ItvFloor(itv))
    BY <1>2 DEF OperandOf, Interval
  <2>2. ASSUME ~IsBottom(a), HasPath(a, v)
        PROVE  IsItv(itv)
    <3>1. a.var_map[v] \in Dims(a.box) /\ ~a.box.null
      BY <1>1, <2>2, GoodIsNumbering DEF Numbers, HasPath, IsBottom, BoxIsBottom
    <3> QED BY <1>1, <3>1, GoodDim DEF BoundDimension, Proper
  <2> HIDE DEF itv
  <2> QED BY <2>1, <2>2, SomeNumbers
<1>3. CASE n.op = "CST"
  <2>1. OperandOf(a, n) = n.itv /\ IsItv(n.itv)
    BY <1>3 DEF OperandOf, IsNode
  <2> QED BY <2>1, SomeNumbers
<1>4. CASE n.op \notin {"CST", "DIM"}
  BY <1>4 DEF IsNode
<1> QED BY <1>2, <1>3, <1>4

LEMMA BitOpHasNumbers ==
  ASSUME NEW op \in {"AND", "OR", "XOR", "SHL", "SHR"}, NEW l, NEW r, HasNumbers(l), HasNumbers(r)
  PROVE  HasNumbers(BitOp(op, l, r))
<1> DEFINE m == NumberOf(l)
           n == NumberOf(r)
<1>1. m \in Int /\ n \in Int
  BY DEF NumberOf, HasNumbers
<1>2. HasNumbers(PointOf(op, l, r))
  <2>1. CASE op = "SHL"
    <3>1. PointOf(op, l, r) = IF n < 0 THEN ItvTop ELSE ItvInt(ShiftLeft(m, n))
      BY <2>1 DEF PointOf
    <3>2. ~(n < 0) => ShiftLeft(m, n) \in Int
      BY <1>1, ShiftLeftIsInteger
    <3> HIDE DEF m, n
    <3> QED BY <3>1, <3>2, SomeNumbers
  <2>2. CASE op = "SHR"
    <3>1. PointOf(op, l, r) = IF n < 0 THEN ItvTop ELSE ItvInt(ShiftRight(m, n))
      BY <2>2 DEF PointOf
    <3>2. ~(n < 0) => ShiftRight(m, n) \in Int
      BY <1>1, ShiftRightIsInteger
    <3> HIDE DEF m, n
    <3> QED BY <3>1, <3>2, SomeNumbers
  <2>3. CASE op \in {"AND", "OR", "XOR"}
    <3>1. PointOf(op, l, r) = ItvInt(Bitwise(op, m, n))
      BY <2>3 DEF PointOf
    <3>2. Bitwise(op, m, n) \in Int
      BY <1>1, <2>3, BitwiseIsInteger
    <3> QED BY <3>1, <3>2, SomeNumbers
  <2> QED BY <2>1, <2>2, <2>3
<1>3. BitOp(op, l, r) \in {IntervalBottom, ItvTop, l, r, PointOf(op, l, r)}
  BY DEF BitOp
<1> QED BY <1>2, <1>3, SomeNumbers

LEMMA BoundsAreLinear ==
  ASSUME NEW v \in Paths, NEW i, HasNumbers(i)
  PROVE  IsSystem(Bounds(v, i))
<1> DEFINE LessEq(cst, n) == [kind |-> "LessEq", linear |-> Linear(cst, [u \in {v} |-> n])]
           c == LessEq(-i.inf[1], -1)
           d == LessEq(-i.sup[1], 1)
           low == IF IsInfty(i.inf) THEN << >> ELSE <<c>>
           high == IF IsInfty(i.sup) THEN << >> ELSE <<d>>
<1>1. /\ c.kind = "LessEq" /\ d.kind = "LessEq"
      /\ IsLinear(c.linear) /\ IsLinear(d.linear)
  BY DEF Linear, IsLinear, HasNumbers
<1>2. Bounds(v, i) = low \o high
  BY DEF Bounds
<1> HIDE DEF c, d
<1>3. << >> \in Seq({c, d}) /\ <<c>> \in Seq({c, d}) /\ <<d>> \in Seq({c, d})
  OBVIOUS
<1>4. low \in Seq({c, d}) /\ high \in Seq({c, d})
  BY <1>3, Zenon
<1> HIDE DEF low, high
<1>5. Bounds(v, i) \in Seq({c, d})
  BY <1>2, <1>4
<1>6. IsSequence(Bounds(v, i)) /\ \A k \in DOMAIN Bounds(v, i) : Bounds(v, i)[k] \in {c, d}
  BY <1>5 DEF IsSequence
<1> QED BY <1>1, <1>6 DEF IsSystem

LEMMA AssignBitsIsProper ==
  ASSUME NEW a, ProperValue(a), NEW x \in Paths, NEW expr, IsBitExpr(expr)
  PROVE  ProperValue(AssignBits(a, x, expr))
<1>1. CASE IsBottom(a)
  BY <1>1 DEF AssignBits
<1>2. CASE ~IsBottom(a)
  <2> DEFINE i == BitOp(expr[3].op, OperandOf(a, expr[1]), OperandOf(a, expr[2]))
  <2>1. AssignBits(a, x, expr) = AddConstraints(Forget(a, x), Bounds(x, i))
    BY <1>2 DEF AssignBits, SetInterval
  <2>2. HasNumbers(i)
    BY OperandHasNumbers, BitOpHasNumbers DEF IsBitExpr
  <2> HIDE DEF i
  <2>3. ProperValue(Forget(a, x)) /\ IsSystem(Bounds(x, i))
    BY <2>2, ForgetIsProper, BoundsAreLinear
  <2> QED BY <2>1, <2>3, AddConstraintsIsProper
<1> QED BY <1>1, <1>2

-----------------------------------------------------------------------------
(* Two values, merged.                                                     *)
LEMMA MergedBoxIsProper ==
  ASSUME NEW a, ProperValue(a), NEW D, NEW vm, Numbers(vm, D), DOMAIN a.var_map \subseteq D
  PROVE  /\ GoodBox(MergedBox(a, vm)) /\ MergedBox(a, vm).int = Cardinality(D) /\ MergedBox(a, vm).real = 0
<1> DEFINE N == Cardinality(DOMAIN a.var_map)
           M == Cardinality(D)
           all == 0 .. M - 1
           perm == Placement(a, vm)
           w == AddDimensions(a.box, M - N)
           m == BoxPermute(w, perm)
<1>1. Good(a) /\ GoodBox(a.box)
  BY DEF ProperValue
<1>2. N <= M /\ perm \in Bijection(all, all)
  BY <1>1, PlacementFollowsPaths
<1>3. N \in Nat /\ M \in Nat /\ M - N \in Nat /\ N + (M - N) = M
  BY <1>1, <1>2, GoodIsNumbering DEF Numbers
<1>4. /\ a.box.int = N /\ a.box.real = 0
      /\ DOMAIN a.box.p = IF a.box.null THEN {} ELSE 0 .. N - 1
  BY <1>1, GoodIsNumbering
<1>5. MergedBox(a, vm) = m
  BY <1>4 DEF MergedBox, GetDims, Numbers
<1>6. IsWidened(w, a.box, M - N)
  <2> HIDE DEF M, N
  <2> QED BY <1>3, <1>4, Widened
<1>7. GoodBox(w)
  <2> HIDE DEF M, N
  <2> QED BY <1>1, <1>3, AddDimensionsIsGood
<1>8. w.int = M /\ w.real = 0
  BY <1>3, <1>4, <1>6 DEF IsWidened
<1> HIDE DEF w, perm
<1>9. Dims(w) = all
  BY <1>3, <1>8 DEF Dims
<1>10. \A d \in Dims(w) : perm[d] \in 0 .. w.int - 1 <=> d \in 0 .. w.int - 1
  BY <1>2, <1>8, <1>9 DEF Bijection, Surjection
<1>11. GoodBox(m) /\ Fit(m, w)
  <2> HIDE DEF all
  <2> QED BY <1>2, <1>7, <1>9, <1>10, PermuteIsGood
<1> HIDE DEF m
<1> QED BY <1>5, <1>8, <1>11 DEF Fit

LEMMA MergeIsProper ==
  ASSUME NEW a, NEW b, ProperValue(a), ProperValue(b)
  PROVE  LET m == Merge(a, b)
         IN GoodBox(m.left) /\ GoodBox(m.right) /\ Fit(m.left, m.right)
<1> DEFINE vm == MergedVarMap(a, b)
           D == DOMAIN a.var_map \union DOMAIN b.var_map
<1>1. Numbers(vm, D)
  BY MergedNumbers DEF ProperValue
<1>2. DOMAIN a.var_map \subseteq D /\ DOMAIN b.var_map \subseteq D
  OBVIOUS
<1>3. Merge(a, b).left = MergedBox(a, vm) /\ Merge(a, b).right = MergedBox(b, vm)
  BY DEF Merge
<1> HIDE DEF vm, D
<1> QED BY <1>1, <1>2, <1>3, MergedBoxIsProper DEF Fit

LEMMA LatticeIsProperValue ==
  ASSUME NEW a, NEW b, ProperValue(a), ProperValue(b)
  PROVE  /\ ProperValue(Join(a, b)) /\ ProperValue(Meet(a, b)) /\ ProperValue(Narrowing(a, b))
         /\ ~Crashes(a, b) => ProperValue(Widening(a, b))
<1> DEFINE m == Merge(a, b)
           join == BoxJoin(m.left, m.right)
           meet == BoxMeet(m.left, m.right)
           widening == BoxWidening(m.left, m.right)
<1>1. Good(Join(a, b)) /\ Good(Meet(a, b)) /\ Good(Narrowing(a, b)) /\ Good(Widening(a, b))
  BY LatticeIsGood DEF ProperValue
<1>2. GoodBox(m.left) /\ GoodBox(m.right) /\ Fit(m.left, m.right)
  BY MergeIsProper
<1>3. ~Crashes(a, b) => ~WideningCrashes(m.left, m.right)
  BY DEF Crashes
<1>4. Join(a, b) \in {a, b, Value(m.var_map, join)}
  BY DEF Join
<1>5. Meet(a, b) \in {a, b, Bottom, Value(m.var_map, meet)}
  BY DEF Meet
<1>6. Widening(a, b) = Value(m.var_map, widening)
  BY DEF Widening
<1> HIDE DEF m
<1>7. /\ GoodBox(join) /\ GoodBox(meet)
      /\ ~Crashes(a, b) => GoodBox(widening)
  BY <1>2, <1>3, JoinIsGood, MeetIsGood, WideningIsGood
<1> HIDE DEF join, meet, widening
<1>8. \A vm, x : Value(vm, x).box = x
  BY DEF Value
<1>9. ProperValue(Join(a, b))
  BY <1>1, <1>4, <1>7, <1>8 DEF ProperValue
<1>10. ProperValue(Meet(a, b))
  BY <1>1, <1>5, <1>7, <1>8, BottomIsProper DEF ProperValue
<1>11. ~Crashes(a, b) => ProperValue(Widening(a, b))
  BY <1>1, <1>6, <1>7, <1>8 DEF ProperValue
<1> QED BY <1>9, <1>10, <1>11 DEF Narrowing

BothProper == ProperValue(state) /\ ProperValue(saved)

LEMMA ResultIsProper ==
  ASSUME BothProper, NEW op \in Ops, Valid(op)
  PROVE  ProperValue(Result(op))
<1> DEFINE path == CHOOSE v \in op.dims : TRUE
           x == Target(op)
           expr == op.exprs[1]
<1>1. ProperValue(state) /\ ProperValue(saved)
  BY DEF BothProper
<1>2. CASE op.do = "assign"
  <2>1. op.bits \in BOOLEAN /\ x \in Paths /\ (op.bits => IsBitExpr(expr)) /\ (~op.bits => IsTexpr(expr, Paths))
    BY <1>2, OpsAssumption
  <2>2. Result(op) = IF op.bits THEN AssignBits(state, x, expr) ELSE Assign(state, x, expr)
    BY <1>2 DEF Result
  <2>3. ~op.bits => DividesByPositive(Known(state, x, expr), expr)
    BY <1>2 DEF Valid
  <2> HIDE DEF x, expr
  <2>4. CASE op.bits
    BY <1>1, <2>1, <2>2, <2>4, AssignBitsIsProper
  <2>5. CASE ~op.bits
    BY <1>1, <2>1, <2>2, <2>3, <2>5, AssignIsProper
  <2> QED BY <2>4, <2>5
<1>3. CASE op.do = "meet_tcons"
  <2>1. IsSystem(op.conds)
    BY <1>3, OpsAssumption
  <2>2. Result(op) = AddConstraints(state, op.conds)
    BY <1>3 DEF Result
  <2> QED BY <1>1, <2>1, <2>2, AddConstraintsIsProper
<1>4. CASE op.do = "forget"
  <2>1. Result(op) = Forget(state, path)
    BY <1>4 DEF Result
  <2> QED BY <1>1, <2>1, ForgetIsProper
<1>5. CASE op.do = "rename"
  <2>1. op.dims # {} /\ op.dims \subseteq Paths /\ Target(op) \in Paths
    BY <1>5, OpsAssumption
  <2>2. path \in Paths
    BY <2>1
  <2>3. Result(op) = Rename(state, path, Target(op))
    BY <1>5 DEF Result
  <2> QED BY <1>1, <2>1, <2>2, <2>3, RenameIsProper
<1>6. CASE op.do = "widening"
  <2>1. Result(op) = Widening(state, saved) /\ ~Crashes(state, saved)
    BY <1>6 DEF Result, Valid
  <2> QED BY <1>1, <2>1, LatticeIsProperValue
<1>7. CASE op.do \in {"join", "meet", "narrowing"}
  <2>1. \/ Result(op) = Join(state, saved) \/ Result(op) = Meet(state, saved)
        \/ Result(op) = Narrowing(state, saved)
    BY <1>7 DEF Result
  <2> QED BY <1>1, <2>1, LatticeIsProperValue
<1> QED BY <1>2, <1>3, <1>4, <1>5, <1>6, <1>7, OpsAssumption

LEMMA StepKeepsProper == BothProper /\ [Next]_vars => BothProper'
<1> SUFFICES ASSUME BothProper, [Next]_vars PROVE BothProper'
  OBVIOUS
<1>1. ASSUME NEW op \in Ops, Call(op)
      PROVE  BothProper'
  BY <1>1, ResultIsProper DEF Call, BothProper
<1>2. CASE Save
  BY <1>2 DEF Save, BothProper
<1>3. CASE UNCHANGED vars
  BY <1>3 DEF vars, BothProper
<1> QED BY <1>1, <1>2, <1>3 DEF Next

LEMMA ProperIsSound == BothProper => LatticeOK
<1> SUFFICES ASSUME BothProper PROVE LatticeOK
  OBVIOUS
<1>1. ProperValue(state) /\ ProperValue(saved)
  BY DEF BothProper
<1>2. Whole
  BY <1>1, ProperIsWhole DEF Whole
<1>3. BothGood
  BY <1>1 DEF ProperValue, BothGood
<1> QED BY <1>2, <1>3, NumberedIsSound

(* Started on such values, whatever operations are called, a comparison    *)
(* that answers yes is right and a join says of each path what both values *)
(* say of it, however they number their paths; and every bound stays a     *)
(* whole number or infinite, as the bounds of integer dimensions should.   *)
THEOREM LatticeHolds ==
  ASSUME NEW States, NEW Copies, \A a \in States \union Copies : ProperValue(a)
  PROVE  Init(States, Copies) /\ [][Next]_vars => []LatticeOK
<1>1. Init(States, Copies) => BothProper
  BY DEF Init, BothProper
<1> QED BY <1>1, StepKeepsProper, ProperIsSound, PTL

(* An assignment that is not bitwise, a forgotten path and a rename leave  *)
(* what is known of all other paths as it is, although they number them    *)
(* anew.                                                                   *)
THEOREM ArithmeticKeepsOthers ==
  ASSUME NEW States, NEW Copies, \A a \in States \union Copies : Good(a),
         \A op \in Ops : op.do = "assign" => op.bits = FALSE
  PROVE  Init(States, Copies) /\ [][Next]_vars => OthersKept
<1> DEFINE Step ==
             last'.do \in {"assign", "forget", "rename"} /\ ~IsBottom(state) =>
               \A v \in Paths \ (ToSet(last'.targets) \union last'.dims) :
                 ItvOf(state', v) = ItvOf(state, v)
<1>1. Init(States, Copies) => BothGood
  BY DEF Init, BothGood
<1>2. ASSUME BothGood, [Next]_vars
      PROVE  [Step]_vars
  <2>1. Good(state)
    BY <1>2 DEF BothGood
  <2>2. ASSUME NEW op \in Ops, Call(op), op.do \in {"assign", "forget", "rename"}, ~IsBottom(state),
               NEW v \in Paths \ (ToSet(op.targets) \union op.dims)
        PROVE  ItvOf(state', v) = ItvOf(state, v)
    <3> DEFINE path == CHOOSE u \in op.dims : TRUE
    <3>1. state' = Result(op)
      BY <2>2 DEF Call
    <3>2. CASE op.do = "assign"
      <4>1. op.bits = FALSE /\ Target(op) \in Paths /\ OverPaths(op.exprs[1]) /\ v # Target(op)
        BY <3>2, OpsAssumption, AboutPaths DEF Target, ToSet
      <4>2. state' = Assign(state, Target(op), op.exprs[1])
        BY <3>1, <3>2, <4>1 DEF Result
      <4> QED BY <2>1, <2>2, <4>1, <4>2, AssignIsNumbered DEF OthersSay
    <3>3. CASE op.do = "forget"
      <4>1. path \in op.dims /\ v # path
        BY <3>3, OpsAssumption
      <4>2. state' = Forget(state, path)
        BY <3>1, <3>3 DEF Result
      <4> HIDE DEF path
      <4> QED BY <2>1, <2>2, <4>1, <4>2, ForgetIsNumbered DEF OthersSay
    <3>4. CASE op.do = "rename"
      <4>1. path \in op.dims /\ path \in Paths /\ v # path /\ Target(op) \in Paths /\ v # Target(op)
        BY <3>4, OpsAssumption DEF Target, ToSet
      <4>2. state' = Rename(state, path, Target(op))
        BY <3>1, <3>4 DEF Result
      <4> HIDE DEF path
      <4> QED BY <2>1, <2>2, <4>1, <4>2, RenameIsGood DEF OthersSay
    <3> QED BY <2>2, <3>2, <3>3, <3>4
  <2>3. ASSUME NEW op \in Ops, Call(op)
        PROVE  Step
    <3>1. last' = op
      BY <2>3 DEF Call
    <3> QED BY <2>2, <2>3, <3>1
  <2>4. CASE Save
    BY <2>4 DEF Save
  <2> QED BY <1>2, <2>3, <2>4 DEF Next
<1> QED BY <1>1, <1>2, StepKeepsGood, PTL DEF OthersKept
=============================================================================
